---------------------------- MODULE CrawlOrchestrator ----------------------------
(* One job's archive_tool (src/archive_tool): the orchestration loop that runs a     *)
(* crawl as a series of containers, its monitor thread, the Docker client and        *)
(* daemon, and what a restarted run finds in the output directory.                   *)
(*                                                                                   *)
(* The loop and the monitor thread interleave; they share the queue of interventions *)
(* and ONE stop event.  A container outlives the run that started it unless somebody *)
(* stops it.  Abstracted: a temp dir stands for its container's number, and counts   *)
(* only when it holds WARCs; "progress" messages only wake the loop and are left     *)
(* out; the managed Browsertrix config is always configured and merging it into a    *)
(* resume config succeeds; failures of time-outs that the code only logs (a thread   *)
(* that does not join, a client that survives SIGKILL) do not happen.                *)
EXTENDS Integers, Sequences, FiniteSets, FiniteSetsExt

CONSTANTS
    InitialWorkers, MinWorkers,    \* --initial-workers, --min-workers
    MaxStages,                     \* max_crawl_stages (100 in the code)
    MaxReductions, MaxRestarts, MaxRotations,  \* budgets; 0 when a strategy is disabled
    Absent,                        \* there is no state file
    Torn,                          \* open("w") truncated it and the writer died before fsync
    Options,                       \* the tool options a job may be created with
    MaxQueue,                      \* bound on unread messages of the monitor
    MaxRuns,                       \* bound on the runs of archive_tool
    Faults,                        \* which of AllFaults may happen
    MaxFaults                      \* bound on the faults of a behaviour

AllFaults == {"signal", "crash", "detach", "stopfails", "mount"}

ASSUME BudgetsAssumption ==
    /\ InitialWorkers \in Nat /\ MinWorkers \in 1 .. InitialWorkers
    /\ MaxStages \in Nat \ {0} /\ MaxQueue \in Nat /\ MaxRuns \in Nat /\ MaxFaults \in Nat
    /\ MaxReductions \in Nat /\ MaxRestarts \in Nat /\ MaxRotations \in Nat
ASSUME OptionsAssumption ==
    /\ Options \subseteq [skip : BOOLEAN, overwrite : BOOLEAN, cleanup : BOOLEAN,
                          backoff : BOOLEAN, relax : BOOLEAN]
    /\ Faults \subseteq AllFaults

VARIABLES
    pc,          \* where the loop of main() stands; "down" when archive_tool is not running
    opts,        \* the job's tool options
    attempt, stageName, config, stage, final,  \* locals of main(): the stage and its verdict
    stopEvent,   \* the global threading.Event, also given to every monitor
    mon, queue, event,   \* the monitor thread, its unread messages, the one being handled
    up,          \* containers running, crawls and builds, those of dead runs included
    serial,      \* number of the container started last
    known,       \* whether docker_runner.current_container_id names it
    client, rc,  \* the `docker run` process of the current stage and its return code
    mem, file,   \* CrawlState in memory and .archive_state.json
    disk, yamls, \* temp dirs with WARCs in the output directory; those with a resume YAML
    stable,      \* whether .zimit_resume.yaml exists
    zim,         \* whether the final ZIM exists
    discarded,   \* ghost: temp dirs an --overwrite start has set aside
    lost,        \* ghost: a stale mount emptied the list of temp dirs in this run
    spent,       \* ghost: what the adaptations of this crawl have used, workers included
    leaks,       \* ghost: containers left behind by a fault
    launches, runs, faults   \* counters: stages launched in this run, runs, faults

loopVars == <<attempt, stageName, config, stage, final, stopEvent, launches>>
monVars  == <<mon, queue, event>>
dockVars == <<up, serial, known, client, rc, leaks>>
memVars  == <<mem, file, lost, spent>>
diskVars == <<disk, yamls, stable, zim, discarded>>
vars == <<pc, opts, loopVars, monVars, dockVars, memVars, diskVars, runs, faults>>

----------------------------------------------------------------------------
(* CrawlState: what is persisted, and how it is read back.                           *)

Memory == [workers : MinWorkers .. InitialWorkers, reductions : 0 .. MaxReductions,
           restarts : 0 .. MaxRestarts, rotations : 0 .. MaxRotations, dirs : SUBSET Nat]
FreshMemory == [workers |-> InitialWorkers, reductions |-> 0, restarts |-> 0,
                rotations |-> 0, dirs |-> {}]
ASSUME FileAssumption == {Absent, Torn} \cap Memory = {}

(* The temp dirs that are still there, and whether they hold WARCs.                  *)
Existing(m) == [m EXCEPT !.dirs = @ \cap disk]
HasWarcs(m) == Existing(m).dirs # {}

Loaded == IF file \in {Absent, Torn} THEN FreshMemory ELSE Existing(file)

ResetCounts(m) == [m EXCEPT !.reductions = 0, !.restarts = 0, !.rotations = 0]
Tracking(m, ds) == [m EXCEPT !.dirs = @ \cup ds]

Reduction(m) == [m EXCEPT !.workers = @ - 1, !.reductions = @ + 1]
Rotation(m)  == [m EXCEPT !.rotations = @ + 1]
Restart(m)   == [m EXCEPT !.restarts = @ + 1]

(* What a memory, or a state file, says of workers and spent budgets alone.          *)
Budget(m) == [m EXCEPT !.dirs = {}]
Recorded(f) == IF f \in {Absent, Torn} THEN FreshMemory ELSE Budget(f)

(* save_persistent_state: every save keeps only the temp dirs that still exist; on a *)
(* mount that has gone stale the write may fail, which is only logged.               *)
Written(m) == IF lost THEN {file, m} ELSE {m}
Save(m) == mem' = m /\ file' \in Written(m)

Yamls(ds) == yamls \cap ds
ResumeConfig(ds) == stable \/ Yamls(ds) # {}

Saving  == {"setup", "adapt", "reduced", "restarted", "record"}
Running == {"launch", "watch", "get", "adapt", "reducing", "restarting", "build"}
Pcs == Running \cup Saving \cup {"down", "head", "drain", "decide", "finish", "exit"}
Finals == {"failed", "docker_start_failed", "pending", "stopped", "failed_max_attempts",
           "failed_no_warcs", "success"}
StageNames == {"Initial Crawl", "Resume Crawl", "New Crawl Phase"}

Init ==
    /\ pc = "down" /\ opts \in Options
    /\ attempt = 1 /\ stageName = "Initial Crawl" /\ config = "managed"
    /\ stage = "running" /\ final = "failed" /\ stopEvent = FALSE /\ launches = 0
    /\ mon = "off" /\ queue = <<>> /\ event = "none"
    /\ known = FALSE /\ client = "gone" /\ rc = "none"
    /\ mem = FreshMemory /\ lost = FALSE /\ spent = FreshMemory
    /\ up = {} /\ serial = 0 /\ file = Absent
    /\ disk = {} /\ yamls = {} /\ stable = FALSE /\ zim = FALSE
    /\ discarded = {} /\ leaks = 0 /\ runs = 0 /\ faults = 0

(* The process ends, and its memory with it; main() starts from these values again.  *)
GoesDown ==
    /\ pc' = "down"
    /\ attempt' = 1 /\ stageName' = "Initial Crawl" /\ config' = "managed"
    /\ stage' = "running" /\ final' = "failed" /\ stopEvent' = FALSE /\ launches' = 0
    /\ mon' = "off" /\ queue' = <<>> /\ event' = "none"
    /\ known' = FALSE /\ client' = "gone" /\ rc' = "none"
    /\ mem' = FreshMemory /\ lost' = FALSE

(* The ghost forgives what the run that ends could not put on file, because the save *)
(* was torn or the mount refused it, and what the clean-up has deleted.              *)
Forgives == spent' = IF lost \/ file' \in {Absent, Torn} THEN Recorded(file') ELSE spent

----------------------------------------------------------------------------
(* Start-up: load the state, discover temp dirs, choose the mode.                    *)

Start ==
    /\ pc = "down" /\ runs < MaxRuns
    /\ pc' = "setup" /\ runs' = runs + 1
    /\ mem' = Loaded
    /\ UNCHANGED <<opts, loopVars, monVars, dockVars, file, lost, spent, diskVars, faults>>

\* Mutant of Discovered: only the state file is believed.
Remembered == mem
Discovered == Tracking(Existing(mem), disk)
ZimBlocks  == zim /\ ~opts.skip

(* The modes share the discovery of temp dirs and the copy of the newest resume YAML *)
(* to its stable place.                                                              *)
Prepare(m, name, set_aside) ==
    /\ pc = "setup" /\ pc' = "head"
    /\ stable' = ResumeConfig(Discovered.dirs)
    /\ Save(m)
    /\ stageName' = name
    /\ discarded' = set_aside
    /\ UNCHANGED <<opts, attempt, config, stage, final, stopEvent, launches, monVars,
                   dockVars, lost, disk, yamls, zim, runs, faults>>

RefuseZim ==
    /\ pc = "setup" /\ GoesDown
    /\ ZimBlocks /\ ~opts.overwrite
    /\ stable' = ResumeConfig(Discovered.dirs)
    /\ file' \in Written(Discovered) /\ Forgives
    /\ UNCHANGED <<opts, up, serial, leaks, disk, yamls, zim, discarded, runs, faults>>

FreshOverwrite ==
    /\ ZimBlocks /\ opts.overwrite
    /\ Prepare(FreshMemory, "Initial Crawl", disk)
    /\ spent' = FreshMemory

ResumeCrawl ==
    /\ ~ZimBlocks /\ ResumeConfig(Discovered.dirs)
    /\ Prepare(Discovered, "Resume Crawl", discarded)
    /\ spent' = spent

NewCrawl ==
    /\ ~ZimBlocks /\ ~ResumeConfig(Discovered.dirs)
    /\ Prepare(ResetCounts(Discovered),
               IF HasWarcs(Discovered) THEN "New Crawl Phase" ELSE "Initial Crawl",
               discarded)
    /\ spent' = ResetCounts(spent)

----------------------------------------------------------------------------
(* The head of the loop: one stage is prepared and its container started.            *)

(* The managed config is chosen before the resume config is looked for: a stage that *)
(* falls back from "Resume Crawl" to "New Crawl Phase" gets neither.                 *)
StageConfig(name) ==
    IF name # "Resume Crawl" THEN "managed"
    ELSE IF ResumeConfig(mem.dirs) THEN "resume" ELSE "none"

EnterStage ==
    /\ pc = "head" /\ attempt <= MaxStages /\ ~stopEvent
    /\ config' = StageConfig(stageName)
    /\ stageName' = IF config' = "none" THEN "New Crawl Phase" ELSE stageName
    /\ stable' = (stable \/ config' = "resume")

Launch ==
    /\ EnterStage
    /\ pc' = "launch"
    /\ serial' = serial + 1 /\ up' = up \cup {serial + 1} /\ known' = FALSE
    /\ client' = "run" /\ rc' = "none" /\ stage' = "running" /\ launches' = launches + 1
    /\ UNCHANGED <<opts, attempt, final, stopEvent, monVars, leaks, memVars, disk, yamls,
                   zim, discarded, runs, faults>>

LaunchFails ==
    /\ EnterStage
    /\ pc' = "finish" /\ final' = "docker_start_failed"
    /\ known' = FALSE
    /\ UNCHANGED <<opts, attempt, stage, stopEvent, launches, monVars, up, serial, client,
                   rc, leaks, memVars, disk, yamls, zim, discarded, runs, faults>>

LoopEnds ==
    /\ pc = "head" /\ ~(attempt <= MaxStages /\ ~stopEvent)
    /\ pc' = "finish"
    /\ UNCHANGED <<opts, loopVars, monVars, dockVars, memVars, diskVars, runs, faults>>

(* What `docker ps` finds by the label of the job.                                   *)
Labelled == {serial} \cap up

(* It finds the container: the monitor starts.  The container has made its temp dir  *)
(* by then.                                                                          *)
Identified ==
    /\ pc = "launch" /\ Labelled # {}
    /\ pc' = "watch" /\ known' = TRUE /\ mon' = "on"
    /\ disk' = disk \cup Labelled
    /\ UNCHANGED <<opts, loopVars, queue, event, up, serial, client, rc, leaks, memVars,
                   yamls, stable, zim, discarded, runs, faults>>

(* It does not: the stage is watched without a monitor, and the container's id stays *)
(* unknown to the signal handler.                                                    *)
Unidentified ==
    /\ pc = "launch"
    /\ pc' = "watch"
    /\ disk' = disk \cup Labelled
    /\ UNCHANGED <<opts, loopVars, monVars, dockVars, memVars, yamls, stable, zim,
                   discarded, runs, faults>>

----------------------------------------------------------------------------
(* The inner loop.                                                                   *)

\* Mutant of ClientExited: the stage ends only when its monitor has ended too.
ClientAndMonitorExited ==
    /\ pc = "watch" /\ client = "gone" /\ mon = "off"
    /\ pc' = "drain"
    /\ UNCHANGED <<opts, loopVars, monVars, dockVars, memVars, diskVars, runs, faults>>

ClientExited ==
    /\ pc = "watch" /\ client = "gone"
    /\ pc' = "drain"
    /\ UNCHANGED <<opts, loopVars, monVars, dockVars, memVars, diskVars, runs, faults>>

(* The queue is read only while the monitor thread is alive.                         *)
WaitForMessage ==
    /\ pc = "watch" /\ client = "run" /\ mon = "on"
    /\ pc' = "get"
    /\ UNCHANGED <<opts, loopVars, monVars, dockVars, memVars, diskVars, runs, faults>>

NoMessage ==
    /\ pc = "get" /\ queue = <<>>
    /\ pc' = "watch"
    /\ UNCHANGED <<opts, loopVars, monVars, dockVars, memVars, diskVars, runs, faults>>

Receive ==
    /\ pc = "get" /\ queue # <<>>
    /\ pc' = "adapt" /\ event' = Head(queue) /\ queue' = Tail(queue)
    /\ UNCHANGED <<opts, loopVars, mon, dockVars, memVars, diskVars, runs, faults>>

(* _maybe_discover_and_relax, when the job asks for --relax-perms.                   *)
Rediscover ==
    /\ pc = "watch" /\ opts.relax /\ ~(disk \subseteq mem.dirs)
    /\ mem' = Discovered /\ file' = Discovered /\ lost' = FALSE
    /\ UNCHANGED <<pc, spent, opts, loopVars, monVars, dockVars, diskVars, runs, faults>>

----------------------------------------------------------------------------
(* An intervention: worker reduction, else VPN rotation, else container restart,     *)
(* else a delay.                                                                     *)

CanReduce  == mem.reductions < MaxReductions /\ mem.workers > MinWorkers
CanRotate  == ~CanReduce /\ mem.rotations < MaxRotations
CanRestart == ~CanReduce /\ event = "signal" /\ mem.restarts < MaxRestarts

Intervenes(next) ==
    /\ pc = "adapt" /\ pc' = next /\ event' = "none"
    /\ UNCHANGED <<opts, loopVars, mon, queue, dockVars, lost, diskVars, runs, faults>>

BeginReduction == CanReduce /\ Intervenes("reducing") /\ UNCHANGED <<mem, file, spent>>

(* The VPN command succeeds; the container runs on.                                  *)
Rotate ==
    /\ CanRotate /\ Intervenes("watch")
    /\ Save(Rotation(mem)) /\ spent' = Rotation(spent)

(* VPN rotation was not possible, came too soon after the last, or failed.           *)
BeginRestart == CanRestart /\ Intervenes("restarting") /\ UNCHANGED <<mem, file, spent>>

Delay == ~CanReduce /\ ~CanRestart /\ Intervenes("watch") /\ UNCHANGED <<mem, file, spent>>

Intervention == BeginReduction \/ Rotate \/ BeginRestart \/ Delay

(* A crawl that ends, or is stopped, may leave a YAML to resume from; nobody looks   *)
(* for one once there is a stable copy.                                              *)
LeavesYaml(c) ==
    yamls' \in {yamls, IF stable THEN yamls ELSE yamls \cup ({c} \cap disk)}

(* docker stop, then docker kill, then the settle delay.                             *)
Stopped(next) ==
    /\ pc' = next /\ known' = FALSE
    /\ UNCHANGED <<opts, loopVars, monVars, serial, memVars, stable, zim, discarded, runs>>

\* Mutant of StopsContainer: the worker count is lowered under the running container.
KeepsContainer(from, next) ==
    /\ pc = from /\ Stopped(next)
    /\ client' = "gone" /\ rc' = "bad"
    /\ UNCHANGED <<up, leaks, disk, yamls, faults>>

StopsContainer(from, next) ==
    /\ pc = from /\ Stopped(next)
    /\ up' = up \ {serial} /\ client' = "gone"
    /\ rc' = IF client = "gone" THEN rc ELSE "bad"
    /\ LeavesYaml(serial)
    /\ UNCHANGED <<leaks, disk, faults>>

(* Both commands fail, which stop_docker_container only logs.                        *)
StopFails(from, next) ==
    /\ "stopfails" \in Faults /\ faults < MaxFaults /\ serial \in up
    /\ pc = from /\ Stopped(next)
    /\ faults' = faults + 1 /\ leaks' = leaks + 1
    /\ UNCHANGED <<up, client, rc, disk, yamls>>

Stop(from, next) == StopsContainer(from, next) \/ StopFails(from, next)

\* Mutant of Adapted: the counts are left to the next save.
AdaptedUnsaved(from, m) ==
    /\ pc = from /\ pc' = "drain"
    /\ mem' = m /\ file' = file
    /\ stage' = "stopped_for_adaptation"
    /\ client' = "gone" /\ rc' = IF client = "gone" THEN rc ELSE "bad"
    /\ UNCHANGED <<opts, attempt, stageName, config, final, stopEvent, launches, monVars,
                   up, serial, known, leaks, lost, diskVars, runs, faults>>

(* The strategy's counts are saved, the client is made to exit.                      *)
Adapted(from, m) ==
    /\ pc = from /\ pc' = "drain"
    /\ Save(m)
    /\ stage' = "stopped_for_adaptation"
    /\ client' = "gone" /\ rc' = IF client = "gone" THEN rc ELSE "bad"
    /\ UNCHANGED <<opts, attempt, stageName, config, final, stopEvent, launches, monVars,
                   up, serial, known, leaks, lost, diskVars, runs, faults>>

Reduced == Adapted("reduced", Reduction(mem)) /\ spent' = Reduction(spent)
\* Mutant of Restarted: a restart is not counted.
RestartedForFree == Adapted("restarted", mem) /\ spent' = spent
Restarted == Adapted("restarted", Restart(mem)) /\ spent' = Restart(spent)

----------------------------------------------------------------------------
(* The end of a stage.                                                               *)

(* A monitor still alive is stopped, through the event every part of main() shares.  *)
StopMonitor ==
    /\ pc = "drain" /\ pc' = "record"
    /\ stopEvent' = (stopEvent \/ mon = "on")
    /\ mon' = "off"
    /\ UNCHANGED <<opts, attempt, stageName, config, stage, final, launches, queue, event,
                   dockVars, memVars, diskVars, runs, faults>>

(* The stage's temp dir is read from its log; failing that the newest one is taken.  *)
StageDir == IF serial \in disk THEN {serial}
            ELSE IF disk = {} THEN {} ELSE {Max(disk)}

RecordDir ==
    /\ pc = "record" /\ pc' = "decide"
    /\ IF StageDir \subseteq mem.dirs THEN UNCHANGED <<mem, file>>
       ELSE Save(Tracking(mem, StageDir))
    /\ UNCHANGED <<opts, loopVars, monVars, dockVars, lost, spent, diskVars, runs, faults>>

Decides(next) ==
    /\ pc = "decide" /\ pc' = next
    /\ UNCHANGED <<opts, config, stage, stopEvent, launches, monVars, dockVars, memVars,
                   diskVars, runs, faults>>

\* Mutant of Succeeded: a stage stopped for an adaptation may count as crawled.
SucceededByCode == rc = "ok"
\* Mutant of ExhaustsStages: off by one.
ExhaustsStagesLate == attempt > MaxStages

Succeeded == stage = "running" /\ rc = "ok"
ExhaustsStages == attempt >= MaxStages

StageSucceeds ==
    /\ Succeeded /\ Decides("finish")
    /\ final' = "pending"
    /\ UNCHANGED <<attempt, stageName>>

StagesExhausted ==
    /\ ~Succeeded /\ stage = "running" /\ ExhaustsStages /\ Decides("finish")
    /\ final' = "failed_max_attempts"
    /\ UNCHANGED <<attempt, stageName>>

(* Resume after an adaptation (same attempt) or a failure (next attempt), after the  *)
(* back-off delay, which the stop event cuts short.                                  *)
ResumeNext ==
    /\ ~Succeeded /\ ~(stage = "running" /\ ExhaustsStages)
    /\ stageName' = "Resume Crawl"
    /\ attempt' = IF stage = "running" THEN attempt + 1 ELSE attempt
    /\ IF opts.backoff /\ stopEvent THEN Decides("finish") /\ final' = "stopped"
                                    ELSE Decides("head") /\ final' = final

----------------------------------------------------------------------------
(* The final build, or the check for WARCs that replaces it, and the exit.           *)

Finishes(next) ==
    /\ pc = "finish" /\ pc' = next
    /\ UNCHANGED <<opts, attempt, stageName, config, stage, stopEvent, launches, monVars,
                   known, client, rc, leaks, memVars, diskVars, runs, faults>>

CheckWarcs ==
    /\ final = "pending" /\ ~stopEvent /\ (opts.skip \/ ~HasWarcs(mem)) /\ Finishes("exit")
    /\ final' = IF HasWarcs(mem) THEN "success" ELSE "failed_no_warcs"
    /\ UNCHANGED <<up, serial>>

StartBuild ==
    /\ final = "pending" /\ ~stopEvent /\ ~opts.skip /\ HasWarcs(mem) /\ Finishes("build")
    /\ serial' = serial + 1 /\ up' = up \cup {serial + 1}
    /\ final' = final

NoBuild ==
    /\ (final = "pending" => stopEvent) /\ Finishes("exit")
    /\ final' = IF final = "pending" THEN "stopped" ELSE final
    /\ UNCHANGED <<up, serial>>

BuildVerdict(ok) == IF ok THEN "success" ELSE "failed"

BuildEnds ==
    /\ pc = "build" /\ pc' = "exit"
    /\ up' = up \ {serial}
    /\ \E ok \in BOOLEAN :
          /\ final' = BuildVerdict(ok)
          /\ zim' = (zim \/ ok)
    /\ UNCHANGED <<opts, attempt, stageName, config, stage, stopEvent, launches, monVars,
                   serial, known, client, rc, leaks, memVars, disk, yamls, stable,
                   discarded, runs, faults>>

CleansUp == final = "success" /\ opts.cleanup

Exit ==
    /\ pc = "exit" /\ GoesDown
    /\ disk'  = IF CleansUp THEN disk \ mem.dirs ELSE disk
    /\ yamls' = IF CleansUp THEN yamls \ mem.dirs ELSE yamls
    /\ file'  = IF CleansUp THEN Absent ELSE file
    /\ Forgives
    /\ UNCHANGED <<opts, up, serial, leaks, stable, zim, discarded, runs, faults>>

----------------------------------------------------------------------------
(* The monitor thread.                                                               *)

MonitorStep ==
    /\ mon = "on"
    /\ UNCHANGED <<pc, opts, loopVars, event, dockVars, memVars, diskVars, runs, faults>>

(* A stall, no statistics, or too many errors; the counters that led to it are reset.*)
MonitorSignals ==
    /\ MonitorStep /\ ~stopEvent /\ Len(queue) < MaxQueue
    /\ queue' = Append(queue, "signal") /\ mon' = mon

(* The thread cannot follow the logs: it says so and ends.                           *)
MonitorFails ==
    /\ MonitorStep /\ ~stopEvent /\ Len(queue) < MaxQueue
    /\ queue' = Append(queue, "fatal") /\ mon' = "off"

(* The log stream ended, or the container is gone.                                   *)
MonitorEnds ==
    /\ MonitorStep
    /\ mon' = "off" /\ queue' = queue

----------------------------------------------------------------------------
(* Containers end by themselves.                                                     *)

ContainerStep == UNCHANGED <<pc, opts, loopVars, monVars, serial, known, leaks, memVars,
                             disk, stable, zim, discarded, runs, faults>>

IsStage(c) == c = serial /\ pc \notin {"down", "setup", "build"}

CrawlEnds ==
    /\ IsStage(serial) /\ serial \in up
    /\ up' = up \ {serial} /\ client' = "gone"
    /\ rc' \in IF client = "gone" THEN {rc} ELSE {"ok", "bad"}
    /\ LeavesYaml(serial)
    /\ ContainerStep

StrayEnds ==
    /\ \E c \in up : /\ ~IsStage(c) /\ (pc = "build" => c # serial)
                    /\ up' = up \ {c} /\ LeavesYaml(c)
    /\ UNCHANGED <<client, rc>>
    /\ ContainerStep

----------------------------------------------------------------------------
(* Faults.                                                                           *)

(* The Docker client ends though its container runs on (monitor.py checks for it).   *)
Detach ==
    /\ "detach" \in Faults /\ faults < MaxFaults
    /\ pc \in {"launch", "watch", "get", "adapt", "reducing", "restarting"}
    /\ client = "run" /\ serial \in up
    /\ client' = "gone" /\ rc' = "bad" /\ leaks' = leaks + 1 /\ faults' = faults + 1
    /\ UNCHANGED <<pc, opts, loopVars, monVars, up, serial, known, memVars, diskVars, runs>>

(* A stale mount: every temp dir is unreadable during a save or a listing, which     *)
(* drops them from the list; the state file cannot be written.                       *)
MountDrops ==
    /\ "mount" \in Faults /\ faults < MaxFaults
    /\ pc \in Saving \cup {"head", "finish"}
    /\ mem.dirs # {}
    /\ mem' = [mem EXCEPT !.dirs = {}] /\ lost' = TRUE /\ faults' = faults + 1
    /\ UNCHANGED <<pc, opts, loopVars, monVars, dockVars, file, spent, diskVars, runs>>

Dies ==
    /\ pc # "down" /\ GoesDown /\ faults < MaxFaults /\ faults' = faults + 1
    /\ file' \in IF pc \in Saving THEN {file, Torn} ELSE {file}
    /\ Forgives
    /\ disk' = disk \cup IF pc = "launch" THEN Labelled ELSE {}
    /\ leaks' = leaks + IF pc \in Running THEN Cardinality({serial} \cap up') ELSE 0
    /\ UNCHANGED <<opts, serial, yamls, stable, zim, discarded, runs>>

(* SIGTERM or SIGINT: the handler stops the container it knows of, ends the client   *)
(* and exits.  A container it does not know may get the client's SIGTERM, or not; it *)
(* never knows that of the final build, whose client it kills outright unless the    *)
(* signal reached that client too.                                                   *)
Signal ==
    /\ "signal" \in Faults
    /\ up' \in {up \ {serial}} \cup (IF known /\ pc # "build" THEN {} ELSE {up})
    /\ Dies

(* SIGKILL, out of memory or a reboot; a reboot ends the containers too.             *)
Crash ==
    /\ "crash" \in Faults
    /\ up' \in {up, {}}
    /\ Dies

----------------------------------------------------------------------------
Loop ==
    \/ RefuseZim \/ FreshOverwrite \/ ResumeCrawl \/ NewCrawl
    \/ Launch \/ LaunchFails \/ LoopEnds \/ Identified \/ Unidentified
    \/ ClientExited \/ WaitForMessage \/ NoMessage \/ Receive \/ Rediscover
    \/ Intervention
    \/ Stop("reducing", "reduced") \/ Stop("restarting", "restarted") \/ Reduced \/ Restarted
    \/ StopMonitor \/ RecordDir \/ StageSucceeds \/ StagesExhausted \/ ResumeNext
    \/ CheckWarcs \/ StartBuild \/ NoBuild \/ BuildEnds \/ Exit

Monitor == MonitorSignals \/ MonitorFails \/ MonitorEnds
Docker  == CrawlEnds \/ StrayEnds
Fault   == Detach \/ MountDrops \/ Signal \/ Crash

(* All the runs there may be are over.                                               *)
Done == pc = "down" /\ runs = MaxRuns /\ up = {} /\ UNCHANGED vars

Next == Start \/ Loop \/ Monitor \/ Docker \/ Fault \/ Done

Spec == Init /\ [][Next]_vars

(* The thread of main() keeps running, and a crawl that nobody stops ends some day:  *)
(* page limits and time limits of the crawler, not this code, see to that.           *)
LiveSpec == Spec /\ WF_vars(Loop) /\ WF_vars(CrawlEnds)

----------------------------------------------------------------------------
(* Correctness.                                                                      *)

(* The values the variables of main(), the state file and the monitor may take.      *)
TypeOK ==
    /\ pc \in Pcs /\ opts \in Options
    /\ attempt \in 1 .. MaxStages /\ stageName \in StageNames
    /\ config \in {"managed", "resume", "none"}
    /\ stage \in {"running", "stopped_for_adaptation"} /\ final \in Finals
    /\ stopEvent \in BOOLEAN /\ launches \in Nat
    /\ mon \in {"on", "off"} /\ queue \in Seq({"signal", "fatal"})
    /\ Len(queue) <= MaxQueue /\ event \in {"signal", "fatal", "none"}
    /\ serial \in Nat /\ up \subseteq 1 .. serial /\ known \in BOOLEAN
    /\ client \in {"run", "gone"} /\ rc \in {"none", "ok", "bad"}
    /\ mem \in Memory /\ file \in Memory \cup {Absent, Torn} /\ spent \in Memory
    /\ mem.dirs \subseteq 1 .. serial /\ disk \subseteq 1 .. serial
    /\ yamls \subseteq disk /\ stable \in BOOLEAN /\ zim \in BOOLEAN
    /\ discarded \subseteq 1 .. serial /\ lost \in BOOLEAN
    /\ leaks \in Nat /\ runs \in 0 .. MaxRuns /\ faults \in 0 .. MaxFaults

(* Besides the container of the stage or build in progress nothing runs in the       *)
(* output directory, except what a fault (a killed process, a client that lost its   *)
(* container, a docker stop that failed) has left behind, one container a fault:     *)
(* adaptation, failure and retry never overlap two crawls (main.py:107-145).         *)
NoUnaccountedContainer ==
    Cardinality(up) <= leaks + IF pc \in Running THEN 1 ELSE 0

(* What is built, or reported as crawled, has all the WARCs of all stages and runs,  *)
(* whatever crashed in between and even when the state file was torn; only a mount   *)
(* that went stale during this very run can hide some (main.py:558-566, 1296-1350).  *)
BuildSeesAll ==
    pc = "build" \/ (pc = "exit" /\ final = "success")
        => lost \/ disk \ discarded \subseteq mem.dirs

(* A run starts no more containers than its stages and its budgets add up to: an     *)
(* adaptation, which repeats its attempt, is always paid for.                        *)
LaunchesAreBudgeted == launches <= MaxStages + MaxReductions + MaxRestarts

(* A run that exits with 0 saw its last crawl end by itself with an accepted code,   *)
(* and was not interrupted for an adaptation at the same time.                       *)
SuccessWasCrawled ==
    pc = "exit" /\ final = "success" => stage = "running" /\ rc = "ok" /\ mem.dirs # {}

(* A run of archive_tool has the workers and the budgets that the adaptations of     *)
(* this crawl have left, in earlier runs and in this one: killing it gives nothing   *)
(* back.  Exempted by name (Forgives, NewCrawl, FreshOverwrite): what was spent is   *)
(* forgotten by a kill in the middle of a save, which tears the file (state.py:221), *)
(* and with a run whose mount went stale, as its saves may have failed; a phase that *)
(* has nothing to resume from counts afresh, and --overwrite begins anew.            *)
SpentIsSaved == pc # "down" => Budget(mem) = spent

(* Every run of archive_tool comes to an end, however interventions, monitor and     *)
(* faults interleave, provided crawls end.                                           *)
RunEnds == pc # "down" ~> pc = "down"

(* Claimed (main.py:1389: "success" -> break to final build): a crawl that succeeded *)
(* goes on to the build; it becomes "stopped" only through a signal, which would     *)
(* have ended the process.                                                           *)
SuccessIsBuilt == [][final = "pending" => final' # "stopped"]_vars

(* Claimed (docs/planning/README.md:25): fresh and new phases use the managed        *)
(* Browsertrix config, resumed ones have it merged into theirs.                      *)
StageIsManaged == pc = "launch" => config # "none"
================================================================================
