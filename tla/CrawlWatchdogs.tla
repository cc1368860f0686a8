--------------------------- MODULE CrawlWatchdogs ---------------------------
(***************************************************************************)
(* The two watchdogs that keep crawls going on the production host, over   *)
(* what they watch: the rows of archive_jobs, the flocks and processes of  *)
(* the crawls, the crawl logs and the worker's systemd service.            *)
(*                                                                         *)
(*   crawl-auto-recover (scripts/vps-crawl-auto-recover.py, every 5 min)   *)
(*   worker-auto-start  (scripts/vps-worker-auto-start.py, every 2 min)    *)
(*                                                                         *)
(* Both are separate processes with a lock file each, so one instance of   *)
(* each runs at a time, but nothing keeps the two from running side by     *)
(* side, nor with the worker.  The crawl itself is JobLifecycle, reduced   *)
(* to what the watchdogs can tell apart.                                   *)
(*                                                                         *)
(* A row is "queued" when its last attempt has an end, or there was none   *)
(* (status queued or retryable), and "recovered" when it is retryable with *)
(* started_at set and finished_at not.                                     *)
(***************************************************************************)
EXTENDS Integers, FiniteSets

CONSTANTS
    Jobs,           \* the annual jobs, in the order of their ids and of the queue
    Source,         \* the source of each job
    MaxRecoveries,  \* --max-recoveries-per-job-per-day
    EnsureMin,      \* --ensure-min-running-jobs
    MaxFaults       \* bound: processes killed in a behaviour

ASSUME JobsAssumption == Jobs \subseteq Nat /\ Jobs # {} /\ IsFiniteSet(Jobs)
ASSUME CapsAssumption == /\ MaxRecoveries \in Nat
                         /\ EnsureMin \in Nat
                         /\ MaxFaults \in Nat

VARIABLES
    status,     \* the rows
    started,    \* started_at of the rows: never, new, or old, before the cutoffs
    owner,      \* what holds a job's flock: the worker, a unit of its own, or nothing
    stage,      \* how far the owner is with the job
    orphan,     \* jobs whose crawl outlived the process that ran it
    log,        \* how long ago the newest combined log shows a crawled page
    workerUp,   \* the worker service is active
    file,       \* the recoveries of the last 24 hours in crawl-auto-recover's state file
    ar,         \* a run of crawl-auto-recover
    as,         \* a run of worker-auto-start
    faults,     \* processes killed so far
    done        \* history: the recoveries of the last 24 hours that happened

crawl == <<owner, stage, orphan, log>>
rows == <<status, started>>
vars == <<status, started, owner, stage, orphan, log, workerUp,
          file, ar, as, faults, done>>

-----------------------------------------------------------------------------
(* States.                                                                 *)

Pending == {"queued", "recovered"}
Statuses == Pending \cup {"running", "ended"}
Stages == {"idle", "locked", "crawling", "ending", "closing"}
Ages == {"none", "fresh", "stalled"}
Kinds == {"none", "worker", "unit", "unknown"}

\* ps shows archive-tool or its container with the job's output directory.
HasProcess(j) == stage[j] = "crawling" \/ j \in orphan
Running == {j \in Jobs : status[j] = "running"}
Queue == {j \in Jobs : status[j] \in Pending}
First(S) == CHOOSE j \in S : \A k \in S : j <= k

\* held: job locks found held; kind: the runner that was detected; sel: the rows
\* that recover-stale-jobs has loaded
ArIdle == [pc |-> "idle", held |-> {}, job |-> First(Jobs), kind |-> "none", sel |-> {}]
AsIdle == [pc |-> "idle", active |-> FALSE, running |-> 0, pending |-> FALSE]

ArPCs == {"idle", "syncing", "checking", "scanning", "starting", "deciding",
          "stopping", "recovering", "flipping", "restarting", "recording"}
AsPCs == {"idle", "counting", "reconciling", "starting"}

TypeOK ==
    /\ status \in [Jobs -> Statuses]
    /\ started \in [Jobs -> {"never", "new", "old"}]
    /\ owner \in [Jobs -> {"none", "worker", "unit"}]
    /\ stage \in [Jobs -> Stages]
    /\ orphan \subseteq Jobs
    /\ log \in [Jobs -> Ages]
    /\ workerUp \in BOOLEAN
    /\ file \in [Jobs -> 0..MaxRecoveries]
    /\ ar \in [pc : ArPCs, held : SUBSET Jobs, job : Jobs, kind : Kinds, sel : SUBSET Jobs]
    /\ as \in [pc : AsPCs, active : BOOLEAN, running : 0..Cardinality(Jobs),
               pending : BOOLEAN]
    /\ faults \in 0..MaxFaults
    /\ done \in [Jobs -> Nat]

Init ==
    /\ status = [j \in Jobs |-> "queued"]
    /\ started = [j \in Jobs |-> "never"]
    /\ owner = [j \in Jobs |-> "none"]
    /\ stage = [j \in Jobs |-> "idle"]
    /\ orphan = {}
    /\ log = [j \in Jobs |-> "none"]
    /\ workerUp = TRUE
    /\ file = [j \in Jobs |-> 0]
    /\ ar = ArIdle
    /\ as = AsIdle
    /\ faults = 0
    /\ done = [j \in Jobs |-> 0]

-----------------------------------------------------------------------------
(* The crawls.                                                             *)

WorkerIsFree == workerUp /\ \A j \in Jobs : owner[j] # "worker"
Picks(j) == WorkerIsFree /\ Queue # {} /\ j = First(Queue)

\* A flock that somebody else holds, be it crawl-auto-recover for a moment.
Taken(j) == owner[j] # "none" \/ ar.pc = "syncing"

WorkerTakes(j) ==
    /\ Picks(j) /\ ~Taken(j)
    /\ owner' = [owner EXCEPT ![j] = "worker"]
    /\ stage' = [stage EXCEPT ![j] = "locked"]
    /\ UNCHANGED <<rows, orphan, log, workerUp, file, ar, as,
                   faults, done>>

\* JobAlreadyRunningError: the worker writes status running.
WorkerBelieves(j) ==
    /\ Picks(j) /\ Taken(j)
    /\ status' = [status EXCEPT ![j] = "running"]
    /\ UNCHANGED <<started, crawl, workerUp, file, ar, as, faults, done>>

Starts(j) ==
    /\ stage[j] = "locked"
    /\ status[j] \in Pending
    /\ stage' = [stage EXCEPT ![j] = "crawling"]
    /\ status' = [status EXCEPT ![j] = "running"]
    /\ started' = [started EXCEPT ![j] = "new"]
    /\ UNCHANGED <<owner, orphan, log, workerUp, file, ar, as,
                   faults, done>>

Frees(j) == /\ owner' = [owner EXCEPT ![j] = "none"]
            /\ stage' = [stage EXCEPT ![j] = "idle"]

\* The runner finds a row that is not runnable, or is done with its job.
Leaves(j) ==
    /\ \/ stage[j] = "locked" /\ status[j] \notin Pending
       \/ stage[j] = "closing"
    /\ Frees(j)
    /\ UNCHANGED <<rows, orphan, log, workerUp, file, ar, as,
                   faults, done>>

Progress(j) ==
    /\ HasProcess(j)
    /\ log' = [log EXCEPT ![j] = "fresh"]
    /\ UNCHANGED <<rows, owner, stage, orphan, workerUp, file, ar, as, faults, done>>

CrawlExits(j) ==
    /\ stage[j] = "crawling"
    /\ stage' = [stage EXCEPT ![j] = "ending"]
    /\ UNCHANGED <<rows, owner, orphan, log, workerUp, file,
                   ar, as, faults, done>>

\* The outcome is written, with the flock still held.
Finishes(j) ==
    /\ stage[j] = "ending"
    /\ stage' = [stage EXCEPT ![j] = "closing"]
    /\ \E s \in {"queued", "ended"} : status' = [status EXCEPT ![j] = s]
    /\ UNCHANGED <<started, owner, orphan, log, workerUp, file, ar,
                   as, faults, done>>

\* The owner is killed.  The worker's service may stay down, and the crawl may
\* go on without its owner.
RunnerDies(j) ==
    /\ owner[j] # "none"
    /\ faults < MaxFaults
    /\ faults' = faults + 1
    /\ Frees(j)
    /\ workerUp' \in IF owner[j] = "worker" THEN BOOLEAN ELSE {workerUp}
    /\ orphan' \in IF stage[j] = "crawling" THEN {orphan, orphan \cup {j}}
                   ELSE {orphan}
    /\ UNCHANGED <<rows, log, file, ar, as, done>>

OrphanEnds(j) ==
    /\ j \in orphan
    /\ orphan' = orphan \ {j}
    /\ UNCHANGED <<rows, owner, stage, log, workerUp, file, ar,
                   as, faults, done>>

-----------------------------------------------------------------------------
(* Time.                                                                   *)

RowAges(j) ==
    /\ status[j] = "running" /\ started[j] = "new"
    /\ started' = [started EXCEPT ![j] = "old"]
    /\ UNCHANGED <<status, crawl, workerUp, file, ar, as, faults, done>>

\* An hour without a page.
LogAges(j) ==
    /\ log[j] = "fresh"
    /\ log' = [log EXCEPT ![j] = "stalled"]
    /\ UNCHANGED <<rows, owner, stage, orphan, workerUp, file,
                   ar, as, faults, done>>

\* What was recorded is older than 24 hours.
DayEnds ==
    /\ ar.pc = "idle"
    /\ file' = [j \in Jobs |-> 0]
    /\ done' = [j \in Jobs |-> 0]
    /\ UNCHANGED <<rows, crawl, workerUp, ar, as, faults>>

-----------------------------------------------------------------------------
(* A run of crawl-auto-recover.                                            *)

ArGoes(pc) == ar' = [ar EXCEPT !.pc = pc]
ArEnds == ar' = ArIdle

\* Every lock file is locked for a moment to see whether it can be.  A run that
\* meets a deployment or has no sentinel file ends before this.
ArBegins ==
    /\ ar.pc = "idle"
    /\ ar' = [ar EXCEPT !.pc = "syncing", !.held = {j \in Jobs : owner[j] # "none"}]
    /\ UNCHANGED <<rows, crawl, workerUp, file, as, faults, done>>

\* Mutant: only running rows are looked at.
ArSyncsRunning ==
    /\ ar.pc = "syncing"
    /\ ArGoes("checking")
    /\ UNCHANGED <<rows, crawl, workerUp, file, as, faults, done>>

\* Whatever the row says, a lock that was held makes it running.
ArSyncs ==
    /\ ar.pc = "syncing"
    /\ status' = [j \in Jobs |-> IF j \in ar.held THEN "running" ELSE status[j]]
    /\ started' = [j \in Jobs |-> IF j \in ar.held /\ status[j] # "running"
                                     /\ started[j] = "never"
                                  THEN "new" ELSE started[j]]
    /\ ArGoes("checking")
    /\ UNCHANGED <<crawl, workerUp, file, as, faults, done>>

\* So does a crawl process, for a row that was started and has no end.
ArSyncsProcesses ==
    /\ ar.pc = "checking"
    /\ status' = [j \in Jobs |->
                    IF status[j] = "recovered" /\ j \notin ar.held /\ HasProcess(j)
                    THEN "running" ELSE status[j]]
    /\ ar' = [ar EXCEPT !.pc = "scanning", !.held = {}]
    /\ UNCHANGED <<started, crawl, workerUp, file, as, faults, done>>

Stalled == {j \in Running : log[j] = "stalled"}

\* One job per run, the first of the stalled ones.  A healthy job elsewhere only
\* decides whether a job without runner is recovered "softly": the same steps.
ArFindsStall ==
    /\ ar.pc = "scanning" /\ Stalled # {}
    /\ ar' = [ar EXCEPT !.pc = "deciding", !.job = First(Stalled)]
    /\ UNCHANGED <<rows, crawl, workerUp, file, as, faults, done>>

\* Too few running jobs: the first of the queue, and only it, is a candidate.
ArFindsRoom ==
    /\ ar.pc = "scanning" /\ Stalled = {}
    /\ IF Cardinality(Running) < EnsureMin /\ Queue # {}
       THEN ar' = [ar EXCEPT !.pc = "starting", !.job = First(Queue)]
       ELSE ArEnds
    /\ UNCHANGED <<rows, crawl, workerUp, file, as, faults, done>>

\* The unit ends at once when it cannot get the job's lock.
UnitStarts(j) ==
    IF owner[j] = "none"
    THEN /\ owner' = [owner EXCEPT ![j] = "unit"]
         /\ stage' = [stage EXCEPT ![j] = "locked"]
    ELSE UNCHANGED <<owner, stage>>

\* systemd-run of run-db-job; not when the disk is too full, the job was started
\* --max-starts-per-job-per-day times, or systemd-run fails.
ArStarts ==
    /\ ar.pc = "starting"
    /\ UnitStarts(ar.job) \/ UNCHANGED <<owner, stage>>
    /\ ArEnds
    /\ UNCHANGED <<rows, orphan, log, workerUp, file, as, faults, done>>

Runner(j) ==
    CASE owner[j] = "unit" -> "unit"
      [] stage[j] = "crawling" /\ owner[j] = "worker" -> "worker"
      [] j \in orphan -> "unknown"
      [] owner[j] = "worker" -> "worker"
      [] OTHER -> "none"

\* Mutant: one recovery too many.
CappedLate(j) == file[j] > MaxRecoveries
Capped(j) == file[j] >= MaxRecoveries

\* A job without a runner is recovered softly; an unknown runner is left to the
\* operator; and too little progress between recoveries opens the circuit.
ArDecides ==
    /\ ar.pc = "deciding"
    /\ \E circuitOpen \in BOOLEAN :
         IF circuitOpen \/ Capped(ar.job) \/ Runner(ar.job) = "unknown" THEN ArEnds
         ELSE ar' = [ar EXCEPT !.pc = IF Runner(ar.job) = "none" THEN "recovering"
                                      ELSE "stopping",
                               !.kind = Runner(ar.job)]
    /\ UNCHANGED <<rows, crawl, workerUp, file, as, faults, done>>

\* What the service or the unit runs is killed with it; its container may stay.
KillOwned(kind, j) ==
    LET mine == {k \in Jobs : owner[k] = kind /\ (kind = "unit" => k = j)} IN
    /\ owner' = [k \in Jobs |-> IF k \in mine THEN "none" ELSE owner[k]]
    /\ stage' = [k \in Jobs |-> IF k \in mine THEN "idle" ELSE stage[k]]
    /\ \/ UNCHANGED <<orphan, faults>>
       \/ /\ faults < MaxFaults
          /\ \E k \in mine : stage[k] = "crawling"
          /\ faults' = faults + 1
          /\ orphan' = orphan \cup {k \in mine : stage[k] = "crawling"}

\* A unit that has ended meanwhile cannot be stopped, and the run raises.
ArStops ==
    /\ ar.pc = "stopping"
    /\ IF ar.kind = "unit" /\ owner[ar.job] # "unit"
       THEN ArEnds /\ UNCHANGED <<owner, stage, orphan, workerUp, faults>>
       ELSE /\ KillOwned(ar.kind, ar.job)
            /\ workerUp' = (workerUp /\ ar.kind # "worker")
            /\ ArGoes("recovering")
    /\ UNCHANGED <<rows, log, file, as, done>>

\* recover-stale-jobs for the source of the job: it loads the old running rows
\* without progress (no log, or a log of an earlier crawl, counts as none) and
\* drops those with a held lock ...
ArLoads ==
    /\ ar.pc = "recovering"
    /\ \E sure \in BOOLEAN :
         ar' = [ar EXCEPT !.pc = "flipping",
                  !.sel = {j \in Running : /\ started[j] = "old"
                                           /\ Source[j] = Source[ar.job]
                                           /\ owner[j] = "none"
                                           /\ sure => log[j] \in {"none", "stalled"}}]
    /\ UNCHANGED <<rows, crawl, workerUp, file, as, faults, done>>

\* ... and then writes retryable over whatever they have become.
ArFlips ==
    /\ ar.pc = "flipping"
    /\ status' = [j \in Jobs |-> IF j \notin ar.sel THEN status[j]
                                  ELSE IF status[j] = "running" THEN "recovered"
                                  ELSE IF status[j] = "ended" THEN "queued"
                                  ELSE status[j]]
    /\ done' = [done EXCEPT ![ar.job] = @ + 1]
    /\ ArGoes(IF ar.kind = "none" THEN "recording" ELSE "restarting")
    /\ UNCHANGED <<started, crawl, workerUp, file, as, faults>>

ArRestartsWorker ==
    /\ ar.pc = "restarting" /\ ar.kind = "worker"
    /\ workerUp' = TRUE
    /\ ArGoes("recording")
    /\ UNCHANGED <<rows, crawl, file, as, faults, done>>

\* A transient unit is gone once it is stopped: starting it again may fail, and
\* the run raises before it has recorded what it did.
ArRestartsUnit ==
    /\ ar.pc = "restarting" /\ ar.kind = "unit"
    /\ \/ UnitStarts(ar.job) /\ ArGoes("recording") /\ UNCHANGED faults
       \/ /\ faults < MaxFaults
          /\ faults' = faults + 1
          /\ ArEnds
          /\ UNCHANGED <<owner, stage>>
    /\ UNCHANGED <<rows, orphan, log, workerUp, file, as, done>>

\* Mutant: the state is changed in memory only.
ArRecordsNothing ==
    /\ ar.pc = "recording"
    /\ ArEnds
    /\ UNCHANGED <<rows, crawl, workerUp, file, as, faults, done>>
ArRecords ==
    /\ ar.pc = "recording"
    /\ file' = [file EXCEPT ![ar.job] = @ + 1]
    /\ ArEnds
    /\ UNCHANGED <<rows, crawl, workerUp, as, faults, done>>

ArDies ==
    /\ ar.pc # "idle"
    /\ faults < MaxFaults
    /\ faults' = faults + 1
    /\ ArEnds
    /\ UNCHANGED <<rows, crawl, workerUp, file, as, done>>

-----------------------------------------------------------------------------
(* A run of worker-auto-start.                                             *)

AsBegins ==
    /\ as.pc = "idle"
    /\ as' = [as EXCEPT !.pc = "counting", !.active = workerUp]
    /\ UNCHANGED <<rows, crawl, workerUp, file, ar, faults, done>>

AsCounts ==
    /\ as.pc = "counting"
    /\ as' = [as EXCEPT !.pc = IF as.active THEN "idle"
                               ELSE IF Running # {} THEN "reconciling" ELSE "starting",
                        !.running = IF as.active THEN 0 ELSE Cardinality(Running),
                        !.pending = ~as.active /\ Queue # {},
                        !.active = FALSE]
    /\ UNCHANGED <<rows, crawl, workerUp, file, ar, faults, done>>

\* Mutant: a job is reconciled only when its log shows the stall.
AsReconcilesStalled ==
    /\ as.pc = "reconciling"
    /\ LET drift == {j \in Running : log[j] = "stalled" /\ ~HasProcess(j)} IN
       /\ status' = [j \in Jobs |-> IF j \in drift THEN "recovered" ELSE status[j]]
       /\ as' = [as EXCEPT !.pc = "starting",
                   !.running = IF @ < Cardinality(drift) THEN 0 ELSE @ - Cardinality(drift),
                   !.pending = @ \/ drift # {}]
    /\ UNCHANGED <<started, crawl, workerUp, file, ar, faults, done>>

\* Old rows without a crawl process become retryable; the job lock is not asked.
AsReconciles ==
    /\ as.pc = "reconciling"
    /\ LET drift == {j \in Running : started[j] = "old" /\ ~HasProcess(j)} IN
       /\ status' = [j \in Jobs |-> IF j \in drift THEN "recovered" ELSE status[j]]
       /\ as' = [as EXCEPT !.pc = "starting",
                   !.running = IF @ < Cardinality(drift) THEN 0 ELSE @ - Cardinality(drift),
                   !.pending = @ \/ drift # {}]
    /\ UNCHANGED <<started, crawl, workerUp, file, ar, faults, done>>

\* It starts the worker only when the counts leave no running job.
AsStarts ==
    /\ as.pc = "starting"
    /\ workerUp' = (workerUp \/ (as.running = 0 /\ as.pending))
    /\ as' = AsIdle
    /\ UNCHANGED <<rows, crawl, file, ar, faults, done>>

AsDies ==
    /\ as.pc # "idle"
    /\ faults < MaxFaults
    /\ faults' = faults + 1
    /\ as' = AsIdle
    /\ UNCHANGED <<rows, crawl, workerUp, file, ar, done>>

-----------------------------------------------------------------------------
ArSteps ==
    \/ ArSyncs \/ ArSyncsProcesses \/ ArFindsStall \/ ArFindsRoom \/ ArStarts
    \/ ArDecides \/ ArStops \/ ArLoads \/ ArFlips \/ ArRestartsWorker
    \/ ArRestartsUnit \/ ArRecords
AsSteps == AsCounts \/ AsReconciles \/ AsStarts

Next ==
    \/ \E j \in Jobs :
         \/ WorkerTakes(j) \/ WorkerBelieves(j) \/ Starts(j) \/ Leaves(j)
         \/ Progress(j) \/ CrawlExits(j) \/ Finishes(j) \/ RunnerDies(j)
         \/ OrphanEnds(j) \/ RowAges(j) \/ LogAges(j)
    \/ DayEnds
    \/ ArBegins \/ ArSteps \/ ArDies
    \/ AsBegins \/ AsSteps \/ AsDies

\* The timers fire again and again, a run that was begun goes on and time
\* passes.  Nothing is assumed of the worker and of the crawls.
Fairness ==
    /\ WF_vars(ArBegins) /\ WF_vars(ArSteps)
    /\ WF_vars(AsBegins) /\ WF_vars(AsSteps)
    /\ \A j \in Jobs : WF_vars(RowAges(j))

Spec == Init /\ [][Next]_vars
LiveSpec == Spec /\ Fairness

-----------------------------------------------------------------------------
(* Properties.                                                             *)

\* The state file knows every recovery but those whose run ended before it was
\* saved: a job is recovered at most --max-recoveries-per-job-per-day times a
\* day, and once more for each such accident.
RecoveriesBounded == \A j \in Jobs : done[j] <= MaxRecoveries + faults

\* A crawl that has lost its row is found again: as long as it goes on, its row
\* is set to running in the end (_held_job_lock_job_ids and the sync in main).
DriftIsRepaired ==
    \A j \in Jobs : (stage[j] = "crawling" /\ status[j] # "running")
                       ~> (stage[j] # "crawling" \/ status[j] = "running")

\* A row that the worker or a probe made running before its first attempt: no
\* watchdog recovers it, both ask for a started_at.
Stranded(j) == status[j] = "running" /\ started[j] = "never"

\* A worker that is down while a row is pending or running comes back, whatever
\* killed it or left it stopped, unless something still crawls or a row is
\* stranded.
WorkerReturns ==
    (~workerUp /\ Queue \cup Running # {})
      ~> (workerUp \/ Queue \cup Running = {}
          \/ \E j \in Jobs : owner[j] = "unit" \/ HasProcess(j) \/ Stranded(j))

\* scripts/vps-crawl-auto-recover.py:261: "Never flip DB status to retryable
\* while a crawl process is still running."
NeverFlipsCrawling ==
    [][\A j \in Jobs : status[j] = "running" /\ status'[j] = "recovered"
                          => ~HasProcess(j)]_vars

=============================================================================
