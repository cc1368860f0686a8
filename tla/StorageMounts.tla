--------------------------- MODULE StorageMounts ---------------------------
(***************************************************************************)
(* The mounts below the crawls: the Storage Box (sshfs), the bind mount of  *)
(* each annual job's output directory onto it, and who repairs them.       *)
(*                                                                         *)
(*   storage-hotpath-auto-recover (scripts/vps-storage-hotpath-auto-recover.py) *)
(*   annual-output-tiering (scripts/vps-annual-output-tiering.py), run by  *)
(*     the former, by the worker before a crawl, and by an operator        *)
(*   worker-auto-start (its decision; CrawlWatchdogs has its steps)        *)
(*                                                                         *)
(* An output directory is "bound", "stale" (errno 107), "other" (a mount   *)
(* that is not a bind mount), "plain": no mount, so that what is written   *)
(* goes to the local disk and is hidden by the next mount, or "absent": a  *)
(* scheduled job whose directory nothing has made yet.  Each job has a     *)
(* source of its own, and a row changes as in JobLifecycle.                *)
(***************************************************************************)
EXTENDS Integers, FiniteSets

CONSTANTS
    Jobs,           \* the annual jobs of the year, in the order of the queue
    Units,          \* jobs that crawl-auto-recover or an operator runs in a unit
    ConfirmRuns,    \* --confirm-runs
    MaxRecoveries,  \* --max-recoveries-per-day, for all jobs together
    MaxBreaks,      \* bound: mounts that break in a behaviour
    MaxFaults       \* bound: commands that fail or time out

ASSUME JobsAssumption == Jobs \subseteq Nat /\ IsFiniteSet(Jobs) /\ Units \subseteq Jobs
ASSUME BoundsAssumption == /\ ConfirmRuns \in Nat \ {0}
                           /\ MaxRecoveries \in Nat
                           /\ MaxBreaks \in Nat
                           /\ MaxFaults \in Nat

VARIABLES
    base,       \* the Storage Box is readable
    mnt,        \* the output directories
    status,     \* the rows
    owner,      \* who crawls a job
    bare,       \* history: crawls of the worker that the code leaves without a mount
    workerUp,   \* the worker service is active
    w,          \* the worker between picking a job and crawling it
    obs,        \* the observations in the watchdog's state file
    file,       \* the recoveries of the last day in it
    hp,         \* a run of storage-hotpath-auto-recover
    plan,       \* what each runner of annual-output-tiering has planned
    breaks, faults

rows == <<status, owner, bare>>
watchdog == <<obs, file, hp>>
vars == <<base, mnt, status, owner, bare, workerUp, w, obs, file, hp, plan, breaks, faults>>

-----------------------------------------------------------------------------
(* States.                                                                 *)

Mounts == {"bound", "stale", "other", "plain", "absent"}
Keys == {"running", "pending"}
Running == {j \in Jobs : status[j] = "running"}
Queue == {j \in Jobs : status[j] = "pending"}
First(S) == CHOOSE j \in S : \A k \in S : j <= k
Owned(who) == {j \in Jobs : owner[j] = who}

Unseen == [j \in Jobs |-> [k \in Keys |-> 0]]
Idle == [pc |-> "idle", seen |-> Unseen, stale |-> {}, impacted |-> {}, none |-> FALSE,
         stopped |-> FALSE, ok |-> TRUE]
NoPlan == [mnt |-> [j \in Jobs |-> "bound"], running |-> {}]
WorkerIdle == [pc |-> "idle", job |-> 0]

HpPCs == {"idle", "acting", "unmounting", "remounting", "planning", "tiering",
          "recovering", "checking"}

TypeOK ==
    /\ base \in BOOLEAN
    /\ mnt \in [Jobs -> Mounts]
    /\ status \in [Jobs -> {"pending", "running", "ended"}]
    /\ owner \in [Jobs -> {"none", "worker", "unit"}]
    /\ bare \subseteq Jobs
    /\ workerUp \in BOOLEAN
    /\ w \in [pc : {"idle", "tiering"}, job : Jobs \cup {0}]
    /\ obs \in [Jobs -> [Keys -> 0..ConfirmRuns]]
    /\ file \in 0..MaxRecoveries
    /\ hp \in [pc : HpPCs, seen : [Jobs -> [Keys -> 0..ConfirmRuns]], stale : SUBSET Jobs, impacted : SUBSET Jobs,
               none : BOOLEAN, stopped : BOOLEAN, ok : BOOLEAN]
    /\ plan \in [{"worker", "hp"} -> [mnt : [Jobs -> Mounts], running : SUBSET Jobs]]
    /\ breaks \in 0..MaxBreaks
    /\ faults \in 0..MaxFaults

Init ==
    /\ base = TRUE
    /\ mnt \in [Jobs -> Mounts \ {"stale"}]
    /\ status = [j \in Jobs |-> "pending"]
    /\ owner = [j \in Jobs |-> "none"]
    /\ bare = {}
    /\ workerUp = TRUE
    /\ w = WorkerIdle
    /\ obs = Unseen
    /\ file = 0
    /\ hp = Idle
    /\ plan = [r \in {"worker", "hp"} |-> NoPlan]
    /\ breaks = 0
    /\ faults = 0

-----------------------------------------------------------------------------
(* The Storage Box.                                                        *)

MountBreaks(j) ==
    /\ mnt[j] = "bound" /\ breaks < MaxBreaks
    /\ mnt' = [mnt EXCEPT ![j] = "stale"]
    /\ breaks' = breaks + 1
    /\ UNCHANGED <<base, rows, workerUp, w, watchdog, plan, faults>>

BaseBreaks ==
    /\ base /\ breaks < MaxBreaks
    /\ base' = FALSE
    /\ mnt' = [j \in Jobs |-> IF mnt[j] = "bound" THEN "stale" ELSE mnt[j]]
    /\ breaks' = breaks + 1
    /\ UNCHANGED <<rows, workerUp, w, watchdog, plan, faults>>

-----------------------------------------------------------------------------
(* annual-output-tiering --apply: it plans for all annual jobs of the year *)
(* and then works through the plan.                                        *)

Planned == [mnt |-> mnt, running |-> Running]

\* --repair-stale-mounts unmounts a stale directory, that of a running job only
\* with --allow-repair-running-jobs.
Repairs(p, allow, j) == p.mnt[j] = "stale" /\ (j \in p.running => allow) /\ mnt[j] # "plain"
\* It mounts what is not mounted, and makes the directory if there is none.
BindsPlain(p, j) == p.mnt[j] \in {"plain", "absent"} /\ mnt[j] # "stale"

\* What it makes of a directory, given that the Storage Box is mounted.
Tiered(p, allow) == [j \in Jobs |-> IF Repairs(p, allow, j) \/ BindsPlain(p, j)
                                    THEN "bound" ELSE mnt[j]]
TierOk(p, allow) == \A j \in Jobs : p.mnt[j] \in {"stale", "plain", "absent"}
                                     => Repairs(p, allow, j) \/ BindsPlain(p, j)

\* An operator's --repair-unexpected-mounts, with the worker stopped: the mount is removed, and what
\* follows takes the directory for an unhealthy one and goes on to the next.
RepairUnexpected ==
    /\ base /\ ~workerUp
    /\ \E j \in Jobs : mnt[j] = "other" /\ status[j] # "running"
    /\ mnt' = [j \in Jobs |-> IF mnt[j] = "other" /\ status[j] # "running"
                              THEN "plain" ELSE mnt[j]]
    /\ UNCHANGED <<base, rows, workerUp, w, watchdog, plan, breaks, faults>>

-----------------------------------------------------------------------------
(* Crawls.                                                                 *)

Frees(S) == /\ owner' = [j \in Jobs |-> IF j \in S THEN "none" ELSE owner[j]]
            /\ bare' = bare \ S

WorkerFree == workerUp /\ w = WorkerIdle /\ Owned("worker") = {}

\* Without the job's lock, or with a row that is not runnable, there is no crawl.
\* From the check of the mount to the crawl is an instant: they are one step.
Startable(j) == owner[j] = "none" /\ status[j] = "pending"
Starts(j, who) == /\ owner' = [owner EXCEPT ![j] = who]
                  /\ status' = [status EXCEPT ![j] = "running"]
Crawls(j) ==
    IF Startable(j) THEN Starts(j, "worker") /\ UNCHANGED bare ELSE UNCHANGED rows

\* A crawl makes the directory that its job does not have, on the local disk.
Made(j) == IF mnt[j] = "absent" THEN [mnt EXCEPT ![j] = "plain"] ELSE mnt

\* _tier_annual_job_if_needed: what is mounted is fine; a stale directory raises.
WorkerPicks ==
    /\ WorkerFree /\ Queue # {}
    /\ LET j == First(Queue) IN
       /\ mnt[j] \in {"bound", "other", "plain"}
       /\ IF mnt[j] = "plain"
          THEN /\ base
               /\ w' = [pc |-> "tiering", job |-> j]
               /\ plan' = [plan EXCEPT !["worker"] = Planned]
               /\ UNCHANGED rows
          ELSE Crawls(j) /\ UNCHANGED <<w, plan>>
    /\ UNCHANGED <<base, mnt, workerUp, watchdog, breaks, faults>>

\* A job without a directory is not tiered: the worker crawls it as it is.
WorkerPicksNew ==
    /\ WorkerFree /\ Queue # {}
    /\ LET j == First(Queue) IN
       /\ mnt[j] = "absent" /\ Startable(j)
       /\ Starts(j, "worker")
       /\ bare' = bare \cup {j}
       /\ mnt' = Made(j)
    /\ UNCHANGED <<base, workerUp, w, plan, watchdog, breaks, faults>>

\* Mutant: the crawl starts whatever became of the tiering.
WorkerTiersUnchecked ==
    /\ w.pc = "tiering"
    /\ mnt' = IF base THEN Tiered(plan["worker"], FALSE) ELSE mnt
    /\ Crawls(w.job)
    /\ w' = WorkerIdle
    /\ plan' = [plan EXCEPT !["worker"] = NoPlan]
    /\ UNCHANGED <<base, workerUp, watchdog, breaks, faults>>

\* A tiering that fails, or leaves the job on the root device, raises.
WorkerTiers ==
    /\ w.pc = "tiering"
    /\ LET p == plan["worker"] IN
       IF base
       THEN /\ mnt' = Tiered(p, FALSE)
            /\ IF TierOk(p, FALSE) /\ mnt'[w.job] # "plain"
               THEN Crawls(w.job) ELSE UNCHANGED rows
       ELSE UNCHANGED <<mnt, rows>>
    /\ w' = WorkerIdle
    /\ plan' = [plan EXCEPT !["worker"] = NoPlan]
    /\ UNCHANGED <<base, workerUp, watchdog, breaks, faults>>

\* An operator stops the worker for maintenance.
WorkerStops ==
    /\ workerUp
    /\ workerUp' = FALSE
    /\ Frees(Owned("worker"))
    /\ w' = WorkerIdle
    /\ plan' = [plan EXCEPT !["worker"] = NoPlan]
    /\ UNCHANGED <<base, mnt, status, watchdog, breaks, faults>>

\* run-db-job does not look at the mounts.
UnitCrawls(j) ==
    /\ j \in Units
    /\ Startable(j) /\ Starts(j, "unit")
    /\ mnt' = Made(j)
    /\ UNCHANGED <<base, bare, workerUp, w, watchdog, plan, breaks, faults>>

CrawlEnds(j) ==
    /\ owner[j] # "none"
    /\ Frees({j})
    /\ \E s \in {"pending", "ended"} : status' = [status EXCEPT ![j] = s]
    /\ UNCHANGED <<base, mnt, workerUp, w, watchdog, plan, breaks, faults>>

\* An operator retries a job: the queue fills again.
Requeues(j) ==
    /\ status[j] = "ended"
    /\ status' = [status EXCEPT ![j] = "pending"]
    /\ UNCHANGED <<base, mnt, owner, bare, workerUp, w, watchdog, plan, breaks, faults>>

\* Mutant: rows that a killed worker left are not freed.
AutoStartsBlindly ==
    /\ ~workerUp /\ base
    /\ workerUp' = ((\A j \in Jobs : status[j] # "running")
                    /\ (\E j \in Jobs : status[j] = "pending"))
    /\ UNCHANGED <<base, mnt, rows, w, watchdog, plan, breaks, faults>>

\* worker-auto-start: with the worker down, rows without a crawl are freed, and
\* if that leaves none the worker is started for the pending ones.
AutoStarts ==
    /\ ~workerUp /\ base
    /\ status' = [j \in Jobs |-> IF status[j] = "running" /\ owner[j] = "none"
                                 THEN "pending" ELSE status[j]]
    /\ workerUp' = ((\A j \in Jobs : status'[j] # "running")
                    /\ (\E j \in Jobs : status'[j] = "pending"))
    /\ UNCHANGED <<base, mnt, owner, bare, w, watchdog, plan, breaks, faults>>

-----------------------------------------------------------------------------
(* A run of storage-hotpath-auto-recover.                                  *)

HpGoes(pc) == hp' = [hp EXCEPT !.pc = pc]
\* Mutant: the directories of waiting jobs are not probed.
SeenRunning(j) ==
    [k \in Keys |-> IF k # "running" \/ status[j] # "running" \/ mnt[j] # "stale" THEN 0
                    ELSE IF obs[j][k] < ConfirmRuns THEN obs[j][k] + 1 ELSE ConfirmRuns]
\* An observation is kept under the key "job:" of a running or "next_job:" of a pending
\* job, and dropped when its key is not seen again: a new status begins a new count.
Seen(j) ==
    [k \in Keys |-> IF status[j] # k \/ mnt[j] # "stale" THEN 0
                    ELSE IF obs[j][k] < ConfirmRuns THEN obs[j][k] + 1 ELSE ConfirmRuns]
Observed == [j \in Jobs |-> Seen(j)]
Confirmed == {j \in Jobs : \E k \in Keys : Seen(j)[k] = ConfirmRuns}

\* Mutant: one recovery too many.
CappedLate == file > MaxRecoveries
Capped == file >= MaxRecoveries

\* It probes the directories of running and of pending jobs.  What has been
\* stale for --confirm-runs runs is repaired, if the caps allow.
HpBegins ==
    /\ hp.pc = "idle"
    /\ IF Confirmed = {} \/ Capped
       THEN obs' = Observed /\ UNCHANGED hp
       ELSE /\ hp' = [Idle EXCEPT !.pc = "acting", !.seen = Observed, !.stale = Confirmed,
                        !.impacted = {j \in Running : mnt[j] = "stale"},
                        !.none = Running = {}]
            /\ UNCHANGED obs
    /\ UNCHANGED <<base, mnt, rows, workerUp, w, file, plan, breaks, faults>>

\* Everything it knows is written to its state file at the end, and only there.
HpFinishes ==
    /\ obs' = hp.seen
    /\ file' = file + 1
    /\ hp' = Idle

KillWorker ==
    /\ workerUp' = FALSE
    /\ Frees(Owned("worker"))
    /\ w' = WorkerIdle
    /\ plan' = [plan EXCEPT !["worker"] = NoPlan]

\* The worker is stopped when it crawls on a stale mount, and when nothing runs.
HpQuiesces ==
    /\ hp.pc = "acting"
    /\ IF workerUp /\ (hp.impacted # {} \/ hp.none)
       THEN KillWorker /\ hp' = [hp EXCEPT !.pc = "unmounting", !.none = FALSE, !.stopped = TRUE]
       ELSE /\ hp' = [hp EXCEPT !.pc = "unmounting", !.none = FALSE]
            /\ UNCHANGED <<owner, bare, workerUp, w, plan>>
    /\ UNCHANGED <<base, mnt, status, obs, file, breaks, faults>>

\* The run will not mount again what it unmounted below a crawl.
Leaves == bare' = bare \cup {j \in hp.stale \cap Owned("worker") : mnt[j] = "plain"}

\* umount, then umount -l: only a directory that is no mount any more resists.
HpUnmounts ==
    /\ hp.pc = "unmounting"
    /\ mnt' = [j \in Jobs |-> IF j \in hp.stale THEN "plain" ELSE mnt[j]]
    /\ hp' = [hp EXCEPT !.pc = "remounting", !.ok = \A j \in hp.stale : mnt[j] # "plain"]
    /\ UNCHANGED <<base, rows, workerUp, w, obs, file, plan, breaks, faults>>

\* An unreadable Storage Box is restarted; if that fails there is no tiering.
HpRemounts ==
    /\ hp.pc = "remounting"
    /\ \/ /\ base' = TRUE
          /\ HpGoes("planning")
          /\ UNCHANGED <<faults, bare>>
       \/ /\ ~base /\ faults < MaxFaults
          /\ faults' = faults + 1
          /\ hp' = [hp EXCEPT !.pc = "recovering", !.ok = FALSE]
          /\ Leaves
          /\ UNCHANGED base
    /\ UNCHANGED <<mnt, status, owner, workerUp, w, obs, file, plan, breaks>>

HpPlans ==
    /\ hp.pc = "planning"
    /\ plan' = [plan EXCEPT !["hp"] = Planned]
    /\ HpGoes(IF base THEN "tiering" ELSE "recovering")
    /\ IF base THEN UNCHANGED bare ELSE Leaves
    /\ UNCHANGED <<base, mnt, status, owner, workerUp, w, obs, file, breaks, faults>>

\* A tiering that fails is a warning only.
HpTiers ==
    /\ hp.pc = "tiering"
    /\ mnt' = IF base THEN Tiered(plan["hp"], hp.stopped) ELSE mnt
    /\ plan' = [plan EXCEPT !["hp"] = NoPlan]
    /\ HpGoes("recovering")
    /\ IF base THEN UNCHANGED bare ELSE Leaves
    /\ UNCHANGED <<base, status, owner, workerUp, w, obs, file, breaks, faults>>

\* recover-stale-jobs for the sources of the running jobs that were stale.
HpRecovers ==
    /\ hp.pc = "recovering"
    /\ status' = [j \in Jobs |-> IF j \in hp.impacted /\ status[j] = "running"
                                    /\ owner[j] = "none"
                                 THEN "pending" ELSE status[j]]
    /\ HpGoes("checking")
    /\ UNCHANGED <<base, mnt, owner, bare, workerUp, w, obs, file, plan, breaks, faults>>

\* The worker is started again only when every directory can be read, mounted
\* or not, and nothing critical failed.
HpChecks ==
    /\ hp.pc = "checking"
    /\ workerUp' = (workerUp \/ (hp.stopped /\ hp.ok /\ \A j \in hp.stale : mnt[j] # "stale"))
    /\ HpFinishes
    /\ UNCHANGED <<base, mnt, rows, w, plan, breaks, faults>>

\* systemctl stop fails (return 1), or a command runs into its timeout, which
\* raises: the state is saved in the first case and lost in the second.
HpStopFails ==
    /\ hp.pc = "acting" /\ workerUp /\ faults < MaxFaults
    /\ faults' = faults + 1
    /\ HpFinishes
    /\ UNCHANGED <<base, mnt, rows, workerUp, w, plan, breaks>>

HpDies ==
    /\ hp.pc # "idle" /\ faults < MaxFaults
    /\ faults' = faults + 1
    /\ Leaves
    /\ hp' = Idle
    /\ plan' = [plan EXCEPT !["hp"] = NoPlan]
    /\ UNCHANGED <<base, mnt, status, owner, workerUp, w, obs, file, breaks>>

\* The recoveries in the state file are a day old.
DayEnds ==
    /\ hp.pc = "idle" /\ file > 0
    /\ file' = 0
    /\ UNCHANGED <<base, mnt, rows, workerUp, w, obs, hp, plan, breaks, faults>>

-----------------------------------------------------------------------------
HpSteps == HpBegins \/ HpQuiesces \/ HpUnmounts \/ HpRemounts \/ HpPlans \/ HpTiers
           \/ HpRecovers \/ HpChecks

Next ==
    \/ \E j \in Jobs : \/ MountBreaks(j) \/ UnitCrawls(j) \/ CrawlEnds(j) \/ Requeues(j)
    \/ BaseBreaks \/ RepairUnexpected \/ WorkerStops
    \/ WorkerPicks \/ WorkerPicksNew \/ WorkerTiers \/ AutoStarts
    \/ HpSteps \/ HpStopFails \/ HpDies \/ DayEnds

Fairness ==
    /\ WF_vars(HpSteps) /\ WF_vars(DayEnds) /\ WF_vars(AutoStarts)
    /\ WF_vars(WorkerTiers)

Spec == Init /\ [][Next]_vars
LiveSpec == Spec /\ Fairness

-----------------------------------------------------------------------------
(* Properties.                                                             *)

\* The directory in which the worker crawls is mounted, so that the crawl does not fill
\* the local disk, nor a later mount hide what it wrote (worker/main.py:182-215), with two
\* exceptions.  A job that had no directory is crawled without one being mounted
\* (worker/main.py:146-148).  And a run of the watchdog may unmount a directory below a
\* crawl that began after its probe: until that run has mounted it again, or for the rest
\* of the crawl if the run died or found no Storage Box.
WorkerCrawlsMounted ==
    \A j \in Owned("worker") :
        mnt[j] = "plain" => \/ j \in bare
                            \/ j \in hp.stale /\ hp.pc \in {"remounting", "planning", "tiering"}

\* A stale directory is repaired in the end, if its job keeps waiting or keeps running:
\* between the two the observations start anew, so that a job that a unit starts and
\* that fails again and again may never be confirmed.
Stays(j) == <>[](status[j] = "pending") \/ <>[](status[j] = "running")
StaleIsRepaired == \A j \in Jobs : Stays(j) => (mnt[j] = "stale" ~> mnt[j] # "stale")

\* A worker that the repair stopped, or that a failed repair left stopped, is
\* back in the end, unless a unit crawls or nothing is pending.
WorkerReturns == (~workerUp /\ Queue # {}) ~> (workerUp \/ Queue = {} \/ Owned("unit") # {} \/ ~base)

=============================================================================
