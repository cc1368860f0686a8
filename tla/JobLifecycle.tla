---------------------------- MODULE JobLifecycle ----------------------------
(***************************************************************************)
(* The life of an archive job: its row in archive_jobs, the advisory flock *)
(* that guards its crawl, the worker loop (ha_backend/worker/main.py), the *)
(* crawl runner (run_persistent_job in ha_backend/jobs.py), the status     *)
(* protocol of index_job, and the operator commands of ha_backend/cli.py   *)
(* that change a row.                                                      *)
(*                                                                         *)
(* Every process works on one job at a time.  A database session is two    *)
(* steps, the load of the row and the commit: sessions lock no row and the *)
(* ORM writes only the columns whose value it changed, so whatever another *)
(* process commits between the two is partly overwritten (see Flush).      *)
(*                                                                         *)
(* Jobs are numbers, in the order the queue holds them (queued_at, then    *)
(* created_at).  Durations are abstract: age says how a running row's      *)
(* started_at compares with the cutoff of recover-stale-jobs, cooling that *)
(* updated_at lies within the worker's infra_error cooldown.               *)
(***************************************************************************)
EXTENDS Integers

CONSTANTS
    Jobs,            \* the rows of archive_jobs
    Workers,         \* worker processes
    Operators,       \* processes of the ha-backend command line
    NoProc,          \* the holder of a free lock
    Commands,        \* the commands the operators may run
    MaxCrawlRetries, \* worker/main.py MAX_CRAWL_RETRIES
    MaxInfraRetries, \* jobs.py MAX_INFRA_ERROR_RETRIES
    NewCounts,       \* values of reset-retry-count --new-count
    Annual,          \* jobs that the worker tiers before it crawls them
    MaxFaults        \* bound: process deaths and failed commits in a behaviour

AllCommands == {"run", "index", "retry", "reset", "recover", "quarantine"}

Procs == Workers \cup Operators

ASSUME JobsAssumption == Jobs \subseteq Nat /\ Jobs # {} /\ Annual \subseteq Jobs
ASSUME ProcsAssumption == Workers \cap Operators = {} /\ NoProc \notin Procs
ASSUME CommandsAssumption == Commands \subseteq AllCommands
ASSUME BudgetAssumption == /\ MaxCrawlRetries \in Nat
                           /\ MaxInfraRetries \in Nat
                           /\ NewCounts \subseteq Nat
                           /\ MaxFaults \in Nat

VARIABLES
    row,      \* the committed rows
    lock,     \* the holder of each job's flock
    pc,       \* where each process is
    tgt,      \* the job each process works on
    seen,     \* the row as the process's open session has loaded it
    out,      \* how the process's crawl ended
    orphan,   \* jobs whose archive_tool outlived the process that started it
    age,      \* started_at: never set, after the cutoff, or before it
    cooling,  \* jobs last written less than the infra_error cooldown ago
    faults,   \* faults so far
    seedless, \* jobs whose config has no seeds; no command changes that
    untiered, \* annual jobs whose tiering would raise now
    crawled,  \* history: jobs for which some crawl exited with status 0
    failures  \* history: failed crawls since an operator last touched the job

jobVars == <<row, lock, pc, tgt, seen, out, orphan, age, cooling, faults,
             crawled, failures>>
obstacles == <<seedless, untiered>>
vars == <<jobVars, obstacles>>
db == <<row, cooling>>
history == <<crawled, failures>>

-----------------------------------------------------------------------------
(* The row and the states of a process.                                    *)

Statuses == {"queued", "retryable", "running", "completed", "failed",
             "indexed", "index_failed"}
Runnable == {"queued", "retryable"}
Indexable == {"completed", "index_failed", "indexed"}
CrawlerStatuses == {"none", "success", "failed", "infra_error",
                    "infra_error_config"}

Row == [status : Statuses, crawler : CrawlerStatuses, retry : Nat]
NewRow == [status |-> "queued", crawler |-> "none", retry |-> 0]

Outcomes == {"ok", "failed", "infra", "config"}

\* A process in one of these states holds the flock of its job.
Holding == {"locked", "starting", "crawling", "ended", "finishing",
            "releasing", "recoverProbe", "resetProbe"}
\* A session is open, its row loaded and its commit to come.
InSession == {"starting", "finishing", "posting", "syncing", "indexing",
              "retrying", "recoverLoaded", "recoverProbe", "recovering",
              "resetLoaded", "resetProbe", "resetting", "quarantining"}
PCs == Holding \cup InSession \cup
       {"idle", "picked", "sync", "post", "index", "verifying"}

Holds(p, j) == pc[p] \in Holding /\ tgt[p] = j

\* The worker, or run-db-job, has a crawl of j in progress: from the commit
\* that marks the row running to the commit that records the outcome.
Runs(p, j) == pc[p] \in {"crawling", "ended", "finishing"} /\ tgt[p] = j

TypeOK ==
    /\ row \in [Jobs -> Row]
    /\ lock \in [Jobs -> Procs \cup {NoProc}]
    /\ pc \in [Procs -> PCs]
    /\ tgt \in [Procs -> Jobs]
    /\ seen \in [Procs -> Row]
    /\ out \in [Procs -> Outcomes]
    /\ orphan \subseteq Jobs
    /\ age \in [Jobs -> {"never", "recent", "old"}]
    /\ cooling \subseteq Jobs
    /\ faults \in Nat
    /\ seedless \subseteq Jobs /\ untiered \subseteq Annual
    /\ crawled \subseteq Jobs
    /\ failures \in [Jobs -> Nat]

-----------------------------------------------------------------------------
(* Sessions.                                                               *)

\* What a commit leaves in the row: the columns the session changed, and of
\* the others what is there by now.
Flush(loaded, new, cur) ==
    [status  |-> IF new.status # loaded.status THEN new.status ELSE cur.status,
     crawler |-> IF new.crawler # loaded.crawler THEN new.crawler ELSE cur.crawler,
     retry   |-> IF new.retry # loaded.retry THEN new.retry ELSE cur.retry]

\* The session of p writes its row as new.  A changed column sets updated_at;
\* the cooldown is only ever read of rows whose crawler status is infra_error.
Commit(p, new) ==
    LET j == tgt[p]
        saved == Flush(seen[p], new, row[j])
    IN  /\ row' = [row EXCEPT ![j] = saved]
        /\ cooling' = IF saved.crawler # "infra_error" THEN cooling \ {j}
                      ELSE IF new # seen[p] THEN cooling \cup {j}
                      ELSE cooling

AnyJob == CHOOSE j \in Jobs : TRUE

Goto(p, l) == pc' = [pc EXCEPT ![p] = l]
Aim(p, j) == tgt' = [tgt EXCEPT ![p] = j]
Load(p, j) == seen' = [seen EXCEPT ![p] = row[j]]
Close(p) == seen' = [seen EXCEPT ![p] = NewRow]
\* Mutant of Take: the flock is taken without LOCK_EX excluding its holder.
TakeShared(p) == lock' = [lock EXCEPT ![tgt[p]] = p]
Take(p) == lock[tgt[p]] = NoProc /\ lock' = [lock EXCEPT ![tgt[p]] = p]
Free(p) == lock' = [lock EXCEPT ![tgt[p]] = NoProc]

\* The process is done with its job: no later step reads its local variables.
Stop(p) == /\ Goto(p, "idle")
           /\ Aim(p, AnyJob)
           /\ Close(p)
           /\ out' = [out EXCEPT ![p] = "ok"]

Init ==
    /\ row = [j \in Jobs |-> NewRow]
    /\ lock = [j \in Jobs |-> NoProc]
    /\ pc = [p \in Procs |-> "idle"]
    /\ tgt = [p \in Procs |-> AnyJob]
    /\ seen = [p \in Procs |-> NewRow]
    /\ out = [p \in Procs |-> "ok"]
    /\ orphan = {}
    /\ age = [j \in Jobs |-> "never"]
    /\ cooling = {}
    /\ faults = 0
    /\ seedless \in SUBSET Jobs /\ untiered = {}
    /\ crawled = {}
    /\ failures = [j \in Jobs |-> 0]

-----------------------------------------------------------------------------
(* The worker's poll.                                                      *)

\* Mutant of Selectable: the queue has no infra_error cooldown.
SelectableAtOnce(j) == row[j].status \in Runnable

Selectable(j) == /\ row[j].status \in Runnable
                 /\ row[j].crawler = "infra_error" => j \notin cooling

\* One poll picks the first selectable row of the queue.
Pick(w) ==
    /\ w \in Workers
    /\ pc[w] = "idle"
    /\ \E j \in Jobs :
          /\ Selectable(j)
          /\ \A k \in Jobs : Selectable(k) => j <= k
          /\ Aim(w, j)
    /\ Goto(w, "picked")
    /\ UNCHANGED <<db, lock, seen, out, orphan, age, faults, history>>

\* Auto-tiering of an annual job raises: the iteration ends, the row untouched and
\* not cooling, so that the next poll picks the same job again.
TierFails(w) ==
    /\ w \in Workers
    /\ pc[w] = "picked"
    /\ tgt[w] \in untiered
    /\ Stop(w)
    /\ UNCHANGED <<db, lock, orphan, age, faults, history>>

\* The mount below an annual job's directory goes stale, or is repaired.
TieringTurns(j) ==
    /\ j \in Annual
    /\ untiered' = IF j \in untiered THEN untiered \ {j} ELSE untiered \cup {j}
    /\ UNCHANGED <<jobVars, seedless>>

-----------------------------------------------------------------------------
(* run_persistent_job.                                                     *)

\* run-db-job tiers nothing.
Tiered(p) == p \in Workers => tgt[p] \notin untiered

TakeLock(p) ==
    /\ pc[p] = "picked" /\ Tiered(p)
    /\ Take(p)
    /\ Goto(p, "locked")
    /\ UNCHANGED <<db, tgt, seen, out, orphan, age, faults, history>>

\* JobAlreadyRunningError: the worker goes on to sync the row, run-db-job exits.
LockBusy(p) ==
    /\ pc[p] = "picked" /\ Tiered(p)
    /\ lock[tgt[p]] # NoProc
    /\ IF p \in Workers
       THEN Goto(p, "sync") /\ UNCHANGED <<tgt, seen, out>>
       ELSE Stop(p)
    /\ UNCHANGED <<db, lock, orphan, age, faults, history>>

LoadToStart(p) ==
    /\ pc[p] = "locked"
    /\ row[tgt[p]].status \in Runnable /\ tgt[p] \notin seedless
    /\ Load(p, tgt[p])
    /\ Goto(p, "starting")
    /\ UNCHANGED <<db, lock, tgt, out, orphan, age, faults, history>>

\* It raises, the row untouched: another status, or no seeds.
NotRunnable(p) ==
    /\ pc[p] = "locked"
    /\ row[tgt[p]].status \notin Runnable \/ tgt[p] \in seedless
    /\ Free(p)
    /\ Stop(p)
    /\ UNCHANGED <<db, orphan, age, faults, history>>

CommitStart(p) ==
    /\ pc[p] = "starting"
    /\ Commit(p, [seen[p] EXCEPT !.status = "running", !.crawler = "none"])
    /\ age' = [age EXCEPT ![tgt[p]] = "recent"]
    /\ Close(p)
    /\ Goto(p, "crawling")
    /\ UNCHANGED <<lock, tgt, out, orphan, faults, history>>

\* archive_tool exits, or could not be run; out is what the runner makes of it.
CrawlEnds(p, outcome) ==
    /\ pc[p] = "crawling"
    /\ out' = [out EXCEPT ![p] = outcome]
    /\ crawled' = IF outcome = "ok" THEN crawled \cup {tgt[p]} ELSE crawled
    /\ Goto(p, "ended")
    /\ UNCHANGED <<db, lock, tgt, seen, orphan, age, faults, failures>>

LoadToFinish(p) ==
    /\ pc[p] = "ended"
    /\ Load(p, tgt[p])
    /\ Goto(p, "finishing")
    /\ UNCHANGED <<db, lock, tgt, out, orphan, age, faults, history>>

\* How the runner classifies the outcome.
Verdict(s, outcome) ==
    CASE outcome = "ok"     -> [s EXCEPT !.status = "completed", !.crawler = "success"]
      [] outcome = "failed" -> [s EXCEPT !.status = "failed", !.crawler = "failed"]
      [] outcome = "config" -> [s EXCEPT !.status = "failed", !.crawler = "infra_error_config"]
      [] outcome = "infra"  -> [s EXCEPT !.status = IF s.retry < MaxInfraRetries
                                                    THEN "retryable" ELSE "failed",
                                         !.crawler = "infra_error"]

CommitFinish(p) ==
    /\ pc[p] = "finishing"
    /\ Commit(p, Verdict(seen[p], out[p]))
    /\ failures' = IF out[p] = "failed"
                   THEN [failures EXCEPT ![tgt[p]] = @ + 1] ELSE failures
    /\ Close(p)
    /\ Goto(p, "releasing")
    /\ UNCHANGED <<lock, tgt, out, orphan, age, faults, crawled>>

\* The flock goes only after the outcome is committed.
Release(p) ==
    /\ pc[p] = "releasing"
    /\ Free(p)
    /\ IF p \in Workers
       THEN Goto(p, "post") /\ UNCHANGED <<tgt, seen, out>>
       ELSE Stop(p)
    /\ UNCHANGED <<db, orphan, age, faults, history>>

-----------------------------------------------------------------------------
(* The worker after run_persistent_job.                                    *)

LoadToSync(w) ==
    /\ pc[w] = "sync"
    /\ Load(w, tgt[w])
    /\ Goto(w, "syncing")
    /\ UNCHANGED <<db, lock, tgt, out, orphan, age, faults, history>>

\* The lock was held, so the worker believes the job is running.
CommitSync(w) ==
    /\ pc[w] = "syncing"
    /\ Commit(w, [seen[w] EXCEPT !.status = "running"])
    /\ age' = [age EXCEPT ![tgt[w]] = IF @ = "never" THEN "recent" ELSE @]
    /\ Stop(w)
    /\ UNCHANGED <<lock, orphan, faults, history>>

LoadToHandle(w) ==
    /\ pc[w] = "post"
    /\ Load(w, tgt[w])
    /\ Goto(w, "posting")
    /\ UNCHANGED <<db, lock, tgt, out, orphan, age, faults, history>>

\* What the worker makes of the outcome the runner recorded.
InfraErrors == {"infra_error", "infra_error_config"}

\* Mutant of Retries: a failed index run is taken for a failed crawl.
RetriesIndexFailed(s, outcome) ==
    /\ s.crawler \notin InfraErrors
    /\ outcome # "ok" \/ s.status \in {"failed", "index_failed"}

Retries(s, outcome) ==
    /\ s.crawler \notin InfraErrors
    /\ outcome # "ok" \/ s.status = "failed"

\* Mutants of Handled: one retry too many, a configuration error retried like an
\* infrastructure error, and a budget that is counted down.
HandledOffByOne(s, outcome) ==
    IF s.crawler = "infra_error" THEN [s EXCEPT !.status = "retryable"]
    ELSE IF Retries(s, outcome) /\ s.retry <= MaxCrawlRetries
    THEN [s EXCEPT !.status = "retryable", !.retry = @ + 1]
    ELSE s

HandledConfigToo(s, outcome) ==
    IF s.crawler \in InfraErrors THEN [s EXCEPT !.status = "retryable"]
    ELSE IF Retries(s, outcome) /\ s.retry < MaxCrawlRetries
    THEN [s EXCEPT !.status = "retryable", !.retry = @ + 1]
    ELSE s

HandledCountsDown(s, outcome) ==
    IF s.crawler = "infra_error" THEN [s EXCEPT !.status = "retryable"]
    ELSE IF Retries(s, outcome) /\ s.retry < MaxCrawlRetries
    THEN [s EXCEPT !.status = "retryable", !.retry = @ - 1]
    ELSE s

Handled(s, outcome) ==
    IF s.crawler = "infra_error" THEN [s EXCEPT !.status = "retryable"]
    ELSE IF Retries(s, outcome) /\ s.retry < MaxCrawlRetries
    THEN [s EXCEPT !.status = "retryable", !.retry = @ + 1]
    ELSE s

CommitHandled(w) ==
    /\ pc[w] = "posting"
    /\ Commit(w, Handled(seen[w], out[w]))
    /\ IF seen[w].crawler \in InfraErrors \/ Retries(seen[w], out[w])
       THEN Stop(w)
       ELSE /\ Goto(w, "index")
            /\ Close(w)
            /\ UNCHANGED <<tgt, out>>
    /\ UNCHANGED <<lock, orphan, age, faults, history>>

-----------------------------------------------------------------------------
(* index_job, called by the worker without the lock and by index-job.      *)

\* Mutant of LoadToIndex: the status of the row is not checked.
LoadToIndexAny(p) ==
    /\ pc[p] = "index"
    /\ Load(p, tgt[p])
    /\ Goto(p, "indexing")
    /\ UNCHANGED <<db, lock, tgt, out, orphan, age, faults, history>>

LoadToIndex(p) ==
    /\ pc[p] = "index"
    /\ row[tgt[p]].status \in Indexable
    /\ Load(p, tgt[p])
    /\ Goto(p, "indexing")
    /\ UNCHANGED <<db, lock, tgt, out, orphan, age, faults, history>>

NotIndexable(p) ==
    /\ pc[p] = "index"
    /\ row[tgt[p]].status \notin Indexable
    /\ Stop(p)
    /\ UNCHANGED <<db, lock, orphan, age, faults, history>>

CommitIndex(p, status) ==
    /\ pc[p] = "indexing"
    /\ Commit(p, [seen[p] EXCEPT !.status = status])
    /\ Stop(p)
    /\ UNCHANGED <<lock, orphan, age, faults, history>>

-----------------------------------------------------------------------------
(* The operator commands.                                                  *)

Begins(o, command) == /\ o \in Operators
                      /\ command \in Commands
                      /\ pc[o] = "idle"

\* run-db-job and index-job.
RunDbJob(o, j) ==
    /\ Begins(o, "run")
    /\ Aim(o, j)
    /\ Goto(o, "picked")
    /\ UNCHANGED <<db, lock, seen, out, orphan, age, faults, history>>

IndexJob(o, j) ==
    /\ Begins(o, "index")
    /\ Aim(o, j)
    /\ Goto(o, "index")
    /\ UNCHANGED <<db, lock, seen, out, orphan, age, faults, history>>

\* A command that opens a session on row j and goes to l.
Opens(o, j, l) ==
    /\ Aim(o, j)
    /\ Load(o, j)
    /\ Goto(o, l)
    /\ UNCHANGED <<db, lock, out, orphan, age, faults, history>>

\* An operator's commit: whatever the job failed at before is forgiven.
Commits(o, new) ==
    /\ Commit(o, new)
    /\ failures' = [failures EXCEPT ![tgt[o]] = 0]
    /\ Stop(o)
    /\ UNCHANGED <<lock, orphan, age, faults, crawled>>

LoadToRetry(o, j) ==
    /\ Begins(o, "retry")
    /\ row[j].status \in {"failed", "index_failed"}
    /\ Opens(o, j, "retrying")

CommitRetry(o) ==
    /\ pc[o] = "retrying"
    /\ Commits(o, [seen[o] EXCEPT !.status = IF @ = "failed" THEN "retryable"
                                             ELSE "completed"])

LoadToReset(o, j) ==
    /\ Begins(o, "reset")
    /\ row[j].status \in {"queued", "retryable", "failed"}
    /\ Opens(o, j, "resetLoaded")

\* With --include-missing-started-at, without which age "never" is passed over.
LoadToRecover(o, j) ==
    /\ Begins(o, "recover")
    /\ row[j].status = "running"
    /\ age[j] # "recent"
    /\ Opens(o, j, "recoverLoaded")

\* Both commands probe the lock by taking it for a moment, the session open.
ProbeTakes(o) ==
    /\ pc[o] \in {"resetLoaded", "recoverLoaded"}
    /\ Take(o)
    /\ Goto(o, IF pc[o] = "resetLoaded" THEN "resetProbe" ELSE "recoverProbe")
    /\ UNCHANGED <<db, tgt, seen, out, orphan, age, faults, history>>

ProbeBusy(o) ==
    /\ pc[o] \in {"resetLoaded", "recoverLoaded"}
    /\ lock[tgt[o]] # NoProc
    /\ Stop(o)
    /\ UNCHANGED <<db, lock, orphan, age, faults, history>>

ProbeEnds(o) ==
    /\ pc[o] \in {"resetProbe", "recoverProbe"}
    /\ Free(o)
    /\ Goto(o, IF pc[o] = "resetProbe" THEN "resetting" ELSE "recovering")
    /\ UNCHANGED <<db, tgt, seen, out, orphan, age, faults, history>>

\* Mutant of CommitReset: the reset also asks for another crawl.
CommitResetRequeues(o, count) ==
    /\ pc[o] = "resetting"
    /\ Commits(o, [seen[o] EXCEPT !.status = "retryable", !.retry = count])

CommitReset(o, count) ==
    /\ pc[o] = "resetting"
    /\ Commits(o, [seen[o] EXCEPT !.retry = count])

CommitRecover(o) ==
    /\ pc[o] = "recovering"
    /\ Commits(o, [seen[o] EXCEPT !.status = "retryable"])

\* verify-warcs --apply-quarantine reads the status once, before it verifies;
\* whether the job has snapshots (which refuses it too) is not modelled here.
Verify(o, j) ==
    /\ Begins(o, "quarantine")
    /\ row[j].status # "running"
    /\ Aim(o, j)
    /\ Goto(o, "verifying")
    /\ UNCHANGED <<db, lock, seen, out, orphan, age, faults, history>>

\* Nothing to quarantine, or the WARCs cannot be listed.
VerifyEnds(o) ==
    /\ pc[o] = "verifying"
    /\ Stop(o)
    /\ UNCHANGED <<db, lock, orphan, age, faults, history>>

LoadToQuarantine(o) ==
    /\ pc[o] = "verifying"
    /\ Load(o, tgt[o])
    /\ Goto(o, "quarantining")
    /\ UNCHANGED <<db, lock, tgt, out, orphan, age, faults, history>>

CommitQuarantine(o) ==
    /\ pc[o] = "quarantining"
    /\ Commits(o, [seen[o] EXCEPT !.status = "retryable", !.retry = 0])

-----------------------------------------------------------------------------
(* Time and faults.                                                        *)

Age(j) ==
    /\ age[j] = "recent"
    /\ age' = [age EXCEPT ![j] = "old"]
    /\ UNCHANGED <<db, lock, pc, tgt, seen, out, orphan, faults, history>>

\* The job at the head of the queue, if its start raises.
Obstructed(j) == j \in seedless \cup untiered
HeadRaises == \E j \in Jobs : /\ Selectable(j) /\ Obstructed(j)
                              /\ \A k \in Jobs : Selectable(k) => j <= k

\* Ten minutes pass while every worker crawls, indexes or sleeps, for want of work or
\* because the iteration before raised: all its other steps follow one another within
\* seconds.
Cool(j) ==
    /\ j \in cooling
    /\ \A w \in Workers : \/ pc[w] \in {"crawling", "indexing"}
                          \/ pc[w] = "idle" /\ \A k \in Jobs : ~Selectable(k)
                          \/ pc[w] = "idle" /\ HeadRaises
    /\ cooling' = cooling \ {j}
    /\ UNCHANGED <<row, lock, pc, tgt, seen, out, orphan, age, faults, history>>

\* The process is killed, or a database call of it raises: the open session
\* is rolled back and the flock released.  The worker loop catches what is
\* raised, or is restarted; only a kill ends a running crawl, and may leave
\* archive_tool and its container behind.
Dies(p) ==
    /\ pc[p] # "idle"
    /\ faults < MaxFaults
    /\ faults' = faults + 1
    /\ IF pc[p] \in Holding THEN Free(p) ELSE UNCHANGED lock
    /\ orphan' \in IF pc[p] = "crawling" THEN {orphan, orphan \cup {tgt[p]}}
                   ELSE {orphan}
    /\ Stop(p)
    /\ UNCHANGED <<db, age, history>>

OrphanEnds(j) ==
    /\ j \in orphan
    /\ orphan' = orphan \ {j}
    /\ UNCHANGED <<db, lock, pc, tgt, seen, out, age, faults, history>>

-----------------------------------------------------------------------------
(* The specification.                                                      *)

RunStep(p) ==
    \/ TakeLock(p) \/ LockBusy(p) \/ LoadToStart(p) \/ NotRunnable(p)
    \/ CommitStart(p)
    \/ \E outcome \in Outcomes : CrawlEnds(p, outcome)
    \/ LoadToFinish(p) \/ CommitFinish(p) \/ Release(p)

IndexStep(p) ==
    \/ LoadToIndex(p) \/ NotIndexable(p)
    \/ \E status \in {"indexed", "index_failed"} : CommitIndex(p, status)

HandleStep(w) == \/ LoadToSync(w) \/ CommitSync(w)
                 \/ LoadToHandle(w) \/ CommitHandled(w)

CommandStep(o) ==
    \/ CommitRetry(o)
    \/ ProbeTakes(o) \/ ProbeBusy(o) \/ ProbeEnds(o)
    \/ \E count \in NewCounts : CommitReset(o, count)
    \/ CommitRecover(o)
    \/ VerifyEnds(o) \/ LoadToQuarantine(o) \/ CommitQuarantine(o)

Command(o, j) ==
    \/ RunDbJob(o, j) \/ IndexJob(o, j)
    \/ LoadToRetry(o, j) \/ LoadToReset(o, j) \/ LoadToRecover(o, j)
    \/ Verify(o, j)

\* What a process does next once it has a job.
Continue(p) == RunStep(p) \/ IndexStep(p) \/ HandleStep(p) \/ CommandStep(p)

Step ==
    \/ \E w \in Workers : Pick(w) \/ TierFails(w)
    \/ \E o \in Operators, j \in Jobs : Command(o, j)
    \/ \E p \in Procs : Continue(p) \/ Dies(p)
    \/ \E j \in Jobs : Age(j) \/ Cool(j) \/ OrphanEnds(j)

Next == (Step /\ UNCHANGED obstacles) \/ \E j \in Jobs : TieringTurns(j)

Spec == Init /\ [][Next]_vars

\* The worker polls forever (the disk has room: main.py:263), every started command goes
\* on, a crawl ends, and the sleeps between polls add up to the cooldown.  No operator
\* has to start a command, and nothing repairs a mount.
Fairness ==
    /\ \A w \in Workers : WF_jobVars(Pick(w) \/ TierFails(w))
    /\ \A p \in Procs : WF_jobVars(Continue(p))
    /\ \A j \in Jobs : SF_jobVars(Cool(j))

LiveSpec == Spec /\ Fairness

-----------------------------------------------------------------------------
(* Properties.                                                             *)

\* The flock is held by the process whose state says so, and by no other:
\* every path through run_persistent_job and the probes of the commands takes
\* and gives it back once.
LockInv == \A p \in Procs, j \in Jobs : lock[j] = p <=> Holds(p, j)

\* No two processes run archive_tool on the output directory of one job.
CrawlExclusion ==
    \A p, q \in Procs : \A j \in Jobs : Runs(p, j) /\ Runs(q, j) => p = q

\* A row says completed, indexed or index_failed only if some crawl of the job
\* ended with status 0, however the sessions of workers and operators overlap.
IndexedWasCrawled ==
    \A j \in Jobs : row[j].status \in Indexable => j \in crawled

\* Between two interventions of an operator a job is crawled to failure at
\* most once more than MAX_CRAWL_RETRIES.
FailuresBounded == \A j \in Jobs : failures[j] <= MaxCrawlRetries + 1

\* While a process has the crawl of a job in hand the row says running, so no
\* one is offered the job.
CrawlIsMarked ==
    \A p \in Procs, j \in Jobs : Runs(p, j) => row[j].status = "running"

\* The row says running only while a process has the crawl in hand: no job
\* waits for a runner that is gone.
RunningHasRunner ==
    \A j \in Jobs : row[j].status = "running" => \E p \in Procs : Runs(p, j)

\* The queue as JobContract sees it.  A job is in the hands of the worker until
\* the worker has handled a crawl that did not succeed, whatever the row says
\* meanwhile.
InHand(j) == \/ row[j].status = "running"
             \/ \E w \in Workers : /\ tgt[w] = j /\ out[w] # "ok"
                                   /\ pc[w] \in {"releasing", "post", "posting"}

StageOf(j) ==
    IF InHand(j) THEN "crawling"
    ELSE CASE row[j].status \in Runnable      -> "waiting"
           [] row[j].status = "completed"    -> "crawled"
           [] row[j].status = "failed"       -> IF row[j].crawler = "infra_error_config"
                                                THEN "misconfigured" ELSE "given_up"
           [] row[j].status = "indexed"      -> "indexed"
           [] row[j].status = "index_failed" -> "index_failed"

Contract == INSTANCE JobContract
                WITH Budget <- MaxCrawlRetries,
                     stage <- [j \in Jobs |-> StageOf(j)],
                     spent <- [j \in Jobs |-> row[j].retry]

\* One worker and any number of index-job keep that contract: no interleaving of
\* the runner's, the worker's and the indexer's sessions crawls a job twice for
\* one retry, gives it up too early, or takes a success back.
KeepsContract == Contract!Spec

\* Neither j nor an older job is one whose start raises, from some time on: such a
\* job has no cooldown, and for as long as it is at the head of the queue no younger
\* one is picked (worker/main.py:282, jobs.py:509).
Unobstructed(j) == <>[](\A k \in Jobs : k <= j => ~Obstructed(k))

\* Every queued job is crawled some day, however crawls end: the cooldown lets the queue
\* move past a job whose storage is down.  The code promises this only to a job for
\* which, and for every older one, tiering works and the config has seeds.
QueuedIsTried ==
    \A j \in Jobs :
        Unobstructed(j) => (row[j].status = "queued" ~> row[j].status = "running")

\* If storage recovers, the worker brings every job that nothing obstructs to an end:
\* indexed, or failed for good.
StorageRecovers == \A j \in Jobs : <>[](row[j].crawler # "infra_error")
Settles(j) == <>[](row[j].status \in {"indexed", "index_failed", "failed"})
JobsSettle == StorageRecovers => \A j \in Jobs : Unobstructed(j) => Settles(j)

\* The comment of jobs.py: the cap keeps infra_error from being retried for ever.
InfraRetriesEnd == \A j \in Jobs : <>[](row[j].status # "running")

\* The manual of retry-job: status completed marks the job for re-indexing.
CompletedIsIndexed ==
    \A j \in Jobs :
        row[j].status = "completed" ~> row[j].status \in {"indexed", "index_failed"}

=============================================================================
