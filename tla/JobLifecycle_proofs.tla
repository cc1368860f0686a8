------------------------ MODULE JobLifecycle_proofs -------------------------
(***************************************************************************)
(* Proofs about JobLifecycle, for every set of jobs, of workers and of     *)
(* operators, every set of commands and every retry budget: its            *)
(* invariants; that it implements JobContract as long as one worker runs,  *)
(* no operator interferes with a row by hand and no process dies; and what *)
(* is left of that next to resets and deaths.                              *)
(***************************************************************************)
EXTENDS JobLifecycle, TLAPS

\* AnyJob is a job, because there is one.
LEMMA AnyJobIsJob == AnyJob \in Jobs
  BY JobsAssumption DEF AnyJob

\* A commit leaves a row, and in its status column either what the session
\* wrote or what was there.
LEMMA FlushedRow ==
  ASSUME NEW loaded \in Row, NEW new \in Row, NEW cur \in Row
  PROVE  /\ Flush(loaded, new, cur) \in Row
         /\ \/ Flush(loaded, new, cur).status = cur.status
            \/ /\ Flush(loaded, new, cur).status = new.status
               /\ new.status # loaded.status
  BY DEF Flush, Row

\* What a commit does to the variables it changes.
LEMMA CommitFacts ==
  ASSUME TypeOK, NEW p \in Procs, NEW new \in Row, Commit(p, new)
  PROVE  /\ row' \in [Jobs -> Row]
         /\ cooling' \subseteq Jobs
         /\ \A j \in Jobs :
               \/ row'[j].status = row[j].status
               \/ /\ j = tgt[p]
                  /\ row'[j].status = new.status
                  /\ new.status # seen[p].status
  <1> DEFINE j == tgt[p]
             saved == Flush(seen[p], new, row[j])
  <1>1. j \in Jobs /\ seen[p] \in Row /\ row[j] \in Row
    BY DEF TypeOK
  <1>2. /\ saved \in Row
        /\ saved.status = row[j].status
           \/ (saved.status = new.status /\ new.status # seen[p].status)
    BY <1>1, FlushedRow
  <1>3. row' = [row EXCEPT ![j] = saved]
    BY DEF Commit
  <1>4. cooling' \in {cooling, cooling \ {j}, cooling \cup {j}}
    BY DEF Commit
  <1> HIDE DEF saved
  <1>5. row' \in [Jobs -> Row] /\ cooling' \subseteq Jobs
    BY <1>1, <1>2, <1>3, <1>4 DEF TypeOK
  <1>6. \A k \in Jobs : row'[k] = IF k = j THEN saved ELSE row[k]
    BY <1>1, <1>3 DEF TypeOK
  <1> QED
    BY <1>1, <1>2, <1>5, <1>6

\* What the processes write is a row.
LEMMA WrittenRows ==
  ASSUME NEW s \in Row, NEW outcome \in Outcomes
  PROVE  /\ NewRow \in Row
         /\ Verdict(s, outcome) \in Row
         /\ Handled(s, outcome) \in Row
         /\ \A status \in Statuses : [s EXCEPT !.status = status] \in Row
         /\ \A count \in Nat : [s EXCEPT !.retry = count] \in Row
         /\ [s EXCEPT !.status = "running", !.crawler = "none"] \in Row
         /\ [s EXCEPT !.status = "retryable", !.retry = 0] \in Row
  <1>1. Verdict(s, outcome) \in Row
    BY DEF Verdict, Row, Outcomes, Statuses, CrawlerStatuses
  <1>2. Handled(s, outcome) \in Row
    <2>1. /\ [s EXCEPT !.status = "retryable"] \in Row
          /\ [s EXCEPT !.status = "retryable", !.retry = s.retry + 1] \in Row
      <3>1. s.retry + 1 \in Nat
        BY DEF Row
      <3>2. \A n \in Nat : [s EXCEPT !.status = "retryable", !.retry = n] \in Row
        BY DEF Row, Statuses
      <3>3. [s EXCEPT !.status = "retryable"] \in Row
        BY DEF Row, Statuses
      <3> QED
        BY <3>1, <3>2, <3>3
    <2>2. Handled(s, outcome) \in
             {[s EXCEPT !.status = "retryable"],
              [s EXCEPT !.status = "retryable", !.retry = s.retry + 1], s}
      BY DEF Handled
    <2> QED
      BY <2>1, <2>2
  <1> QED
    BY <1>1, <1>2 DEF NewRow, Row, Statuses, CrawlerStatuses

-----------------------------------------------------------------------------
(* Type correctness.                                                       *)

\* A process stopping leaves well-typed local variables.
LEMMA StopType ==
  ASSUME TypeOK, NEW p \in Procs, Stop(p)
  PROVE  /\ pc' \in [Procs -> PCs]
         /\ tgt' \in [Procs -> Jobs]
         /\ seen' \in [Procs -> Row]
         /\ out' \in [Procs -> Outcomes]
  BY AnyJobIsJob DEF TypeOK, Stop, Goto, Aim, Close, PCs, NewRow, Row, Statuses,
                     CrawlerStatuses, Outcomes

LEMMA LockType ==
  ASSUME TypeOK, NEW p \in Procs, Take(p) \/ Free(p) \/ UNCHANGED lock
  PROVE  lock' \in [Jobs -> Procs \cup {NoProc}]
  BY DEF TypeOK, Take, Free

\* Loading a row of a job, or closing the session, leaves a row in seen.
LEMMA SeenType ==
  ASSUME TypeOK, NEW p \in Procs,
         Close(p) \/ (\E j \in Jobs : Load(p, j)) \/ UNCHANGED seen
  PROVE  seen' \in [Procs -> Row]
  <1>1. NewRow \in Row
    BY DEF NewRow, Row, Statuses, CrawlerStatuses
  <1>2. ASSUME NEW j \in Jobs, Load(p, j) PROVE seen' \in [Procs -> Row]
    BY <1>2 DEF TypeOK, Load
  <1> QED
    BY <1>1, <1>2 DEF TypeOK, Close

\* The steps of run_persistent_job keep the types.
LEMMA RunStepType ==
  ASSUME TypeOK, UNCHANGED obstacles, NEW p \in Procs, RunStep(p)
  PROVE  TypeOK'
  <1> USE DEF db, history, obstacles
  <1>0. tgt[p] \in Jobs /\ seen[p] \in Row /\ out[p] \in Outcomes
    BY DEF TypeOK
  <1>1. CASE TakeLock(p)
    BY <1>1, LockType DEF TakeLock, TypeOK, Goto, PCs, Holding
  <1>2. CASE LockBusy(p)
    <2>1. /\ pc' \in [Procs -> PCs]
          /\ tgt' \in [Procs -> Jobs]
          /\ seen' \in [Procs -> Row]
          /\ out' \in [Procs -> Outcomes]
      BY <1>2, StopType DEF LockBusy, TypeOK, Goto, PCs
    <2> QED
      BY <1>2, <2>1 DEF LockBusy, TypeOK
  <1>3. CASE LoadToStart(p)
    BY <1>0, <1>3, SeenType DEF LoadToStart, TypeOK, Goto, PCs, Holding
  <1>4. CASE NotRunnable(p)
    BY <1>4, LockType, StopType DEF NotRunnable, TypeOK
  <1>5. CASE CommitStart(p)
    <2>1. [seen[p] EXCEPT !.status = "running", !.crawler = "none"] \in Row
      BY <1>0, WrittenRows
    <2>2. row' \in [Jobs -> Row] /\ cooling' \subseteq Jobs
      BY <1>5, <2>1, CommitFacts DEF CommitStart
    <2>3. seen' \in [Procs -> Row]
      BY <1>5, SeenType DEF CommitStart
    <2> QED
      BY <1>0, <1>5, <2>2, <2>3 DEF CommitStart, TypeOK, Goto, PCs, Holding
  <1>6. ASSUME NEW outcome \in Outcomes, CrawlEnds(p, outcome) PROVE TypeOK'
    BY <1>0, <1>6 DEF CrawlEnds, TypeOK, Goto, PCs, Holding
  <1>7. CASE LoadToFinish(p)
    BY <1>0, <1>7, SeenType DEF LoadToFinish, TypeOK, Goto, PCs, Holding
  <1>8. CASE CommitFinish(p)
    <2>1. Verdict(seen[p], out[p]) \in Row
      BY <1>0, WrittenRows
    <2>2. row' \in [Jobs -> Row] /\ cooling' \subseteq Jobs
      BY <1>8, <2>1, CommitFacts DEF CommitFinish
    <2>3. seen' \in [Procs -> Row]
      BY <1>8, SeenType DEF CommitFinish
    <2>4. failures' \in [Jobs -> Nat]
      BY <1>0, <1>8 DEF CommitFinish, TypeOK
    <2> QED
      BY <1>8, <2>2, <2>3, <2>4 DEF CommitFinish, TypeOK, Goto, PCs, Holding
  <1>9. CASE Release(p)
    <2>1. /\ pc' \in [Procs -> PCs]
          /\ tgt' \in [Procs -> Jobs]
          /\ seen' \in [Procs -> Row]
          /\ out' \in [Procs -> Outcomes]
      BY <1>9, StopType DEF Release, TypeOK, Goto, PCs
    <2> QED
      BY <1>9, <2>1, LockType DEF Release, TypeOK
  <1> QED
    BY <1>1, <1>2, <1>3, <1>4, <1>5, <1>6, <1>7, <1>8, <1>9 DEF RunStep

\* The worker's handling of an outcome, and indexing, keep the types.
LEMMA WorkerStepType ==
  ASSUME TypeOK, UNCHANGED obstacles, NEW p \in Procs, HandleStep(p) \/ IndexStep(p)
  PROVE  TypeOK'
  <1> USE DEF db, history, obstacles
  <1>0. tgt[p] \in Jobs /\ seen[p] \in Row /\ out[p] \in Outcomes
    BY DEF TypeOK
  <1>1. CASE LoadToSync(p)
    BY <1>0, <1>1, SeenType DEF LoadToSync, TypeOK, Goto, PCs, InSession
  <1>2. CASE CommitSync(p)
    <2>1. [seen[p] EXCEPT !.status = "running"] \in Row
      BY <1>0, WrittenRows DEF Statuses
    <2>2. row' \in [Jobs -> Row] /\ cooling' \subseteq Jobs
      BY <1>2, <2>1, CommitFacts DEF CommitSync
    <2>3. age' \in [Jobs -> {"never", "recent", "old"}]
      BY <1>0, <1>2 DEF CommitSync, TypeOK
    <2> QED
      BY <1>2, <2>2, <2>3, StopType DEF CommitSync, TypeOK
  <1>3. CASE LoadToHandle(p)
    BY <1>0, <1>3, SeenType DEF LoadToHandle, TypeOK, Goto, PCs, InSession
  <1>4. CASE CommitHandled(p)
    <2>1. Handled(seen[p], out[p]) \in Row
      BY <1>0, WrittenRows
    <2>2. row' \in [Jobs -> Row] /\ cooling' \subseteq Jobs
      BY <1>4, <2>1, CommitFacts DEF CommitHandled
    <2>3. Close(p) => seen' \in [Procs -> Row]
      BY SeenType
    <2>4. /\ pc' \in [Procs -> PCs]
          /\ tgt' \in [Procs -> Jobs]
          /\ seen' \in [Procs -> Row]
          /\ out' \in [Procs -> Outcomes]
      BY <1>4, <2>3, StopType DEF CommitHandled, TypeOK, Goto, PCs
    <2> QED
      BY <1>4, <2>2, <2>4 DEF CommitHandled, TypeOK
  <1>5. CASE LoadToIndex(p)
    BY <1>0, <1>5, SeenType DEF LoadToIndex, TypeOK, Goto, PCs, InSession
  <1>6. CASE NotIndexable(p)
    BY <1>6, StopType DEF NotIndexable, TypeOK
  <1>7. ASSUME NEW status \in {"indexed", "index_failed"}, CommitIndex(p, status)
        PROVE  TypeOK'
    <2>1. [seen[p] EXCEPT !.status = status] \in Row
      BY <1>0, WrittenRows DEF Statuses
    <2>2. row' \in [Jobs -> Row] /\ cooling' \subseteq Jobs
      BY <1>7, <2>1, CommitFacts DEF CommitIndex
    <2> QED
      BY <1>7, <2>2, StopType DEF CommitIndex, TypeOK
  <1> QED
    BY <1>1, <1>2, <1>3, <1>4, <1>5, <1>6, <1>7 DEF HandleStep, IndexStep

\* What an operator's command starts keeps the types.
LEMMA CommandType ==
  ASSUME TypeOK, UNCHANGED obstacles, NEW o \in Operators, NEW j \in Jobs, Command(o, j)
  PROVE  TypeOK'
  <1> USE DEF db, history, obstacles
  <1>0. o \in Procs
    BY DEF Procs
  <1>1. CASE RunDbJob(o, j)
    BY <1>0, <1>1 DEF RunDbJob, TypeOK, Aim, Goto, PCs
  <1>2. CASE IndexJob(o, j)
    BY <1>0, <1>2 DEF IndexJob, TypeOK, Aim, Goto, PCs
  <1>3. ASSUME NEW l \in PCs, Opens(o, j, l) PROVE TypeOK'
    BY <1>0, <1>3, SeenType DEF Opens, TypeOK, Aim, Goto
  <1>4. CASE LoadToRetry(o, j)
    BY <1>3, <1>4 DEF LoadToRetry, PCs, InSession
  <1>5. CASE LoadToReset(o, j)
    BY <1>3, <1>5 DEF LoadToReset, PCs, InSession
  <1>6. CASE LoadToRecover(o, j)
    BY <1>3, <1>6 DEF LoadToRecover, PCs, InSession
  <1>7. CASE Verify(o, j)
    BY <1>0, <1>7 DEF Verify, TypeOK, Aim, Goto, PCs
  <1> QED
    BY <1>1, <1>2, <1>4, <1>5, <1>6, <1>7 DEF Command

\* The steps of a started command keep the types.
LEMMA CommandStepType ==
  ASSUME TypeOK, UNCHANGED obstacles, NEW p \in Procs, CommandStep(p)
  PROVE  TypeOK'
  <1> USE DEF db, history, obstacles
  <1>0. tgt[p] \in Jobs /\ seen[p] \in Row /\ out[p] \in Outcomes
    BY DEF TypeOK
  <1>1. ASSUME NEW new \in Row, Commits(p, new) PROVE TypeOK'
    <2>1. row' \in [Jobs -> Row] /\ cooling' \subseteq Jobs
      BY <1>1, CommitFacts DEF Commits
    <2>2. failures' \in [Jobs -> Nat]
      BY <1>0, <1>1 DEF Commits, TypeOK
    <2> QED
      BY <1>1, <2>1, <2>2, StopType DEF Commits, TypeOK
  <1>2. CASE CommitRetry(p)
    <2>1. /\ [seen[p] EXCEPT !.status = "retryable"] \in Row
          /\ [seen[p] EXCEPT !.status = "completed"] \in Row
      BY <1>0, WrittenRows DEF Statuses
    <2>2. [seen[p] EXCEPT !.status = IF @ = "failed" THEN "retryable"
                                     ELSE "completed"] \in Row
      BY <2>1
    <2> QED
      BY <1>1, <1>2, <2>2 DEF CommitRetry
  <1>3. CASE ProbeTakes(p)
    BY <1>3, LockType DEF ProbeTakes, TypeOK, Goto, PCs, Holding
  <1>4. CASE ProbeBusy(p)
    BY <1>4, StopType DEF ProbeBusy, TypeOK
  <1>5. CASE ProbeEnds(p)
    BY <1>5, LockType DEF ProbeEnds, TypeOK, Goto, PCs, InSession
  <1>6. ASSUME NEW count \in NewCounts, CommitReset(p, count) PROVE TypeOK'
    <2>1. [seen[p] EXCEPT !.retry = count] \in Row
      BY <1>0, WrittenRows, BudgetAssumption
    <2> QED
      BY <1>1, <1>6, <2>1 DEF CommitReset
  <1>7. CASE CommitRecover(p)
    <2>1. [seen[p] EXCEPT !.status = "retryable"] \in Row
      BY <1>0, WrittenRows DEF Statuses
    <2> QED
      BY <1>1, <1>7, <2>1 DEF CommitRecover
  <1>8. CASE VerifyEnds(p)
    BY <1>8, StopType DEF VerifyEnds, TypeOK
  <1>9. CASE LoadToQuarantine(p)
    BY <1>0, <1>9, SeenType DEF LoadToQuarantine, TypeOK, Goto, PCs, InSession
  <1>10. CASE CommitQuarantine(p)
    <2>1. [seen[p] EXCEPT !.status = "retryable", !.retry = 0] \in Row
      BY <1>0, WrittenRows
    <2> QED
      BY <1>1, <1>10, <2>1 DEF CommitQuarantine
  <1> QED
    BY <1>2, <1>3, <1>4, <1>5, <1>6, <1>7, <1>8, <1>9, <1>10 DEF CommandStep

\* The poll, time and faults keep the types.
LEMMA EnvironmentType ==
  ASSUME TypeOK, UNCHANGED obstacles,
         \/ \E w \in Workers : Pick(w) \/ TierFails(w)
         \/ \E p \in Procs : Dies(p)
         \/ \E j \in Jobs : Age(j) \/ Cool(j) \/ OrphanEnds(j)
  PROVE  TypeOK'
  <1> USE DEF db, history, obstacles
  <1>0. Workers \subseteq Procs
    BY DEF Procs
  <1>1. ASSUME NEW w \in Workers, Pick(w) PROVE TypeOK'
    BY <1>0, <1>1 DEF Pick, TypeOK, Aim, Goto, PCs
  <1>2. ASSUME NEW w \in Workers, TierFails(w) PROVE TypeOK'
    BY <1>0, <1>2, StopType DEF TierFails, TypeOK
  <1>3. ASSUME NEW p \in Procs, Dies(p) PROVE TypeOK'
    <2>1. orphan' \subseteq Jobs
      BY <1>3 DEF Dies, TypeOK
    <2> QED
      BY <1>3, <2>1, StopType, LockType DEF Dies, TypeOK
  <1>4. ASSUME NEW j \in Jobs, Age(j) \/ Cool(j) \/ OrphanEnds(j) PROVE TypeOK'
    BY <1>4 DEF Age, Cool, OrphanEnds, TypeOK
  <1> QED
    BY <1>1, <1>2, <1>3, <1>4

\* What a step may do to the variables but the obstacles: a step of a process, of time
\* or of a fault, or nothing.
LEMMA NextCases ==
  ASSUME [Next]_vars
  PROVE  Step \/ UNCHANGED jobVars
  BY DEF Next, TieringTurns, vars

\* Every variable keeps its type.
THEOREM TypeCorrect == Spec => []TypeOK
  <1>1. Init => TypeOK
    BY AnyJobIsJob DEF Init, TypeOK, NewRow, Row, Statuses, CrawlerStatuses, PCs,
                       Outcomes
  <1>2. TypeOK /\ [Next]_vars => TypeOK'
    <2> SUFFICES ASSUME TypeOK, [Next]_vars PROVE TypeOK'
      OBVIOUS
    <2>1. ASSUME NEW p \in Procs, Continue(p), UNCHANGED obstacles PROVE TypeOK'
      BY <2>1, RunStepType, WorkerStepType, CommandStepType DEF Continue
    <2>2. CASE UNCHANGED vars
      BY <2>2 DEF vars, jobVars, obstacles, TypeOK
    <2>3. ASSUME NEW j \in Jobs, TieringTurns(j) PROVE TypeOK'
      BY <2>3 DEF TieringTurns, jobVars, TypeOK
    <2> QED
      BY <2>1, <2>2, <2>3, CommandType, EnvironmentType DEF Next, Step
  <1> QED
    BY <1>1, <1>2, PTL DEF Spec

-----------------------------------------------------------------------------
(* The flock.                                                              *)

\* How one step of p may touch the flock and the state that goes with it.
StaysOut(p) == pc[p] \notin Holding /\ pc'[p] \notin Holding /\ UNCHANGED lock
StaysIn(p) == /\ pc[p] \in Holding /\ pc'[p] \in Holding
              /\ tgt'[p] = tgt[p] /\ UNCHANGED lock
Enters(p) == /\ pc[p] \notin Holding /\ pc'[p] \in Holding
             /\ tgt'[p] = tgt[p] /\ Take(p)
Leaves(p) == pc[p] \in Holding /\ pc'[p] \notin Holding /\ Free(p)

Alone(p) == \A q \in Procs \ {p} : pc'[q] = pc[q] /\ tgt'[q] = tgt[q]

LockStep(p) == /\ Alone(p)
               /\ StaysOut(p) \/ StaysIn(p) \/ Enters(p) \/ Leaves(p)

\* Such a step keeps the flock with the process whose state says so.
LEMMA LockStepInv ==
  ASSUME TypeOK, LockInv, NEW p \in Procs, LockStep(p)
  PROVE  LockInv'
  <1> SUFFICES ASSUME NEW q \in Procs, NEW j \in Jobs
               PROVE  lock'[j] = q <=> (pc'[q] \in Holding /\ tgt'[q] = j)
    BY DEF LockInv, Holds
  <1>1. /\ lock[j] = q <=> (pc[q] \in Holding /\ tgt[q] = j)
        /\ lock[j] = p <=> (pc[p] \in Holding /\ tgt[p] = j)
    BY DEF LockInv, Holds
  <1>2. tgt[p] \in Jobs /\ q # NoProc /\ p # NoProc /\ lock[j] \in Procs \cup {NoProc}
    BY ProcsAssumption DEF TypeOK
  <1>3. q # p => pc'[q] = pc[q] /\ tgt'[q] = tgt[q]
    BY DEF LockStep, Alone
  <1>4. CASE StaysOut(p)
    BY <1>1, <1>3, <1>4 DEF StaysOut
  <1>5. CASE StaysIn(p)
    BY <1>1, <1>3, <1>5 DEF StaysIn
  <1>6. CASE Enters(p)
    <2>1. lock'[j] = IF j = tgt[p] THEN p ELSE lock[j]
      BY <1>2, <1>6 DEF Enters, Take, TypeOK
    <2>2. j = tgt[p] => lock[j] = NoProc
      BY <1>6 DEF Enters, Take
    <2> QED
      BY <1>1, <1>2, <1>3, <1>6, <2>1, <2>2 DEF Enters
  <1>7. CASE Leaves(p)
    <2>1. lock'[j] = IF j = tgt[p] THEN NoProc ELSE lock[j]
      BY <1>2, <1>7 DEF Leaves, Free, TypeOK
    <2> QED
      BY <1>1, <1>2, <1>3, <1>7, <2>1 DEF Leaves
  <1> QED
    BY <1>4, <1>5, <1>6, <1>7 DEF LockStep

\* Every step of a process is such a step.
LEMMA ContinueLockStep ==
  ASSUME TypeOK, NEW p \in Procs, Continue(p)
  PROVE  LockStep(p)
  <1> USE DEF LockStep, Alone, StaysOut, StaysIn, Enters, Leaves, Holding,
              Goto, Aim, Stop
  <1>0. pc \in [Procs -> PCs] /\ tgt \in [Procs -> Jobs]
    BY DEF TypeOK
  <1>1. CASE RunStep(p)
    <2>1. CASE TakeLock(p)
      BY <1>0, <2>1 DEF TakeLock
    <2>2. CASE LockBusy(p)
      BY <1>0, <2>2 DEF LockBusy
    <2>3. CASE LoadToStart(p)
      BY <1>0, <2>3 DEF LoadToStart
    <2>4. CASE NotRunnable(p)
      BY <1>0, <2>4 DEF NotRunnable
    <2>5. CASE CommitStart(p)
      BY <1>0, <2>5 DEF CommitStart
    <2>6. ASSUME NEW outcome \in Outcomes, CrawlEnds(p, outcome) PROVE LockStep(p)
      BY <1>0, <2>6 DEF CrawlEnds
    <2>7. CASE LoadToFinish(p)
      BY <1>0, <2>7 DEF LoadToFinish
    <2>8. CASE CommitFinish(p)
      BY <1>0, <2>8 DEF CommitFinish
    <2>9. CASE Release(p)
      BY <1>0, <2>9 DEF Release
    <2> QED
      BY <1>1, <2>1, <2>2, <2>3, <2>4, <2>5, <2>6, <2>7, <2>8, <2>9 DEF RunStep
  <1>2. CASE IndexStep(p)
    <2>1. CASE LoadToIndex(p) \/ NotIndexable(p)
      BY <1>0, <2>1 DEF LoadToIndex, NotIndexable
    <2>2. ASSUME NEW status, CommitIndex(p, status) PROVE LockStep(p)
      BY <1>0, <2>2 DEF CommitIndex
    <2> QED
      BY <1>2, <2>1, <2>2 DEF IndexStep
  <1>3. CASE HandleStep(p)
    <2>1. CASE LoadToSync(p) \/ LoadToHandle(p)
      BY <1>0, <2>1 DEF LoadToSync, LoadToHandle
    <2>2. CASE CommitSync(p)
      BY <1>0, <2>2 DEF CommitSync
    <2>3. CASE CommitHandled(p)
      BY <1>0, <2>3 DEF CommitHandled
    <2> QED
      BY <1>3, <2>1, <2>2, <2>3 DEF HandleStep
  <1>4. CASE CommandStep(p)
    <2>1. CASE ProbeTakes(p)
      BY <1>0, <2>1 DEF ProbeTakes
    <2>2. CASE ProbeEnds(p)
      BY <1>0, <2>2 DEF ProbeEnds
    <2>3. CASE ProbeBusy(p) \/ VerifyEnds(p) \/ LoadToQuarantine(p)
      BY <1>0, <2>3 DEF ProbeBusy, VerifyEnds, LoadToQuarantine
    <2>4. ASSUME NEW new, Commits(p, new), pc[p] \notin Holding PROVE LockStep(p)
      BY <1>0, <2>4 DEF Commits
    <2>5. CASE CommitRetry(p) \/ CommitRecover(p) \/ CommitQuarantine(p)
      BY <2>4, <2>5 DEF CommitRetry, CommitRecover, CommitQuarantine
    <2>6. ASSUME NEW count, CommitReset(p, count) PROVE LockStep(p)
      BY <2>4, <2>6 DEF CommitReset
    <2> QED
      BY <1>4, <2>1, <2>2, <2>3, <2>5, <2>6 DEF CommandStep
  <1> QED
    BY <1>1, <1>2, <1>3, <1>4 DEF Continue

\* So are the starts of commands, the poll and the death of a process.
LEMMA BeginLockStep ==
  ASSUME TypeOK, NEW p \in Procs,
         \/ p \in Workers /\ (Pick(p) \/ TierFails(p))
         \/ p \in Operators /\ \E j \in Jobs : Command(p, j)
         \/ Dies(p)
  PROVE  LockStep(p)
  <1> USE DEF LockStep, Alone, StaysOut, StaysIn, Enters, Leaves, Holding,
              Goto, Aim, Stop
  <1>0. pc \in [Procs -> PCs] /\ tgt \in [Procs -> Jobs]
    BY DEF TypeOK
  <1>1. CASE Pick(p)
    BY <1>0, <1>1 DEF Pick
  <1>2. CASE TierFails(p)
    BY <1>0, <1>2 DEF TierFails
  <1>3. CASE Dies(p)
    BY <1>0, <1>3 DEF Dies
  <1>4. ASSUME NEW j \in Jobs, Command(p, j) PROVE LockStep(p)
    <2>1. CASE RunDbJob(p, j) \/ IndexJob(p, j) \/ Verify(p, j)
      BY <1>0, <2>1 DEF RunDbJob, IndexJob, Verify, Begins
    <2>2. CASE LoadToRetry(p, j) \/ LoadToReset(p, j) \/ LoadToRecover(p, j)
      BY <1>0, <2>2 DEF LoadToRetry, LoadToReset, LoadToRecover, Opens, Begins
    <2> QED
      BY <1>4, <2>1, <2>2 DEF Command
  <1> QED
    BY <1>1, <1>2, <1>3, <1>4

\* The flock is always with the process whose state says it holds it.
THEOREM LockIsHeld == Spec => []LockInv
  <1>1. Init => LockInv
    <2> SUFFICES ASSUME Init, NEW p \in Procs, NEW j \in Jobs
                 PROVE  lock[j] # p /\ ~Holds(p, j)
      BY DEF LockInv
    <2>1. lock[j] = NoProc /\ p # NoProc
      BY ProcsAssumption DEF Init
    <2>2. pc[p] = "idle"
      BY DEF Init
    <2> QED
      BY <2>1, <2>2 DEF Holds, Holding
  <1>2. TypeOK /\ LockInv /\ [Next]_vars => LockInv'
    <2> SUFFICES ASSUME TypeOK, LockInv, [Next]_vars PROVE LockInv'
      OBVIOUS
    <2>1. ASSUME NEW p \in Procs, LockStep(p) PROVE LockInv'
      BY <2>1, LockStepInv
    <2>2. ASSUME NEW w \in Workers, Pick(w) \/ TierFails(w) PROVE LockInv'
      BY <2>1, <2>2, BeginLockStep DEF Procs
    <2>3. ASSUME NEW o \in Operators, NEW j \in Jobs, Command(o, j) PROVE LockInv'
      BY <2>1, <2>3, BeginLockStep DEF Procs
    <2>4. ASSUME NEW p \in Procs, Continue(p) \/ Dies(p) PROVE LockInv'
      BY <2>1, <2>4, ContinueLockStep, BeginLockStep
    <2>5. ASSUME NEW j \in Jobs, Age(j) \/ Cool(j) \/ OrphanEnds(j) PROVE LockInv'
      BY <2>5 DEF Age, Cool, OrphanEnds, LockInv, Holds
    <2>6. CASE UNCHANGED jobVars
      BY <2>6 DEF jobVars, LockInv, Holds
    <2> QED
      BY NextCases, <2>2, <2>3, <2>4, <2>5, <2>6 DEF Step
  <1> QED
    BY <1>1, <1>2, TypeCorrect, PTL DEF Spec

\* Two processes never crawl one job at once.
THEOREM CrawlsAreExclusive == Spec => []CrawlExclusion
  <1>1. LockInv => CrawlExclusion
    BY DEF LockInv, CrawlExclusion, Holds, Holding, Runs
  <1> QED
    BY <1>1, LockIsHeld, PTL

-----------------------------------------------------------------------------
(* No job is indexed that was never crawled.                               *)

\* What a process has loaded, and what it is about to write, is backed by a
\* crawl: with IndexedWasCrawled this is inductive, which the property alone is
\* not, because a commit writes what a session saw earlier.
LocalCrawled(p) ==
    /\ pc[p] \notin InSession => seen[p] = NewRow
    /\ seen[p].status \in Indexable => tgt[p] \in crawled
    /\ pc[p] \in {"ended", "finishing"} /\ out[p] = "ok" => tgt[p] \in crawled
    /\ pc[p] = "indexing" => seen[p].status \in Indexable
    /\ pc[p] = "retrying" => seen[p].status \in {"failed", "index_failed"}

CrawledInv == IndexedWasCrawled /\ \A p \in Procs : LocalCrawled(p)

\* A step of p that touches no other process's local variables, forgets no
\* crawl, and makes a row indexable only for a job that was crawled.
CrawledStep(p) ==
    /\ \A q \in Procs \ {p} : /\ pc'[q] = pc[q] /\ tgt'[q] = tgt[q]
                              /\ seen'[q] = seen[q] /\ out'[q] = out[q]
    /\ crawled \subseteq crawled'
    /\ \A j \in Jobs : row'[j].status \in Indexable =>
                          row[j].status \in Indexable \/ j \in crawled'

LEMMA CrawledStepInv ==
  ASSUME TypeOK, CrawledInv, NEW p \in Procs, CrawledStep(p), LocalCrawled(p)'
  PROVE  CrawledInv'
  <1>1. IndexedWasCrawled'
    BY DEF CrawledInv, CrawledStep, IndexedWasCrawled
  <1>2. ASSUME NEW q \in Procs \ {p} PROVE LocalCrawled(q)'
    <2>1. LocalCrawled(q)
      BY DEF CrawledInv
    <2>2. /\ pc'[q] = pc[q] /\ tgt'[q] = tgt[q]
          /\ seen'[q] = seen[q] /\ out'[q] = out[q]
      BY DEF CrawledStep
    <2>3. crawled \subseteq crawled'
      BY DEF CrawledStep
    <2> QED
      BY <2>1, <2>2, <2>3 DEF LocalCrawled
  <1> QED
    BY <1>1, <1>2 DEF CrawledInv

\* A process that stops has nothing pending.
LEMMA StopCrawled ==
  ASSUME TypeOK, NEW p \in Procs, Stop(p)
  PROVE  LocalCrawled(p)'
  <1>1. pc'[p] = "idle" /\ seen'[p] = NewRow
    BY DEF Stop, Goto, Close, TypeOK
  <1> QED
    BY <1>1 DEF LocalCrawled, InSession, NewRow, Indexable

\* Nor has one that has closed its session, but for the outcome of a crawl.
LEMMA CloseCrawled ==
  ASSUME TypeOK, NEW p \in Procs, Close(p), pc'[p] \notin InSession,
         pc'[p] # "ended"
  PROVE  LocalCrawled(p)'
  <1>1. seen'[p] = NewRow
    BY DEF Close, TypeOK
  <1>2. pc'[p] \notin {"finishing", "indexing", "retrying"}
    BY DEF InSession
  <1> QED
    BY <1>1, <1>2 DEF LocalCrawled, NewRow, Indexable

\* A session that loads the row of a job loads an indexable status only of a
\* job that was crawled.
LEMMA LoadCrawled ==
  ASSUME TypeOK, CrawledInv, NEW p \in Procs, NEW j \in Jobs, Load(p, j),
         tgt'[p] = j, pc'[p] \in InSession, UNCHANGED crawled,
         pc'[p] = "finishing" => pc[p] = "ended" /\ tgt[p] = j /\ out'[p] = out[p],
         pc'[p] = "indexing" => row[j].status \in Indexable,
         pc'[p] = "retrying" => row[j].status \in {"failed", "index_failed"}
  PROVE  LocalCrawled(p)'
  <1>1. seen'[p] = row[j]
    BY DEF Load, TypeOK
  <1>2. row[j].status \in Indexable => j \in crawled
    BY DEF CrawledInv, IndexedWasCrawled
  <1>3. pc'[p] # "ended"
    BY DEF InSession
  <1>4. pc[p] = "ended" /\ out[p] = "ok" => tgt[p] \in crawled
    BY DEF CrawledInv, LocalCrawled
  <1> QED
    BY <1>1, <1>2, <1>3, <1>4 DEF LocalCrawled

\* A commit keeps CrawledStep's third part if what it writes is backed.
LEMMA CommitCrawled ==
  ASSUME TypeOK, NEW p \in Procs, NEW new \in Row, Commit(p, new),
         new.status \in Indexable /\ new.status # seen[p].status => tgt[p] \in crawled'
  PROVE  \A j \in Jobs : row'[j].status \in Indexable =>
                            row[j].status \in Indexable \/ j \in crawled'
  BY CommitFacts

\* The steps of run_persistent_job keep the invariant.
LEMMA RunStepCrawled ==
  ASSUME TypeOK, CrawledInv, NEW p \in Procs, RunStep(p)
  PROVE  CrawledStep(p) /\ LocalCrawled(p)'
  <1> USE DEF db, history, Goto, Aim
  <1>0. /\ tgt[p] \in Jobs /\ seen[p] \in Row /\ out[p] \in Outcomes
        /\ LocalCrawled(p)
    BY DEF TypeOK, CrawledInv
  <1>t. /\ pc \in [Procs -> PCs] /\ tgt \in [Procs -> Jobs]
        /\ seen \in [Procs -> Row] /\ out \in [Procs -> Outcomes]
    BY DEF TypeOK
  <1>q. NewRow.status \notin Indexable
    BY DEF NewRow, Indexable
  <1>1. CASE TakeLock(p)
    BY <1>0, <1>t, <1>1 DEF TakeLock, CrawledStep, LocalCrawled, InSession
  <1>2. CASE LockBusy(p)
    <2>1. CrawledStep(p)
      BY <1>t, <1>2 DEF LockBusy, CrawledStep, Stop, Close
    <2>2. CASE p \in Workers
      BY <1>0, <1>t, <1>2, <2>1, <2>2 DEF LockBusy, LocalCrawled, InSession
    <2> QED
      BY <1>2, <2>1, <2>2, StopCrawled DEF LockBusy
  <1>3. CASE LoadToStart(p)
    <2>1. CrawledStep(p)
      BY <1>t, <1>3 DEF LoadToStart, CrawledStep, Load
    <2> QED
      BY <1>0, <1>t, <1>3, <2>1, LoadCrawled DEF LoadToStart, InSession
  <1>4. CASE NotRunnable(p)
    <2>1. CrawledStep(p)
      BY <1>t, <1>4 DEF NotRunnable, CrawledStep, Stop, Close
    <2> QED
      BY <1>4, <2>1, StopCrawled DEF NotRunnable
  <1>5. CASE CommitStart(p)
    <2> DEFINE new == [seen[p] EXCEPT !.status = "running", !.crawler = "none"]
    <2>1. new \in Row
      BY <1>0, WrittenRows
    <2>2. new.status \notin Indexable
      BY <1>0 DEF Row, Indexable
    <2>3. \A j \in Jobs : row'[j].status \in Indexable =>
             row[j].status \in Indexable \/ j \in crawled'
      BY <1>5, <2>1, <2>2, CommitCrawled DEF CommitStart
    <2>4. CrawledStep(p)
      BY <1>t, <1>5, <2>3 DEF CommitStart, CrawledStep, Close
    <2>5. Close(p) /\ pc'[p] = "crawling"
      BY <1>t, <1>5 DEF CommitStart
    <2> QED
      BY <2>4, <2>5, CloseCrawled DEF InSession
  <1>6. ASSUME NEW outcome \in Outcomes, CrawlEnds(p, outcome)
        PROVE  CrawledStep(p) /\ LocalCrawled(p)'
    <2>1. CrawledStep(p)
      BY <1>t, <1>6 DEF CrawlEnds, CrawledStep
    <2>2. seen'[p] = NewRow /\ pc'[p] = "ended" /\ tgt'[p] = tgt[p]
      BY <1>0, <1>t, <1>6 DEF CrawlEnds, LocalCrawled, InSession
    <2>3. out'[p] = "ok" => tgt[p] \in crawled'
      BY <1>0, <1>t, <1>6 DEF CrawlEnds
    <2> QED
      BY <1>q, <2>1, <2>2, <2>3 DEF LocalCrawled, InSession
  <1>7. CASE LoadToFinish(p)
    <2>1. CrawledStep(p)
      BY <1>t, <1>7 DEF LoadToFinish, CrawledStep, Load
    <2> QED
      BY <1>0, <1>t, <1>7, <2>1, LoadCrawled DEF LoadToFinish, InSession
  <1>8. CASE CommitFinish(p)
    <2> DEFINE new == Verdict(seen[p], out[p])
    <2>1. new \in Row
      BY <1>0, WrittenRows
    <2>2. new.status \in Indexable => out[p] = "ok"
      BY <1>0 DEF Verdict, Row, Indexable, Outcomes
    <2>3. out[p] = "ok" => tgt[p] \in crawled'
      BY <1>0, <1>8 DEF CommitFinish, LocalCrawled
    <2>4. \A j \in Jobs : row'[j].status \in Indexable =>
             row[j].status \in Indexable \/ j \in crawled'
      BY <1>8, <2>1, <2>2, <2>3, CommitCrawled DEF CommitFinish
    <2>5. CrawledStep(p)
      BY <1>t, <1>8, <2>4 DEF CommitFinish, CrawledStep, Close
    <2>6. Close(p) /\ pc'[p] = "releasing"
      BY <1>t, <1>8 DEF CommitFinish
    <2> QED
      BY <2>5, <2>6, CloseCrawled DEF InSession
  <1>9. CASE Release(p)
    <2>1. CrawledStep(p)
      BY <1>t, <1>9 DEF Release, CrawledStep, Stop, Close
    <2>2. CASE p \in Workers
      BY <1>0, <1>t, <1>9, <2>1, <2>2 DEF Release, LocalCrawled, InSession
    <2> QED
      BY <1>9, <2>1, <2>2, StopCrawled DEF Release
  <1> QED
    BY <1>1, <1>2, <1>3, <1>4, <1>5, <1>6, <1>7, <1>8, <1>9 DEF RunStep

\* The worker's handling of an outcome, and indexing, keep the invariant.
LEMMA WorkerStepCrawled ==
  ASSUME TypeOK, CrawledInv, NEW p \in Procs, HandleStep(p) \/ IndexStep(p)
  PROVE  CrawledStep(p) /\ LocalCrawled(p)'
  <1> USE DEF db, history, Goto, Aim
  <1>0. /\ tgt[p] \in Jobs /\ seen[p] \in Row /\ out[p] \in Outcomes
        /\ LocalCrawled(p)
    BY DEF TypeOK, CrawledInv
  <1>t. /\ pc \in [Procs -> PCs] /\ tgt \in [Procs -> Jobs]
        /\ seen \in [Procs -> Row] /\ out \in [Procs -> Outcomes]
    BY DEF TypeOK
  <1>q. NewRow.status \notin Indexable
    BY DEF NewRow, Indexable
  <1>1. CASE LoadToSync(p)
    <2>1. CrawledStep(p)
      BY <1>t, <1>1 DEF LoadToSync, CrawledStep, Load
    <2> QED
      BY <1>0, <1>t, <1>1, <2>1, LoadCrawled DEF LoadToSync, InSession
  <1>2. CASE CommitSync(p)
    <2> DEFINE new == [seen[p] EXCEPT !.status = "running"]
    <2>1. new \in Row /\ new.status \notin Indexable
      <3>1. new \in Row
        BY <1>0, WrittenRows DEF Statuses
      <3>2. new.status = "running"
        BY <1>0 DEF Row
      <3> QED
        BY <3>1, <3>2 DEF Indexable
    <2>2. \A j \in Jobs : row'[j].status \in Indexable =>
             row[j].status \in Indexable \/ j \in crawled'
      BY <1>2, <2>1, CommitCrawled DEF CommitSync
    <2>3. CrawledStep(p)
      BY <1>t, <1>2, <2>2 DEF CommitSync, CrawledStep, Stop, Close
    <2> QED
      BY <1>2, <2>3, StopCrawled DEF CommitSync
  <1>3. CASE LoadToHandle(p)
    <2>1. CrawledStep(p)
      BY <1>t, <1>3 DEF LoadToHandle, CrawledStep, Load
    <2> QED
      BY <1>0, <1>t, <1>3, <2>1, LoadCrawled DEF LoadToHandle, InSession
  <1>4. CASE CommitHandled(p)
    <2> DEFINE new == Handled(seen[p], out[p])
    <2>1. new \in Row
      BY <1>0, WrittenRows
    <2>2. new.status = seen[p].status \/ new.status = "retryable"
      BY <1>0 DEF Handled, Row
    <2>3. \A j \in Jobs : row'[j].status \in Indexable =>
             row[j].status \in Indexable \/ j \in crawled'
      BY <1>4, <2>1, <2>2, CommitCrawled DEF CommitHandled, Indexable
    <2>4. CrawledStep(p)
      BY <1>t, <1>4, <2>3 DEF CommitHandled, CrawledStep, Stop, Close
    <2>5. CASE Goto(p, "index") /\ Close(p)
      <3>1. pc'[p] = "index"
        BY <1>t, <2>5
      <3> QED
        BY <2>4, <2>5, <3>1, CloseCrawled DEF InSession
    <2> QED
      BY <1>4, <2>4, <2>5, StopCrawled DEF CommitHandled
  <1>5. CASE LoadToIndex(p)
    <2>1. CrawledStep(p)
      BY <1>t, <1>5 DEF LoadToIndex, CrawledStep, Load
    <2> QED
      BY <1>0, <1>t, <1>5, <2>1, LoadCrawled DEF LoadToIndex, InSession
  <1>6. CASE NotIndexable(p)
    <2>1. CrawledStep(p)
      BY <1>t, <1>6 DEF NotIndexable, CrawledStep, Stop, Close
    <2> QED
      BY <1>6, <2>1, StopCrawled DEF NotIndexable
  <1>7. ASSUME NEW status \in {"indexed", "index_failed"}, CommitIndex(p, status)
        PROVE  CrawledStep(p) /\ LocalCrawled(p)'
    <2> DEFINE new == [seen[p] EXCEPT !.status = status]
    <2>1. new \in Row
      BY <1>0, WrittenRows DEF Statuses
    <2>2. tgt[p] \in crawled'
      BY <1>0, <1>7 DEF CommitIndex, LocalCrawled
    <2>3. \A j \in Jobs : row'[j].status \in Indexable =>
             row[j].status \in Indexable \/ j \in crawled'
      BY <1>7, <2>1, <2>2, CommitCrawled DEF CommitIndex
    <2>4. CrawledStep(p)
      BY <1>t, <1>7, <2>3 DEF CommitIndex, CrawledStep, Stop, Close
    <2> QED
      BY <1>7, <2>4, StopCrawled DEF CommitIndex
  <1> QED
    BY <1>1, <1>2, <1>3, <1>4, <1>5, <1>6, <1>7 DEF HandleStep, IndexStep

\* The operators' commands keep the invariant.
LEMMA CommandCrawled ==
  ASSUME TypeOK, CrawledInv, NEW o \in Operators, NEW j \in Jobs, Command(o, j)
  PROVE  CrawledStep(o) /\ LocalCrawled(o)'
  <1> USE DEF db, history, Goto, Aim
  <1>0. o \in Procs /\ LocalCrawled(o)
    BY DEF Procs, CrawledInv
  <1>t. /\ pc \in [Procs -> PCs] /\ tgt \in [Procs -> Jobs]
        /\ seen \in [Procs -> Row] /\ out \in [Procs -> Outcomes]
    BY DEF TypeOK
  <1>1. CASE RunDbJob(o, j) \/ IndexJob(o, j) \/ Verify(o, j)
    <2>1. CrawledStep(o)
      BY <1>0, <1>t, <1>1 DEF RunDbJob, IndexJob, Verify, CrawledStep
    <2>2. seen'[o] = NewRow /\ pc'[o] \in {"picked", "index", "verifying"}
      BY <1>0, <1>t, <1>1 DEF RunDbJob, IndexJob, Verify, Begins, LocalCrawled, InSession
    <2> QED
      BY <2>1, <2>2 DEF LocalCrawled, NewRow, Indexable
  <1>2. CASE LoadToRetry(o, j) \/ LoadToReset(o, j) \/ LoadToRecover(o, j)
    <2>1. CrawledStep(o)
      BY <1>0, <1>t, <1>2 DEF LoadToRetry, LoadToReset, LoadToRecover, Opens,
                              CrawledStep, Load
    <2>2. /\ Load(o, j) /\ tgt'[o] = j /\ UNCHANGED crawled
          /\ \/ pc'[o] = "retrying" /\ row[j].status \in {"failed", "index_failed"}
             \/ pc'[o] \in {"resetLoaded", "recoverLoaded"}
      BY <1>0, <1>t, <1>2 DEF LoadToRetry, LoadToReset, LoadToRecover, Opens
    <2> QED
      BY <1>0, <2>1, <2>2, LoadCrawled DEF InSession
  <1> QED
    BY <1>1, <1>2 DEF Command

\* The steps of a started command keep the invariant.
LEMMA CommandStepCrawled ==
  ASSUME TypeOK, CrawledInv, NEW p \in Procs, CommandStep(p)
  PROVE  CrawledStep(p) /\ LocalCrawled(p)'
  <1> USE DEF db, history, Goto, Aim
  <1>0. /\ tgt[p] \in Jobs /\ seen[p] \in Row /\ out[p] \in Outcomes
        /\ LocalCrawled(p)
    BY DEF TypeOK, CrawledInv
  <1>t. /\ pc \in [Procs -> PCs] /\ tgt \in [Procs -> Jobs]
        /\ seen \in [Procs -> Row] /\ out \in [Procs -> Outcomes]
    BY DEF TypeOK
  <1>1. ASSUME NEW new \in Row, Commits(p, new),
               new.status \in Indexable /\ new.status # seen[p].status
                  => tgt[p] \in crawled
        PROVE  CrawledStep(p) /\ LocalCrawled(p)'
    <2>1. \A j \in Jobs : row'[j].status \in Indexable =>
             row[j].status \in Indexable \/ j \in crawled'
      BY <1>1, CommitCrawled DEF Commits
    <2>2. CrawledStep(p)
      BY <1>t, <1>1, <2>1 DEF Commits, CrawledStep, Stop, Close
    <2> QED
      BY <1>1, <2>2, StopCrawled DEF Commits
  <1>2. CASE CommitRetry(p)
    <2> DEFINE new == [seen[p] EXCEPT !.status = IF @ = "failed" THEN "retryable"
                                                 ELSE "completed"]
    <2>1. /\ [seen[p] EXCEPT !.status = "retryable"] \in Row
          /\ [seen[p] EXCEPT !.status = "completed"] \in Row
      BY <1>0, WrittenRows DEF Statuses
    <2>2. new \in Row
      BY <2>1
    <2>3. new.status \in Indexable => seen[p].status = "index_failed"
      BY <1>0, <1>2 DEF CommitRetry, LocalCrawled, Row, Indexable
    <2>4. seen[p].status = "index_failed" => tgt[p] \in crawled
      BY <1>0 DEF LocalCrawled, Indexable
    <2>5. Commits(p, new)
      BY <1>2 DEF CommitRetry
    <2> HIDE DEF new
    <2> QED
      BY <1>1, <2>2, <2>3, <2>4, <2>5
  <1>3. CASE ProbeTakes(p) \/ ProbeEnds(p)
    <2>1. CrawledStep(p)
      BY <1>t, <1>3 DEF ProbeTakes, ProbeEnds, CrawledStep
    <2>2. /\ pc'[p] \in {"resetProbe", "recoverProbe", "resetting", "recovering"}
          /\ UNCHANGED <<tgt, seen, crawled>>
      BY <1>t, <1>3 DEF ProbeTakes, ProbeEnds
    <2> QED
      BY <1>0, <2>1, <2>2 DEF LocalCrawled, InSession
  <1>4. CASE ProbeBusy(p) \/ VerifyEnds(p)
    <2>1. CrawledStep(p)
      BY <1>t, <1>4 DEF ProbeBusy, VerifyEnds, CrawledStep, Stop, Close
    <2> QED
      BY <1>4, <2>1, StopCrawled DEF ProbeBusy, VerifyEnds
  <1>5. ASSUME NEW count \in NewCounts, CommitReset(p, count)
        PROVE  CrawledStep(p) /\ LocalCrawled(p)'
    <2> DEFINE new == [seen[p] EXCEPT !.retry = count]
    <2>1. new \in Row
      BY <1>0, WrittenRows, BudgetAssumption
    <2>2. new.status = seen[p].status
      BY <1>0 DEF Row
    <2>3. Commits(p, new)
      BY <1>5 DEF CommitReset
    <2> HIDE DEF new
    <2> QED
      BY <1>1, <2>1, <2>2, <2>3
  <1>6. CASE CommitRecover(p)
    <2> DEFINE new == [seen[p] EXCEPT !.status = "retryable"]
    <2>1. new \in Row
      BY <1>0, WrittenRows DEF Statuses
    <2>2. new.status \notin Indexable
      BY <1>0 DEF Row, Indexable
    <2>3. Commits(p, new)
      BY <1>6 DEF CommitRecover
    <2> HIDE DEF new
    <2> QED
      BY <1>1, <2>1, <2>2, <2>3
  <1>7. CASE LoadToQuarantine(p)
    <2>1. CrawledStep(p)
      BY <1>t, <1>7 DEF LoadToQuarantine, CrawledStep, Load
    <2> QED
      BY <1>0, <1>t, <1>7, <2>1, LoadCrawled DEF LoadToQuarantine, InSession
  <1>8. CASE CommitQuarantine(p)
    <2> DEFINE new == [seen[p] EXCEPT !.status = "retryable", !.retry = 0]
    <2>1. new \in Row
      BY <1>0, WrittenRows
    <2>2. new.status \notin Indexable
      BY <1>0 DEF Row, Indexable
    <2>3. Commits(p, new)
      BY <1>8 DEF CommitQuarantine
    <2> HIDE DEF new
    <2> QED
      BY <1>1, <2>1, <2>2, <2>3
  <1> QED
    BY <1>2, <1>3, <1>4, <1>5, <1>6, <1>7, <1>8 DEF CommandStep

\* Whatever the processes do, a row is completed, indexed or index_failed only
\* if a crawl of the job ended with status 0.
THEOREM NothingIndexedUncrawled == Spec => []IndexedWasCrawled
  <1>1. Init => CrawledInv
    BY DEF Init, CrawledInv, IndexedWasCrawled, LocalCrawled, NewRow, Indexable,
           InSession
  <1>2. TypeOK /\ CrawledInv /\ [Next]_vars => CrawledInv'
    <2> SUFFICES ASSUME TypeOK, CrawledInv, [Next]_vars PROVE CrawledInv'
      OBVIOUS
    <2>1. ASSUME NEW p \in Procs, CrawledStep(p), LocalCrawled(p)' PROVE CrawledInv'
      BY <2>1, CrawledStepInv
    <2>2. ASSUME NEW w \in Workers, Pick(w) PROVE CrawledInv'
      <3>1. w \in Procs /\ LocalCrawled(w)
        BY DEF Procs, CrawledInv
      <3>2. CrawledStep(w)
        BY <2>2, <3>1 DEF Pick, CrawledStep, TypeOK, Goto, Aim, db, history
      <3>3. seen'[w] = NewRow /\ pc'[w] = "picked"
        BY <2>2, <3>1 DEF Pick, LocalCrawled, InSession, TypeOK, Goto
      <3> QED
        BY <2>1, <3>1, <3>2, <3>3 DEF LocalCrawled, NewRow, Indexable
    <2>3. ASSUME NEW p \in Procs, TierFails(p) \/ Dies(p) PROVE CrawledInv'
      <3>1. CrawledStep(p)
        BY <2>3 DEF TierFails, Dies, CrawledStep, TypeOK, Stop, Goto, Aim, Close,
                    db, history
      <3> QED
        BY <2>1, <2>3, <3>1, StopCrawled DEF TierFails, Dies
    <2>4. ASSUME NEW o \in Operators, NEW j \in Jobs, Command(o, j) PROVE CrawledInv'
      BY <2>1, <2>4, CommandCrawled DEF Procs
    <2>5. ASSUME NEW p \in Procs, Continue(p) PROVE CrawledInv'
      BY <2>1, <2>5, RunStepCrawled, WorkerStepCrawled, CommandStepCrawled
         DEF Continue
    <2>6. ASSUME NEW j \in Jobs, Age(j) \/ Cool(j) \/ OrphanEnds(j) PROVE CrawledInv'
      BY <2>6 DEF Age, Cool, OrphanEnds, db, history, CrawledInv,
                  IndexedWasCrawled, LocalCrawled
    <2>7. CASE UNCHANGED jobVars
      BY <2>7 DEF jobVars, CrawledInv, IndexedWasCrawled, LocalCrawled
    <2> QED
      BY NextCases, <2>2, <2>3, <2>4, <2>5, <2>6, <2>7 DEF Step, Procs
  <1>3. CrawledInv => IndexedWasCrawled
    BY DEF CrawledInv
  <1> QED
    BY <1>1, <1>2, <1>3, TypeCorrect, PTL DEF Spec

----------------------------------------------------------------------------
(* The contract of one job.                                                *)

\* The world in which the contract is promised.
OneWorker(w) == /\ Workers = {w}
                /\ Commands \subseteq {"index"}
                /\ MaxFaults = 0

\* What the runner recorded of a crawl that ended so: until the worker has
\* handled it, nobody but the indexer changes such a row, and only if it succeeded.
Judged(r, outcome) ==
    /\ outcome = "ok"     => r.status \in Indexable /\ r.crawler = "success"
    /\ outcome = "failed" => r.status = "failed" /\ r.crawler = "failed"
    /\ outcome = "config" => r.status = "failed" /\ r.crawler = "infra_error_config"
    /\ outcome = "infra"  => /\ r.status \in {"failed", "retryable"}
                             /\ r.crawler = "infra_error"

Handling == {"releasing", "post", "posting"}

\* What the worker has loaded is still true when it commits, except that a
\* success may have been indexed meanwhile.
WorkerFresh(w) ==
    /\ pc[w] \in {"idle", "picked", "locked", "starting", "crawling", "ended",
                  "finishing", "index", "indexing"} \cup Handling
    /\ pc[w] \in {"starting", "finishing"} => seen[w] = row[tgt[w]]
    /\ pc[w] = "starting" => row[tgt[w]].status \in Runnable
    /\ pc[w] \in Handling => Judged(row[tgt[w]], out[w])
    /\ pc[w] = "posting" => /\ Judged(seen[w], out[w])
                            /\ out[w] # "ok" => seen[w] = row[tgt[w]]

\* An open indexing session is on a row that nothing but indexing touches.
IndexersOnly ==
    /\ \A o \in Operators : pc[o] \in {"idle", "index", "indexing"}
    /\ \A p \in Procs : pc[p] = "indexing" => /\ seen[p].status \in Indexable
                                             /\ row[tgt[p]].status \in Indexable

RowsFit(w) ==
    /\ \A j \in Jobs : row[j].retry <= MaxCrawlRetries
    /\ \A j \in Jobs : row[j].status = "running" <=> Runs(w, j)

QuietInv(w) == WorkerFresh(w) /\ IndexersOnly /\ RowsFit(w)

-----------------------------------------------------------------------------
(* Commits.                                                                *)

\* A commit changes the row of the process's job only.
LEMMA CommitRow ==
  ASSUME TypeOK, NEW p \in Procs, NEW new \in Row, Commit(p, new)
  PROVE  /\ row'[tgt[p]] = Flush(seen[p], new, row[tgt[p]])
         /\ \A k \in Jobs \ {tgt[p]} : row'[k] = row[k]
  <1> DEFINE saved == Flush(seen[p], new, row[tgt[p]])
  <1>1. row' = [row EXCEPT ![tgt[p]] = saved]
    BY DEF Commit
  <1> HIDE DEF saved
  <1>2. row'[tgt[p]] = saved /\ \A k \in Jobs \ {tgt[p]} : row'[k] = row[k]
    BY <1>1 DEF TypeOK
  <1> QED
    BY <1>2 DEF saved

\* A session that is not stale leaves what it wrote.
LEMMA FreshFlush ==
  ASSUME NEW cur \in Row, NEW new \in Row
  PROVE  Flush(cur, new, cur) = new
  BY DEF Flush, Row

\* A session that changed nothing leaves the row alone.
LEMMA IdleFlush ==
  ASSUME NEW loaded \in Row, NEW cur \in Row
  PROVE  Flush(loaded, loaded, cur) = cur
  BY DEF Flush, Row

\* Indexing writes the status column, or nothing.
LEMMA StatusFlush ==
  ASSUME NEW loaded \in Row, NEW cur \in Row, NEW status \in Statuses
  PROVE  Flush(loaded, [loaded EXCEPT !.status = status], cur) \in
            {cur, [cur EXCEPT !.status = status]}
  <1>1. CASE status = loaded.status
    BY <1>1 DEF Flush, Row
  <1>2. CASE status # loaded.status
    BY <1>2 DEF Flush, Row
  <1> QED
    BY <1>1, <1>2

-----------------------------------------------------------------------------
(* The queue as the contract sees it.                                      *)

Stage == [j \in Jobs |-> StageOf(j)]
Spent == [j \in Jobs |-> row[j].retry]

\* A step of the contract, or none.
ContractStep == Contract!Next \/ UNCHANGED <<Stage, Spent>>

\* With one worker, at most one job is being handled.
LEMMA OneInHand ==
  ASSUME NEW w, OneWorker(w), NEW j \in Jobs
  PROVE  /\ InHand(j) <=> \/ row[j].status = "running"
                          \/ tgt[w] = j /\ out[w] # "ok" /\ pc[w] \in Handling
         /\ InHand(j)' <=> \/ row'[j].status = "running"
                           \/ tgt'[w] = j /\ out'[w] # "ok" /\ pc'[w] \in Handling
  <1>1. Workers = {w}
    BY DEF OneWorker
  <1>2. InHand(j) <=> \/ row[j].status = "running"
                      \/ tgt[w] = j /\ out[w] # "ok" /\ pc[w] \in Handling
    BY <1>1 DEF InHand, Handling
  <1>3. InHand(j)' <=> \/ row'[j].status = "running"
                       \/ tgt'[w] = j /\ out'[w] # "ok" /\ pc'[w] \in Handling
    BY <1>1 DEF InHand, Handling
  <1> QED
    BY <1>2, <1>3

\* What a job's stage depends on.
LEMMA SameStage ==
  ASSUME TypeOK, NEW j \in Jobs, row'[j] = row[j], InHand(j)' <=> InHand(j)
  PROVE  StageOf(j)' = StageOf(j)
  <1>1. CASE InHand(j)
    BY <1>1 DEF StageOf
  <1>2. CASE ~InHand(j)
    <2>1. row[j].status \in Statuses /\ row[j].status # "running"
      BY <1>2 DEF TypeOK, Row, InHand
    <2> QED
      BY <1>2, <2>1 DEF StageOf, Runnable, Statuses
  <1> QED
    BY <1>1, <1>2

\* The stages of the rows, now and after a step.
StagesFit ==
    \A j \in Jobs :
        /\ StageOf(j) = "crawling" <=> InHand(j)
        /\ ~InHand(j) =>
              /\ row[j].status \in Runnable => StageOf(j) = "waiting"
              /\ row[j].status = "completed" => StageOf(j) = "crawled"
              /\ row[j].status \in {"indexed", "index_failed"} =>
                    StageOf(j) = row[j].status
              /\ row[j].status = "failed" =>
                    StageOf(j) = IF row[j].crawler = "infra_error_config"
                                 THEN "misconfigured" ELSE "given_up"

LEMMA StagesOfRows ==
  /\ TypeOK => StagesFit
  /\ TypeOK' => StagesFit'
  <1>1. TypeOK => StagesFit
    <2> SUFFICES ASSUME TypeOK, NEW j \in Jobs
                 PROVE  /\ StageOf(j) = "crawling" <=> InHand(j)
                        /\ ~InHand(j) =>
                              /\ row[j].status \in Runnable => StageOf(j) = "waiting"
                              /\ row[j].status = "completed" => StageOf(j) = "crawled"
                              /\ row[j].status \in {"indexed", "index_failed"} =>
                                    StageOf(j) = row[j].status
                              /\ row[j].status = "failed" =>
                                    StageOf(j) =
                                       IF row[j].crawler = "infra_error_config"
                                       THEN "misconfigured" ELSE "given_up"
      BY DEF StagesFit
    <2>1. CASE InHand(j)
      BY <2>1 DEF StageOf
    <2>2. CASE ~InHand(j)
      <3>1. row[j].status \in Statuses /\ row[j].status # "running"
        BY <2>2 DEF TypeOK, Row, InHand
      <3> QED
        BY <2>2, <3>1 DEF StageOf, Runnable, Statuses
    <2> QED
      BY <2>1, <2>2
  <1>2. TypeOK' => StagesFit'
    BY <1>1, PTL
  <1> QED
    BY <1>1, <1>2

\* One job changes its stage.
LEMMA MoveOf ==
  ASSUME NEW j \in Jobs, NEW from, NEW to,
         StageOf(j) \in from, StageOf(j)' = to,
         \A k \in Jobs \ {j} : StageOf(k)' = StageOf(k)
  PROVE  Contract!Moves(j, from, to)
  <1>1. [k \in Jobs |-> StageOf(k)'] =
           [[k \in Jobs |-> StageOf(k)] EXCEPT ![j] = to]
    OBVIOUS
  <1> QED
    BY <1>1 DEF Contract!Moves

\* No job does.
LEMMA NoMove ==
  ASSUME \A k \in Jobs : StageOf(k)' = StageOf(k) /\ row'[k].retry = row[k].retry
  PROVE  ContractStep
  BY DEF ContractStep, Stage, Spent

\* A step that leaves the rows, and what is in hand, as they are.
LEMMA Stutters ==
  ASSUME TypeOK, NEW w, OneWorker(w), UNCHANGED row,
         \/ /\ tgt'[w] = tgt[w] /\ out'[w] = out[w]
            /\ pc'[w] \in Handling <=> pc[w] \in Handling
         \/ pc'[w] \notin Handling /\ pc[w] \notin Handling
  PROVE  ContractStep
  <1> SUFFICES ASSUME NEW k \in Jobs
               PROVE  StageOf(k)' = StageOf(k) /\ row'[k].retry = row[k].retry
    BY NoMove
  <1>1. InHand(k)' <=> InHand(k)
    BY OneInHand
  <1> QED
    BY <1>1, SameStage

-----------------------------------------------------------------------------
(* Indexing.                                                               *)

\* A step of p moves nobody else.
OnlyMoves(p) ==
    \A q \in Procs \ {p} : /\ pc'[q] = pc[q] /\ tgt'[q] = tgt[q]
                           /\ seen'[q] = seen[q] /\ out'[q] = out[q]

\* A process that stops is idle, and moves nobody else.
LEMMA StopMoves ==
  ASSUME TypeOK, NEW p \in Procs, Stop(p)
  PROVE  OnlyMoves(p) /\ pc'[p] = "idle" /\ out'[p] = "ok"
  BY DEF TypeOK, Stop, Goto, Aim, Close, OnlyMoves

\* Whoever indexes a job, the worker or an operator, and whatever was indexed
\* meanwhile: the job stays one that was crawled, and the worker's session on
\* another job, or on a success it has yet to handle, stays true.
LEMMA IndexCommits ==
  ASSUME TypeOK, TypeOK', NEW w, OneWorker(w), QuietInv(w), NEW p \in Procs,
         NEW status \in {"indexed", "index_failed"}, CommitIndex(p, status)
  PROVE  QuietInv(w)' /\ ContractStep
  <1>t. PICK t \in Jobs : t = tgt[p]
    BY DEF TypeOK
  <1>w. w \in Procs
    BY DEF OneWorker, Procs
  <1>1. /\ t \in Jobs /\ seen[p] \in Row /\ row[t] \in Row
        /\ pc[p] = "indexing" /\ row[t].status \in Indexable
    BY <1>t DEF TypeOK, CommitIndex, QuietInv, IndexersOnly
  <1>2. OnlyMoves(p) /\ pc'[p] = "idle"
    BY StopMoves DEF CommitIndex
  <1>r. status \in Statuses /\ [seen[p] EXCEPT !.status = status] \in Row
    <2>1. status \in Statuses /\ "ok" \in Outcomes
      BY DEF Statuses, Outcomes
    <2> QED
      BY <1>1, <2>1, WrittenRows
  <1>3. row'[t] \in {row[t], [row[t] EXCEPT !.status = status]}
    BY <1>t, <1>1, <1>r, CommitRow, StatusFlush DEF CommitIndex
  <1>4. \A k \in Jobs \ {t} : row'[k] = row[k]
    BY <1>t, <1>r, CommitRow DEF CommitIndex
  <1>5. /\ row'[t].status \in Indexable
        /\ row'[t].crawler = row[t].crawler /\ row'[t].retry = row[t].retry
        /\ row'[t].status \in {row[t].status, status}
    BY <1>1, <1>3 DEF Row, Indexable
  <1>6. \A j \in Jobs : Runs(w, j)' <=> Runs(w, j)
    BY <1>w, <1>1, <1>2 DEF OnlyMoves, Runs
  <1>7. RowsFit(w)'
    <2>1. \A j \in Jobs : /\ row'[j].retry = row[j].retry
                          /\ row'[j].status = "running" <=> row[j].status = "running"
      BY <1>1, <1>4, <1>5 DEF Indexable
    <2> QED
      BY <1>6, <2>1 DEF QuietInv, RowsFit
  <1>8. IndexersOnly'
    <2>1. \A k \in Jobs : row[k].status \in Indexable => row'[k].status \in Indexable
      BY <1>4, <1>5
    <2>2. \A q \in Procs : tgt[q] \in Jobs
      BY DEF TypeOK
    <2> QED
      BY <1>2, <2>1, <2>2 DEF QuietInv, IndexersOnly, OnlyMoves, Procs
  <1>9. WorkerFresh(w)' /\ ~InHand(t) /\ (\A j \in Jobs : InHand(j)' <=> InHand(j))
    <2>0. \A j \in Jobs : row'[j].status = "running" <=> row[j].status = "running"
      BY <1>1, <1>4, <1>5 DEF Indexable
    <2>1. CASE p = w
      <3>1. pc[w] \notin Handling /\ pc'[w] \notin Handling
        BY <1>1, <1>2, <2>1 DEF Handling
      <3>2. WorkerFresh(w)'
        BY <1>2, <2>1, <3>1 DEF WorkerFresh
      <3> QED
        BY <1>1, <2>0, <3>1, <3>2, OneInHand DEF Indexable
    <2>2. CASE p # w
      <3>1. /\ pc'[w] = pc[w] /\ tgt'[w] = tgt[w]
            /\ seen'[w] = seen[w] /\ out'[w] = out[w]
        BY <1>w, <1>2, <2>2 DEF OnlyMoves
      <3>2. tgt[w] \in Jobs /\ out[w] \in Outcomes
        BY <1>w DEF TypeOK
      <3>3. WorkerFresh(w) /\ RowsFit(w)
        BY DEF QuietInv
      <3>4. pc[w] = "starting" => tgt[w] # t
        BY <1>1, <3>3 DEF WorkerFresh, Runnable, Indexable
      <3>5. pc[w] = "finishing" => tgt[w] # t
        BY <1>1, <3>3 DEF RowsFit, Runs, Indexable
      <3>6. pc[w] \in Handling /\ out[w] # "ok" => tgt[w] # t
        BY <1>1, <3>2, <3>3 DEF WorkerFresh, Judged, Outcomes, Indexable
      <3>7. pc[w] \in Handling => Judged(row'[tgt[w]], out[w])
        <4>1. CASE tgt[w] # t
          BY <1>4, <3>2, <3>3, <4>1 DEF WorkerFresh
        <4>2. CASE tgt[w] = t
          BY <1>5, <3>3, <3>6, <4>2 DEF WorkerFresh, Judged
        <4> QED
          BY <4>1, <4>2
      <3>8. WorkerFresh(w)'
        BY <1>4, <3>1, <3>2, <3>3, <3>4, <3>5, <3>6, <3>7 DEF WorkerFresh, Handling
      <3> QED
        BY <1>1, <2>0, <3>1, <3>6, <3>8, OneInHand DEF Indexable
    <2> QED
      BY <2>1, <2>2
  <1>10. ContractStep
    <2>1. \A k \in Jobs \ {t} : StageOf(k)' = StageOf(k)
      BY <1>4, <1>9, SameStage
    <2>2. \A k \in Jobs : row'[k].retry = row[k].retry
      BY <1>4, <1>5
    <2>3. CASE row'[t] = row[t]
      BY <1>1, <1>9, <2>1, <2>2, <2>3, SameStage, NoMove
    <2>4. CASE row'[t] = [row[t] EXCEPT !.status = status]
      <3>1. StageOf(t) \in {"crawled", "indexed", "index_failed"}
        BY <1>1, <1>9, StagesOfRows DEF StagesFit, Indexable
      <3>2. row'[t].status = status
        BY <1>1, <2>4 DEF Row
      <3>3. StageOf(t)' = status
        BY <1>1, <1>9, <3>2, StagesOfRows DEF StagesFit
      <3>4. Contract!Moves(t, {"crawled", "indexed", "index_failed"}, status)
        BY <1>1, <2>1, <3>1, <3>3, MoveOf
      <3>5. Contract!Index(t)
        BY <2>2, <3>4 DEF Contract!Index
      <3> QED
        BY <1>1, <3>5 DEF ContractStep, Contract!Next
    <2> QED
      BY <1>3, <2>3, <2>4
  <1> QED
    BY <1>7, <1>8, <1>9, <1>10 DEF QuietInv

-----------------------------------------------------------------------------
(* The worker.                                                             *)

\* What a step of the worker that writes no row has to show of itself.
LEMMA WorkerReads ==
  ASSUME TypeOK, NEW w, OneWorker(w), QuietInv(w),
         UNCHANGED row, OnlyMoves(w), WorkerFresh(w)',
         \A j \in Jobs : Runs(w, j)' <=> Runs(w, j),
         pc'[w] = "indexing" => /\ seen'[w].status \in Indexable
                                /\ row[tgt'[w]].status \in Indexable,
         \/ /\ tgt'[w] = tgt[w] /\ out'[w] = out[w]
            /\ pc'[w] \in Handling <=> pc[w] \in Handling
         \/ pc'[w] \notin Handling /\ pc[w] \notin Handling
  PROVE  QuietInv(w)' /\ ContractStep
  <1>1. ContractStep
    BY Stutters
  <1>2. w \notin Operators
    BY ProcsAssumption DEF OneWorker
  <1>3. IndexersOnly'
    BY <1>2 DEF QuietInv, IndexersOnly, OnlyMoves, Procs
  <1>4. RowsFit(w)'
    BY DEF QuietInv, RowsFit
  <1> QED
    BY <1>1, <1>3, <1>4 DEF QuietInv

\* The steps of the worker that write no row.
ReadStep(w) ==
    \/ Pick(w) \/ TierFails(w) \/ TakeLock(w) \/ LoadToStart(w) \/ NotRunnable(w)
    \/ \E outcome \in Outcomes : CrawlEnds(w, outcome)
    \/ LoadToFinish(w) \/ Release(w) \/ LoadToHandle(w)
    \/ LoadToIndex(w) \/ NotIndexable(w)

LEMMA ReadSteps ==
  ASSUME TypeOK, NEW w, OneWorker(w), QuietInv(w), ReadStep(w)
  PROVE  QuietInv(w)' /\ ContractStep
  <1>w. w \in Procs /\ w \in Workers
    BY DEF OneWorker, Procs
  <1>t. /\ pc \in [Procs -> PCs] /\ tgt \in [Procs -> Jobs]
        /\ seen \in [Procs -> Row] /\ out \in [Procs -> Outcomes]
        /\ tgt[w] \in Jobs
    BY <1>w DEF TypeOK
  <1>f. WorkerFresh(w) /\ RowsFit(w)
    BY DEF QuietInv
  <1> USE DEF db, Goto, Aim, Load, OnlyMoves, Runs, Handling
  <1>1. CASE Pick(w)
    <2>1. pc[w] = "idle" /\ pc'[w] = "picked" /\ UNCHANGED row
      BY <1>w, <1>t, <1>1 DEF Pick
    <2>2. OnlyMoves(w)
      BY <1>w, <1>t, <1>1 DEF Pick
    <2> QED
      BY <2>1, <2>2, WorkerReads DEF WorkerFresh
  <1>2. CASE TakeLock(w)
    <2>1. pc[w] = "picked" /\ pc'[w] = "locked" /\ UNCHANGED <<row, tgt>>
      BY <1>w, <1>t, <1>2 DEF TakeLock
    <2>2. OnlyMoves(w)
      BY <1>w, <1>t, <1>2 DEF TakeLock
    <2> QED
      BY <2>1, <2>2, WorkerReads DEF WorkerFresh
  <1>3. CASE LoadToStart(w)
    <2>1. /\ pc[w] = "locked" /\ pc'[w] = "starting" /\ UNCHANGED <<row, tgt, out>>
          /\ seen'[w] = row[tgt[w]] /\ row[tgt[w]].status \in Runnable
      BY <1>w, <1>t, <1>3 DEF LoadToStart
    <2>2. OnlyMoves(w)
      BY <1>w, <1>t, <1>3 DEF LoadToStart
    <2> QED
      BY <2>1, <2>2, WorkerReads DEF WorkerFresh
  <1>4. CASE NotRunnable(w)
    <2>1. pc[w] = "locked" /\ UNCHANGED row
      BY <1>4 DEF NotRunnable
    <2>2. OnlyMoves(w) /\ pc'[w] = "idle"
      BY <1>w, <1>4, StopMoves DEF NotRunnable
    <2> QED
      BY <2>1, <2>2, WorkerReads DEF WorkerFresh
  <1>5. ASSUME NEW outcome \in Outcomes, CrawlEnds(w, outcome)
        PROVE  QuietInv(w)' /\ ContractStep
    <2>1. pc[w] = "crawling" /\ pc'[w] = "ended" /\ UNCHANGED <<row, tgt>>
      BY <1>w, <1>t, <1>5 DEF CrawlEnds
    <2>2. OnlyMoves(w)
      BY <1>w, <1>t, <1>5 DEF CrawlEnds
    <2> QED
      BY <2>1, <2>2, WorkerReads DEF WorkerFresh
  <1>6. CASE LoadToFinish(w)
    <2>1. /\ pc[w] = "ended" /\ pc'[w] = "finishing" /\ UNCHANGED <<row, tgt, out>>
          /\ seen'[w] = row[tgt[w]]
      BY <1>w, <1>t, <1>6 DEF LoadToFinish
    <2>2. OnlyMoves(w)
      BY <1>w, <1>t, <1>6 DEF LoadToFinish
    <2> QED
      BY <2>1, <2>2, WorkerReads DEF WorkerFresh
  <1>7. CASE Release(w)
    <2>1. /\ pc[w] = "releasing" /\ pc'[w] = "post"
          /\ UNCHANGED <<row, tgt, seen, out>>
      BY <1>w, <1>t, <1>7 DEF Release
    <2>2. OnlyMoves(w)
      BY <1>w, <1>t, <1>7 DEF Release
    <2>3. WorkerFresh(w)'
      BY <1>f, <2>1 DEF WorkerFresh
    <2> QED
      BY <2>1, <2>2, <2>3, WorkerReads
  <1>8. CASE LoadToHandle(w)
    <2>1. /\ pc[w] = "post" /\ pc'[w] = "posting" /\ UNCHANGED <<row, tgt, out>>
          /\ seen'[w] = row[tgt[w]]
      BY <1>w, <1>t, <1>8 DEF LoadToHandle
    <2>2. OnlyMoves(w)
      BY <1>w, <1>t, <1>8 DEF LoadToHandle
    <2>3. WorkerFresh(w)'
      BY <1>f, <2>1 DEF WorkerFresh
    <2> QED
      BY <2>1, <2>2, <2>3, WorkerReads
  <1>9. CASE LoadToIndex(w)
    <2>1. /\ pc[w] = "index" /\ pc'[w] = "indexing" /\ UNCHANGED <<row, tgt, out>>
          /\ seen'[w] = row[tgt[w]] /\ row[tgt[w]].status \in Indexable
      BY <1>w, <1>t, <1>9 DEF LoadToIndex
    <2>2. OnlyMoves(w)
      BY <1>w, <1>t, <1>9 DEF LoadToIndex
    <2> QED
      BY <2>1, <2>2, WorkerReads DEF WorkerFresh
  <1>10. CASE NotIndexable(w)
    <2>1. pc[w] = "index" /\ UNCHANGED row
      BY <1>10 DEF NotIndexable
    <2>2. OnlyMoves(w) /\ pc'[w] = "idle"
      BY <1>w, <1>10, StopMoves DEF NotIndexable
    <2> QED
      BY <2>1, <2>2, WorkerReads DEF WorkerFresh
  <1>11. CASE TierFails(w)
    <2>1. pc[w] = "picked" /\ UNCHANGED row
      BY <1>11 DEF TierFails
    <2>2. OnlyMoves(w) /\ pc'[w] = "idle"
      BY <1>w, <1>11, StopMoves DEF TierFails
    <2> QED
      BY <2>1, <2>2, WorkerReads DEF WorkerFresh
  <1> QED
    BY <1>1, <1>2, <1>3, <1>4, <1>5, <1>6, <1>7, <1>8, <1>9, <1>10, <1>11 DEF ReadStep

\* What a commit of the worker has to show, when it is not one of indexing.
LEMMA WorkerWrites ==
  ASSUME TypeOK, NEW w, OneWorker(w), QuietInv(w), OnlyMoves(w),
         NEW t \in Jobs, t = tgt[w], \A k \in Jobs \ {t} : row'[k] = row[k],
         row[t].status \in Indexable => row'[t].status \in Indexable,
         row'[t].retry <= MaxCrawlRetries,
         pc'[w] # "indexing", WorkerFresh(w)',
         row'[t].status = "running" <=> Runs(w, t)',
         \A k \in Jobs \ {t} : ~Runs(w, k)'
  PROVE  QuietInv(w)'
  <1>1. w \notin Operators
    BY ProcsAssumption DEF OneWorker
  <1>2. IndexersOnly'
    <2>1. \A q \in Procs : tgt[q] \in Jobs
      BY DEF TypeOK
    <2> QED
      BY <1>1, <2>1 DEF QuietInv, IndexersOnly, OnlyMoves, Procs
  <1>3. RowsFit(w)'
    <2>1. \A k \in Jobs \ {t} : row[k].status = "running" <=> Runs(w, k)
      BY DEF QuietInv, RowsFit
    <2>2. \A k \in Jobs \ {t} : ~Runs(w, k)
      BY DEF Runs
    <2> QED
      BY <2>1, <2>2 DEF QuietInv, RowsFit
  <1> QED
    BY <1>2, <1>3 DEF QuietInv

\* The crawl starts: no other is under way.
LEMMA StartCommits ==
  ASSUME TypeOK, TypeOK', NEW w, OneWorker(w), QuietInv(w), CommitStart(w)
  PROVE  QuietInv(w)' /\ ContractStep
  <1>w. w \in Procs
    BY DEF OneWorker, Procs
  <1>t. PICK t \in Jobs : t = tgt[w]
    BY <1>w DEF TypeOK
  <1> DEFINE new == [row[t] EXCEPT !.status = "running", !.crawler = "none"]
  <1>1. /\ pc[w] = "starting" /\ pc'[w] = "crawling" /\ UNCHANGED <<tgt, out>>
        /\ OnlyMoves(w) /\ Commit(w, [seen[w] EXCEPT !.status = "running",
                                                     !.crawler = "none"])
    BY <1>w DEF CommitStart, TypeOK, Goto, Close, OnlyMoves
  <1>2. seen[w] = row[t] /\ row[t].status \in Runnable /\ row[t] \in Row
    BY <1>t, <1>1 DEF QuietInv, WorkerFresh, TypeOK
  <1>3. new \in Row
    <2>1. "ok" \in Outcomes
      BY DEF Outcomes
    <2> QED
      BY <1>2, <2>1, WrittenRows
  <1>4. row'[t] = new /\ \A k \in Jobs \ {t} : row'[k] = row[k]
    BY <1>w, <1>t, <1>1, <1>2, <1>3, CommitRow, FreshFlush
  <1>5. row'[t].status = "running" /\ row'[t].retry = row[t].retry
    BY <1>2, <1>4 DEF Row
  <1>6. QuietInv(w)'
    <2>1. WorkerFresh(w)'
      BY <1>1 DEF WorkerFresh, Handling
    <2>2. row'[t].retry <= MaxCrawlRetries
      BY <1>5 DEF QuietInv, RowsFit
    <2>3. row[t].status \notin Indexable
      BY <1>2 DEF Runnable, Indexable
    <2>4. /\ row'[t].status = "running" <=> Runs(w, t)'
          /\ \A k \in Jobs \ {t} : ~Runs(w, k)'
      BY <1>t, <1>1, <1>5 DEF Runs
    <2> QED
      BY <1>t, <1>1, <1>4, <2>1, <2>2, <2>3, <2>4, WorkerWrites
  <1>7. \A k \in Jobs : ~InHand(k)
    BY <1>1, OneInHand DEF QuietInv, RowsFit, Runs, Handling
  <1>8. InHand(t)' /\ \A k \in Jobs \ {t} : ~InHand(k)'
    BY <1>1, <1>4, <1>5, <1>7, OneInHand DEF Handling
  <1>9. /\ \A k \in Jobs : StageOf(k) # "crawling"
        /\ StageOf(t) = "waiting" /\ StageOf(t)' = "crawling"
    BY <1>2, <1>7, <1>8, StagesOfRows DEF StagesFit
  <1>10. Contract!Moves(t, {"waiting"}, "crawling")
    BY <1>4, <1>7, <1>8, <1>9, SameStage, MoveOf
  <1>11. \A k \in Jobs : row'[k].retry = row[k].retry
    BY <1>4, <1>5
  <1>12. Contract!Start(t)
    BY <1>9, <1>10, <1>11 DEF Contract!Start
  <1> QED
    BY <1>6, <1>12 DEF ContractStep, Contract!Next

\* The outcome is recorded: for the contract only a success is news, until the
\* worker has handled it.
LEMMA FinishCommits ==
  ASSUME TypeOK, TypeOK', NEW w, OneWorker(w), QuietInv(w), CommitFinish(w)
  PROVE  QuietInv(w)' /\ ContractStep
  <1>w. w \in Procs
    BY DEF OneWorker, Procs
  <1>t. PICK t \in Jobs : t = tgt[w]
    BY <1>w DEF TypeOK
  <1>1. /\ pc[w] = "finishing" /\ pc'[w] = "releasing" /\ UNCHANGED <<tgt, out>>
        /\ OnlyMoves(w) /\ Commit(w, Verdict(seen[w], out[w]))
        /\ out[w] \in Outcomes
    BY <1>w DEF CommitFinish, TypeOK, Goto, Close, OnlyMoves
  <1>2. seen[w] = row[t] /\ row[t].status = "running" /\ row[t] \in Row
    BY <1>t, <1>1 DEF QuietInv, WorkerFresh, RowsFit, Runs, TypeOK
  <1>3. Verdict(row[t], out[w]) \in Row
    BY <1>1, <1>2, WrittenRows
  <1>4. row'[t] = Verdict(row[t], out[w]) /\ \A k \in Jobs \ {t} : row'[k] = row[k]
    BY <1>w, <1>t, <1>1, <1>2, <1>3, CommitRow, FreshFlush
  <1>5. /\ row'[t].retry = row[t].retry
        /\ out[w] = "ok" => row'[t].status = "completed" /\ row'[t].crawler = "success"
        /\ out[w] # "ok" => row'[t].status \in {"failed", "retryable"}
        /\ Judged(row'[t], out[w])
    <2>1. CASE out[w] = "ok"
      BY <1>2, <1>4, <2>1 DEF Verdict, Row, Judged, Indexable
    <2>2. CASE out[w] = "failed"
      BY <1>2, <1>4, <2>2 DEF Verdict, Row, Judged, Indexable
    <2>3. CASE out[w] = "config"
      BY <1>2, <1>4, <2>3 DEF Verdict, Row, Judged, Indexable
    <2>4. CASE out[w] = "infra"
      BY <1>2, <1>4, <2>4 DEF Verdict, Row, Judged, Indexable
    <2> QED
      BY <1>1, <2>1, <2>2, <2>3, <2>4 DEF Outcomes
  <1>6. QuietInv(w)'
    <2>1. WorkerFresh(w)'
      BY <1>t, <1>1, <1>5 DEF WorkerFresh, Handling
    <2>2. row'[t].retry <= MaxCrawlRetries
      BY <1>5 DEF QuietInv, RowsFit
    <2>3. row[t].status \notin Indexable /\ row'[t].status # "running"
      BY <1>2, <1>5 DEF Indexable
    <2>4. \A k \in Jobs : ~Runs(w, k)'
      BY <1>1 DEF Runs
    <2> QED
      BY <1>t, <1>1, <1>4, <2>1, <2>2, <2>3, <2>4, WorkerWrites
  <1>7. InHand(t) /\ (\A k \in Jobs \ {t} : InHand(k)' <=> InHand(k))
    BY <1>t, <1>1, <1>2, <1>4, OneInHand
  <1>8. InHand(t)' <=> out[w] # "ok"
    BY <1>t, <1>1, <1>5, OneInHand DEF Handling
  <1>9. /\ \A k \in Jobs \ {t} : StageOf(k)' = StageOf(k)
        /\ \A k \in Jobs : row'[k].retry = row[k].retry
    BY <1>4, <1>5, <1>7, SameStage
  <1>10. CASE out[w] = "ok"
    <2>1. StageOf(t) = "crawling" /\ StageOf(t)' = "crawled"
      BY <1>5, <1>7, <1>8, <1>10, StagesOfRows DEF StagesFit
    <2>2. Contract!Moves(t, {"crawling"}, "crawled")
      BY <1>9, <2>1, MoveOf
    <2>3. Contract!Succeed(t)
      BY <1>9, <2>2 DEF Contract!Succeed
    <2> QED
      BY <1>6, <2>3 DEF ContractStep, Contract!Next
  <1>11. CASE out[w] # "ok"
    <2>1. StageOf(t) = "crawling" /\ StageOf(t)' = "crawling"
      BY <1>7, <1>8, <1>11, StagesOfRows DEF StagesFit
    <2> QED
      BY <1>6, <1>9, <2>1, NoMove
  <1> QED
    BY <1>10, <1>11

\* What the worker makes of a recorded outcome.
LEMMA HandledIs ==
  ASSUME NEW s \in Row, NEW outcome \in Outcomes, Judged(s, outcome)
  PROVE  /\ outcome = "ok" => /\ s.crawler \notin InfraErrors
                              /\ ~Retries(s, outcome)
                              /\ Handled(s, outcome) = s
         /\ outcome # "ok" => s.crawler \in InfraErrors \/ Retries(s, outcome)
         /\ outcome = "config" => Handled(s, outcome) = s
         /\ outcome = "infra" =>
               /\ Handled(s, outcome).status = "retryable"
               /\ Handled(s, outcome).retry = s.retry
         /\ outcome = "failed" /\ s.retry < MaxCrawlRetries =>
               /\ Handled(s, outcome).status = "retryable"
               /\ Handled(s, outcome).retry = s.retry + 1
         /\ outcome = "failed" /\ ~(s.retry < MaxCrawlRetries) =>
               Handled(s, outcome) = s
  <1>1. CASE outcome = "ok"
    <2>1. s.crawler \notin InfraErrors /\ s.crawler # "infra_error" /\ s.status # "failed"
      BY <1>1 DEF Judged, InfraErrors, Indexable
    <2>2. ~Retries(s, outcome)
      BY <1>1, <2>1 DEF Retries
    <2> QED
      BY <1>1, <2>1, <2>2 DEF Handled
  <1>2. CASE outcome = "failed"
    <2>1. s.crawler \notin InfraErrors /\ s.crawler # "infra_error"
      BY <1>2 DEF Judged, InfraErrors
    <2>2. Retries(s, outcome)
      BY <1>2, <2>1 DEF Retries
    <2> QED
      BY <1>2, <2>1, <2>2 DEF Handled, Row
  <1>3. CASE outcome = "config"
    <2>1. s.crawler \in InfraErrors /\ s.crawler # "infra_error"
      BY <1>3 DEF Judged, InfraErrors
    <2>2. ~Retries(s, outcome)
      BY <2>1 DEF Retries
    <2> QED
      BY <1>3, <2>1, <2>2 DEF Handled
  <1>4. CASE outcome = "infra"
    <2>1. s.crawler \in InfraErrors /\ s.crawler = "infra_error"
      BY <1>4 DEF Judged, InfraErrors
    <2> QED
      BY <1>4, <2>1 DEF Handled, Row
  <1> QED
    BY <1>1, <1>2, <1>3, <1>4 DEF Outcomes

\* The outcome is handled: a success goes on to be indexed, a failure is paid for
\* with a retry while there is one.
LEMMA HandleCommits ==
  ASSUME TypeOK, TypeOK', NEW w, OneWorker(w), QuietInv(w), CommitHandled(w)
  PROVE  QuietInv(w)' /\ ContractStep
  <1>w. w \in Procs
    BY DEF OneWorker, Procs
  <1>t. PICK t \in Jobs : t = tgt[w]
    BY <1>w DEF TypeOK
  <1>1. /\ pc[w] = "posting" /\ Commit(w, Handled(seen[w], out[w]))
        /\ out[w] \in Outcomes /\ seen[w] \in Row /\ row[t] \in Row
        /\ Judged(seen[w], out[w]) /\ Judged(row[t], out[w])
        /\ out[w] # "ok" => seen[w] = row[t]
    BY <1>w, <1>t DEF CommitHandled, TypeOK, QuietInv, WorkerFresh, Handling
  <1>2. Handled(seen[w], out[w]) \in Row
    BY <1>1, WrittenRows
  <1>3. /\ row'[t] = Flush(seen[w], Handled(seen[w], out[w]), row[t])
        /\ \A k \in Jobs \ {t} : row'[k] = row[k]
    BY <1>w, <1>t, <1>1, <1>2, CommitRow
  <1>4. OnlyMoves(w)
    <2>1. Stop(w) \/ (Goto(w, "index") /\ Close(w) /\ UNCHANGED <<tgt, out>>)
      BY DEF CommitHandled
    <2> QED
      BY <1>w, <2>1, StopMoves DEF TypeOK, Goto, Close, OnlyMoves
  <1>5. pc'[w] \in {"idle", "index"}
    <2>1. Stop(w) \/ Goto(w, "index")
      BY DEF CommitHandled
    <2> QED
      BY <1>w, <2>1, StopMoves DEF TypeOK, Goto
  <1>6. \A k \in Jobs : /\ InHand(k)' <=> row'[k].status = "running"
                        /\ k # t => (InHand(k) <=> row[k].status = "running")
    BY <1>t, <1>5, OneInHand DEF Handling
  <1>7. \A k \in Jobs \ {t} : StageOf(k)' = StageOf(k)
    BY <1>3, <1>6, SameStage
  <1>8. ASSUME row'[t].retry <= MaxCrawlRetries, row'[t].status # "running",
               row[t].status \in Indexable => row'[t] = row[t]
        PROVE  QuietInv(w)'
    <2>1. WorkerFresh(w)' /\ \A k \in Jobs : ~Runs(w, k)'
      BY <1>5 DEF WorkerFresh, Handling, Runs
    <2> QED
      BY <1>t, <1>3, <1>4, <1>5, <1>8, <2>1, WorkerWrites
  <1>9. row[t].retry \in Nat /\ row[t].retry <= MaxCrawlRetries
    BY <1>1 DEF Row, QuietInv, RowsFit
  <1>10. CASE out[w] = "ok"
    <2>1. row'[t] = row[t]
      <3>1. Handled(seen[w], out[w]) = seen[w]
        BY <1>1, <1>10, HandledIs
      <3> QED
        BY <1>1, <1>3, <3>1, IdleFlush
    <2>2. row[t].status # "running"
      BY <1>1, <1>10 DEF Judged, Indexable
    <2>3. StageOf(t)' = StageOf(t)
      <3>1. InHand(t) <=> row[t].status = "running"
        BY <1>10, <1>t, OneInHand
      <3> QED
        BY <1>6, <2>1, <3>1, SameStage
    <2>4. ContractStep
      BY <1>3, <1>7, <2>1, <2>3, NoMove
    <2> QED
      BY <1>8, <1>9, <2>1, <2>2, <2>4
  <1>11. CASE out[w] # "ok"
    <2>1. row'[t] = Handled(row[t], out[w])
      BY <1>1, <1>2, <1>3, <1>11, FreshFlush
    <2>2. StageOf(t) = "crawling"
      <3>1. InHand(t)
        BY <1>1, <1>11, <1>t, OneInHand DEF Handling
      <3> QED
        BY <3>1, StagesOfRows DEF StagesFit
    <2>3. row[t].status \in {"failed", "retryable"}
      BY <1>1, <1>11 DEF Judged, Outcomes
    <2>4. row[t].status \notin Indexable
      BY <2>3 DEF Indexable
    <2>5. CASE out[w] = "config"
      <3>1. row'[t] = row[t] /\ row[t].status = "failed"
            /\ row[t].crawler = "infra_error_config"
        BY <1>1, <2>1, <2>5, HandledIs DEF Judged
      <3>2. StageOf(t)' = "misconfigured"
        BY <1>6, <3>1, StagesOfRows DEF StagesFit
      <3>3. Contract!Abandon(t)
        <4>1. Contract!Moves(t, {"crawling"}, "misconfigured")
          BY <1>7, <2>2, <3>2, MoveOf
        <4> QED
          BY <1>3, <3>1, <4>1 DEF Contract!Abandon
      <3> QED
        BY <1>8, <1>9, <3>1, <3>3 DEF ContractStep, Contract!Next
    <2>6. CASE out[w] = "infra"
      <3>1. row'[t].status = "retryable" /\ row'[t].retry = row[t].retry
        BY <1>1, <2>1, <2>6, HandledIs
      <3>2. StageOf(t)' = "waiting"
        BY <1>6, <3>1, StagesOfRows DEF StagesFit, Runnable
      <3>3. Contract!Postpone(t)
        <4>1. Contract!Moves(t, {"crawling"}, "waiting")
          BY <1>7, <2>2, <3>2, MoveOf
        <4> QED
          BY <1>3, <3>1, <4>1 DEF Contract!Postpone
      <3> QED
        BY <1>8, <1>9, <2>4, <3>1, <3>3 DEF ContractStep, Contract!Next
    <2>7. CASE out[w] = "failed" /\ row[t].retry < MaxCrawlRetries
      <3>1. row'[t].status = "retryable" /\ row'[t].retry = row[t].retry + 1
        BY <1>1, <2>1, <2>7, HandledIs
      <3>2. StageOf(t)' = "waiting"
        BY <1>6, <3>1, StagesOfRows DEF StagesFit, Runnable
      <3>3. Contract!Retry(t)
        <4>1. Contract!Moves(t, {"crawling"}, "waiting")
          BY <1>7, <2>2, <3>2, MoveOf
        <4>2. [k \in Jobs |-> row'[k].retry] =
                 [[k \in Jobs |-> row[k].retry] EXCEPT ![t] = @ + 1]
          BY <1>3, <3>1
        <4> QED
          BY <2>7, <4>1, <4>2 DEF Contract!Retry
      <3>4. row'[t].retry <= MaxCrawlRetries
        BY <1>9, <2>7, <3>1, BudgetAssumption
      <3> QED
        BY <1>8, <2>4, <3>1, <3>3, <3>4 DEF ContractStep, Contract!Next
    <2>8. CASE out[w] = "failed" /\ ~(row[t].retry < MaxCrawlRetries)
      <3>1. row'[t] = row[t] /\ row[t].status = "failed" /\ row[t].crawler = "failed"
        BY <1>1, <2>1, <2>8, HandledIs DEF Judged
      <3>2. StageOf(t)' = "given_up"
        BY <1>6, <3>1, StagesOfRows DEF StagesFit
      <3>3. Contract!GiveUp(t)
        <4>1. Contract!Moves(t, {"crawling"}, "given_up")
          BY <1>7, <2>2, <3>2, MoveOf
        <4>2. row[t].retry = MaxCrawlRetries
          BY <1>9, <2>8, BudgetAssumption
        <4> QED
          BY <1>3, <3>1, <4>1, <4>2 DEF Contract!GiveUp
      <3> QED
        BY <1>8, <1>9, <3>1, <3>3 DEF ContractStep, Contract!Next
    <2> QED
      BY <1>1, <1>11, <2>5, <2>6, <2>7, <2>8 DEF Outcomes
  <1> QED
    BY <1>10, <1>11

-----------------------------------------------------------------------------
(* The theorems.                                                           *)

\* No flock is held but the worker's, so it never finds one held.
LEMMA NeverBusy ==
  ASSUME TypeOK, LockInv, NEW w, OneWorker(w), QuietInv(w)
  PROVE  ~LockBusy(w)
  <1> SUFFICES ASSUME LockBusy(w) PROVE FALSE
    OBVIOUS
  <1>1. w \in Procs /\ pc[w] = "picked" /\ tgt[w] \in Jobs
        /\ lock[tgt[w]] # NoProc
    BY DEF LockBusy, OneWorker, Procs, TypeOK
  <1>2. PICK q \in Procs : lock[tgt[w]] = q
    BY <1>1 DEF TypeOK
  <1>3. pc[q] \in Holding
    BY <1>1, <1>2 DEF LockInv, Holds
  <1>4. q \in Operators
    BY <1>1, <1>3 DEF Holding, Procs, OneWorker
  <1> QED
    BY <1>3, <1>4 DEF QuietInv, IndexersOnly, Holding

\* The worker's steps: nothing but what the lemmas above are about is enabled.
LEMMA WorkerSteps ==
  ASSUME TypeOK, TypeOK', LockInv, NEW w, OneWorker(w), QuietInv(w),
         Pick(w) \/ TierFails(w) \/ Continue(w)
  PROVE  QuietInv(w)' /\ ContractStep
  <1>w. w \in Procs
    BY DEF OneWorker, Procs
  <1>f. pc[w] \in {"idle", "picked", "locked", "starting", "crawling", "ended",
                   "finishing", "index", "indexing"} \cup Handling
    BY DEF QuietInv, WorkerFresh
  <1>1. CASE Pick(w) \/ TierFails(w)
    BY <1>1, ReadSteps DEF ReadStep
  <1>2. CASE RunStep(w)
    BY <1>2, NeverBusy, ReadSteps, StartCommits, FinishCommits DEF RunStep, ReadStep
  <1>3. CASE IndexStep(w)
    BY <1>w, <1>3, ReadSteps, IndexCommits DEF IndexStep, ReadStep
  <1>4. CASE HandleStep(w)
    <2>1. LoadToHandle(w) \/ CommitHandled(w)
      BY <1>f, <1>4 DEF HandleStep, LoadToSync, CommitSync, Handling
    <2> QED
      BY <2>1, ReadSteps, HandleCommits DEF ReadStep
  <1>5. CASE CommandStep(w)
    BY <1>f, <1>5 DEF CommandStep, CommitRetry, ProbeTakes, ProbeBusy, ProbeEnds,
       CommitReset, CommitRecover, VerifyEnds, LoadToQuarantine, CommitQuarantine,
       Handling
  <1> QED
    BY <1>1, <1>2, <1>3, <1>4, <1>5 DEF Continue

\* A step of an operator that writes no row.
LEMMA OperatorReads ==
  ASSUME TypeOK, NEW w, OneWorker(w), QuietInv(w), NEW o \in Operators,
         UNCHANGED row, OnlyMoves(o), pc'[o] \in {"idle", "index", "indexing"},
         pc'[o] = "indexing" => /\ seen'[o].status \in Indexable
                                /\ row[tgt'[o]].status \in Indexable
  PROVE  QuietInv(w)' /\ ContractStep
  <1>1. w \in Procs \ {o} /\ o \in Procs
    BY ProcsAssumption DEF OneWorker, Procs
  <1>2. /\ pc'[w] = pc[w] /\ tgt'[w] = tgt[w]
        /\ seen'[w] = seen[w] /\ out'[w] = out[w]
    BY <1>1 DEF OnlyMoves
  <1>3. ContractStep
    BY <1>2, Stutters
  <1>4. IndexersOnly'
    BY DEF QuietInv, IndexersOnly, OnlyMoves, Procs
  <1>5. WorkerFresh(w)' /\ RowsFit(w)'
    BY <1>2 DEF QuietInv, WorkerFresh, RowsFit, Runs
  <1> QED
    BY <1>3, <1>4, <1>5 DEF QuietInv

\* The operators' steps are those of index-job.
LEMMA OperatorSteps ==
  ASSUME TypeOK, TypeOK', NEW w, OneWorker(w), QuietInv(w), NEW o \in Operators,
         Continue(o) \/ \E j \in Jobs : Command(o, j)
  PROVE  QuietInv(w)' /\ ContractStep
  <1>o. o \in Procs /\ o \notin Workers
    BY ProcsAssumption DEF Procs
  <1>t. /\ pc \in [Procs -> PCs] /\ tgt \in [Procs -> Jobs]
        /\ seen \in [Procs -> Row] /\ out \in [Procs -> Outcomes]
    BY DEF TypeOK
  <1>f. pc[o] \in {"idle", "index", "indexing"}
    BY DEF QuietInv, IndexersOnly
  <1>1. ASSUME NEW j \in Jobs, Command(o, j) PROVE QuietInv(w)' /\ ContractStep
    <2>1. IndexJob(o, j)
      BY <1>1 DEF Command, RunDbJob, IndexJob, LoadToRetry, LoadToReset,
                  LoadToRecover, Verify, Begins, OneWorker
    <2>2. UNCHANGED row /\ OnlyMoves(o) /\ pc'[o] = "index"
      BY <1>o, <1>t, <2>1 DEF IndexJob, Goto, Aim, OnlyMoves, db
    <2> QED
      BY <2>2, OperatorReads
  <1>2. CASE RunStep(o)
    BY <1>f, <1>2 DEF RunStep, TakeLock, LockBusy, LoadToStart, NotRunnable,
       CommitStart, CrawlEnds, LoadToFinish, CommitFinish, Release
  <1>3. CASE IndexStep(o)
    <2>1. CASE LoadToIndex(o)
      <3>1. /\ UNCHANGED <<row, tgt>> /\ OnlyMoves(o) /\ pc'[o] = "indexing"
            /\ seen'[o] = row[tgt[o]] /\ row[tgt[o]].status \in Indexable
        BY <1>o, <1>t, <2>1 DEF LoadToIndex, Goto, Load, OnlyMoves, db
      <3> QED
        BY <3>1, OperatorReads
    <2>2. CASE NotIndexable(o)
      <3>1. UNCHANGED row /\ OnlyMoves(o) /\ pc'[o] = "idle"
        BY <1>o, <2>2, StopMoves DEF NotIndexable, db
      <3> QED
        BY <3>1, OperatorReads
    <2>3. ASSUME NEW status \in {"indexed", "index_failed"}, CommitIndex(o, status)
          PROVE  QuietInv(w)' /\ ContractStep
      BY <1>o, <2>3, IndexCommits
    <2> QED
      BY <1>3, <2>1, <2>2, <2>3 DEF IndexStep
  <1>4. CASE HandleStep(o)
    BY <1>f, <1>4 DEF HandleStep, LoadToSync, CommitSync, LoadToHandle, CommitHandled
  <1>5. CASE CommandStep(o)
    BY <1>f, <1>5 DEF CommandStep, CommitRetry, ProbeTakes, ProbeBusy, ProbeEnds,
       CommitReset, CommitRecover, VerifyEnds, LoadToQuarantine, CommitQuarantine
  <1> QED
    BY <1>1, <1>2, <1>3, <1>4, <1>5 DEF Continue

\* The passing of time writes no row, and no process moves.
LEMMA TimeSteps ==
  ASSUME TypeOK, NEW w, OneWorker(w), QuietInv(w),
         UNCHANGED <<row, pc, tgt, seen, out>>
  PROVE  QuietInv(w)' /\ ContractStep
  <1>1. ContractStep
    BY Stutters
  <1>2. QuietInv(w)'
    BY DEF QuietInv, WorkerFresh, IndexersOnly, RowsFit, Runs
  <1> QED
    BY <1>1, <1>2

LEMMA QuietInit ==
  ASSUME NEW w, OneWorker(w), Init
  PROVE  QuietInv(w) /\ Contract!Init
  <1>w. w \in Procs
    BY DEF OneWorker, Procs
  <1>1. /\ \A p \in Procs : pc[p] = "idle"
        /\ \A j \in Jobs : row[j] = NewRow
    BY DEF Init
  <1>2. WorkerFresh(w) /\ IndexersOnly
    BY <1>w, <1>1 DEF WorkerFresh, IndexersOnly, Handling, Procs
  <1>3. RowsFit(w)
    BY <1>w, <1>1, BudgetAssumption DEF RowsFit, Runs, NewRow
  <1>4. \A j \in Jobs : StageOf(j) = "waiting" /\ row[j].retry = 0
    <2> SUFFICES ASSUME NEW j \in Jobs
                 PROVE  StageOf(j) = "waiting" /\ row[j].retry = 0
      OBVIOUS
    <2>1. ~InHand(j)
      BY <1>w, <1>1, OneInHand DEF NewRow, Handling
    <2>2. row[j].status = "queued" /\ row[j].retry = 0
      BY <1>1 DEF NewRow
    <2> QED
      BY <2>1, <2>2 DEF StageOf, Runnable
  <1>5. Contract!Init
    BY <1>4 DEF Contract!Init
  <1> QED
    BY <1>2, <1>3, <1>5 DEF QuietInv

\* Every step keeps the invariant and is a step of the contract.
LEMMA QuietNext ==
  ASSUME TypeOK, TypeOK', LockInv, NEW w, OneWorker(w), QuietInv(w), [Next]_vars
  PROVE  QuietInv(w)' /\ ContractStep
  <1>0. /\ \A v \in Workers : v = w
        /\ faults \in Nat /\ MaxFaults = 0
    BY DEF OneWorker, TypeOK
  <1>1. ASSUME NEW v \in Workers, Pick(v) \/ TierFails(v)
        PROVE  QuietInv(w)' /\ ContractStep
    <2>1. v = w
      BY <1>0
    <2> QED
      BY <1>1, <2>1, WorkerSteps
  <1>2. ASSUME NEW o \in Operators, NEW j \in Jobs, Command(o, j)
        PROVE  QuietInv(w)' /\ ContractStep
    BY <1>2, OperatorSteps
  <1>3. ASSUME NEW p \in Procs, Continue(p) \/ Dies(p)
        PROVE  QuietInv(w)' /\ ContractStep
    <2>1. Continue(p)
      BY <1>0, <1>3 DEF Dies
    <2>2. CASE p \in Workers
      BY <1>0, <2>1, <2>2, WorkerSteps
    <2>3. CASE p \in Operators
      BY <2>1, <2>3, OperatorSteps
    <2> QED
      BY <2>2, <2>3 DEF Procs
  <1>4. ASSUME NEW j \in Jobs, Age(j) \/ Cool(j) \/ OrphanEnds(j)
        PROVE  QuietInv(w)' /\ ContractStep
    BY <1>4, TimeSteps DEF Age, Cool, OrphanEnds, db
  <1>5. CASE UNCHANGED jobVars
    BY <1>5, TimeSteps DEF jobVars
  <1> QED
    BY NextCases, <1>1, <1>2, <1>3, <1>4, <1>5 DEF Step

\* Sessions of the runner, the worker and any number of index-job may overlap as
\* they will: with one worker, no hand on the rows and no death, the queue keeps
\* the contract.
THEOREM ContractIsKept ==
  ASSUME NEW w, OneWorker(w)
  PROVE  Spec => KeepsContract
  <1>1. Init => QuietInv(w) /\ Contract!Init
    BY QuietInit
  <1>2. TypeOK /\ TypeOK' /\ LockInv /\ QuietInv(w) /\ [Next]_vars
           => QuietInv(w)' /\ ContractStep
    BY QuietNext
  <1>3. ContractStep => [Contract!Next]_<<[j \in Jobs |-> StageOf(j)],
                                         [j \in Jobs |-> row[j].retry]>>
    BY DEF ContractStep, Stage, Spent
  <1> QED
    BY <1>1, <1>2, <1>3, TypeCorrect, LockIsHeld, PTL
       DEF Spec, KeepsContract, Contract!Spec

\* In that world no row says running of a runner that is gone.
THEOREM RunnersAreThere ==
  ASSUME NEW w, OneWorker(w)
  PROVE  Spec => []RunningHasRunner
  <1>1. Init => QuietInv(w)
    BY QuietInit
  <1>2. TypeOK /\ TypeOK' /\ LockInv /\ QuietInv(w) /\ [Next]_vars => QuietInv(w)'
    BY QuietNext
  <1>3. QuietInv(w) => RunningHasRunner
    BY DEF QuietInv, RowsFit, RunningHasRunner, OneWorker, Procs
  <1> QED
    BY <1>1, <1>2, <1>3, TypeCorrect, LockIsHeld, PTL DEF Spec

-----------------------------------------------------------------------------
(* Resets and deaths.                                                      *)

\* A wider world: one worker, operators that index and reset, and any deaths.
IndexersAndResets(w) == Workers = {w} /\ Commands \subseteq {"index", "reset"}

\* Two rows that differ in nothing but the retries: a reset changes no more.
SameColumns(r, s) == r.status = s.status /\ r.crawler = s.crawler

\* The worker has chosen a job and has not started its crawl.
Choosing == {"picked", "locked", "starting", "sync", "syncing"}
Crawling == {"crawling", "ended", "finishing"}

\* What the worker relies on when it commits, whoever reset the retries meanwhile.
WorkerSure(w) ==
    /\ pc[w] \in {"idle", "index", "indexing"} \cup Choosing \cup Crawling \cup Handling
    /\ pc[w] \in Choosing => row[tgt[w]].status \in Runnable
    /\ pc[w] \in Crawling => row[tgt[w]].status = "running"
    /\ pc[w] \in {"starting", "finishing", "syncing"} => SameColumns(seen[w], row[tgt[w]])
    /\ pc[w] \in Handling => Judged(row[tgt[w]], out[w])
    /\ pc[w] = "posting" => /\ Judged(seen[w], out[w])
                            /\ out[w] # "ok" => SameColumns(seen[w], row[tgt[w]])

OperatorsApart ==
    \A o \in Operators : pc[o] \in {"idle", "index", "indexing",
                                    "resetLoaded", "resetProbe", "resetting"}

IndexersApart ==
    \A p \in Procs : pc[p] = "indexing" => /\ seen[p].status \in Indexable
                                           /\ row[tgt[p]].status \in Indexable

\* n failed crawls are paid for by the retries of r; the last one of a row that has
\* just failed is not, yet.
Fails(r) == r.status = "failed" /\ r.crawler = "failed"
Within(n, r) == n <= r.retry /\ n <= MaxCrawlRetries
WithinOneMore(n, r) == n <= r.retry + 1 /\ n <= MaxCrawlRetries + 1
PaidBy(n, r) == IF Fails(r) THEN WithinOneMore(n, r) ELSE Within(n, r)

\* So it is for every row, and for what the worker has loaded to handle a failure.
Paid(w) ==
    /\ \A j \in Jobs : PaidBy(failures[j], row[j])
    /\ pc[w] = "posting" /\ out[w] = "failed" => WithinOneMore(failures[tgt[w]], seen[w])

MarkedInv(w) == WorkerSure(w) /\ OperatorsApart /\ IndexersApart /\ Paid(w)

\* A commit of a session whose columns are not stale leaves what it wrote in them.
LEMMA SureFlush ==
  ASSUME NEW loaded \in Row, NEW new \in Row, NEW cur \in Row, SameColumns(loaded, cur)
  PROVE  /\ SameColumns(Flush(loaded, new, cur), new)
         /\ Flush(loaded, new, cur).retry =
               IF new.retry # loaded.retry THEN new.retry ELSE cur.retry
  BY DEF SameColumns, Flush

\* The worker alone crawls.
LEMMA WorkerIs ==
  ASSUME NEW w, IndexersAndResets(w)
  PROVE  /\ w \in Procs /\ w \in Workers /\ w \notin Operators
         /\ \A p \in Procs : p # w => p \in Operators
         /\ \A v \in Workers : v = w
  BY ProcsAssumption DEF IndexersAndResets, Procs

\* What is paid is paid within the budget plus one.
LEMMA PaidIsWithin ==
  ASSUME NEW n \in Nat, NEW r \in Row, PaidBy(n, r)
  PROVE  WithinOneMore(n, r)
  <1>1. r.retry \in Nat /\ MaxCrawlRetries \in Nat
    BY BudgetAssumption DEF Row
  <1> QED
    BY <1>1 DEF PaidBy, Within, WithinOneMore

\* A step that changes one row, or its failures, keeps the others paid.
LEMMA PaidOne ==
  ASSUME NEW w, Paid(w), NEW t \in Jobs, PaidBy(failures'[t], row'[t]), pc'[w] # "posting",
         \A k \in Jobs \ {t} : row'[k] = row[k] /\ failures'[k] = failures[k]
  PROVE  Paid(w)'
  BY DEF Paid, PaidBy, Fails, Within, WithinOneMore

-----------------------------------------------------------------------------
(* Steps that write no row.                                                *)

\* Of the worker.
LEMMA WorkerLooks ==
  ASSUME TypeOK, NEW w, IndexersAndResets(w), MarkedInv(w),
         UNCHANGED <<row, failures>>, OnlyMoves(w), WorkerSure(w)',
         pc'[w] = "indexing" => /\ seen'[w].status \in Indexable
                                /\ row[tgt'[w]].status \in Indexable,
         pc'[w] = "posting" => tgt'[w] \in Jobs /\ seen'[w] = row[tgt'[w]]
  PROVE  MarkedInv(w)'
  <1>1. OperatorsApart' /\ IndexersApart'
    BY WorkerIs DEF MarkedInv, OperatorsApart, IndexersApart, OnlyMoves, Procs
  <1>2. Paid(w)'
    <2>1. ASSUME pc'[w] = "posting" PROVE WithinOneMore(failures[tgt'[w]], seen'[w])
      <3>1. tgt'[w] \in Jobs /\ seen'[w] = row[tgt'[w]]
        BY <2>1
      <3>2. failures[tgt'[w]] \in Nat /\ row[tgt'[w]] \in Row
        BY <3>1 DEF TypeOK
      <3>3. PaidBy(failures[tgt'[w]], row[tgt'[w]])
        BY <3>1 DEF MarkedInv, Paid
      <3> QED
        BY <3>1, <3>2, <3>3, PaidIsWithin
    <2> QED
      BY <2>1 DEF MarkedInv, Paid, PaidBy, Fails, Within, WithinOneMore
  <1> QED
    BY <1>1, <1>2 DEF MarkedInv

\* Of an operator.
LEMMA OperatorLooks ==
  ASSUME TypeOK, NEW w, IndexersAndResets(w), MarkedInv(w), NEW o \in Operators,
         UNCHANGED <<row, failures>>, OnlyMoves(o),
         pc'[o] \in {"idle", "index", "indexing", "resetLoaded", "resetProbe", "resetting"},
         pc'[o] = "indexing" => /\ seen'[o].status \in Indexable
                                /\ row[tgt'[o]].status \in Indexable
  PROVE  MarkedInv(w)'
  <1>1. w \in Procs \ {o}
    BY WorkerIs
  <1>2. /\ pc'[w] = pc[w] /\ tgt'[w] = tgt[w]
        /\ seen'[w] = seen[w] /\ out'[w] = out[w]
    BY <1>1 DEF OnlyMoves
  <1>3. OperatorsApart' /\ IndexersApart'
    BY DEF MarkedInv, OperatorsApart, IndexersApart, OnlyMoves, Procs
  <1>4. WorkerSure(w)'
    BY <1>2 DEF MarkedInv, WorkerSure
  <1>5. Paid(w)'
    BY <1>2 DEF MarkedInv, Paid
  <1> QED
    BY <1>3, <1>4, <1>5 DEF MarkedInv

\* Of time.
LEMMA TimeLooks ==
  ASSUME NEW w, MarkedInv(w), UNCHANGED <<row, failures, pc, tgt, seen, out>>
  PROVE  MarkedInv(w)'
  BY DEF MarkedInv, WorkerSure, OperatorsApart, IndexersApart, Paid

\* The worker chooses, starts or ends something, and loads what it will write.
LookStep(w) ==
    \/ Pick(w) \/ TakeLock(w) \/ LockBusy(w) \/ LoadToStart(w) \/ NotRunnable(w)
    \/ \E outcome \in Outcomes : CrawlEnds(w, outcome)
    \/ LoadToFinish(w) \/ Release(w) \/ LoadToSync(w) \/ LoadToHandle(w)
    \/ LoadToIndex(w) \/ NotIndexable(w)

LEMMA LookSteps ==
  ASSUME TypeOK, NEW w, IndexersAndResets(w), MarkedInv(w), LookStep(w)
  PROVE  MarkedInv(w)'
  <1>w. w \in Procs /\ w \in Workers
    BY WorkerIs
  <1>t. /\ pc \in [Procs -> PCs] /\ tgt \in [Procs -> Jobs]
        /\ seen \in [Procs -> Row] /\ out \in [Procs -> Outcomes]
        /\ tgt[w] \in Jobs
    BY <1>w DEF TypeOK
  <1>f. WorkerSure(w)
    BY DEF MarkedInv
  <1> USE DEF db, history, Goto, Aim, Load, OnlyMoves, Handling, Choosing, Crawling
  <1>1. CASE Pick(w)
    <2>1. /\ pc'[w] = "picked" /\ tgt'[w] \in Jobs /\ row[tgt'[w]].status \in Runnable
          /\ UNCHANGED <<row, failures>> /\ OnlyMoves(w)
      BY <1>w, <1>t, <1>1 DEF Pick, Selectable
    <2>2. WorkerSure(w)'
      BY <2>1 DEF WorkerSure
    <2> QED
      BY <2>1, <2>2, WorkerLooks
  <1>2. CASE TakeLock(w)
    <2>1. /\ pc[w] = "picked" /\ pc'[w] = "locked" /\ OnlyMoves(w)
          /\ UNCHANGED <<row, failures, tgt>>
      BY <1>w, <1>t, <1>2 DEF TakeLock
    <2>2. WorkerSure(w)'
      BY <1>f, <2>1 DEF WorkerSure
    <2> QED
      BY <2>1, <2>2, WorkerLooks
  <1>3. CASE LockBusy(w)
    <2>1. /\ pc[w] = "picked" /\ pc'[w] = "sync" /\ OnlyMoves(w)
          /\ UNCHANGED <<row, failures, tgt>>
      BY <1>w, <1>t, <1>3 DEF LockBusy
    <2>2. WorkerSure(w)'
      BY <1>f, <2>1 DEF WorkerSure
    <2> QED
      BY <2>1, <2>2, WorkerLooks
  <1>4. CASE LoadToStart(w) \/ LoadToSync(w) \/ LoadToFinish(w)
    <2>1. /\ \/ pc[w] \in Choosing /\ pc'[w] \in {"starting", "syncing"}
             \/ pc[w] = "ended" /\ pc'[w] = "finishing"
          /\ UNCHANGED <<row, failures, tgt>> /\ seen'[w] = row[tgt[w]] /\ OnlyMoves(w)
      BY <1>w, <1>t, <1>4 DEF LoadToStart, LoadToSync, LoadToFinish
    <2>2. WorkerSure(w)'
      BY <1>f, <2>1 DEF WorkerSure, SameColumns
    <2> QED
      BY <2>1, <2>2, WorkerLooks
  <1>5. CASE NotRunnable(w) \/ NotIndexable(w)
    <2>1. UNCHANGED <<row, failures>> /\ OnlyMoves(w) /\ pc'[w] = "idle"
      BY <1>w, <1>5, StopMoves DEF NotRunnable, NotIndexable
    <2>2. WorkerSure(w)'
      BY <2>1 DEF WorkerSure
    <2> QED
      BY <2>1, <2>2, WorkerLooks
  <1>6. ASSUME NEW outcome \in Outcomes, CrawlEnds(w, outcome)
        PROVE  MarkedInv(w)'
    <2>1. /\ pc[w] = "crawling" /\ pc'[w] = "ended" /\ UNCHANGED <<row, failures, tgt>>
          /\ OnlyMoves(w)
      BY <1>w, <1>t, <1>6 DEF CrawlEnds
    <2>2. WorkerSure(w)'
      BY <1>f, <2>1 DEF WorkerSure
    <2> QED
      BY <2>1, <2>2, WorkerLooks
  <1>7. CASE Release(w)
    <2>1. /\ pc[w] = "releasing" /\ pc'[w] = "post" /\ OnlyMoves(w)
          /\ UNCHANGED <<row, failures, tgt, seen, out>>
      BY <1>w, <1>t, <1>7 DEF Release
    <2>2. WorkerSure(w)'
      BY <1>f, <2>1 DEF WorkerSure
    <2> QED
      BY <2>1, <2>2, WorkerLooks
  <1>8. CASE LoadToHandle(w)
    <2>1. /\ pc[w] = "post" /\ pc'[w] = "posting" /\ OnlyMoves(w)
          /\ UNCHANGED <<row, failures, tgt, out>> /\ seen'[w] = row[tgt[w]]
      BY <1>w, <1>t, <1>8 DEF LoadToHandle
    <2>2. WorkerSure(w)'
      BY <1>f, <2>1 DEF WorkerSure, SameColumns
    <2> QED
      BY <1>t, <2>1, <2>2, WorkerLooks
  <1>9. CASE LoadToIndex(w)
    <2>1. /\ pc[w] = "index" /\ pc'[w] = "indexing" /\ OnlyMoves(w)
          /\ UNCHANGED <<row, failures, tgt>>
          /\ seen'[w] = row[tgt[w]] /\ row[tgt[w]].status \in Indexable
      BY <1>w, <1>t, <1>9 DEF LoadToIndex
    <2>2. WorkerSure(w)'
      BY <2>1 DEF WorkerSure
    <2> QED
      BY <2>1, <2>2, WorkerLooks
  <1> QED
    BY <1>1, <1>2, <1>3, <1>4, <1>5, <1>6, <1>7, <1>8, <1>9 DEF LookStep

-----------------------------------------------------------------------------
(* Commits.                                                                *)

\* What a commit of the worker has to show.
LEMMA WorkerChanges ==
  ASSUME TypeOK, NEW w, IndexersAndResets(w), MarkedInv(w), OnlyMoves(w),
         NEW t \in Jobs, t = tgt[w], \A k \in Jobs \ {t} : row'[k] = row[k],
         row[t].status \in Indexable => row'[t].status \in Indexable,
         pc'[w] \notin {"indexing", "posting"}, WorkerSure(w)',
         PaidBy(failures'[t], row'[t]), \A k \in Jobs \ {t} : failures'[k] = failures[k]
  PROVE  MarkedInv(w)'
  <1>1. OperatorsApart'
    BY WorkerIs DEF MarkedInv, OperatorsApart, OnlyMoves, Procs
  <1>2. IndexersApart'
    <2>1. \A q \in Procs : tgt[q] \in Jobs
      BY DEF TypeOK
    <2> QED
      BY <2>1 DEF MarkedInv, IndexersApart, OnlyMoves
  <1>3. Paid(w)'
    BY PaidOne DEF MarkedInv
  <1> QED
    BY <1>1, <1>2, <1>3 DEF MarkedInv

\* The facts about a commit of the worker whose session is not stale.
LEMMA SureCommit ==
  ASSUME TypeOK, NEW w, IndexersAndResets(w), NEW t \in Jobs, t = tgt[w],
         NEW new \in Row, Commit(w, new), SameColumns(seen[w], row[t])
  PROVE  /\ SameColumns(row'[t], new)
         /\ row'[t].retry = IF new.retry # seen[w].retry THEN new.retry ELSE row[t].retry
         /\ \A k \in Jobs \ {t} : row'[k] = row[k]
  <1>1. w \in Procs
    BY WorkerIs
  <1>2. seen[w] \in Row /\ row[t] \in Row
    BY <1>1 DEF TypeOK
  <1> QED
    BY <1>1, <1>2, CommitRow, SureFlush

\* The crawl starts, or the worker takes it for started elsewhere.
LEMMA RunningIsMarked ==
  ASSUME TypeOK, NEW w, IndexersAndResets(w), MarkedInv(w), CommitStart(w) \/ CommitSync(w)
  PROVE  MarkedInv(w)'
  <1>w. w \in Procs
    BY WorkerIs
  <1>t. PICK t \in Jobs : t = tgt[w]
    BY <1>w DEF TypeOK
  <1>1. PICK new : /\ new \in {[seen[w] EXCEPT !.status = "running", !.crawler = "none"],
                               [seen[w] EXCEPT !.status = "running"]}
                   /\ Commit(w, new)
    BY DEF CommitStart, CommitSync
  <1>2. /\ pc[w] \in {"starting", "syncing"} /\ UNCHANGED failures
        /\ seen[w] \in Row /\ row[t] \in Row
    BY <1>w DEF CommitStart, CommitSync, TypeOK, history
  <1>3. row[t].status \in Runnable /\ SameColumns(seen[w], row[t])
    BY <1>t, <1>2 DEF MarkedInv, WorkerSure, Choosing
  <1>4. new \in Row /\ new.status = "running" /\ new.retry = seen[w].retry
    <2>1. "ok" \in Outcomes /\ "running" \in Statuses
      BY DEF Outcomes, Statuses
    <2>2. /\ [seen[w] EXCEPT !.status = "running", !.crawler = "none"] \in Row
          /\ [seen[w] EXCEPT !.status = "running"] \in Row
      BY <1>2, <2>1, WrittenRows
    <2>3. CASE new = [seen[w] EXCEPT !.status = "running", !.crawler = "none"]
      BY <1>2, <2>2, <2>3 DEF Row
    <2>4. CASE new = [seen[w] EXCEPT !.status = "running"]
      BY <1>2, <2>2, <2>4 DEF Row
    <2> QED
      BY <1>1, <2>3, <2>4
  <1>5. /\ row'[t].status = "running" /\ row'[t].retry = row[t].retry
        /\ \A k \in Jobs \ {t} : row'[k] = row[k]
    BY <1>t, <1>1, <1>3, <1>4, SureCommit DEF SameColumns
  <1>6. PaidBy(failures'[t], row'[t])
    <2>1. PaidBy(failures[t], row[t])
      BY DEF MarkedInv, Paid
    <2> QED
      BY <1>2, <1>3, <1>5, <2>1 DEF PaidBy, Fails, Within, Runnable
  <1>7. OnlyMoves(w) /\ \/ pc'[w] = "crawling" /\ tgt'[w] = t
                        \/ pc'[w] = "idle"
    <2>1. CASE CommitStart(w)
      BY <1>w, <1>t, <2>1 DEF CommitStart, TypeOK, Goto, Close, OnlyMoves
    <2>2. CASE CommitSync(w)
      BY <1>w, <2>2, StopMoves DEF CommitSync
    <2> QED
      BY <2>1, <2>2
  <1>8. WorkerSure(w)'
    BY <1>5, <1>7 DEF WorkerSure, Choosing, Crawling, Handling
  <1> QED
    BY <1>t, <1>2, <1>3, <1>5, <1>6, <1>7, <1>8, WorkerChanges DEF Runnable, Indexable

\* The runner records the outcome.
LEMMA OutcomeIsRecorded ==
  ASSUME TypeOK, NEW w, IndexersAndResets(w), MarkedInv(w), CommitFinish(w)
  PROVE  MarkedInv(w)'
  <1>w. w \in Procs
    BY WorkerIs
  <1>t. PICK t \in Jobs : t = tgt[w]
    BY <1>w DEF TypeOK
  <1> DEFINE new == Verdict(seen[w], out[w])
  <1>1. /\ pc[w] = "finishing" /\ pc'[w] = "releasing" /\ UNCHANGED <<tgt, out>>
        /\ OnlyMoves(w) /\ Commit(w, new) /\ out[w] \in Outcomes
        /\ seen[w] \in Row /\ row[t] \in Row
        /\ failures' = IF out[w] = "failed" THEN [failures EXCEPT ![t] = @ + 1] ELSE failures
    BY <1>w, <1>t DEF CommitFinish, TypeOK, Goto, Close, OnlyMoves
  <1>2. row[t].status = "running" /\ SameColumns(seen[w], row[t])
    BY <1>t, <1>1 DEF MarkedInv, WorkerSure, Crawling
  <1>3. new \in Row
    BY <1>1, WrittenRows
  <1>4. Judged(new, out[w]) /\ new.retry = seen[w].retry
        /\ (out[w] # "failed" => ~Fails(new))
    BY <1>1 DEF Verdict, Judged, Row, Outcomes, Indexable, Fails
  <1> HIDE DEF new
  <1>5. /\ SameColumns(row'[t], new) /\ row'[t].retry = row[t].retry
        /\ \A k \in Jobs \ {t} : row'[k] = row[k]
    BY <1>t, <1>1, <1>2, <1>3, <1>4, SureCommit
  <1>6. Judged(row'[t], out[w])
    BY <1>4, <1>5 DEF Judged, SameColumns
  <1>7. \A k \in Jobs \ {t} : failures'[k] = failures[k]
    BY <1>1 DEF TypeOK
  <1>8. PaidBy(failures'[t], row'[t])
    <2>1. /\ failures[t] \in Nat /\ row[t].retry \in Nat /\ MaxCrawlRetries \in Nat
          /\ failures[t] <= row[t].retry /\ failures[t] <= MaxCrawlRetries
      <3>1. PaidBy(failures[t], row[t]) /\ ~Fails(row[t])
        BY <1>2 DEF MarkedInv, Paid, Fails
      <3> QED
        BY <1>1, <3>1, BudgetAssumption DEF PaidBy, Within, TypeOK, Row
    <2>2. CASE out[w] = "failed"
      <3>1. failures'[t] = failures[t] + 1
        BY <1>1, <2>2 DEF TypeOK
      <3>2. Fails(row'[t])
        BY <1>6, <2>2 DEF Judged, Fails
      <3>3. failures[t] + 1 <= row[t].retry + 1 /\ failures[t] + 1 <= MaxCrawlRetries + 1
        BY <2>1
      <3> QED
        BY <1>5, <3>1, <3>2, <3>3 DEF PaidBy, WithinOneMore
    <2>3. CASE out[w] # "failed"
      <3>1. failures'[t] = failures[t] /\ ~Fails(row'[t])
        BY <1>1, <1>4, <1>5, <2>3 DEF Fails, SameColumns
      <3> QED
        BY <1>5, <2>1, <3>1 DEF PaidBy, Within
    <2> QED
      BY <2>2, <2>3
  <1>9. WorkerSure(w)'
    BY <1>t, <1>1, <1>6 DEF WorkerSure, Choosing, Crawling, Handling
  <1> QED
    BY <1>t, <1>1, <1>2, <1>5, <1>7, <1>8, <1>9, WorkerChanges DEF Indexable

\* The worker handles the outcome: a retry pays for the failure, whatever count an
\* operator wrote since the row was loaded.
LEMMA OutcomeIsHandled ==
  ASSUME TypeOK, NEW w, IndexersAndResets(w), MarkedInv(w), CommitHandled(w)
  PROVE  MarkedInv(w)'
  <1>w. w \in Procs
    BY WorkerIs
  <1>t. PICK t \in Jobs : t = tgt[w]
    BY <1>w DEF TypeOK
  <1> DEFINE new == Handled(seen[w], out[w])
  <1>1. /\ pc[w] = "posting" /\ Commit(w, new) /\ UNCHANGED failures
        /\ out[w] \in Outcomes /\ seen[w] \in Row /\ row[t] \in Row
    BY <1>w, <1>t DEF CommitHandled, TypeOK, history
  <1>2. /\ Judged(seen[w], out[w]) /\ Judged(row[t], out[w])
        /\ out[w] # "ok" => SameColumns(seen[w], row[t])
    BY <1>t, <1>1 DEF MarkedInv, WorkerSure, Handling
  <1>3. new \in Row
    BY <1>1, WrittenRows
  <1>4. OnlyMoves(w) /\ pc'[w] \in {"idle", "index"}
    <2>1. CASE seen[w].crawler \in InfraErrors \/ Retries(seen[w], out[w])
      BY <1>w, <2>1, StopMoves DEF CommitHandled
    <2>2. CASE ~(seen[w].crawler \in InfraErrors \/ Retries(seen[w], out[w]))
      BY <1>w, <2>2 DEF CommitHandled, TypeOK, Goto, Close, OnlyMoves
    <2> QED
      BY <2>1, <2>2
  <1>5. WorkerSure(w)'
    BY <1>4 DEF WorkerSure, Choosing, Crawling, Handling
  <1>6. PaidBy(failures[t], row[t])
    BY DEF MarkedInv, Paid
  <1>7. \A k \in Jobs \ {t} : row'[k] = row[k]
    BY <1>w, <1>t, <1>1, <1>3, CommitRow
  <1>8. \/ row'[t] = row[t]
        \/ row'[t].status = "retryable" /\ PaidBy(failures[t], row'[t])
    <2>1. CASE new = seen[w]
      <3>1. row'[t] = Flush(seen[w], seen[w], row[t])
        BY <1>w, <1>t, <1>1, <1>3, <2>1, CommitRow
      <3> QED
        BY <1>1, <3>1, IdleFlush
    <2>2. CASE out[w] = "infra"
      <3>1. new.status = "retryable" /\ new.retry = seen[w].retry
        BY <1>1, <1>2, <2>2, HandledIs
      <3>2. row'[t].status = "retryable" /\ row'[t].retry = row[t].retry
        BY <1>t, <1>1, <1>2, <1>3, <2>2, <3>1, SureCommit DEF SameColumns
      <3>3. ~Fails(row[t]) /\ ~Fails(row'[t])
        BY <1>2, <2>2, <3>2 DEF Judged, Fails
      <3> QED
        BY <1>6, <3>2, <3>3 DEF PaidBy, Within
    <2>3. CASE out[w] = "failed" /\ seen[w].retry < MaxCrawlRetries
      <3>1. new.status = "retryable" /\ new.retry = seen[w].retry + 1
        BY <1>1, <1>2, <2>3, HandledIs
      <3>2. seen[w].retry \in Nat /\ MaxCrawlRetries \in Nat /\ failures[t] \in Nat
        BY <1>1, BudgetAssumption DEF Row, TypeOK
      <3>3. row'[t].status = "retryable" /\ row'[t].retry = seen[w].retry + 1
        BY <1>t, <1>1, <1>2, <1>3, <2>3, <3>1, <3>2, SureCommit DEF SameColumns
      <3>4. failures[t] <= seen[w].retry + 1
        BY <1>t, <1>1, <2>3 DEF MarkedInv, Paid, WithinOneMore
      <3>5. failures[t] <= MaxCrawlRetries
        BY <2>3, <3>2, <3>4
      <3> QED
        BY <3>3, <3>4, <3>5 DEF PaidBy, Fails, Within
    <2> QED
      BY <1>1, <1>2, <2>1, <2>2, <2>3, HandledIs DEF Outcomes
  <1>9. row[t].status \in Indexable => row'[t].status \in Indexable
    <2>1. ASSUME row[t].status \in Indexable, row'[t] # row[t] PROVE FALSE
      <3>1. out[w] = "ok"
        BY <1>1, <1>2, <2>1 DEF Judged, Outcomes, Indexable
      <3>2. new = seen[w]
        BY <1>1, <1>2, <3>1, HandledIs
      <3>3. row'[t] = Flush(seen[w], seen[w], row[t])
        BY <1>w, <1>t, <1>1, <1>3, <3>2, CommitRow
      <3> QED
        BY <1>1, <2>1, <3>3, IdleFlush
    <2> QED
      BY <2>1
  <1> QED
    BY <1>t, <1>1, <1>4, <1>5, <1>6, <1>7, <1>8, <1>9, WorkerChanges

\* Indexing writes on rows that were crawled, which the worker has left.
LEMMA IndexIsApart ==
  ASSUME TypeOK, NEW w, IndexersAndResets(w), MarkedInv(w), NEW p \in Procs,
         NEW status \in {"indexed", "index_failed"}, CommitIndex(p, status)
  PROVE  MarkedInv(w)'
  <1>w. w \in Procs
    BY WorkerIs
  <1>t. PICK t \in Jobs : t = tgt[p]
    BY DEF TypeOK
  <1>1. /\ seen[p] \in Row /\ row[t] \in Row /\ UNCHANGED failures
        /\ pc[p] = "indexing" /\ row[t].status \in Indexable
    BY <1>t DEF TypeOK, CommitIndex, MarkedInv, IndexersApart, history
  <1>2. OnlyMoves(p) /\ pc'[p] = "idle"
    BY StopMoves DEF CommitIndex
  <1>3. status \in Statuses /\ [seen[p] EXCEPT !.status = status] \in Row
    <2>1. status \in Statuses /\ "ok" \in Outcomes
      BY DEF Statuses, Outcomes
    <2> QED
      BY <1>1, <2>1, WrittenRows
  <1>4. row'[t] \in {row[t], [row[t] EXCEPT !.status = status]}
    BY <1>t, <1>1, <1>3, CommitRow, StatusFlush DEF CommitIndex
  <1>5. \A k \in Jobs \ {t} : row'[k] = row[k]
    BY <1>t, <1>3, CommitRow DEF CommitIndex
  <1>6. /\ row'[t].status \in Indexable
        /\ row'[t].crawler = row[t].crawler /\ row'[t].retry = row[t].retry
    BY <1>1, <1>4 DEF Row, Indexable
  <1>7. PaidBy(failures'[t], row'[t])
    <2>1. PaidBy(failures[t], row[t])
      BY DEF MarkedInv, Paid
    <2> QED
      BY <1>1, <1>6, <2>1 DEF PaidBy, Fails, Within, Indexable
  <1>8. CASE p = w
    <2>1. WorkerSure(w)'
      BY <1>2, <1>8 DEF WorkerSure, Choosing, Crawling, Handling
    <2> QED
      BY <1>t, <1>1, <1>2, <1>5, <1>6, <1>7, <1>8, <2>1, WorkerChanges
  <1>9. CASE p # w
    <2>1. /\ pc'[w] = pc[w] /\ tgt'[w] = tgt[w]
          /\ seen'[w] = seen[w] /\ out'[w] = out[w]
      BY <1>w, <1>2, <1>9 DEF OnlyMoves
    <2>2. tgt[w] \in Jobs /\ out[w] \in Outcomes /\ WorkerSure(w)
      BY <1>w DEF TypeOK, MarkedInv
    <2>3. pc[w] \in Choosing \cup Crawling => tgt[w] # t
      BY <1>1, <2>2 DEF WorkerSure, Runnable, Indexable
    <2>4. pc[w] \in Handling /\ out[w] # "ok" => tgt[w] # t
      BY <1>1, <2>2 DEF WorkerSure, Judged, Outcomes, Indexable
    <2>5. pc[w] \in Handling => Judged(row'[tgt[w]], out[w])
      <3>1. CASE tgt[w] # t
        BY <1>5, <2>2, <3>1 DEF WorkerSure
      <3>2. CASE tgt[w] = t
        BY <1>6, <2>2, <2>4, <3>2 DEF WorkerSure, Judged
      <3> QED
        BY <3>1, <3>2
    <2>6. WorkerSure(w)'
      BY <1>5, <2>1, <2>2, <2>3, <2>4, <2>5 DEF WorkerSure, Choosing, Crawling, Handling
    <2>7. OperatorsApart'
      BY <1>2 DEF MarkedInv, OperatorsApart, OnlyMoves, Procs
    <2>8. IndexersApart'
      <3>1. \A k \in Jobs : row[k].status \in Indexable => row'[k].status \in Indexable
        BY <1>5, <1>6
      <3>2. \A q \in Procs : tgt[q] \in Jobs
        BY DEF TypeOK
      <3> QED
        BY <1>2, <3>1, <3>2 DEF MarkedInv, IndexersApart, OnlyMoves
    <2>9. Paid(w)'
      <3>1. \A k \in Jobs : PaidBy(failures'[k], row'[k])
        BY <1>1, <1>5, <1>7 DEF MarkedInv, Paid
      <3> QED
        BY <1>1, <2>1, <3>1 DEF MarkedInv, Paid
    <2> QED
      BY <2>6, <2>7, <2>8, <2>9 DEF MarkedInv
  <1> QED
    BY <1>8, <1>9

\* A reset writes the retries, and forgives what failed.
LEMMA ResetForgives ==
  ASSUME TypeOK, NEW w, IndexersAndResets(w), MarkedInv(w), NEW o \in Operators,
         NEW count \in NewCounts, CommitReset(o, count)
  PROVE  MarkedInv(w)'
  <1>o. o \in Procs /\ w \in Procs /\ o # w
    BY WorkerIs DEF Procs
  <1>t. PICK t \in Jobs : t = tgt[o]
    BY <1>o DEF TypeOK
  <1> DEFINE new == [seen[o] EXCEPT !.retry = count]
  <1>1. /\ Commit(o, new) /\ failures' = [failures EXCEPT ![t] = 0]
        /\ seen[o] \in Row /\ row[t] \in Row
    BY <1>o, <1>t DEF CommitReset, Commits, TypeOK
  <1>2. OnlyMoves(o) /\ pc'[o] = "idle"
    BY <1>o, StopMoves DEF CommitReset, Commits
  <1>3. new \in Row /\ new.status = seen[o].status /\ new.crawler = seen[o].crawler
        /\ new.retry \in Nat
    <2>1. count \in Nat
      BY BudgetAssumption
    <2> QED
      BY <1>1, <2>1 DEF Row
  <1> HIDE DEF new
  <1>4. /\ row'[t] = Flush(seen[o], new, row[t])
        /\ \A k \in Jobs \ {t} : row'[k] = row[k]
    BY <1>o, <1>t, <1>1, <1>3, CommitRow
  <1>5. SameColumns(row'[t], row[t]) /\ row'[t].retry \in Nat
    BY <1>1, <1>3, <1>4 DEF Flush, SameColumns, Row
  <1>6. \A k \in Jobs : SameColumns(row'[k], row[k])
    BY <1>4, <1>5 DEF SameColumns
  <1>7. \A k \in Jobs \ {t} : failures'[k] = failures[k]
    BY <1>1 DEF TypeOK
  <1>8. failures'[t] = 0
    BY <1>1 DEF TypeOK
  <1>9. /\ pc'[w] = pc[w] /\ tgt'[w] = tgt[w]
        /\ seen'[w] = seen[w] /\ out'[w] = out[w] /\ tgt[w] \in Jobs
    BY <1>o, <1>2 DEF OnlyMoves, TypeOK
  <1>10. WorkerSure(w)'
    <2>1. SameColumns(row'[tgt[w]], row[tgt[w]])
      BY <1>6, <1>9
    <2> QED
      BY <1>9, <2>1 DEF MarkedInv, WorkerSure, SameColumns, Judged
  <1>11. OperatorsApart' /\ IndexersApart'
    <2>1. \A q \in Procs : tgt[q] \in Jobs
      BY DEF TypeOK
    <2> QED
      BY <1>2, <1>6, <2>1 DEF MarkedInv, OperatorsApart, IndexersApart, OnlyMoves, Procs, SameColumns
  <1>12. Paid(w)'
    <2>1. ASSUME NEW r, r.retry \in Nat PROVE PaidBy(0, r) /\ WithinOneMore(0, r)
      BY <2>1, BudgetAssumption DEF PaidBy, Within, WithinOneMore
    <2>2. \A k \in Jobs : PaidBy(failures'[k], row'[k])
      BY <1>4, <1>5, <1>7, <1>8, <2>1 DEF MarkedInv, Paid
    <2>3. pc[w] = "posting" /\ out[w] = "failed" => WithinOneMore(failures'[tgt[w]], seen[w])
      <3>1. seen[w].retry \in Nat
        BY <1>o DEF TypeOK, Row
      <3> QED
        BY <1>7, <1>8, <1>9, <2>1, <3>1 DEF MarkedInv, Paid
    <2> QED
      BY <1>9, <2>2, <2>3 DEF Paid
  <1> QED
    BY <1>10, <1>11, <1>12 DEF MarkedInv

-----------------------------------------------------------------------------
(* Every step.                                                             *)

LEMMA WorkerKeeps ==
  ASSUME TypeOK, NEW w, IndexersAndResets(w), MarkedInv(w), Continue(w)
  PROVE  MarkedInv(w)'
  <1>w. w \in Procs
    BY WorkerIs
  <1>1. CASE RunStep(w)
    BY <1>1, LookSteps, RunningIsMarked, OutcomeIsRecorded DEF RunStep, LookStep
  <1>2. CASE IndexStep(w)
    BY <1>w, <1>2, LookSteps, IndexIsApart DEF IndexStep, LookStep
  <1>3. CASE HandleStep(w)
    BY <1>3, LookSteps, RunningIsMarked, OutcomeIsHandled DEF HandleStep, LookStep
  <1>4. CASE CommandStep(w)
    <2>1. pc[w] \in {"idle", "index", "indexing"} \cup Choosing \cup Crawling \cup Handling
      BY DEF MarkedInv, WorkerSure
    <2> QED
      BY <1>4, <2>1 DEF CommandStep, CommitRetry, ProbeTakes, ProbeBusy, ProbeEnds, CommitReset,
         CommitRecover, VerifyEnds, LoadToQuarantine, CommitQuarantine, Choosing, Crawling, Handling
  <1> QED
    BY <1>1, <1>2, <1>3, <1>4 DEF Continue

LEMMA OperatorKeeps ==
  ASSUME TypeOK, NEW w, IndexersAndResets(w), MarkedInv(w), NEW o \in Operators,
         Continue(o) \/ \E j \in Jobs : Command(o, j)
  PROVE  MarkedInv(w)'
  <1>o. o \in Procs /\ o \notin Workers
    BY ProcsAssumption DEF Procs
  <1>t. /\ pc \in [Procs -> PCs] /\ tgt \in [Procs -> Jobs]
        /\ seen \in [Procs -> Row] /\ out \in [Procs -> Outcomes]
    BY DEF TypeOK
  <1>f. pc[o] \in {"idle", "index", "indexing", "resetLoaded", "resetProbe", "resetting"}
    BY DEF MarkedInv, OperatorsApart
  <1>1. ASSUME NEW j \in Jobs, Command(o, j) PROVE MarkedInv(w)'
    <2>1. IndexJob(o, j) \/ LoadToReset(o, j)
      BY <1>1 DEF Command, RunDbJob, IndexJob, LoadToRetry, LoadToReset,
                  LoadToRecover, Verify, Begins, IndexersAndResets
    <2>2. UNCHANGED <<row, failures>> /\ OnlyMoves(o) /\ pc'[o] \in {"index", "resetLoaded"}
      BY <1>o, <1>t, <2>1 DEF IndexJob, LoadToReset, Opens, Load, Goto, Aim, OnlyMoves, db, history
    <2> QED
      BY <2>2, OperatorLooks
  <1>2. CASE RunStep(o)
    BY <1>f, <1>2 DEF RunStep, TakeLock, LockBusy, LoadToStart, NotRunnable,
       CommitStart, CrawlEnds, LoadToFinish, CommitFinish, Release
  <1>3. CASE IndexStep(o)
    <2>1. CASE LoadToIndex(o)
      <3>1. /\ UNCHANGED <<row, failures, tgt>> /\ OnlyMoves(o) /\ pc'[o] = "indexing"
            /\ seen'[o] = row[tgt[o]] /\ row[tgt[o]].status \in Indexable
        BY <1>o, <1>t, <2>1 DEF LoadToIndex, Goto, Load, OnlyMoves, db, history
      <3> QED
        BY <3>1, OperatorLooks
    <2>2. CASE NotIndexable(o)
      <3>1. UNCHANGED <<row, failures>> /\ OnlyMoves(o) /\ pc'[o] = "idle"
        BY <1>o, <2>2, StopMoves DEF NotIndexable, db, history
      <3> QED
        BY <3>1, OperatorLooks
    <2> QED
      BY <1>o, <1>3, <2>1, <2>2, IndexIsApart DEF IndexStep
  <1>4. CASE HandleStep(o)
    BY <1>f, <1>4 DEF HandleStep, LoadToSync, CommitSync, LoadToHandle, CommitHandled
  <1>5. CASE CommandStep(o)
    <2>1. CASE ProbeTakes(o) \/ ProbeEnds(o)
      <3>1. /\ UNCHANGED <<row, failures>> /\ OnlyMoves(o)
            /\ pc'[o] \in {"resetProbe", "resetting"}
        BY <1>o, <1>t, <1>f, <2>1 DEF ProbeTakes, ProbeEnds, Goto, OnlyMoves, db, history
      <3> QED
        BY <3>1, OperatorLooks
    <2>2. CASE ProbeBusy(o)
      <3>1. UNCHANGED <<row, failures>> /\ OnlyMoves(o) /\ pc'[o] = "idle"
        BY <1>o, <2>2, StopMoves DEF ProbeBusy, db, history
      <3> QED
        BY <3>1, OperatorLooks
    <2> QED
      BY <1>f, <1>5, <2>1, <2>2, ResetForgives
         DEF CommandStep, CommitRetry, CommitRecover, VerifyEnds, LoadToQuarantine, CommitQuarantine
  <1> QED
    BY <1>1, <1>2, <1>3, <1>4, <1>5 DEF Continue

\* Who dies, or gives up for a failed tiering, leaves the rows as they are.
LEMMA StopKeeps ==
  ASSUME TypeOK, NEW w, IndexersAndResets(w), MarkedInv(w), NEW p \in Procs, Stop(p),
         UNCHANGED <<row, failures>>
  PROVE  MarkedInv(w)'
  <1>1. OnlyMoves(p) /\ pc'[p] = "idle"
    BY StopMoves
  <1>2. CASE p = w
    <2>1. WorkerSure(w)'
      BY <1>1, <1>2 DEF WorkerSure, Choosing, Crawling, Handling
    <2> QED
      BY <1>1, <1>2, <2>1, WorkerLooks
  <1>3. CASE p # w
    BY <1>1, <1>3, WorkerIs, OperatorLooks
  <1> QED
    BY <1>2, <1>3

LEMMA MarkedNext ==
  ASSUME TypeOK, NEW w, IndexersAndResets(w), MarkedInv(w), [Next]_vars
  PROVE  MarkedInv(w)'
  <1>0. \A v \in Workers : v = w /\ v \in Procs
    BY WorkerIs
  <1>1. ASSUME NEW v \in Workers, Pick(v) \/ TierFails(v) PROVE MarkedInv(w)'
    <2>1. CASE Pick(v)
      BY <1>0, <2>1, LookSteps DEF LookStep
    <2>2. CASE TierFails(v)
      BY <1>0, <2>2, StopKeeps DEF TierFails, db, history
    <2> QED
      BY <1>1, <2>1, <2>2
  <1>2. ASSUME NEW o \in Operators, NEW j \in Jobs, Command(o, j) PROVE MarkedInv(w)'
    BY <1>2, OperatorKeeps
  <1>3. ASSUME NEW p \in Procs, Continue(p) PROVE MarkedInv(w)'
    BY <1>3, WorkerIs, WorkerKeeps, OperatorKeeps
  <1>4. ASSUME NEW p \in Procs, Dies(p) PROVE MarkedInv(w)'
    BY <1>4, StopKeeps DEF Dies, db, history
  <1>5. ASSUME NEW j \in Jobs, Age(j) \/ Cool(j) \/ OrphanEnds(j) PROVE MarkedInv(w)'
    BY <1>5, TimeLooks DEF Age, Cool, OrphanEnds, db, history
  <1>6. CASE UNCHANGED jobVars
    BY <1>6, TimeLooks DEF jobVars, history
  <1> QED
    BY NextCases, <1>1, <1>2, <1>3, <1>4, <1>5, <1>6 DEF Step

LEMMA AlwaysMarked ==
  ASSUME NEW w, IndexersAndResets(w)
  PROVE  Spec => [](TypeOK /\ MarkedInv(w))
  <1>1. Init => MarkedInv(w)
    <2> SUFFICES ASSUME Init PROVE MarkedInv(w)
      OBVIOUS
    <2>1. /\ \A p \in Procs : pc[p] = "idle"
          /\ \A j \in Jobs : row[j] = NewRow /\ failures[j] = 0
      BY DEF Init
    <2>2. WorkerSure(w) /\ OperatorsApart /\ IndexersApart
      BY <2>1, WorkerIs DEF WorkerSure, OperatorsApart, IndexersApart, Choosing, Crawling,
         Handling, Procs
    <2>3. Paid(w)
      BY <2>1, WorkerIs, BudgetAssumption DEF Paid, PaidBy, Fails, Within, NewRow
    <2> QED
      BY <2>2, <2>3 DEF MarkedInv
  <1>2. TypeOK /\ MarkedInv(w) /\ [Next]_vars => MarkedInv(w)'
    BY MarkedNext
  <1> QED
    BY <1>1, <1>2, TypeCorrect, PTL DEF Spec

\* With one worker, and operators that index and reset, the row says running as long as a
\* crawl of the job is in hand, so that no job is offered twice, whichever process dies.
THEOREM CrawlsAreMarked ==
  ASSUME NEW w, IndexersAndResets(w)
  PROVE  Spec => []CrawlIsMarked
  <1>1. MarkedInv(w) => CrawlIsMarked
    <2> SUFFICES ASSUME MarkedInv(w), NEW p \in Procs, NEW j \in Jobs, Runs(p, j)
                 PROVE  row[j].status = "running"
      BY DEF CrawlIsMarked
    <2>1. p = w
      BY WorkerIs DEF MarkedInv, OperatorsApart, Runs
    <2> QED
      BY <2>1 DEF MarkedInv, WorkerSure, Crawling, Runs
  <1> QED
    BY <1>1, AlwaysMarked, PTL

\* In that world a job is crawled to failure at most once more than MAX_CRAWL_RETRIES
\* (worker/main.py:331) between two resets, with infrastructure errors in between or not.
THEOREM FailuresAreBounded ==
  ASSUME NEW w, IndexersAndResets(w)
  PROVE  Spec => []FailuresBounded
  <1>1. TypeOK /\ MarkedInv(w) => FailuresBounded
    <2> SUFFICES ASSUME TypeOK, MarkedInv(w), NEW j \in Jobs
                 PROVE  failures[j] <= MaxCrawlRetries + 1
      BY DEF FailuresBounded
    <2>1. failures[j] \in Nat /\ row[j] \in Row
      BY DEF TypeOK
    <2>2. PaidBy(failures[j], row[j])
      BY DEF MarkedInv, Paid
    <2> QED
      BY <2>1, <2>2, PaidIsWithin DEF WithinOneMore
  <1> QED
    BY <1>1, AlwaysMarked, PTL
=============================================================================
