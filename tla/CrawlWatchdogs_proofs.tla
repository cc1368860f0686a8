--------------------------- MODULE CrawlWatchdogs_proofs ---------------------------
(* Proofs about CrawlWatchdogs, for every set of jobs and sources and all caps.       *)
EXTENDS CrawlWatchdogs, FiniteSetTheorems, WellFoundedInduction, TLAPS

----------------------------------------------------------------------------
(* Helpers.                                                                           *)

\* A set of jobs that is not empty has a first one.
LEMMA FirstIsIn ==
  ASSUME NEW S, S \subseteq Jobs, S # {}
  PROVE  First(S) \in S
  <1>1. S \subseteq Nat
    BY JobsAssumption
  <1>2. PICK R : R = OpToRel(<, Nat)
    OBVIOUS
  <1>3. PICK t \in S : \A y \in S : ~(<<y, t>> \in R)
    BY <1>1, <1>2, NatLessThanWellFounded, WFMin
  <1>4. ASSUME NEW y \in S PROVE t <= y
    <2>1. y \in Nat /\ t \in Nat
      BY <1>1
    <2>2. y < t => <<y, t>> \in R
      BY <1>2, <2>1 DEF OpToRel
    <2>3. ~(<<y, t>> \in R)
      BY <1>3
    <2> QED
      BY <2>1, <2>2, <2>3
  <1> QED
    BY <1>4 DEF First

\* What is counted is at most all jobs.
LEMMA Counted ==
  ASSUME NEW S, S \subseteq Jobs
  PROVE  Cardinality(S) \in 0..Cardinality(Jobs) /\ Cardinality(Jobs) \in Nat
  <1>1. IsFiniteSet(Jobs)
    BY JobsAssumption
  <1>2. /\ Cardinality(S) \in Nat /\ Cardinality(Jobs) \in Nat
        /\ Cardinality(S) <= Cardinality(Jobs)
    BY <1>1, FS_Subset, FS_CardinalityType
  <1> QED
    BY <1>2

LEMMA Reduced ==
  ASSUME NEW c \in Nat, NEW r \in 0..c, NEW d \in 0..c
  PROVE  (IF r < d THEN 0 ELSE r - d) \in 0..c
  OBVIOUS

----------------------------------------------------------------------------
(* Types, in the parts that the groups of variables make.                             *)

RowsTyped ==
    /\ status \in [Jobs -> Statuses]
    /\ started \in [Jobs -> {"never", "new", "old"}]
CrawlTyped ==
    /\ owner \in [Jobs -> {"none", "worker", "unit"}]
    /\ stage \in [Jobs -> Stages]
    /\ orphan \subseteq Jobs
    /\ log \in [Jobs -> Ages]
    /\ workerUp \in BOOLEAN
CountsTyped ==
    /\ file \in [Jobs -> 0..MaxRecoveries]
    /\ faults \in 0..MaxFaults
    /\ done \in [Jobs -> Nat]
ArTyped ==
    ar \in [pc : ArPCs, held : SUBSET Jobs, job : Jobs, kind : Kinds, sel : SUBSET Jobs]
AsTyped ==
    as \in [pc : AsPCs, active : BOOLEAN, running : 0..Cardinality(Jobs), pending : BOOLEAN]

\* A recovery that was decided on is within the cap until it is recorded.
Recovering == ar.pc \in {"stopping", "recovering", "flipping", "restarting", "recording"}
UnderCap == Recovering => file[ar.job] < MaxRecoveries

Typed == RowsTyped /\ CrawlTyped /\ CountsTyped /\ ArTyped /\ AsTyped /\ UnderCap

LEMMA TypedIsTypeOK == Typed => TypeOK
  BY DEF Typed, TypeOK, RowsTyped, CrawlTyped, CountsTyped, ArTyped, AsTyped

LEMMA IdleTyped ==
  /\ ArIdle \in [pc : ArPCs, held : SUBSET Jobs, job : Jobs, kind : Kinds, sel : SUBSET Jobs]
  /\ ArIdle.pc = "idle"
  /\ AsIdle \in [pc : AsPCs, active : BOOLEAN, running : 0..Cardinality(Jobs),
                 pending : BOOLEAN]
  <1>1. First(Jobs) \in Jobs
    BY FirstIsIn, JobsAssumption
  <1>2. 0 \in 0..Cardinality(Jobs)
    BY Counted
  <1> QED
    BY <1>1, <1>2 DEF ArIdle, AsIdle, ArPCs, AsPCs, Kinds

LEMMA InitTyped == Init => Typed
  <1> SUFFICES ASSUME Init PROVE Typed
    OBVIOUS
  <1>1. 0 \in 0..MaxRecoveries /\ 0 \in 0..MaxFaults
    BY CapsAssumption
  <1>2. RowsTyped
    BY DEF Init, RowsTyped, Statuses, Pending
  <1>3. CrawlTyped
    BY DEF Init, CrawlTyped, Stages, Ages
  <1>4. CountsTyped
    BY <1>1 DEF Init, CountsTyped
  <1>5. ArTyped /\ AsTyped /\ UnderCap
    BY IdleTyped DEF Init, ArTyped, AsTyped, UnderCap, Recovering
  <1> QED
    BY <1>2, <1>3, <1>4, <1>5 DEF Typed

----------------------------------------------------------------------------
(* What each group of actions leaves alone.                                           *)

\* The crawls and the ageing of a row or a log.
CrawlStep(j) ==
    \/ WorkerTakes(j) \/ WorkerBelieves(j) \/ Starts(j) \/ Leaves(j) \/ Progress(j)
    \/ CrawlExits(j) \/ Finishes(j) \/ RunnerDies(j) \/ OrphanEnds(j) \/ RowAges(j)
    \/ LogAges(j)

LEMMA CrawlsFrame ==
  ASSUME NEW j \in Jobs, CrawlStep(j)
  PROVE  /\ UNCHANGED <<file, ar, as, done>>
         /\ faults' = faults \/ (faults < MaxFaults /\ faults' = faults + 1)
  BY DEF CrawlStep, WorkerTakes, WorkerBelieves, Starts, Leaves, Progress, CrawlExits, Finishes,
         RunnerDies, OrphanEnds, RowAges, LogAges

LEMMA AsFrame ==
  ASSUME AsBegins \/ AsSteps \/ AsDies
  PROVE  /\ UNCHANGED <<file, ar, done>> /\ UNCHANGED <<started, owner, stage, orphan, log>>
         /\ faults' = faults \/ (faults < MaxFaults /\ faults' = faults + 1)
  BY DEF AsBegins, AsSteps, AsCounts, AsReconciles, AsStarts, AsDies, rows, crawl

LEMMA ArFrame ==
  ASSUME ArBegins \/ ArSteps \/ ArDies
  PROVE  as' = as
  BY DEF ArBegins, ArSteps, ArSyncs, ArSyncsProcesses, ArFindsStall, ArFindsRoom, ArStarts,
         ArDecides, ArStops, ArLoads, ArFlips, ArRestartsWorker, ArRestartsUnit, ArRecords, ArDies

----------------------------------------------------------------------------
(* Each step keeps the types.                                                         *)

LEMMA RowsTypes == Typed /\ Next => RowsTyped'
  <1> SUFFICES ASSUME Typed, Next PROVE RowsTyped'
    OBVIOUS
  <1>1. RowsTyped
    BY DEF Typed
  <1>2. UNCHANGED rows => RowsTyped'
    BY <1>1 DEF RowsTyped, rows
  <1>3. ASSUME NEW j \in Jobs, WorkerBelieves(j) \/ Starts(j) \/ Finishes(j) \/ RowAges(j)
        PROVE  RowsTyped'
    BY <1>1, <1>3
       DEF WorkerBelieves, Starts, Finishes, RowAges, RowsTyped, Statuses, Pending
  <1>4. ASSUME NEW j \in Jobs, CrawlStep(j) PROVE RowsTyped'
    <2>1. \/ WorkerTakes(j) \/ Leaves(j) \/ Progress(j) \/ CrawlExits(j) \/ RunnerDies(j)
          \/ OrphanEnds(j) \/ LogAges(j)
          => UNCHANGED rows
      BY DEF WorkerTakes, Leaves, Progress, CrawlExits, RunnerDies, OrphanEnds, LogAges
    <2> QED
      BY <1>2, <1>3, <1>4, <2>1 DEF CrawlStep
  <1>5. ArSyncs => RowsTyped'
    BY <1>1 DEF ArSyncs, RowsTyped, Statuses
  <1>6. ArSyncsProcesses => RowsTyped'
    BY <1>1 DEF ArSyncsProcesses, RowsTyped, Statuses
  <1>7. ArFlips => RowsTyped'
    BY <1>1 DEF ArFlips, RowsTyped, Statuses, Pending
  <1>8. AsReconciles => RowsTyped'
    BY <1>1 DEF AsReconciles, RowsTyped, Statuses, Pending
  <1>9. \/ DayEnds \/ ArBegins \/ ArFindsStall \/ ArFindsRoom \/ ArStarts \/ ArDecides \/ ArStops
        \/ ArLoads \/ ArRestartsWorker \/ ArRestartsUnit \/ ArRecords \/ ArDies \/ AsBegins
        \/ AsCounts \/ AsStarts \/ AsDies
        => UNCHANGED rows
    BY DEF DayEnds, ArBegins, ArFindsStall, ArFindsRoom, ArStarts, ArDecides, ArStops, ArLoads,
           ArRestartsWorker, ArRestartsUnit, ArRecords, ArDies, AsBegins, AsCounts, AsStarts, AsDies
  <1> QED
    BY <1>2, <1>4, <1>5, <1>6, <1>7, <1>8, <1>9 DEF Next, ArSteps, AsSteps, CrawlStep

LEMMA CrawlTypes == Typed /\ Next => CrawlTyped'
  <1> SUFFICES ASSUME Typed, Next PROVE CrawlTyped'
    OBVIOUS
  <1>1. CrawlTyped /\ ArTyped
    BY DEF Typed
  <1>2. UNCHANGED <<crawl, workerUp>> => CrawlTyped'
    BY <1>1 DEF CrawlTyped, crawl
  <1>3. ASSUME NEW j \in Jobs, CrawlStep(j) PROVE CrawlTyped'
    <2>1. ASSUME WorkerTakes(j) \/ Starts(j) \/ Leaves(j) \/ CrawlExits(j) \/ Finishes(j)
          PROVE  CrawlTyped'
      BY <1>1, <2>1 DEF WorkerTakes, Starts, Leaves, CrawlExits, Finishes, Frees, CrawlTyped, Stages
    <2>2. ASSUME Progress(j) \/ LogAges(j) PROVE CrawlTyped'
      BY <1>1, <2>2 DEF Progress, LogAges, CrawlTyped, Ages
    <2>3. ASSUME RunnerDies(j) PROVE CrawlTyped'
      <3>1. /\ Frees(j) /\ log' = log
            /\ workerUp' \in BOOLEAN \/ workerUp' = workerUp
            /\ orphan' = orphan \/ orphan' = orphan \cup {j}
        BY <2>3 DEF RunnerDies
      <3> QED
        BY <1>1, <3>1 DEF Frees, CrawlTyped, Stages
    <2>4. OrphanEnds(j) => CrawlTyped'
      BY <1>1 DEF OrphanEnds, CrawlTyped
    <2>5. WorkerBelieves(j) \/ RowAges(j) => UNCHANGED <<crawl, workerUp>>
      BY DEF WorkerBelieves, RowAges
    <2> QED
      BY <1>2, <1>3, <2>1, <2>2, <2>3, <2>4, <2>5 DEF CrawlStep
  <1>4. ASSUME UnitStarts(ar.job), UNCHANGED <<orphan, log, workerUp>> PROVE CrawlTyped'
    <2>1. ar.job \in Jobs
      BY <1>1 DEF ArTyped
    <2> QED
      BY <1>1, <1>4, <2>1 DEF UnitStarts, CrawlTyped, Stages
  <1>5. ArStarts \/ ArRestartsUnit => CrawlTyped'
    <2>1. \/ ArStarts \/ ArRestartsUnit
          => /\ UnitStarts(ar.job) \/ UNCHANGED <<owner, stage>>
             /\ UNCHANGED <<orphan, log, workerUp>>
      BY DEF ArStarts, ArRestartsUnit
    <2> QED
      BY <1>2, <1>4, <2>1 DEF crawl
  <1>6. ArStops => CrawlTyped'
    <2>1. ASSUME KillOwned(ar.kind, ar.job)
          PROVE  /\ owner' \in [Jobs -> {"none", "worker", "unit"}]
                 /\ stage' \in [Jobs -> Stages]
                 /\ orphan' \subseteq Jobs
      BY <1>1, <2>1 DEF KillOwned, CrawlTyped, Stages
    <2>2. (workerUp /\ ar.kind # "worker") \in BOOLEAN
      OBVIOUS
    <2>3. ArStops => /\ log' = log
                     /\ \/ UNCHANGED <<owner, stage, orphan, workerUp>>
                        \/ KillOwned(ar.kind, ar.job) /\ workerUp' \in BOOLEAN
      BY <2>2 DEF ArStops
    <2> QED
      BY <1>1, <2>1, <2>3 DEF CrawlTyped
  <1>7. ArRestartsWorker \/ AsStarts => CrawlTyped'
    <2>1. (workerUp \/ (as.running = 0 /\ as.pending)) \in BOOLEAN
      OBVIOUS
    <2>2. ArRestartsWorker \/ AsStarts => UNCHANGED crawl /\ workerUp' \in BOOLEAN
      BY <2>1 DEF ArRestartsWorker, AsStarts
    <2> QED
      BY <1>1, <2>2 DEF CrawlTyped, crawl
  <1>8. \/ DayEnds \/ ArBegins \/ ArSyncs \/ ArSyncsProcesses \/ ArFindsStall \/ ArFindsRoom
        \/ ArDecides \/ ArLoads \/ ArFlips \/ ArRecords \/ ArDies \/ AsBegins \/ AsCounts
        \/ AsReconciles \/ AsDies
        => UNCHANGED <<crawl, workerUp>>
    BY DEF DayEnds, ArBegins, ArSyncs, ArSyncsProcesses, ArFindsStall, ArFindsRoom, ArDecides,
           ArLoads, ArFlips, ArRecords, ArDies, AsBegins, AsCounts, AsReconciles, AsDies
  <1> QED
    BY <1>2, <1>3, <1>5, <1>6, <1>7, <1>8 DEF Next, ArSteps, AsSteps, CrawlStep

LEMMA AsTypes == Typed /\ Next => AsTyped'
  <1> SUFFICES ASSUME Typed, Next PROVE AsTyped'
    OBVIOUS
  <1>1. AsTyped /\ CrawlTyped /\ RowsTyped
    BY DEF Typed
  <1>2. as' = as \/ as' = AsIdle => AsTyped'
    BY <1>1, IdleTyped DEF AsTyped
  <1>3. AsBegins => AsTyped'
    <2>1. workerUp \in BOOLEAN
      BY <1>1 DEF CrawlTyped
    <2> QED
      BY <1>1, <2>1 DEF AsBegins, AsTyped, AsPCs
  <1>4. AsCounts => AsTyped'
    <2>1. Cardinality(Running) \in 0..Cardinality(Jobs) /\ 0 \in 0..Cardinality(Jobs)
      BY Counted DEF Running
    <2>2. PICK n, pend : /\ n = (IF as.active THEN 0 ELSE Cardinality(Running))
                         /\ pend = (~as.active /\ Queue # {})
      OBVIOUS
    <2>3. n \in 0..Cardinality(Jobs) /\ pend \in BOOLEAN
      BY <2>1, <2>2
    <2>4. AsCounts => \E pc \in AsPCs : as' = [as EXCEPT !.pc = pc, !.running = n, !.pending = pend,
                                                         !.active = FALSE]
      BY <2>2 DEF AsCounts, AsPCs
    <2> QED
      BY <1>1, <2>3, <2>4 DEF AsTyped
  <1>5. AsReconciles => AsTyped'
    <2>1. PICK drift : drift = {j \in Running : started[j] = "old" /\ ~HasProcess(j)}
      OBVIOUS
    <2>2. drift \subseteq Jobs
      BY <2>1 DEF Running
    <2>3. Cardinality(drift) \in 0..Cardinality(Jobs) /\ Cardinality(Jobs) \in Nat
      BY <2>2, Counted
    <2>4. PICK n, pend :
            /\ n = (IF as.running < Cardinality(drift) THEN 0
                    ELSE as.running - Cardinality(drift))
            /\ pend = (as.pending \/ drift # {})
      OBVIOUS
    <2>5. as.running \in 0..Cardinality(Jobs)
      BY <1>1 DEF AsTyped
    <2>6. n \in 0..Cardinality(Jobs)
      BY <2>3, <2>4, <2>5, Reduced
    <2>7. pend \in BOOLEAN
      BY <2>4
    <2>8. AsReconciles => as' = [as EXCEPT !.pc = "starting", !.running = n, !.pending = pend]
      BY <1>1, <2>1, <2>4 DEF AsReconciles, AsTyped
    <2> QED
      BY <1>1, <2>6, <2>7, <2>8 DEF AsTyped, AsPCs
  <1>6. AsStarts \/ AsDies => as' = AsIdle
    BY DEF AsStarts, AsDies
  <1>7. ASSUME NEW j \in Jobs, CrawlStep(j) PROVE as' = as
    BY <1>7, CrawlsFrame
  <1>8. DayEnds \/ ArBegins \/ ArSteps \/ ArDies => as' = as
    BY ArFrame DEF DayEnds
  <1> QED
    BY <1>2, <1>3, <1>4, <1>5, <1>6, <1>7, <1>8 DEF Next, AsSteps, CrawlStep

LEMMA ArTypes == Typed /\ Next => ArTyped'
  <1> SUFFICES ASSUME Typed, Next PROVE ArTyped'
    OBVIOUS
  <1>1. ArTyped
    BY DEF Typed
  <1>2. ar' = ar \/ ar' = ArIdle => ArTyped'
    BY <1>1, IdleTyped DEF ArTyped
  <1>3. ASSUME NEW pc \in ArPCs, ar' = [ar EXCEPT !.pc = pc] PROVE ArTyped'
    BY <1>1, <1>3 DEF ArTyped
  <1>4. ArBegins => ArTyped'
    BY <1>1 DEF ArBegins, ArTyped, ArPCs
  <1>5. ArSyncsProcesses => ArTyped'
    BY <1>1 DEF ArSyncsProcesses, ArTyped, ArPCs
  <1>6. ArFindsStall => ArTyped'
    <2>1. Stalled # {} => First(Stalled) \in Jobs
      BY FirstIsIn DEF Stalled, Running
    <2> QED
      BY <1>1, <2>1 DEF ArFindsStall, ArTyped, ArPCs
  <1>7. ArFindsRoom => ArTyped'
    <2>1. Queue # {} => First(Queue) \in Jobs
      BY FirstIsIn DEF Queue
    <2>2. ArFindsRoom => \/ ar' = ArIdle
                         \/ Queue # {} /\ ar' = [ar EXCEPT !.pc = "starting", !.job = First(Queue)]
      BY DEF ArFindsRoom, ArEnds
    <2> QED
      BY <1>1, <1>2, <2>1, <2>2 DEF ArTyped, ArPCs
  <1>8. ArDecides => ArTyped'
    <2>1. Runner(ar.job) \in Kinds
      BY DEF Runner, Kinds
    <2>2. ArDecides => \/ ar' = ArIdle
                       \/ \E pc \in ArPCs : ar' = [ar EXCEPT !.pc = pc, !.kind = Runner(ar.job)]
      BY DEF ArDecides, ArEnds, ArPCs
    <2> QED
      BY <1>1, <1>2, <2>1, <2>2 DEF ArTyped
  <1>9. ArLoads => ArTyped'
    <2>1. ArLoads => \E S \in SUBSET Jobs : ar' = [ar EXCEPT !.pc = "flipping", !.sel = S]
      BY DEF ArLoads, Running
    <2> QED
      BY <1>1, <2>1 DEF ArTyped, ArPCs
  <1>10. \/ ArSyncs \/ ArStarts \/ ArStops \/ ArFlips \/ ArRestartsWorker \/ ArRestartsUnit
         \/ ArRecords \/ ArDies
         => ar' = ArIdle \/ \E pc \in ArPCs : ar' = [ar EXCEPT !.pc = pc]
    BY DEF ArSyncs, ArStarts, ArStops, ArFlips, ArRestartsWorker, ArRestartsUnit, ArRecords,
           ArDies, ArEnds, ArGoes, ArPCs
  <1>11. ASSUME NEW j \in Jobs, CrawlStep(j) PROVE ar' = ar
    BY <1>11, CrawlsFrame
  <1>12. DayEnds \/ AsBegins \/ AsSteps \/ AsDies => ar' = ar
    BY AsFrame DEF DayEnds
  <1> QED
    BY <1>2, <1>3, <1>4, <1>5, <1>6, <1>7, <1>8, <1>9, <1>10, <1>11, <1>12
       DEF Next, ArSteps, CrawlStep

\* The cap is asked before a recovery, and the run that asked is the only one.
LEMMA CapTypes == Typed /\ Next => CountsTyped' /\ UnderCap'
  <1> SUFFICES ASSUME Typed, Next PROVE CountsTyped' /\ UnderCap'
    OBVIOUS
  <1>1. CountsTyped /\ ArTyped /\ UnderCap
    BY DEF Typed
  <1>2. MaxRecoveries \in Nat /\ MaxFaults \in Nat
    BY CapsAssumption
  <1>3. ASSUME UNCHANGED <<file, done>>,
               faults' = faults \/ (faults < MaxFaults /\ faults' = faults + 1)
        PROVE  CountsTyped'
    BY <1>1, <1>2, <1>3 DEF CountsTyped
  <1>4. ASSUME NEW j \in Jobs, CrawlStep(j) PROVE CountsTyped' /\ UnderCap'
    BY <1>1, <1>3, <1>4, CrawlsFrame DEF UnderCap, Recovering
  <1>5. AsBegins \/ AsSteps \/ AsDies => CountsTyped' /\ UnderCap'
    BY <1>1, <1>3, AsFrame DEF UnderCap, Recovering
  <1>6. ASSUME DayEnds PROVE CountsTyped' /\ UnderCap'
    <2>1. 0 \in 0..MaxRecoveries
      BY <1>2
    <2>2. /\ file' = [j \in Jobs |-> 0] /\ done' = [j \in Jobs |-> 0]
          /\ UNCHANGED <<ar, faults>> /\ ar.pc = "idle"
      BY <1>6 DEF DayEnds
    <2> QED
      BY <1>1, <2>1, <2>2 DEF CountsTyped, UnderCap, Recovering
  \* A run that has not decided on a recovery, or ends.
  <1>7. \/ ArBegins \/ ArSyncs \/ ArSyncsProcesses \/ ArFindsStall \/ ArFindsRoom \/ ArStarts
        \/ ArDies
        => /\ UNCHANGED <<file, done>>
           /\ faults' = faults \/ (faults < MaxFaults /\ faults' = faults + 1)
           /\ ar'.pc \in {"idle", "syncing", "checking", "scanning", "starting", "deciding"}
    BY <1>1, IdleTyped
       DEF ArBegins, ArSyncs, ArSyncsProcesses, ArFindsStall, ArFindsRoom, ArStarts, ArDies, ArEnds,
           ArGoes, ArTyped
  <1>8. \/ ArBegins \/ ArSyncs \/ ArSyncsProcesses \/ ArFindsStall \/ ArFindsRoom \/ ArStarts
        \/ ArDies
        => CountsTyped' /\ UnderCap'
    BY <1>3, <1>7 DEF UnderCap, Recovering
  <1>9. ArDecides => CountsTyped' /\ UnderCap'
    <2>1. ArDecides => /\ UNCHANGED <<file, done, faults>>
                       /\ \/ ar'.pc = "idle"
                          \/ ~Capped(ar.job) /\ ar'.job = ar.job
      BY <1>1, IdleTyped DEF ArDecides, ArEnds, ArTyped
    <2>2. ~Capped(ar.job) => file[ar.job] < MaxRecoveries
      <3>1. file[ar.job] \in 0..MaxRecoveries
        BY <1>1 DEF CountsTyped, ArTyped
      <3> QED
        BY <1>2, <3>1 DEF Capped
    <2> QED
      BY <1>3, <2>1, <2>2 DEF UnderCap, Recovering
  <1>10. ASSUME \/ ArStops \/ ArLoads \/ ArRestartsWorker \/ ArRestartsUnit
         PROVE  CountsTyped' /\ UnderCap'
    <2>1. /\ UNCHANGED <<file, done>>
          /\ faults' = faults \/ (faults < MaxFaults /\ faults' = faults + 1)
      BY <1>10 DEF ArStops, ArLoads, ArRestartsWorker, ArRestartsUnit, KillOwned
    <2>2. Recovering /\ (ar'.pc = "idle" \/ ar'.job = ar.job)
      BY <1>1, <1>10, IdleTyped
         DEF ArStops, ArLoads, ArRestartsWorker, ArRestartsUnit, ArEnds, ArGoes, ArTyped, Recovering
    <2> QED
      BY <1>1, <1>3, <2>1, <2>2 DEF UnderCap, Recovering
  <1>11. ASSUME ArFlips PROVE CountsTyped' /\ UnderCap'
    <2>1. /\ Recovering /\ file' = file /\ faults' = faults /\ ar'.job = ar.job
          /\ done' = [done EXCEPT ![ar.job] = @ + 1]
      BY <1>1, <1>11 DEF ArFlips, ArGoes, ArTyped, Recovering
    <2> QED
      BY <1>1, <2>1 DEF CountsTyped, UnderCap, ArTyped, Recovering
  <1>12. ASSUME ArRecords PROVE CountsTyped' /\ UnderCap'
    <2>1. /\ ar.pc = "recording" /\ done' = done /\ faults' = faults /\ ar' = ArIdle
          /\ file' = [file EXCEPT ![ar.job] = @ + 1]
      BY <1>12 DEF ArRecords, ArEnds
    <2>2. ar.job \in Jobs /\ file[ar.job] \in 0..MaxRecoveries /\ file[ar.job] < MaxRecoveries
      BY <1>1, <2>1 DEF CountsTyped, ArTyped, UnderCap, Recovering
    <2>3. file[ar.job] + 1 \in 0..MaxRecoveries
      BY <1>2, <2>2
    <2> QED
      BY <1>1, <2>1, <2>2, <2>3, IdleTyped DEF CountsTyped, UnderCap, Recovering
  <1> QED
    BY <1>4, <1>5, <1>6, <1>8, <1>9, <1>10, <1>11, <1>12 DEF Next, ArSteps, CrawlStep

LEMMA TypedNext == Typed /\ [Next]_vars => Typed'
  <1>1. Typed /\ Next => Typed'
    BY RowsTypes, CrawlTypes, AsTypes, ArTypes, CapTypes DEF Typed
  <1>2. Typed /\ UNCHANGED vars => Typed'
    BY DEF vars, rows, crawl, Typed, RowsTyped, CrawlTyped, CountsTyped, ArTyped, AsTyped,
           UnderCap, Recovering
  <1> QED
    BY <1>1, <1>2

\* The rows, the crawls and both watchdogs keep their types, and the state file its cap
\* (vps-crawl-auto-recover.py), whoever is killed and whatever interleaves.
THEOREM WatchdogsTyped == Spec => []TypeOK
  <1>1. Typed => TypeOK
    BY TypedIsTypeOK
  <1>2. Spec => []Typed
    BY InitTyped, TypedNext, PTL DEF Spec
  <1> QED
    BY <1>1, <1>2, PTL

----------------------------------------------------------------------------
(* Recoveries are bounded.                                                            *)

\* A recovery that happened and is not in the state file yet.
Unrecorded(j) == ar.job = j /\ ar.pc \in {"restarting", "recording"}

\* The state file is behind by that one, and by one for each run that was cut off.
Owed == \A j \in Jobs : done[j] <= file[j] + faults + (IF Unrecorded(j) THEN 1 ELSE 0)

LEMMA OwedKept == Typed /\ Owed /\ Next => Owed'
  <1> SUFFICES ASSUME Typed, Owed, Next PROVE Owed'
    OBVIOUS
  <1>1. CountsTyped /\ CountsTyped' /\ ArTyped
    BY CapTypes DEF Typed
  <1>2. \A j \in Jobs : /\ done[j] \in Nat /\ file[j] \in Nat /\ done'[j] \in Nat
                       /\ file'[j] \in Nat
    BY <1>1, CapsAssumption DEF CountsTyped
  <1>3. faults \in Nat /\ faults' \in Nat
    BY <1>1, CapsAssumption DEF CountsTyped
  \* Steps that touch neither count, and keep or lose a recovery only at the price of a fault.
  <1>4. ASSUME UNCHANGED <<file, done>>,
               \/ faults' = faults /\ \A j \in Jobs : Unrecorded(j) => Unrecorded(j)'
               \/ faults' = faults + 1
        PROVE  Owed'
    <2> SUFFICES ASSUME NEW j \in Jobs
                 PROVE  done'[j] <= file'[j] + faults' + (IF Unrecorded(j)' THEN 1 ELSE 0)
      BY DEF Owed
    <2>1. done[j] <= file[j] + faults + (IF Unrecorded(j) THEN 1 ELSE 0)
      BY DEF Owed
    <2>2. CASE faults' = faults + 1
      <3>1. done[j] <= file[j] + (faults + 1)
        BY <1>2, <1>3, <2>1
      <3> QED
        BY <1>2, <1>3, <1>4, <2>2, <3>1
    <2>3. CASE faults' = faults /\ (Unrecorded(j) => Unrecorded(j)')
      BY <1>2, <1>3, <1>4, <2>1, <2>3
    <2> QED
      BY <1>4, <2>2, <2>3
  <1>5. ASSUME NEW j \in Jobs, CrawlStep(j) PROVE Owed'
    BY <1>4, <1>5, CrawlsFrame DEF Unrecorded
  <1>6. AsBegins \/ AsSteps \/ AsDies => Owed'
    BY <1>4, AsFrame DEF Unrecorded
  <1>7. ASSUME DayEnds PROVE Owed'
    <2>1. \A j \in Jobs : done'[j] = 0
      BY <1>7 DEF DayEnds
    <2> QED
      BY <1>2, <1>3, <2>1 DEF Owed
  <1>8. ASSUME \/ ArBegins \/ ArSyncs \/ ArSyncsProcesses \/ ArFindsStall \/ ArFindsRoom
               \/ ArStarts \/ ArDecides \/ ArStops \/ ArLoads \/ ArDies
        PROVE  Owed'
    <2>1. UNCHANGED <<file, done>> /\ (faults' = faults \/ faults' = faults + 1)
      BY <1>8 DEF ArBegins, ArSyncs, ArSyncsProcesses, ArFindsStall, ArFindsRoom, ArStarts,
           ArDecides, ArStops, ArLoads, ArDies, KillOwned
    <2>2. faults' = faults => ar.pc \notin {"restarting", "recording"}
      <3>1. ArDies => faults' # faults
        BY <1>3 DEF ArDies
      <3>2. \/ ArBegins \/ ArSyncs \/ ArSyncsProcesses \/ ArFindsStall \/ ArFindsRoom \/ ArStarts
            \/ ArDecides \/ ArStops \/ ArLoads
            => ar.pc \notin {"restarting", "recording"}
        BY DEF ArBegins, ArSyncs, ArSyncsProcesses, ArFindsStall, ArFindsRoom, ArStarts,
           ArDecides, ArStops, ArLoads
      <3> QED
        BY <1>8, <3>1, <3>2
    <2> QED
      BY <1>4, <2>1, <2>2 DEF Unrecorded
  <1>9. ASSUME ArRestartsWorker \/ ArRestartsUnit PROVE Owed'
    <2>1. /\ UNCHANGED <<file, done>>
          /\ \/ faults' = faults + 1
             \/ faults' = faults /\ ar'.pc = "recording" /\ ar'.job = ar.job
      BY <1>1, <1>9 DEF ArRestartsWorker, ArRestartsUnit, ArGoes, ArTyped
    <2> QED
      BY <1>4, <2>1 DEF Unrecorded
  <1>10. ASSUME ArFlips PROVE Owed'
    <2>1. /\ ar.pc = "flipping" /\ file' = file /\ faults' = faults /\ ar'.job = ar.job
          /\ ar'.pc \in {"restarting", "recording"} /\ ar.job \in Jobs
          /\ done' = [done EXCEPT ![ar.job] = @ + 1]
      BY <1>1, <1>10 DEF ArFlips, ArGoes, ArTyped
    <2> SUFFICES ASSUME NEW j \in Jobs
                 PROVE  done'[j] <= file'[j] + faults' + (IF Unrecorded(j)' THEN 1 ELSE 0)
      BY DEF Owed
    <2>2. done[j] <= file[j] + faults
      BY <1>2, <1>3, <2>1 DEF Owed, Unrecorded
    <2>3. CASE j = ar.job
      <3>1. Unrecorded(j)' /\ done'[j] = done[j] + 1
        BY <1>1, <2>1, <2>3 DEF Unrecorded, CountsTyped
      <3> QED
        BY <1>2, <1>3, <2>1, <2>2, <3>1
    <2>4. CASE j # ar.job
      <3>1. ~Unrecorded(j)' /\ done'[j] = done[j]
        BY <1>1, <2>1, <2>4 DEF Unrecorded, CountsTyped
      <3> QED
        BY <2>1, <2>2, <3>1, <1>2, <1>3
    <2> QED
      BY <2>3, <2>4
  <1>11. ASSUME ArRecords PROVE Owed'
    <2>1. /\ ar.pc = "recording" /\ done' = done /\ faults' = faults /\ ar' = ArIdle
          /\ ar.job \in Jobs /\ file' = [file EXCEPT ![ar.job] = @ + 1]
      BY <1>1, <1>11 DEF ArRecords, ArEnds, ArTyped
    <2> SUFFICES ASSUME NEW j \in Jobs
                 PROVE  done'[j] <= file'[j] + faults' + (IF Unrecorded(j)' THEN 1 ELSE 0)
      BY DEF Owed
    <2>2. ~Unrecorded(j)'
      BY <2>1, IdleTyped DEF Unrecorded
    <2>3. CASE j = ar.job
      <3>1. done[j] <= file[j] + faults + 1 /\ file'[j] = file[j] + 1
        BY <1>1, <2>1, <2>3 DEF Owed, Unrecorded, CountsTyped
      <3> QED
        BY <1>2, <1>3, <2>1, <2>2, <3>1
    <2>4. CASE j # ar.job
      <3>1. done[j] <= file[j] + faults /\ file'[j] = file[j]
        BY <1>1, <1>2, <1>3, <2>1, <2>4 DEF Owed, Unrecorded, CountsTyped
      <3> QED
        BY <1>2, <1>3, <2>1, <2>2, <3>1
    <2> QED
      BY <2>3, <2>4
  <1> QED
    BY <1>5, <1>6, <1>7, <1>8, <1>9, <1>10, <1>11 DEF Next, ArSteps, CrawlStep

\* A job is recovered at most --max-recoveries-per-job-per-day times a day, and once more for
\* each run that was killed or raised before it had saved its state (main, _save_state), for
\* any number of jobs and whatever the crawls, the worker and worker-auto-start do.
THEOREM RecoveriesAreBounded == Spec => []RecoveriesBounded
  <1>1. Init => Owed
    <2> SUFFICES ASSUME Init PROVE Owed
      OBVIOUS
    <2>1. \A j \in Jobs : done[j] = 0 /\ file[j] = 0 /\ ~Unrecorded(j)
      BY IdleTyped DEF Init, Unrecorded
    <2>2. faults = 0
      BY DEF Init
    <2> QED
      BY <2>1, <2>2 DEF Owed
  <1>2. Typed /\ Owed /\ [Next]_vars => Owed'
    <2>1. Owed /\ UNCHANGED vars => Owed'
      BY DEF Owed, Unrecorded, vars
    <2> QED
      BY <2>1, OwedKept
  <1>3. Typed /\ Owed => RecoveriesBounded
    <2> SUFFICES ASSUME Typed, Owed, NEW j \in Jobs PROVE done[j] <= MaxRecoveries + faults
      BY DEF RecoveriesBounded
    <2>1. MaxRecoveries \in Nat /\ MaxFaults \in Nat
      BY CapsAssumption
    <2>2. done[j] \in Nat /\ file[j] \in 0..MaxRecoveries /\ faults \in Nat
      BY <2>1 DEF Typed, CountsTyped
    <2>3. done[j] <= file[j] + faults + (IF Unrecorded(j) THEN 1 ELSE 0)
      BY DEF Owed
    <2>4. Unrecorded(j) => file[j] < MaxRecoveries
      BY DEF Typed, UnderCap, Recovering, Unrecorded
    <2> QED
      BY <2>1, <2>2, <2>3, <2>4
  <1>4. Spec => [](Typed /\ Owed)
    BY InitTyped, TypedNext, <1>1, <1>2, PTL DEF Spec
  <1> QED
    BY <1>3, <1>4, PTL

=============================================================================
