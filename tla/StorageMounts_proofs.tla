--------------------------- MODULE StorageMounts_proofs ---------------------------
(* Proofs about StorageMounts, for every set of jobs and units and all bounds.       *)
EXTENDS StorageMounts, WellFoundedInduction, TLAPS

----------------------------------------------------------------------------
(* Helpers.                                                                          *)

\* The queue has a first job.
LEMMA FirstIsIn ==
  ASSUME NEW S, S \subseteq Jobs, S # {}
  PROVE  First(S) \in S
  <1>1. S \subseteq Nat
    BY JobsAssumption
  <1>2. PICK R : R = OpToRel(<, Nat)
    OBVIOUS
  <1>3. PICK t \in S : \A y \in S : ~(<<y, t>> \in R)
    BY <1>1, <1>2, NatLessThanWellFounded, WFMin
  <1>4. ASSUME NEW y \in S PROVE t <= y
    <2>1. y \in Nat /\ t \in Nat
      BY <1>1
    <2>2. y < t => <<y, t>> \in R
      BY <1>2, <2>1 DEF OpToRel
    <2>3. ~(<<y, t>> \in R)
      BY <1>3
    <2> QED
      BY <2>1, <2>2, <2>3
  <1> QED
    BY <1>4 DEF First

----------------------------------------------------------------------------
(* Types, in the parts that the groups of variables make.                            *)

MountsTyped == base \in BOOLEAN /\ mnt \in [Jobs -> Mounts]
RowsTyped ==
    /\ status \in [Jobs -> {"pending", "running", "ended"}]
    /\ owner \in [Jobs -> {"none", "worker", "unit"}]
    /\ bare \subseteq Jobs
WorkerTyped ==
    /\ workerUp \in BOOLEAN
    /\ w \in [pc : {"idle", "tiering"}, job : Jobs \cup {0}]
    /\ w.pc = "tiering" => w.job \in Jobs
Counts == [Jobs -> [Keys -> 0..ConfirmRuns]]
FileTyped == obs \in Counts /\ file \in 0..MaxRecoveries
HpTyped ==
    hp \in [pc : HpPCs, seen : Counts, stale : SUBSET Jobs,
            impacted : SUBSET Jobs, none : BOOLEAN, stopped : BOOLEAN, ok : BOOLEAN]
PlanTyped ==
    plan \in [{"worker", "hp"} -> [mnt : [Jobs -> Mounts], running : SUBSET Jobs]]
CountsTyped == breaks \in 0..MaxBreaks /\ faults \in 0..MaxFaults

\* A recovery that is under way was allowed by the cap, which nothing else uses up.
UnderCap == hp.pc # "idle" => file < MaxRecoveries

Typed ==
    /\ MountsTyped /\ RowsTyped /\ WorkerTyped /\ FileTyped /\ HpTyped /\ PlanTyped
    /\ CountsTyped /\ UnderCap

LEMMA TypedIsTypeOK == Typed => TypeOK
  BY DEF Typed, TypeOK, MountsTyped, RowsTyped, WorkerTyped, FileTyped, HpTyped,
         PlanTyped, CountsTyped, Counts

\* The records of a component that does nothing.
LEMMA IdleTyped ==
  /\ Idle \in [pc : HpPCs, seen : Counts, stale : SUBSET Jobs,
               impacted : SUBSET Jobs, none : BOOLEAN, stopped : BOOLEAN, ok : BOOLEAN]
  /\ Idle.pc = "idle" /\ Idle.stale = {} /\ Unseen \in Counts
  /\ NoPlan \in [mnt : [Jobs -> Mounts], running : SUBSET Jobs]
  /\ WorkerIdle \in [pc : {"idle", "tiering"}, job : Jobs \cup {0}]
  /\ WorkerIdle.pc = "idle"
  <1>1. 0 \in 0..ConfirmRuns
    BY BoundsAssumption
  <1>2. Unseen \in Counts
    BY <1>1 DEF Unseen, Counts
  <1>3. [j \in Jobs |-> "bound"] \in [Jobs -> Mounts]
    BY DEF Mounts
  <1> QED
    BY <1>2, <1>3 DEF Idle, NoPlan, WorkerIdle, HpPCs

LEMMA InitTyped == Init => Typed
  <1> SUFFICES ASSUME Init PROVE Typed
    OBVIOUS
  <1>1. 0 \in 0..ConfirmRuns /\ 0 \in 0..MaxRecoveries /\ 0 \in 0..MaxBreaks
        /\ 0 \in 0..MaxFaults
    BY BoundsAssumption
  <1>2. MountsTyped /\ RowsTyped
    BY DEF Init, MountsTyped, RowsTyped, Mounts
  <1>3. WorkerTyped /\ HpTyped /\ UnderCap
    BY IdleTyped DEF Init, WorkerTyped, HpTyped, UnderCap
  <1>4. FileTyped /\ CountsTyped
    BY <1>1, IdleTyped DEF Init, FileTyped, CountsTyped
  <1>5. PlanTyped
    BY IdleTyped DEF Init, PlanTyped
  <1> QED
    BY <1>2, <1>3, <1>4, <1>5 DEF Typed

\* What a tiering makes of the directories.
LEMMA TieredTyped ==
  ASSUME Typed, NEW p, NEW allow
  PROVE  /\ Tiered(p, allow) \in [Jobs -> Mounts]
         /\ \A j \in Jobs : Tiered(p, allow)[j] \in {mnt[j], "bound"}
  BY DEF Tiered, Typed, MountsTyped, Mounts

\* What a run has seen of the directories.
LEMMA SeenTyped ==
  ASSUME Typed
  PROVE  Observed \in Counts
  <1> SUFFICES ASSUME NEW j \in Jobs, NEW k \in Keys
               PROVE  (IF status[j] # k \/ mnt[j] # "stale" THEN 0
                       ELSE IF obs[j][k] < ConfirmRuns THEN obs[j][k] + 1 ELSE ConfirmRuns)
                      \in 0..ConfirmRuns
    BY DEF Seen, Observed, Counts
  <1>1. ConfirmRuns \in Nat /\ obs[j][k] \in 0..ConfirmRuns
    BY BoundsAssumption DEF Typed, FileTyped, Counts
  <1>2. obs[j][k] < ConfirmRuns => obs[j][k] + 1 \in 0..ConfirmRuns
    BY <1>1
  <1>3. 0 \in 0..ConfirmRuns /\ ConfirmRuns \in 0..ConfirmRuns
    BY <1>1
  <1> QED
    BY <1>2, <1>3

\* A crawl that makes its directory.
LEMMA MadeTyped ==
  ASSUME Typed, NEW k \in Jobs
  PROVE  /\ Made(k) \in [Jobs -> Mounts]
         /\ \A j \in Jobs : Made(k)[j] # mnt[j] => j = k /\ mnt[j] = "absent" /\ Made(k)[j] = "plain"
  BY DEF Made, Typed, MountsTyped, Mounts

LEMMA MountsTypes == Typed /\ Next => MountsTyped'
  <1> SUFFICES ASSUME Typed, Next PROVE MountsTyped'
    OBVIOUS
  <1>1. MountsTyped
    BY DEF Typed
  <1>2. UNCHANGED <<base, mnt>> => MountsTyped'
    BY <1>1 DEF MountsTyped
  <1>3. ASSUME NEW j \in Jobs, MountBreaks(j) PROVE MountsTyped'
    BY <1>1, <1>3 DEF MountBreaks, MountsTyped, Mounts
  <1>4. BaseBreaks => MountsTyped'
    BY <1>1 DEF BaseBreaks, MountsTyped, Mounts
  <1>5. RepairUnexpected => MountsTyped'
    BY <1>1 DEF RepairUnexpected, MountsTyped, Mounts
  <1>6. WorkerTiers => MountsTyped'
    <2>1. WorkerTiers => base' = base /\ (mnt' = Tiered(plan["worker"], FALSE) \/ mnt' = mnt)
      BY DEF WorkerTiers
    <2>2. Tiered(plan["worker"], FALSE) \in [Jobs -> Mounts]
      BY TieredTyped
    <2> QED
      BY <1>1, <2>1, <2>2 DEF MountsTyped
  <1>7. HpUnmounts => MountsTyped'
    BY <1>1 DEF HpUnmounts, MountsTyped, Mounts
  <1>8. HpRemounts => MountsTyped'
    BY <1>1 DEF HpRemounts, MountsTyped
  <1>9. HpTiers => MountsTyped'
    <2>1. HpTiers => base' = base /\ (mnt' = Tiered(plan["hp"], hp.stopped) \/ mnt' = mnt)
      BY DEF HpTiers
    <2> QED
      BY <1>1, <2>1, TieredTyped DEF MountsTyped
  <1>10. ASSUME NEW j \in Jobs, CrawlEnds(j) \/ Requeues(j)
         PROVE  UNCHANGED <<base, mnt>>
    BY <1>10 DEF CrawlEnds, Requeues
  <1>12. ASSUME NEW j \in Jobs, UnitCrawls(j) PROVE MountsTyped'
    BY <1>1, <1>12, MadeTyped DEF UnitCrawls, MountsTyped
  <1>13. WorkerPicksNew => MountsTyped'
    <2>1. WorkerPicksNew => Queue # {} /\ base' = base /\ mnt' = Made(First(Queue))
      BY DEF WorkerPicksNew
    <2>2. Queue # {} => First(Queue) \in Jobs
      BY FirstIsIn DEF Queue
    <2> QED
      BY <1>1, <2>1, <2>2, MadeTyped DEF MountsTyped
  <1>11. \/ WorkerStops \/ WorkerPicks \/ AutoStarts \/ HpBegins \/ HpQuiesces \/ HpPlans
         \/ HpRecovers \/ HpChecks \/ HpStopFails \/ HpDies \/ DayEnds
         => UNCHANGED <<base, mnt>>
    BY DEF WorkerStops, WorkerPicks, AutoStarts, HpBegins, HpQuiesces, HpPlans,
           HpRecovers, HpChecks, HpStopFails, HpDies, DayEnds
  <1> QED
    BY <1>2, <1>3, <1>4, <1>5, <1>6, <1>7, <1>8, <1>9, <1>10, <1>11, <1>12, <1>13
       DEF Next, HpSteps

LEMMA RowsTypes == Typed /\ Next => RowsTyped'
  <1> SUFFICES ASSUME Typed, Next PROVE RowsTyped'
    OBVIOUS
  <1>1. RowsTyped
    BY DEF Typed
  <1>2. UNCHANGED rows => RowsTyped'
    BY <1>1 DEF RowsTyped, rows
  <1>3. ASSUME NEW S, Frees(S), status' = status PROVE RowsTyped'
    BY <1>1, <1>3 DEF Frees, RowsTyped
  <1>4. ASSUME NEW j, Crawls(j) PROVE RowsTyped'
    BY <1>1, <1>2, <1>4 DEF Crawls, Starts, RowsTyped
  <1>5. WorkerPicks => RowsTyped'
    BY <1>2, <1>4 DEF WorkerPicks
  <1>6. WorkerTiers => RowsTyped'
    BY <1>2, <1>4 DEF WorkerTiers
  <1>7. WorkerStops => RowsTyped'
    BY <1>3 DEF WorkerStops
  <1>8. ASSUME NEW j \in Jobs, UnitCrawls(j) PROVE RowsTyped'
    BY <1>1, <1>8 DEF UnitCrawls, Starts, RowsTyped
  <1>9. ASSUME NEW j \in Jobs, CrawlEnds(j) PROVE RowsTyped'
    BY <1>1, <1>9 DEF CrawlEnds, Frees, RowsTyped
  <1>10. ASSUME NEW j \in Jobs, Requeues(j) PROVE RowsTyped'
    BY <1>1, <1>10 DEF Requeues, RowsTyped
  <1>11. AutoStarts => RowsTyped'
    BY <1>1 DEF AutoStarts, RowsTyped
  <1>12. HpQuiesces => RowsTyped'
    BY <1>1, <1>3 DEF HpQuiesces, KillWorker, RowsTyped
  <1>13. HpRecovers => RowsTyped'
    BY <1>1 DEF HpRecovers, RowsTyped
  <1>14. ASSUME NEW j \in Jobs, MountBreaks(j) PROVE UNCHANGED rows
    BY <1>14 DEF MountBreaks
  <1>15. \/ BaseBreaks \/ RepairUnexpected \/ HpBegins \/ HpUnmounts
         \/ HpChecks \/ HpStopFails \/ DayEnds
         => UNCHANGED rows
    BY DEF BaseBreaks, RepairUnexpected, HpBegins, HpUnmounts, HpChecks, HpStopFails, DayEnds
  <1>16. HpRemounts \/ HpPlans \/ HpTiers \/ HpDies => RowsTyped'
    <2>1. \/ HpRemounts \/ HpPlans \/ HpTiers \/ HpDies
          => UNCHANGED <<status, owner>> /\ (UNCHANGED bare \/ Leaves)
      BY DEF HpRemounts, HpPlans, HpTiers, HpDies
    <2>2. Leaves => bare' \subseteq Jobs
      BY <1>1 DEF Leaves, Owned, RowsTyped
    <2> QED
      BY <1>1, <2>1, <2>2 DEF RowsTyped
  <1>17. WorkerPicksNew => RowsTyped'
    <2>1. WorkerPicksNew => /\ Queue # {} /\ Starts(First(Queue), "worker")
                            /\ bare' = bare \cup {First(Queue)}
      BY DEF WorkerPicksNew
    <2>2. Queue # {} => First(Queue) \in Jobs
      BY FirstIsIn DEF Queue
    <2> QED
      BY <1>1, <2>1, <2>2 DEF RowsTyped, Starts
  <1> QED
    BY <1>2, <1>5, <1>6, <1>7, <1>8, <1>9, <1>10, <1>11, <1>12, <1>13, <1>14, <1>15, <1>16, <1>17
       DEF Next, HpSteps

LEMMA WorkerTypes == Typed /\ Next => WorkerTyped'
  <1> SUFFICES ASSUME Typed, Next PROVE WorkerTyped'
    OBVIOUS
  <1>1. WorkerTyped
    BY DEF Typed
  <1>2. ASSUME w' = WorkerIdle, workerUp' \in BOOLEAN PROVE WorkerTyped'
    BY <1>2, IdleTyped DEF WorkerTyped
  <1>3. ASSUME w' = w, workerUp' \in BOOLEAN PROVE WorkerTyped'
    BY <1>1, <1>3 DEF WorkerTyped
  <1>4. WorkerPicks => WorkerTyped'
    <2>1. Queue # {} => First(Queue) \in Jobs
      BY FirstIsIn DEF Queue
    <2>2. WorkerPicks => /\ w' \in {w, [pc |-> "tiering", job |-> First(Queue)]}
                         /\ Queue # {} /\ workerUp' = workerUp
      BY DEF WorkerPicks
    <2> QED
      BY <1>1, <2>1, <2>2 DEF WorkerTyped
  <1>5. WorkerTiers \/ WorkerStops => WorkerTyped'
    BY <1>1, <1>2 DEF WorkerTiers, WorkerStops, WorkerTyped
  <1>6. HpQuiesces => WorkerTyped'
    BY <1>1, <1>2, <1>3 DEF HpQuiesces, KillWorker, WorkerTyped
  <1>7. AutoStarts \/ HpChecks => WorkerTyped'
    BY <1>1, <1>3 DEF AutoStarts, HpChecks, WorkerTyped, Typed, HpTyped
  <1>8. ASSUME NEW j \in Jobs, MountBreaks(j) \/ UnitCrawls(j) \/ CrawlEnds(j) \/ Requeues(j)
        PROVE  UNCHANGED <<w, workerUp>>
    BY <1>8 DEF MountBreaks, UnitCrawls, CrawlEnds, Requeues
  <1>9. \/ BaseBreaks \/ RepairUnexpected \/ HpBegins \/ HpUnmounts \/ HpRemounts \/ HpPlans
        \/ HpTiers \/ HpRecovers \/ HpStopFails \/ HpDies \/ DayEnds \/ WorkerPicksNew
        => UNCHANGED <<w, workerUp>>
    BY DEF WorkerPicksNew, BaseBreaks, RepairUnexpected, HpBegins, HpUnmounts, HpRemounts, HpPlans, HpTiers,
           HpRecovers, HpStopFails, HpDies, DayEnds
  <1> QED
    BY <1>1, <1>3, <1>4, <1>5, <1>6, <1>7, <1>8, <1>9 DEF Next, HpSteps, WorkerTyped

LEMMA FileTypes == Typed /\ Next => FileTyped'
  <1> SUFFICES ASSUME Typed, Next PROVE FileTyped'
    OBVIOUS
  <1>1. FileTyped /\ HpTyped /\ UnderCap
    BY DEF Typed
  <1>2. UNCHANGED <<obs, file>> => FileTyped'
    BY <1>1 DEF FileTyped
  <1>3. HpBegins => FileTyped'
    BY <1>1, SeenTyped DEF HpBegins, FileTyped
  <1>4. HpFinishes /\ hp.pc # "idle" => FileTyped'
    <2>1. MaxRecoveries \in Nat
      BY BoundsAssumption
    <2>2. hp.pc # "idle" => file + 1 \in 0..MaxRecoveries
      BY <1>1, <2>1 DEF FileTyped, UnderCap
    <2> QED
      BY <1>1, <2>2 DEF HpFinishes, FileTyped, HpTyped
  <1>5. HpChecks \/ HpStopFails => FileTyped'
    BY <1>4 DEF HpChecks, HpStopFails
  <1>6. DayEnds => FileTyped'
    <2>1. 0 \in 0..MaxRecoveries
      BY BoundsAssumption
    <2> QED
      BY <1>1, <2>1 DEF DayEnds, FileTyped
  <1>7. ASSUME NEW j \in Jobs, MountBreaks(j) \/ UnitCrawls(j) \/ CrawlEnds(j) \/ Requeues(j)
        PROVE  UNCHANGED <<obs, file>>
    BY <1>7 DEF MountBreaks, UnitCrawls, CrawlEnds, Requeues, watchdog
  <1>8. \/ BaseBreaks \/ RepairUnexpected \/ WorkerStops \/ WorkerPicks \/ WorkerPicksNew \/ WorkerTiers
        \/ AutoStarts \/ HpQuiesces \/ HpUnmounts \/ HpRemounts \/ HpPlans \/ HpTiers
        \/ HpRecovers \/ HpDies
        => UNCHANGED <<obs, file>>
    BY DEF BaseBreaks, RepairUnexpected, WorkerStops, WorkerPicks, WorkerPicksNew, WorkerTiers, AutoStarts,
           HpQuiesces, HpUnmounts, HpRemounts, HpPlans, HpTiers, HpRecovers, HpDies, watchdog
  <1> QED
    BY <1>2, <1>3, <1>5, <1>6, <1>7, <1>8 DEF Next, HpSteps

LEMMA HpTypes == Typed /\ Next => HpTyped' /\ UnderCap'
  <1> SUFFICES ASSUME Typed, Next PROVE HpTyped' /\ UnderCap'
    OBVIOUS
  <1>1. HpTyped /\ UnderCap /\ FileTyped
    BY DEF Typed
  <1>2. UNCHANGED <<hp, file>> => HpTyped' /\ UnderCap'
    BY <1>1 DEF HpTyped, UnderCap
  <1>3. hp' = Idle => HpTyped' /\ UnderCap'
    BY IdleTyped DEF HpTyped, UnderCap
  <1>4. HpBegins => HpTyped' /\ UnderCap'
    <2> DEFINE begun == [Idle EXCEPT !.pc = "acting", !.seen = Observed, !.stale = Confirmed,
                           !.impacted = {j \in Running : mnt[j] = "stale"},
                           !.none = Running = {}]
    <2>1. HpBegins => file' = file /\ (hp' = hp \/ (~Capped /\ hp' = begun))
      BY DEF HpBegins
    <2>2. begun \in [pc : HpPCs, seen : Counts, stale : SUBSET Jobs,
                     impacted : SUBSET Jobs, none : BOOLEAN, stopped : BOOLEAN, ok : BOOLEAN]
      <3>1. Observed \in Counts
        BY SeenTyped
      <3>2. Confirmed \in SUBSET Jobs /\ {j \in Running : mnt[j] = "stale"} \in SUBSET Jobs
        BY DEF Running, Confirmed
      <3>3. (Running = {}) \in BOOLEAN /\ "acting" \in HpPCs
        BY DEF HpPCs
      <3> QED
        BY <3>1, <3>2, <3>3, IdleTyped
    <2>3. ~Capped => file < MaxRecoveries
      <3>1. MaxRecoveries \in Nat
        BY BoundsAssumption
      <3> QED
        BY <1>1, <3>1 DEF Capped, FileTyped
    <2> HIDE DEF begun
    <2> QED
      BY <1>1, <2>1, <2>2, <2>3 DEF HpTyped, UnderCap
  <1>5. HpQuiesces => HpTyped' /\ UnderCap'
    <2>1. HpQuiesces => /\ hp.pc = "acting" /\ file' = file
                        /\ \/ hp' = [hp EXCEPT !.pc = "unmounting", !.none = FALSE, !.stopped = TRUE]
                           \/ hp' = [hp EXCEPT !.pc = "unmounting", !.none = FALSE]
      BY DEF HpQuiesces
    <2> QED
      BY <1>1, <2>1 DEF HpTyped, UnderCap, HpPCs
  <1>6. HpUnmounts => HpTyped' /\ UnderCap'
    <2>1. (\A j \in hp.stale : mnt[j] # "plain") \in BOOLEAN
      OBVIOUS
    <2>2. HpUnmounts => /\ hp.pc = "unmounting" /\ file' = file
                        /\ \E b \in BOOLEAN : hp' = [hp EXCEPT !.pc = "remounting", !.ok = b]
      BY <2>1 DEF HpUnmounts
    <2> QED
      BY <1>1, <2>2 DEF HpTyped, UnderCap, HpPCs
  <1>7. HpRemounts => HpTyped' /\ UnderCap'
    <2>1. HpRemounts => /\ hp.pc = "remounting" /\ file' = file
                        /\ \/ hp' = [hp EXCEPT !.pc = "planning"]
                           \/ hp' = [hp EXCEPT !.pc = "recovering", !.ok = FALSE]
      BY DEF HpRemounts, HpGoes
    <2> QED
      BY <1>1, <2>1 DEF HpTyped, UnderCap, HpPCs
  <1>8. HpPlans \/ HpTiers \/ HpRecovers => HpTyped' /\ UnderCap'
    <2>1. \/ HpPlans \/ HpTiers \/ HpRecovers
          => /\ hp.pc # "idle" /\ file' = file
             /\ \E pc \in {"tiering", "recovering", "checking"} : hp' = [hp EXCEPT !.pc = pc]
      BY DEF HpPlans, HpTiers, HpRecovers, HpGoes
    <2> QED
      BY <1>1, <2>1 DEF HpTyped, UnderCap, HpPCs
  <1>9. HpChecks \/ HpStopFails \/ HpDies => HpTyped' /\ UnderCap'
    BY <1>3 DEF HpChecks, HpStopFails, HpDies, HpFinishes
  <1>10. DayEnds => HpTyped' /\ UnderCap'
    BY <1>1 DEF DayEnds, HpTyped, UnderCap
  <1>11. ASSUME NEW j \in Jobs, MountBreaks(j) \/ UnitCrawls(j) \/ CrawlEnds(j) \/ Requeues(j)
         PROVE  UNCHANGED <<hp, file>>
    BY <1>11 DEF MountBreaks, UnitCrawls, CrawlEnds, Requeues, watchdog
  <1>12. \/ BaseBreaks \/ RepairUnexpected \/ WorkerStops \/ WorkerPicks \/ WorkerPicksNew \/ WorkerTiers
         \/ AutoStarts
         => UNCHANGED <<hp, file>>
    BY DEF BaseBreaks, RepairUnexpected, WorkerStops, WorkerPicks, WorkerPicksNew, WorkerTiers, AutoStarts,
           watchdog
  <1> QED
    BY <1>2, <1>4, <1>5, <1>6, <1>7, <1>8, <1>9, <1>10, <1>11, <1>12 DEF Next, HpSteps

LEMMA PlanTypes == Typed /\ Next => PlanTyped' /\ CountsTyped'
  <1> SUFFICES ASSUME Typed, Next PROVE PlanTyped' /\ CountsTyped'
    OBVIOUS
  <1>1. PlanTyped /\ CountsTyped /\ MountsTyped
    BY DEF Typed
  <1>2. ASSUME NEW r \in {"worker", "hp"}, NEW p \in {NoPlan, Planned},
               plan' = [plan EXCEPT ![r] = p]
        PROVE  PlanTyped'
    <2>1. Planned \in [mnt : [Jobs -> Mounts], running : SUBSET Jobs]
      BY <1>1 DEF Planned, Running, MountsTyped
    <2>2. p \in [mnt : [Jobs -> Mounts], running : SUBSET Jobs]
      BY <1>2, <2>1, IdleTyped
    <2> QED
      BY <1>1, <1>2, <2>2 DEF PlanTyped
  <1>3. UNCHANGED plan => PlanTyped'
    BY <1>1 DEF PlanTyped
  <1>4. PlanTyped'
    <2>1. ASSUME NEW j \in Jobs, MountBreaks(j) \/ UnitCrawls(j) \/ CrawlEnds(j) \/ Requeues(j)
          PROVE  UNCHANGED plan
      BY <2>1 DEF MountBreaks, UnitCrawls, CrawlEnds, Requeues
    <2>2. \/ BaseBreaks \/ RepairUnexpected \/ AutoStarts \/ HpBegins \/ HpUnmounts
          \/ HpRemounts \/ HpRecovers \/ HpChecks \/ HpStopFails \/ DayEnds \/ WorkerPicksNew
          => UNCHANGED plan
      BY DEF WorkerPicksNew, BaseBreaks, RepairUnexpected, AutoStarts, HpBegins, HpUnmounts, HpRemounts,
             HpRecovers, HpChecks, HpStopFails, DayEnds
    <2>3. WorkerPicks \/ WorkerTiers \/ WorkerStops \/ HpQuiesces => PlanTyped'
      BY <1>2, <1>3 DEF WorkerPicks, WorkerPicksNew, WorkerTiers, WorkerStops, HpQuiesces, KillWorker
    <2>4. HpPlans \/ HpTiers \/ HpDies => PlanTyped'
      BY <1>2 DEF HpPlans, HpTiers, HpDies
    <2> QED
      BY <1>3, <2>1, <2>2, <2>3, <2>4 DEF Next, HpSteps
  <1>5. CountsTyped'
    <2>1. MaxBreaks \in Nat /\ MaxFaults \in Nat
      BY BoundsAssumption
    <2>2. /\ breaks' \in {breaks} \/ (breaks < MaxBreaks /\ breaks' = breaks + 1)
          /\ faults' \in {faults} \/ (faults < MaxFaults /\ faults' = faults + 1)
      <3>1. ASSUME NEW j \in Jobs,
                   MountBreaks(j) \/ UnitCrawls(j) \/ CrawlEnds(j) \/ Requeues(j)
            PROVE  <2>2!1 /\ <2>2!2
        BY <3>1 DEF MountBreaks, UnitCrawls, CrawlEnds, Requeues
      <3>2. \/ BaseBreaks \/ RepairUnexpected \/ WorkerStops \/ WorkerPicks \/ WorkerPicksNew \/ WorkerTiers
            \/ AutoStarts \/ HpBegins \/ HpQuiesces \/ HpUnmounts
            => <2>2!1 /\ <2>2!2
        BY DEF BaseBreaks, RepairUnexpected, WorkerStops, WorkerPicks, WorkerPicksNew, WorkerTiers, AutoStarts,
               HpBegins, HpQuiesces, HpUnmounts
      <3>3. \/ HpRemounts \/ HpPlans \/ HpTiers \/ HpRecovers \/ HpChecks \/ HpStopFails
            \/ HpDies \/ DayEnds
            => <2>2!1 /\ <2>2!2
        BY DEF HpRemounts, HpPlans, HpTiers, HpRecovers, HpChecks, HpStopFails, HpDies, DayEnds
      <3> QED
        BY <3>1, <3>2, <3>3 DEF Next, HpSteps
    <2> QED
      BY <1>1, <2>1, <2>2 DEF CountsTyped
  <1> QED
    BY <1>4, <1>5

LEMMA TypedNext == Typed /\ [Next]_vars => Typed'
  <1>1. Typed /\ Next => Typed'
    BY MountsTypes, RowsTypes, WorkerTypes, FileTypes, HpTypes, PlanTypes DEF Typed
  <1>2. Typed /\ UNCHANGED vars => Typed'
    BY DEF vars, rows, watchdog, Typed, MountsTyped, RowsTyped, WorkerTyped, FileTyped, HpTyped,
           PlanTyped, CountsTyped, UnderCap
  <1> QED
    BY <1>1, <1>2

\* The state keeps its types, and with them the cap on the repairs of a day
\* (vps-storage-hotpath-auto-recover.py), whatever breaks, fails or dies.
THEOREM MountsAreTyped == Spec => []TypeOK
  <1>1. Typed => TypeOK
    BY TypedIsTypeOK
  <1>2. Spec => []Typed
    BY InitTyped, TypedNext, PTL DEF Spec
  <1> QED
    BY <1>1, <1>2, PTL

----------------------------------------------------------------------------
(* The worker crawls in mounted directories.                                         *)

\* A worker that is stopped holds no crawl and is not about to begin one.
WorkerGone == ~workerUp => Owned("worker") = {} /\ w.pc = "idle"

\* What a repair has unmounted is plain until it, or another tiering, mounts it again;
\* what it has planned to mount it will.
Window == {"remounting", "planning", "tiering"}
Repairing ==
    \A j \in hp.stale :
        /\ hp.pc \in Window => mnt[j] \in {"plain", "bound", "stale"}
        /\ hp.pc = "tiering" /\ mnt[j] = "plain" => plan["hp"].mnt[j] = "plain"

MountedInv == Typed /\ WorkerGone /\ Repairing /\ WorkerCrawlsMounted

LEMMA GoneKept == Typed /\ WorkerGone /\ Next => WorkerGone'
  <1> SUFFICES ASSUME Typed, WorkerGone, Next PROVE WorkerGone'
    OBVIOUS
  <1>1. RowsTyped
    BY DEF Typed
  <1>2. UNCHANGED <<owner, workerUp, w>> => WorkerGone'
    BY DEF WorkerGone, Owned
  <1>3. ASSUME Frees(Owned("worker")), w' = WorkerIdle PROVE WorkerGone'
    <2>1. \A j \in Jobs : owner'[j] # "worker"
      BY <1>1, <1>3 DEF Frees, Owned, RowsTyped
    <2> QED
      BY <1>3, <2>1, IdleTyped DEF WorkerGone, Owned
  <1>4. WorkerPicks \/ WorkerPicksNew \/ WorkerTiers => WorkerGone'
    <2>1. WorkerPicks \/ WorkerPicksNew => workerUp /\ workerUp' = workerUp
      BY DEF WorkerPicks, WorkerPicksNew, WorkerFree
    <2>2. WorkerTiers => w.pc = "tiering" /\ workerUp' = workerUp
      BY DEF WorkerTiers
    <2> QED
      BY <2>1, <2>2 DEF WorkerGone, Typed, WorkerTyped
  <1>5. WorkerStops => WorkerGone'
    BY <1>3 DEF WorkerStops
  <1>6. HpQuiesces => WorkerGone'
    BY <1>2, <1>3 DEF HpQuiesces, KillWorker
  <1>7. AutoStarts \/ HpChecks => WorkerGone'
    <2>1. AutoStarts \/ HpChecks => UNCHANGED <<owner, w>>
      BY DEF AutoStarts, HpChecks, rows
    <2>2. AutoStarts => ~workerUp
      BY DEF AutoStarts
    <2>3. HpChecks => (workerUp => workerUp')
      BY Zenon DEF HpChecks
    <2> QED
      BY <2>1, <2>2, <2>3 DEF WorkerGone, Owned
  <1>8. ASSUME NEW j \in Jobs, UnitCrawls(j) PROVE WorkerGone'
    <2>1. \A k \in Jobs : owner'[k] = "worker" => owner[k] = "worker"
      BY <1>1, <1>8 DEF UnitCrawls, Starts, RowsTyped
    <2> QED
      BY <1>8, <2>1 DEF UnitCrawls, WorkerGone, Owned
  <1>9. ASSUME NEW j \in Jobs, CrawlEnds(j) PROVE WorkerGone'
    <2>1. \A k \in Jobs : owner'[k] = "worker" => owner[k] = "worker"
      BY <1>1, <1>9 DEF CrawlEnds, Frees, RowsTyped
    <2> QED
      BY <1>9, <2>1 DEF CrawlEnds, WorkerGone, Owned
  <1>10. ASSUME NEW j \in Jobs, MountBreaks(j) \/ Requeues(j)
         PROVE  UNCHANGED <<owner, workerUp, w>>
    BY <1>10 DEF MountBreaks, Requeues, rows
  <1>11. \/ BaseBreaks \/ RepairUnexpected \/ HpBegins \/ HpUnmounts \/ HpRemounts \/ HpPlans
         \/ HpTiers \/ HpRecovers \/ HpStopFails \/ HpDies \/ DayEnds
         => UNCHANGED <<owner, workerUp, w>>
    BY DEF BaseBreaks, RepairUnexpected, HpBegins, HpUnmounts, HpRemounts, HpPlans, HpTiers,
           HpRecovers, HpStopFails, HpDies, DayEnds, rows
  <1> QED
    BY <1>2, <1>4, <1>5, <1>6, <1>7, <1>8, <1>9, <1>10, <1>11 DEF Next, HpSteps

\* What a step does to the directories: a repair, or an operator with the worker stopped,
\* unmounts one, and a crawl makes its own if there is none.
LEMMA MountSteps ==
  Typed /\ Next =>
    \A j \in Jobs : mnt'[j] # mnt[j] =>
      \/ mnt'[j] \in {"stale", "bound"}
      \/ mnt'[j] = "plain" /\ mnt[j] = "other" /\ ~workerUp /\ UNCHANGED owner
      \/ mnt'[j] = "plain" /\ j \in hp.stale /\ HpUnmounts
      \/ mnt'[j] = "plain" /\ mnt[j] = "absent" /\ UnitCrawls(j)
      \/ mnt'[j] = "plain" /\ mnt[j] = "absent" /\ WorkerPicksNew /\ j = First(Queue)
  <1> SUFFICES ASSUME Typed, Next
               PROVE  MountSteps!2
    OBVIOUS
  <1>1. MountsTyped
    BY DEF Typed
  <1>3. ASSUME NEW k \in Jobs, MountBreaks(k) \/ CrawlEnds(k) \/ Requeues(k)
        PROVE  MountSteps!2
    BY <1>1, <1>3 DEF MountBreaks, CrawlEnds, Requeues, MountsTyped
  <1>4. BaseBreaks => MountSteps!2
    BY <1>1 DEF BaseBreaks, MountsTyped
  <1>5. RepairUnexpected => MountSteps!2
    BY <1>1 DEF RepairUnexpected, MountsTyped, rows
  <1>6. HpUnmounts => MountSteps!2
    <2>1. HpUnmounts => \A j \in Jobs : mnt'[j] # mnt[j] => mnt'[j] = "plain" /\ j \in hp.stale
      BY DEF HpUnmounts
    <2> QED
      BY <2>1
  <1>7. WorkerTiers \/ HpTiers => MountSteps!2
    <2>1. \/ WorkerTiers \/ HpTiers
          => \/ mnt' = mnt
             \/ mnt' = Tiered(plan["worker"], FALSE) \/ mnt' = Tiered(plan["hp"], hp.stopped)
      BY DEF WorkerTiers, HpTiers
    <2>2. /\ \A j \in Jobs : Tiered(plan["worker"], FALSE)[j] \in {mnt[j], "bound"}
          /\ \A j \in Jobs : Tiered(plan["hp"], hp.stopped)[j] \in {mnt[j], "bound"}
      BY TieredTyped
    <2> SUFFICES ASSUME WorkerTiers \/ HpTiers PROVE MountSteps!2
      OBVIOUS
    <2>3. \A j \in Jobs : mnt'[j] \in {mnt[j], "bound"}
      BY <2>1, <2>2
    <2> QED
      BY <2>3
  <1>8. \/ WorkerStops \/ WorkerPicks \/ AutoStarts \/ HpBegins \/ HpQuiesces \/ HpPlans
        \/ HpRecovers \/ HpChecks \/ DayEnds \/ HpRemounts \/ HpStopFails \/ HpDies
        => mnt' = mnt
    BY DEF WorkerStops, WorkerPicks, AutoStarts, HpBegins, HpQuiesces, HpPlans, HpRecovers,
           HpChecks, DayEnds, HpRemounts, HpStopFails, HpDies
  <1>9. ASSUME NEW k \in Jobs, UnitCrawls(k) PROVE MountSteps!2
    <2>1. mnt' = Made(k)
      BY <1>9 DEF UnitCrawls
    <2> QED
      BY <1>9, <2>1, MadeTyped
  <1>10. WorkerPicksNew => MountSteps!2
    <2>1. WorkerPicksNew => Queue # {} /\ mnt' = Made(First(Queue))
      BY DEF WorkerPicksNew
    <2>2. Queue # {} => First(Queue) \in Jobs
      BY FirstIsIn DEF Queue
    <2> QED
      BY <2>1, <2>2, MadeTyped
  <1>11. mnt' = mnt => MountSteps!2
    OBVIOUS
  <1> QED
    BY <1>3, <1>4, <1>5, <1>6, <1>7, <1>8, <1>9, <1>10, <1>11 DEF Next, HpSteps

\* What a step does to the repair: those of others leave it as it is.
LEMMA RepairSteps ==
  Typed /\ Next =>
    \/ UNCHANGED hp /\ plan'["hp"] = plan["hp"] /\ ~HpUnmounts
    \/ hp'.pc \in {"idle", "acting", "unmounting"}
    \/ HpUnmounts \/ HpRemounts \/ HpPlans \/ HpTiers \/ HpRecovers
  <1> SUFFICES ASSUME Typed, Next, ~(HpUnmounts \/ HpRemounts \/ HpPlans \/ HpTiers \/ HpRecovers)
               PROVE  \/ UNCHANGED hp /\ plan'["hp"] = plan["hp"]
                      \/ hp'.pc \in {"idle", "acting", "unmounting"}
    OBVIOUS
  <1>1. HpTyped /\ PlanTyped
    BY DEF Typed
  <1>2. ASSUME NEW k \in Jobs, MountBreaks(k) \/ UnitCrawls(k) \/ CrawlEnds(k) \/ Requeues(k)
        PROVE  UNCHANGED <<hp, plan>>
    BY <1>2 DEF MountBreaks, UnitCrawls, CrawlEnds, Requeues, watchdog
  <1>3. BaseBreaks \/ RepairUnexpected \/ AutoStarts \/ DayEnds \/ WorkerPicksNew
        => UNCHANGED <<hp, plan>>
    BY DEF BaseBreaks, RepairUnexpected, AutoStarts, DayEnds, WorkerPicksNew, watchdog
  <1>4. WorkerStops \/ WorkerPicks \/ WorkerTiers
        => UNCHANGED hp /\ (plan' = plan \/ \E p : plan' = [plan EXCEPT !["worker"] = p])
    BY DEF WorkerStops, WorkerPicks, WorkerTiers, watchdog
  <1>5. WorkerStops \/ WorkerPicks \/ WorkerTiers => UNCHANGED hp /\ plan'["hp"] = plan["hp"]
    BY <1>1, <1>4 DEF PlanTyped
  <1>6. HpBegins => (UNCHANGED hp /\ UNCHANGED plan) \/ hp'.pc = "acting"
    BY IdleTyped DEF HpBegins, Idle
  <1>7. HpQuiesces => hp'.pc = "unmounting"
    BY <1>1 DEF HpQuiesces, HpTyped
  <1>8. HpChecks \/ HpStopFails \/ HpDies => hp'.pc = "idle"
    BY IdleTyped DEF HpChecks, HpStopFails, HpDies, HpFinishes
  <1> QED
    BY <1>2, <1>3, <1>5, <1>6, <1>7, <1>8 DEF Next, HpSteps

LEMMA RepairKept == MountedInv /\ Next => Repairing'
  <1> SUFFICES ASSUME MountedInv, Next PROVE Repairing'
    OBVIOUS
  <1>1. Typed /\ HpTyped /\ PlanTyped /\ hp.stale \subseteq Jobs /\ Repairing
    BY DEF MountedInv, Typed, HpTyped
  <1>2. \A j \in hp.stale :
          mnt[j] \in {"plain", "bound", "stale"} =>
            /\ mnt'[j] \in {"plain", "bound", "stale"}
            /\ mnt'[j] = "plain" => mnt[j] = "plain" \/ HpUnmounts
    BY <1>1, MountSteps
  <1>3. CASE UNCHANGED hp /\ plan'["hp"] = plan["hp"] /\ ~HpUnmounts
    BY <1>1, <1>2, <1>3 DEF Repairing, Window
  <1>4. CASE hp'.pc \in {"idle", "acting", "unmounting"}
    BY <1>4 DEF Repairing, Window
  <1>5. CASE HpUnmounts
    <2>1. /\ hp'.pc = "remounting" /\ hp'.stale = hp.stale
          /\ \A j \in hp.stale : mnt'[j] = "plain"
      BY <1>1, <1>5 DEF HpUnmounts, HpTyped
    <2> QED
      BY <2>1 DEF Repairing
  <1>6. CASE HpRemounts
    <2>1. /\ hp.pc = "remounting" /\ mnt' = mnt
          /\ hp'.pc \in {"planning", "recovering"} /\ hp'.stale = hp.stale
      BY <1>1, <1>6 DEF HpRemounts, HpGoes, HpTyped
    <2> QED
      BY <1>1, <2>1 DEF Repairing, Window
  <1>7. CASE HpPlans
    <2>1. /\ hp.pc = "planning" /\ mnt' = mnt /\ plan'["hp"].mnt = mnt
          /\ hp'.pc \in {"tiering", "recovering"} /\ hp'.stale = hp.stale
      BY <1>1, <1>7 DEF HpPlans, HpGoes, HpTyped, PlanTyped, Planned
    <2> QED
      BY <1>1, <2>1 DEF Repairing, Window
  <1>8. CASE HpTiers
    <2>1. hp'.pc = "recovering"
      BY <1>1, <1>8 DEF HpTiers, HpGoes, HpTyped
    <2> QED
      BY <2>1 DEF Repairing, Window
  <1>9. CASE HpRecovers
    <2>1. hp'.pc = "checking"
      BY <1>1, <1>9 DEF HpRecovers, HpGoes, HpTyped
    <2> QED
      BY <2>1 DEF Repairing, Window
  <1> QED
    BY <1>1, <1>3, <1>4, <1>5, <1>6, <1>7, <1>8, <1>9, RepairSteps

\* A crawl that the worker begins is in a directory that is mounted, or the job had none.
LEMMA CrawlBegins ==
  ASSUME MountedInv, Next, NEW j \in Jobs, owner[j] # "worker", owner'[j] = "worker",
         mnt'[j] = "plain"
  PROVE  j \in bare'
  <1>1. Typed /\ RowsTyped
    BY DEF MountedInv, Typed
  <1>2. ASSUME NEW k \in Jobs, MountBreaks(k) \/ UnitCrawls(k) \/ CrawlEnds(k) \/ Requeues(k)
        PROVE  FALSE
    <2>1. MountBreaks(k) \/ Requeues(k) => owner' = owner
      BY DEF MountBreaks, Requeues, rows
    <2>2. ~UnitCrawls(k)
      BY <1>1 DEF UnitCrawls, Starts, RowsTyped
    <2>3. ~CrawlEnds(k)
      BY <1>1 DEF CrawlEnds, Frees, RowsTyped
    <2> QED
      BY <1>2, <2>1, <2>2, <2>3
  <1>3. \/ BaseBreaks \/ RepairUnexpected \/ AutoStarts \/ HpBegins \/ HpUnmounts \/ HpRemounts
        \/ HpPlans \/ HpTiers \/ HpRecovers \/ HpChecks \/ HpStopFails \/ HpDies \/ DayEnds
        => owner' = owner
    BY DEF BaseBreaks, RepairUnexpected, AutoStarts, HpBegins, HpUnmounts, HpRemounts,
           HpPlans, HpTiers, HpRecovers, HpChecks, HpStopFails, HpDies, DayEnds, rows
  <1>4. ~WorkerStops /\ ~HpQuiesces
    BY <1>1 DEF WorkerStops, HpQuiesces, KillWorker, Frees, RowsTyped
  <1>5. ASSUME NEW k, Crawls(k) PROVE j = k
    BY <1>1, <1>5 DEF Crawls, Starts, RowsTyped, rows
  <1>6. ~WorkerPicks
    <2>1. WorkerPicks => /\ mnt' = mnt
                         /\ \/ owner' = owner
                            \/ mnt[First(Queue)] # "plain" /\ Crawls(First(Queue))
      BY DEF WorkerPicks, rows
    <2> QED
      BY <1>5, <2>1
  <1>7. ~WorkerTiers
    <2>1. WorkerTiers => \/ owner' = owner
                         \/ mnt'[w.job] # "plain" /\ Crawls(w.job)
      BY DEF WorkerTiers, rows
    <2> QED
      BY <1>5, <2>1
  <1>8. WorkerPicksNew => j \in bare'
    BY <1>1 DEF WorkerPicksNew, Starts, RowsTyped
  <1> QED
    BY <1>2, <1>3, <1>4, <1>6, <1>7, <1>8 DEF Next, HpSteps

\* No step loses a mark while the crawl goes on.
LEMMA BareStays ==
  ASSUME Typed, Next, NEW j \in Jobs, owner[j] = "worker", owner'[j] = "worker", j \in bare
  PROVE  j \in bare'
  <1>1. RowsTyped
    BY DEF Typed
  <1>2. ASSUME NEW S, Frees(S) PROVE j \in bare'
    BY <1>1, <1>2 DEF Frees, RowsTyped
  <1>3. ASSUME NEW k \in Jobs, MountBreaks(k) \/ UnitCrawls(k) \/ CrawlEnds(k) \/ Requeues(k)
        PROVE  j \in bare'
    BY <1>2, <1>3 DEF MountBreaks, UnitCrawls, CrawlEnds, Requeues, rows
  <1>4. \/ BaseBreaks \/ RepairUnexpected \/ AutoStarts \/ HpBegins \/ HpUnmounts
        \/ HpRecovers \/ HpChecks \/ HpStopFails \/ DayEnds
        => UNCHANGED bare
    BY DEF BaseBreaks, RepairUnexpected, AutoStarts, HpBegins, HpUnmounts, HpRecovers, HpChecks,
           HpStopFails, DayEnds, rows
  <1>5. HpRemounts \/ HpPlans \/ HpTiers \/ HpDies => UNCHANGED bare \/ Leaves
    BY DEF HpRemounts, HpPlans, HpTiers, HpDies
  <1>6. WorkerPicks \/ WorkerTiers => UNCHANGED bare
    BY DEF WorkerPicks, WorkerTiers, Crawls, rows
  <1>7. WorkerStops \/ HpQuiesces => UNCHANGED bare \/ \E S : Frees(S)
    BY DEF WorkerStops, HpQuiesces, KillWorker
  <1>8. WorkerPicksNew => j \in bare'
    BY DEF WorkerPicksNew
  <1> QED
    BY <1>2, <1>3, <1>4, <1>5, <1>6, <1>7, <1>8 DEF Next, HpSteps, Leaves

\* Who crawls a directory that a step leaves, or makes, plain.
LEMMA CrawlsKept == MountedInv /\ Next => WorkerCrawlsMounted'
  <1> SUFFICES ASSUME MountedInv, Next, NEW j \in Jobs, owner'[j] = "worker", mnt'[j] = "plain",
                      j \notin bare'
               PROVE  j \in hp'.stale /\ hp'.pc \in Window
    BY DEF WorkerCrawlsMounted, Owned, Window
  <1>1. Typed /\ HpTyped /\ RowsTyped /\ MountsTyped /\ WorkerGone /\ WorkerCrawlsMounted /\ Repairing
    BY DEF MountedInv, Typed
  <1>2. owner[j] = "worker"
    BY CrawlBegins
  <1>3. j \notin bare
    BY <1>1, <1>2, BareStays
  <1>4. CASE mnt[j] # "plain"
    <2>1. workerUp /\ ~UnitCrawls(j) /\ ~(WorkerPicksNew /\ j = First(Queue))
      BY <1>1, <1>2 DEF WorkerGone, Owned, UnitCrawls, WorkerPicksNew, Startable
    <2>2. j \in hp.stale /\ HpUnmounts
      BY <1>1, <1>4, <2>1, MountSteps
    <2> QED
      BY <1>1, <2>2 DEF HpUnmounts, HpTyped, Window
  <1>5. CASE mnt[j] = "plain"
    <2>1. j \in hp.stale /\ hp.pc \in Window
      BY <1>1, <1>2, <1>3, <1>5 DEF WorkerCrawlsMounted, Owned, Window
    <2>2. ~Leaves
      BY <1>2, <1>5, <2>1 DEF Leaves, Owned
    <2>3. ~HpDies
      BY <2>2 DEF HpDies
    <2>4. HpRemounts \/ HpPlans => hp'.stale = hp.stale /\ hp'.pc \in Window
      BY <1>1, <2>2 DEF HpRemounts, HpPlans, HpGoes, HpTyped, Window
    <2>5. ~HpTiers
      <3>1. HpTiers => /\ hp.pc = "tiering" /\ base
                       /\ mnt' = Tiered(plan["hp"], hp.stopped)
        BY <2>2 DEF HpTiers
      <3>2. HpTiers => plan["hp"].mnt[j] = "plain"
        BY <1>1, <1>5, <2>1, <3>1 DEF Repairing
      <3> QED
        BY <1>5, <3>1, <3>2 DEF Tiered, BindsPlain
    <2>6. ASSUME NEW k \in Jobs, MountBreaks(k) \/ UnitCrawls(k) \/ CrawlEnds(k) \/ Requeues(k)
          PROVE  hp' = hp
      BY <2>6 DEF MountBreaks, UnitCrawls, CrawlEnds, Requeues, watchdog
    <2>7. \/ BaseBreaks \/ RepairUnexpected \/ WorkerStops \/ WorkerPicks \/ WorkerPicksNew
          \/ WorkerTiers \/ AutoStarts \/ DayEnds
          => hp' = hp
      BY DEF BaseBreaks, RepairUnexpected, WorkerStops, WorkerPicks, WorkerPicksNew, WorkerTiers,
             AutoStarts, DayEnds, watchdog
    <2>8. ~HpBegins /\ ~HpQuiesces /\ ~HpUnmounts /\ ~HpRecovers /\ ~HpChecks /\ ~HpStopFails
      BY <2>1 DEF HpBegins, HpQuiesces, HpUnmounts, HpRecovers, HpChecks, HpStopFails, Window
    <2> QED
      BY <2>1, <2>3, <2>4, <2>5, <2>6, <2>7, <2>8 DEF Next, HpSteps
  <1> QED
    BY <1>4, <1>5

LEMMA MountedInit == Init => MountedInv
  <1> SUFFICES ASSUME Init PROVE MountedInv
    OBVIOUS
  <1>1. Typed
    BY InitTyped
  <1>2. WorkerGone
    BY IdleTyped DEF Init, WorkerGone, Owned
  <1>3. Repairing
    BY IdleTyped DEF Init, Repairing
  <1>4. WorkerCrawlsMounted
    BY DEF Init, WorkerCrawlsMounted, Owned
  <1> QED
    BY <1>1, <1>2, <1>3, <1>4 DEF MountedInv

LEMMA MountedNext == MountedInv /\ [Next]_vars => MountedInv'
  <1>1. ASSUME MountedInv, Next PROVE MountedInv'
    <2>1. Typed' /\ WorkerGone'
      BY <1>1, TypedNext, GoneKept DEF MountedInv
    <2>2. WorkerCrawlsMounted' /\ Repairing'
      BY <1>1, CrawlsKept, RepairKept
    <2> QED
      BY <2>1, <2>2 DEF MountedInv
  <1>2. ASSUME MountedInv, UNCHANGED vars PROVE MountedInv'
    <2>1. Typed'
      BY <1>2, TypedNext DEF MountedInv
    <2> QED
      BY <1>2, <2>1 DEF MountedInv, vars, rows, watchdog, WorkerGone, Owned,
         WorkerCrawlsMounted, Repairing
  <1> QED
    BY <1>1, <1>2

\* The worker crawls in mounted directories (worker/main.py:182-215, and the order of the
\* steps of vps-storage-hotpath-auto-recover.py), but for a job that had no directory and
\* one that a repair unmounted below the crawl and has not mounted again, or could not,
\* whatever breaks, fails or dies, for any number of jobs, units, breaks and faults.
THEOREM CrawlsAreMounted == Spec => []WorkerCrawlsMounted
  <1>1. MountedInv => WorkerCrawlsMounted
    BY DEF MountedInv
  <1>2. Spec => []MountedInv
    BY MountedInit, MountedNext, PTL DEF Spec
  <1> QED
    BY <1>1, <1>2, PTL

=============================================================================
