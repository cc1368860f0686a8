------------------------- MODULE CrawlOrchestrator_proofs -------------------------
(* Proofs about CrawlOrchestrator, for every budget, every set of faults and every   *)
(* number of runs.                                                                   *)
EXTENDS CrawlOrchestrator, FiniteSetTheorems, WellFoundedInduction, TLAPS

----------------------------------------------------------------------------
(* Helpers.                                                                          *)

\* The newest temp dir is one of them.
LEMMA MaxIsIn ==
  ASSUME NEW n \in Nat, NEW S, S \subseteq 1 .. n, S # {}
  PROVE  Max(S) \in S
  <1> DEFINE T == {k \in Nat : \E x \in S : k = n - x}
  <1>1. T \subseteq Nat
    OBVIOUS
  <1>2. T # {}
    <2>1. PICK x \in S : TRUE
      OBVIOUS
    <2>2. n - x \in T
      <3>1. n - x \in Nat
        BY <2>1
      <3> QED
        BY <2>1, <3>1
    <2> QED
      BY <2>2
  <1>3. PICK R : R = OpToRel(<, Nat)
    OBVIOUS
  <1>4. PICK t \in T : \A y \in T : ~(<<y, t>> \in R)
    <2> HIDE DEF T
    <2> QED
      BY <1>1, <1>2, <1>3, NatLessThanWellFounded, WFMin
  <1>5. ASSUME NEW y \in T PROVE y >= t
    <2>1. y \in Nat /\ t \in Nat
      BY <1>1
    <2>2. y < t => <<y, t>> \in R
      BY <1>3, <2>1 DEF OpToRel
    <2>3. ~(<<y, t>> \in R)
      BY <1>4
    <2> QED
      BY <2>1, <2>2, <2>3
  <1>6. PICK x \in S : t = n - x
    BY <1>4
  <1>7. ASSUME NEW y \in S PROVE x >= y
    <2>1. n - y \in T
      <3>1. n - y \in Nat
        BY <1>7
      <3> QED
        BY <1>7, <3>1
    <2>2. n - y >= n - x
      BY <1>5, <1>6, <2>1
    <2>3. x \in Int /\ y \in Int
      BY <1>6, <1>7
    <2> QED
      BY <2>2, <2>3
  <1> QED
    BY <1>6, <1>7 DEF Max

\* What the operators on the remembered state do, field by field.
LEMMA MemoryOps ==
  ASSUME NEW m \in Memory, NEW ds \in SUBSET Nat
  PROVE  /\ Tracking(m, ds) \in Memory /\ Tracking(m, ds).dirs = m.dirs \cup ds
         /\ Tracking(m, ds).reductions = m.reductions
         /\ Tracking(m, ds).restarts = m.restarts
         /\ Existing(m) \in Memory /\ Existing(m).dirs = m.dirs \cap disk
         /\ Existing(m).reductions = m.reductions /\ Existing(m).restarts = m.restarts
         /\ ResetCounts(m) \in Memory /\ ResetCounts(m).dirs = m.dirs
  <1>1. /\ m.workers \in MinWorkers .. InitialWorkers
        /\ m.reductions \in 0 .. MaxReductions /\ m.restarts \in 0 .. MaxRestarts
        /\ m.rotations \in 0 .. MaxRotations /\ m.dirs \in SUBSET Nat
    BY DEF Memory
  <1>2. 0 \in 0 .. MaxReductions /\ 0 \in 0 .. MaxRestarts /\ 0 \in 0 .. MaxRotations
    BY BudgetsAssumption
  <1>3. m.dirs \cup ds \in SUBSET Nat /\ m.dirs \cap disk \in SUBSET Nat
    BY <1>1
  <1>4. [m EXCEPT !.dirs = m.dirs \cup ds] \in Memory
    BY <1>1, <1>3 DEF Memory
  <1>5. [m EXCEPT !.dirs = m.dirs \cap disk] \in Memory
    BY <1>1, <1>3 DEF Memory
  <1>6. [m EXCEPT !.reductions = 0, !.restarts = 0, !.rotations = 0] \in Memory
    BY <1>1, <1>2 DEF Memory
  <1>7. /\ Tracking(m, ds) \in Memory /\ Tracking(m, ds).dirs = m.dirs \cup ds
        /\ Tracking(m, ds).reductions = m.reductions
        /\ Tracking(m, ds).restarts = m.restarts
    BY <1>4 DEF Tracking, Memory
  <1>8. /\ Existing(m) \in Memory /\ Existing(m).dirs = m.dirs \cap disk
        /\ Existing(m).reductions = m.reductions /\ Existing(m).restarts = m.restarts
    BY <1>5 DEF Existing, Memory
  <1>9. ResetCounts(m) \in Memory /\ ResetCounts(m).dirs = m.dirs
    BY <1>6 DEF ResetCounts, Memory
  <1> QED
    BY <1>7, <1>8, <1>9

\* A state remembered for the first time.
LEMMA FreshInMemory ==
  /\ FreshMemory \in Memory /\ FreshMemory.dirs = {}
  /\ FreshMemory.reductions = 0 /\ FreshMemory.restarts = 0
  BY BudgetsAssumption DEF FreshMemory, Memory

\* Starting up knows all the temp dirs that are there.
LEMMA DiscoversAll ==
  ASSUME mem \in Memory, disk \subseteq Nat
  PROVE  Discovered \in Memory /\ Discovered.dirs = disk
         /\ Discovered.reductions = mem.reductions /\ Discovered.restarts = mem.restarts
  <1>1. disk \in SUBSET Nat
    OBVIOUS
  <1>2. Existing(mem) \in Memory /\ Existing(mem).dirs = mem.dirs \cap disk
        /\ Existing(mem).reductions = mem.reductions
        /\ Existing(mem).restarts = mem.restarts
    BY <1>1, MemoryOps
  <1>3. /\ Tracking(Existing(mem), disk) \in Memory
        /\ Tracking(Existing(mem), disk).dirs = Existing(mem).dirs \cup disk
        /\ Tracking(Existing(mem), disk).reductions = Existing(mem).reductions
        /\ Tracking(Existing(mem), disk).restarts = Existing(mem).restarts
    BY <1>1, <1>2, MemoryOps
  <1> QED
    BY <1>2, <1>3 DEF Discovered

\* The calls whose effect on what is remembered is the same: none, ...
Remembers ==
    \/ Launch \/ LaunchFails \/ LoopEnds \/ Identified \/ Unidentified
    \/ ClientExited \/ WaitForMessage \/ NoMessage \/ Receive
    \/ BeginReduction \/ BeginRestart \/ Delay
    \/ Stop("reducing", "reduced") \/ Stop("restarting", "restarted")
    \/ StopMonitor \/ StageSucceeds \/ StagesExhausted \/ ResumeNext
    \/ CheckWarcs \/ StartBuild \/ NoBuild \/ BuildEnds
    \/ Monitor \/ Docker \/ Detach \/ Done

LEMMA RemembersFrame == Remembers => UNCHANGED memVars
  <1>1. Launch \/ LaunchFails \/ LoopEnds \/ Identified \/ Unidentified => UNCHANGED memVars
    BY DEF Launch, LaunchFails, LoopEnds, Identified, Unidentified, memVars
  <1>2. ClientExited \/ WaitForMessage \/ NoMessage \/ Receive => UNCHANGED memVars
    BY DEF ClientExited, WaitForMessage, NoMessage, Receive, memVars
  <1>3. BeginReduction \/ BeginRestart \/ Delay => UNCHANGED memVars
    BY DEF BeginReduction, BeginRestart, Delay, Intervenes, memVars
  <1>4. ASSUME NEW f, NEW n, Stop(f, n) PROVE UNCHANGED memVars
    BY <1>4 DEF Stop, StopsContainer, StopFails, Stopped, memVars
  <1>5. StopMonitor \/ StageSucceeds \/ StagesExhausted \/ ResumeNext => UNCHANGED memVars
    BY DEF StopMonitor, StageSucceeds, StagesExhausted, ResumeNext, Decides, memVars
  <1>6. CheckWarcs \/ StartBuild \/ NoBuild \/ BuildEnds => UNCHANGED memVars
    BY DEF CheckWarcs, StartBuild, NoBuild, BuildEnds, Finishes, memVars
  <1>7. Monitor \/ Docker \/ Detach \/ Done => UNCHANGED memVars
    BY DEF Monitor, MonitorSignals, MonitorFails, MonitorEnds, MonitorStep, Docker,
           CrawlEnds, StrayEnds, ContainerStep, Detach, Done, vars, memVars
  <1> QED
    BY <1>1, <1>2, <1>3, <1>4, <1>5, <1>6, <1>7 DEF Remembers

----------------------------------------------------------------------------
(* Types, in the parts that the groups of variables make.                            *)

LoopTyped ==
    /\ pc \in Pcs /\ opts \in Options
    /\ attempt \in 1 .. MaxStages /\ stageName \in StageNames
    /\ config \in {"managed", "resume", "none"}
    /\ stage \in {"running", "stopped_for_adaptation"} /\ final \in Finals
    /\ stopEvent \in BOOLEAN /\ launches \in Nat
MonTyped ==
    /\ mon \in {"on", "off"} /\ queue \in Seq({"signal", "fatal"})
    /\ Len(queue) <= MaxQueue /\ event \in {"signal", "fatal", "none"}
DockTyped ==
    /\ serial \in Nat /\ up \subseteq 1 .. serial /\ known \in BOOLEAN
    /\ client \in {"run", "gone"} /\ rc \in {"none", "ok", "bad"} /\ leaks \in Nat
MemTyped ==
    /\ mem \in Memory /\ file \in Memory \cup {Absent, Torn}
    /\ mem.dirs \subseteq 1 .. serial /\ lost \in BOOLEAN
DiskTyped ==
    /\ disk \subseteq 1 .. serial /\ yamls \subseteq disk /\ stable \in BOOLEAN
    /\ zim \in BOOLEAN /\ discarded \subseteq 1 .. serial
CountsTyped == runs \in 0 .. MaxRuns /\ faults \in 0 .. MaxFaults

\* A strategy that has begun can still be afforded when its count is raised.
Affordable ==
    /\ pc \in {"reducing", "reduced"} =>
          mem.reductions < MaxReductions /\ mem.workers > MinWorkers
    /\ pc \in {"restarting", "restarted"} => mem.restarts < MaxRestarts

Typed == LoopTyped /\ MonTyped /\ DockTyped /\ MemTyped /\ DiskTyped /\ CountsTyped

LEMMA TypedIsTypeOK == Typed /\ spent \in Memory <=> TypeOK
  BY DEF Typed, TypeOK, LoopTyped, MonTyped, DockTyped, MemTyped, DiskTyped, CountsTyped

\* A queue that nobody has written to.
LEMMA EmptyQueue == << >> \in Seq({"signal", "fatal"}) /\ Len(<< >>) <= MaxQueue
  <1>1. << >> \in Seq({"signal", "fatal"}) /\ Len(<< >>) = 0
    OBVIOUS
  <1> QED
    BY <1>1, BudgetsAssumption

\* Initially, and again when the process is gone.
LEMMA InitTyped == Init => Typed /\ Affordable
  <1> SUFFICES ASSUME Init PROVE Typed /\ Affordable
    OBVIOUS
  <1>1. 1 \in 1 .. MaxStages /\ 0 \in 0 .. MaxRuns /\ 0 \in 0 .. MaxFaults
    BY BudgetsAssumption
  <1>2. LoopTyped
    BY <1>1 DEF Init, LoopTyped, Pcs, StageNames, Finals
  <1>3. MonTyped
    BY EmptyQueue DEF Init, MonTyped
  <1>4. DockTyped /\ DiskTyped
    BY DEF Init, DockTyped, DiskTyped
  <1>5. MemTyped
    BY FreshInMemory DEF Init, MemTyped
  <1>6. CountsTyped
    BY <1>1 DEF Init, CountsTyped
  <1>7. Affordable
    BY DEF Init, Affordable
  <1> QED
    BY <1>2, <1>3, <1>4, <1>5, <1>6, <1>7 DEF Typed

LEMMA DownTyped ==
  ASSUME Typed, GoesDown, UNCHANGED opts
  PROVE  LoopTyped' /\ MonTyped' /\ mem' \in Memory /\ mem'.dirs = {} /\ lost' \in BOOLEAN
  <1>1. 1 \in 1 .. MaxStages
    BY BudgetsAssumption
  <1>2. LoopTyped'
    BY <1>1 DEF GoesDown, Typed, LoopTyped, Pcs, StageNames, Finals
  <1>3. MonTyped'
    BY EmptyQueue DEF GoesDown, MonTyped
  <1> QED
    BY <1>2, <1>3, FreshInMemory DEF GoesDown

LEMMA LoopTypes == Typed /\ Next => LoopTyped'
  <1> SUFFICES ASSUME Typed, Next PROVE LoopTyped'
    OBVIOUS
  <1> USE DEF loopVars
  <1>1. LoopTyped
    BY DEF Typed
  <1>2. Start \/ Dies \/ RefuseZim \/ Exit => LoopTyped'
    <2>1. Start => LoopTyped'
      BY <1>1 DEF Start, LoopTyped, Pcs, Saving
    <2>2. Dies \/ RefuseZim \/ Exit => GoesDown /\ UNCHANGED opts
      BY DEF Dies, RefuseZim, Exit
    <2> QED
      BY <2>1, <2>2, DownTyped
  <1>3. FreshOverwrite \/ ResumeCrawl \/ NewCrawl => LoopTyped'
    BY <1>1 DEF FreshOverwrite, ResumeCrawl, NewCrawl, Prepare, LoopTyped, Pcs, StageNames
  <1>4. Launch \/ LaunchFails => LoopTyped'
    <2>1. EnterStage => /\ config' \in {"managed", "resume", "none"}
                        /\ stageName' \in StageNames
      BY <1>1 DEF EnterStage, StageConfig, LoopTyped, StageNames
    <2>2. Launch => LoopTyped'
      BY <1>1, <2>1 DEF Launch, LoopTyped, Pcs, Running
    <2>3. LaunchFails => LoopTyped'
      BY <1>1, <2>1 DEF LaunchFails, LoopTyped, Pcs, Finals
    <2> QED
      BY <2>2, <2>3
  <1>5. LoopEnds \/ Identified \/ Unidentified \/ ClientExited \/ WaitForMessage
        \/ NoMessage \/ Receive \/ Rediscover => LoopTyped'
    BY <1>1 DEF LoopEnds, Identified, Unidentified, ClientExited, WaitForMessage,
                NoMessage, Receive, Rediscover, LoopTyped, Pcs, Running, Saving
  <1>6. Intervention => LoopTyped'
    BY <1>1 DEF Intervention, BeginReduction, Rotate, BeginRestart, Delay, Intervenes,
                LoopTyped, Pcs, Running
  <1>7. ASSUME NEW f, NEW n \in {"reduced", "restarted"}, Stop(f, n) PROVE LoopTyped'
    BY <1>1, <1>7 DEF Stop, StopsContainer, StopFails, Stopped, LoopTyped, Pcs, Saving
  <1>8. Reduced \/ Restarted => LoopTyped'
    BY <1>1 DEF Reduced, Restarted, Adapted, LoopTyped, Pcs
  <1>9. StopMonitor \/ RecordDir => LoopTyped'
    BY <1>1 DEF StopMonitor, RecordDir, LoopTyped, Pcs, Saving
  <1>10. StageSucceeds \/ StagesExhausted \/ ResumeNext => LoopTyped'
    <2>1. MaxStages \in Nat
      BY BudgetsAssumption
    <2>2. StageSucceeds \/ StagesExhausted => LoopTyped'
      BY <1>1 DEF StageSucceeds, StagesExhausted, Decides, LoopTyped, Pcs, Finals
    <2>3. ResumeNext => attempt' \in 1 .. MaxStages
      <3>1. attempt \in Int /\ 1 <= attempt /\ attempt <= MaxStages
        BY <1>1 DEF LoopTyped
      <3>2. ResumeNext => \/ attempt' = attempt
                          \/ attempt' = attempt + 1 /\ ~(attempt >= MaxStages)
        BY DEF ResumeNext, ExhaustsStages
      <3> QED
        BY <2>1, <3>1, <3>2
    <2>4. ResumeNext => LoopTyped'
      BY <1>1, <2>3 DEF ResumeNext, Decides, LoopTyped, Pcs, Finals, StageNames
    <2> QED
      BY <2>2, <2>4
  <1>11. CheckWarcs \/ StartBuild \/ NoBuild \/ BuildEnds => LoopTyped'
    BY <1>1 DEF CheckWarcs, StartBuild, NoBuild, BuildEnds, BuildVerdict, Finishes,
                LoopTyped, Pcs, Running, Finals
  <1>12. Monitor \/ Docker \/ Detach \/ MountDrops \/ Done => LoopTyped'
    BY <1>1 DEF Monitor, MonitorSignals, MonitorFails, MonitorEnds, MonitorStep, Docker,
                CrawlEnds, StrayEnds, ContainerStep, Detach, MountDrops, Done, vars,
                LoopTyped
  <1> QED
    BY <1>2, <1>3, <1>4, <1>5, <1>6, <1>7, <1>8, <1>9, <1>10, <1>11, <1>12
       DEF Next, Loop, Fault, Signal, Crash

LEMMA MonTypes == Typed /\ Next => MonTyped'
  <1> SUFFICES ASSUME Typed, Next PROVE MonTyped'
    OBVIOUS
  <1>1. MonTyped
    BY DEF Typed
  <1>2. Dies \/ RefuseZim \/ Exit => MonTyped'
    BY DownTyped DEF Dies, RefuseZim, Exit
  <1>3. UNCHANGED monVars => MonTyped'
    BY <1>1 DEF monVars, MonTyped
  <1>4. Identified => MonTyped'
    BY <1>1 DEF Identified, MonTyped
  <1>5. Receive => MonTyped'
    <2>1. ASSUME Receive
          PROVE  /\ Head(queue) \in {"signal", "fatal"}
                 /\ Tail(queue) \in Seq({"signal", "fatal"})
                 /\ Len(Tail(queue)) = Len(queue) - 1 /\ Len(queue) \in Nat
      BY <1>1, <2>1 DEF Receive, MonTyped
    <2>2. MaxQueue \in Nat
      BY BudgetsAssumption
    <2> QED
      BY <1>1, <2>1, <2>2 DEF Receive, MonTyped
  <1>6. Intervention => MonTyped'
    BY <1>1 DEF Intervention, BeginReduction, Rotate, BeginRestart, Delay, Intervenes,
                MonTyped
  <1>7. StopMonitor => MonTyped'
    BY <1>1 DEF StopMonitor, MonTyped
  <1>8. Monitor => MonTyped'
    <2>1. ASSUME NEW m \in {"signal", "fatal"}, Len(queue) < MaxQueue
          PROVE  /\ Append(queue, m) \in Seq({"signal", "fatal"})
                 /\ Len(Append(queue, m)) <= MaxQueue
      <3>1. Len(Append(queue, m)) = Len(queue) + 1 /\ Len(queue) \in Nat
        BY <1>1 DEF MonTyped
      <3>2. MaxQueue \in Nat
        BY BudgetsAssumption
      <3> QED
        BY <1>1, <2>1, <3>1, <3>2 DEF MonTyped
    <2>2. MonitorSignals => MonTyped'
      BY <1>1, <2>1 DEF MonitorSignals, MonitorStep, MonTyped
    <2>3. MonitorFails => MonTyped'
      BY <1>1, <2>1 DEF MonitorFails, MonitorStep, MonTyped
    <2>4. MonitorEnds => MonTyped'
      BY <1>1 DEF MonitorEnds, MonitorStep, MonTyped
    <2> QED
      BY <2>2, <2>3, <2>4 DEF Monitor
  <1>9. \/ Start \/ FreshOverwrite \/ ResumeCrawl \/ NewCrawl \/ Launch \/ LaunchFails
        \/ LoopEnds \/ Unidentified \/ ClientExited \/ WaitForMessage \/ NoMessage
        \/ Rediscover \/ Reduced \/ Restarted \/ RecordDir
        => UNCHANGED monVars
    BY DEF Start, FreshOverwrite, ResumeCrawl, NewCrawl, Prepare, Launch, LaunchFails,
           LoopEnds, Unidentified, ClientExited, WaitForMessage, NoMessage, Rediscover,
           Reduced, Restarted, Adapted, RecordDir, monVars
  <1>10. ASSUME NEW f, NEW n, Stop(f, n) PROVE UNCHANGED monVars
    BY <1>10 DEF Stop, StopsContainer, StopFails, Stopped, monVars
  <1>11. \/ StageSucceeds \/ StagesExhausted \/ ResumeNext \/ CheckWarcs \/ StartBuild
         \/ NoBuild \/ BuildEnds \/ Docker \/ Detach \/ MountDrops \/ Done
         => UNCHANGED monVars
    BY DEF StageSucceeds, StagesExhausted, ResumeNext, Decides, CheckWarcs, StartBuild,
           NoBuild, BuildEnds, Finishes, Docker, CrawlEnds, StrayEnds, ContainerStep,
           Detach, MountDrops, Done, vars, monVars
  <1> QED
    BY <1>2, <1>3, <1>4, <1>5, <1>6, <1>7, <1>8, <1>9, <1>10, <1>11
       DEF Next, Loop, Fault, Signal, Crash

LEMMA DockTypes == Typed /\ Next => DockTyped'
  <1> SUFFICES ASSUME Typed, Next PROVE DockTyped'
    OBVIOUS
  <1>1. DockTyped
    BY DEF Typed
  <1>2. UNCHANGED dockVars => DockTyped'
    BY <1>1 DEF dockVars, DockTyped
  <1>3. RefuseZim \/ Exit => DockTyped'
    BY <1>1 DEF RefuseZim, Exit, GoesDown, DockTyped
  <1>4. Launch => DockTyped'
    <2>1. serial + 1 \in Nat /\ up \cup {serial + 1} \subseteq 1 .. serial + 1
      BY <1>1 DEF DockTyped
    <2>2. leaks \in Nat
      BY <1>1 DEF DockTyped
    <2> QED
      BY <2>1, <2>2 DEF Launch, DockTyped
  <1>5. LaunchFails \/ Identified => DockTyped'
    BY <1>1 DEF LaunchFails, Identified, DockTyped
  <1>6. ASSUME NEW f, NEW n, Stop(f, n) PROVE DockTyped'
    <2>1. CASE StopsContainer(f, n)
      BY <1>1, <2>1 DEF StopsContainer, Stopped, DockTyped
    <2>2. CASE StopFails(f, n)
      <3>1. leaks + 1 \in Nat
        BY <1>1 DEF DockTyped
      <3>2. /\ serial' = serial /\ up' = up /\ client' = client /\ rc' = rc
            /\ known' = FALSE /\ leaks' = leaks + 1
        BY <2>2 DEF StopFails, Stopped
      <3> QED
        BY <1>1, <3>1, <3>2 DEF DockTyped
    <2> QED
      BY <1>6, <2>1, <2>2 DEF Stop
  <1>7. Reduced \/ Restarted => DockTyped'
    BY <1>1 DEF Reduced, Restarted, Adapted, DockTyped
  <1>8. StartBuild => DockTyped'
    BY <1>1 DEF StartBuild, Finishes, DockTyped
  <1>9. CheckWarcs \/ NoBuild \/ BuildEnds => DockTyped'
    BY <1>1 DEF CheckWarcs, NoBuild, BuildEnds, Finishes, DockTyped
  <1>10. Docker \/ Detach => DockTyped'
    <2>1. CrawlEnds => DockTyped'
      BY <1>1 DEF CrawlEnds, ContainerStep, DockTyped
    <2>2. StrayEnds => DockTyped'
      BY <1>1 DEF StrayEnds, ContainerStep, DockTyped
    <2>3. Detach => DockTyped'
      BY <1>1 DEF Detach, DockTyped
    <2> QED
      BY <2>1, <2>2, <2>3 DEF Docker
  <1>11. ASSUME Dies, up' \subseteq up PROVE DockTyped'
    <2>1. leaks' \in Nat
      <3>1. {serial} \cap up' \subseteq {serial}
        OBVIOUS
      <3>2. IsFiniteSet({serial})
        BY FS_Singleton
      <3>3. IsFiniteSet({serial} \cap up')
        BY <3>1, <3>2, FS_Subset
      <3>4. Cardinality({serial} \cap up') \in Nat
        BY <3>3, FS_CardinalityType
      <3> QED
        BY <1>1, <1>11, <3>4 DEF Dies, DockTyped
    <2> QED
      BY <1>1, <1>11, <2>1 DEF Dies, GoesDown, DockTyped
  <1>12. Signal \/ Crash => DockTyped'
    <2>1. Signal => Dies /\ up' \subseteq up
      BY DEF Signal
    <2>2. Crash => Dies /\ up' \subseteq up
      BY DEF Crash
    <2> QED
      BY <1>11, <2>1, <2>2
  <1>13. \/ Start \/ FreshOverwrite \/ ResumeCrawl \/ NewCrawl \/ LoopEnds
         \/ Unidentified \/ ClientExited \/ WaitForMessage \/ NoMessage \/ Receive
         \/ Rediscover \/ Intervention
         => UNCHANGED dockVars
    BY DEF Start, FreshOverwrite, ResumeCrawl, NewCrawl, Prepare, LoopEnds, Unidentified,
           ClientExited, WaitForMessage, NoMessage, Receive, Rediscover, Intervention,
           BeginReduction, Rotate, BeginRestart, Delay, Intervenes, dockVars
  <1>14. \/ StopMonitor \/ RecordDir \/ StageSucceeds \/ StagesExhausted \/ ResumeNext
         \/ Monitor \/ MountDrops \/ Done
         => UNCHANGED dockVars
    BY DEF StopMonitor, RecordDir, StageSucceeds, StagesExhausted, ResumeNext, Decides,
           Monitor, MonitorSignals, MonitorFails, MonitorEnds, MonitorStep, MountDrops,
           Done, vars, dockVars
  <1> QED
    BY <1>2, <1>3, <1>4, <1>5, <1>6, <1>7, <1>8, <1>9, <1>10, <1>12, <1>13, <1>14
       DEF Next, Loop, Fault

LEMMA DiskTypes == Typed /\ Next => DiskTyped'
  <1> SUFFICES ASSUME Typed, Next PROVE DiskTyped'
    OBVIOUS
  <1>1. DiskTyped /\ serial \in Nat /\ up \subseteq 1 .. serial
    BY DEF Typed, DockTyped
  <1>2. \A k \in Nat : k >= serial => 1 .. serial \subseteq 1 .. k
    BY <1>1
  <1>3. UNCHANGED <<diskVars, serial>> => DiskTyped'
    BY <1>1 DEF diskVars, DiskTyped
  <1>4. RefuseZim => DiskTyped'
    BY <1>1 DEF RefuseZim, DiskTyped, ResumeConfig
  <1>5. FreshOverwrite \/ ResumeCrawl \/ NewCrawl => DiskTyped'
    BY <1>1 DEF FreshOverwrite, ResumeCrawl, NewCrawl, Prepare, dockVars, DiskTyped,
                ResumeConfig
  <1>6. Launch => DiskTyped'
    <2>1. Launch => /\ serial' = serial + 1 /\ disk' = disk /\ yamls' = yamls
                    /\ discarded' = discarded /\ zim' = zim /\ stable' \in BOOLEAN
      BY <1>1 DEF Launch, EnterStage, DiskTyped
    <2>2. 1 .. serial \subseteq 1 .. serial + 1
      BY <1>1
    <2> QED
      BY <1>1, <2>1, <2>2 DEF DiskTyped
  <1>7. LaunchFails => DiskTyped'
    BY <1>1 DEF LaunchFails, EnterStage, DiskTyped
  <1>8. Identified \/ Unidentified => DiskTyped'
    <2>1. Identified \/ Unidentified =>
             /\ serial' = serial /\ disk' = disk \cup Labelled /\ yamls' = yamls
             /\ discarded' = discarded /\ zim' = zim /\ stable' = stable
      BY DEF Identified, Unidentified, dockVars
    <2>2. Labelled \subseteq 1 .. serial
      BY <1>1 DEF Labelled
    <2> QED
      BY <1>1, <2>1, <2>2 DEF DiskTyped
  <1>9. ASSUME NEW c, LeavesYaml(c), UNCHANGED <<disk, serial, discarded, zim, stable>>
        PROVE DiskTyped'
    BY <1>1, <1>9 DEF LeavesYaml, DiskTyped
  <1>10. ASSUME NEW f, NEW n, Stop(f, n) PROVE DiskTyped'
    <2>1. CASE StopsContainer(f, n)
      BY <1>9, <2>1 DEF StopsContainer, Stopped
    <2>2. CASE StopFails(f, n)
      BY <1>1, <2>2 DEF StopFails, Stopped, DiskTyped
    <2> QED
      BY <1>10, <2>1, <2>2 DEF Stop
  <1>11. CheckWarcs \/ NoBuild => UNCHANGED <<diskVars, serial>>
    BY DEF CheckWarcs, NoBuild, Finishes, diskVars
  <1>12. StartBuild => DiskTyped'
    <2>1. StartBuild => serial' = serial + 1 /\ UNCHANGED diskVars
      BY DEF StartBuild, Finishes
    <2>2. 1 .. serial \subseteq 1 .. serial + 1
      BY <1>1
    <2> QED
      BY <1>1, <2>1, <2>2 DEF DiskTyped, diskVars
  <1>13. BuildEnds => DiskTyped'
    BY <1>1 DEF BuildEnds, DiskTyped
  <1>14. Exit => DiskTyped'
    BY <1>1 DEF Exit, DiskTyped
  <1>15. Docker => DiskTyped'
    BY <1>9 DEF Docker, CrawlEnds, StrayEnds, ContainerStep
  <1>16. Dies => DiskTyped'
    <2>1. Labelled \subseteq 1 .. serial
      BY <1>1 DEF Labelled
    <2>2. Dies => /\ disk' \in {disk, disk \cup Labelled}
                  /\ UNCHANGED <<serial, yamls, stable, zim, discarded>>
      BY DEF Dies
    <2> QED
      BY <1>1, <2>1, <2>2 DEF DiskTyped
  <1>17. \/ Start \/ LoopEnds \/ ClientExited \/ WaitForMessage \/ NoMessage \/ Receive
         \/ Rediscover \/ Intervention \/ Reduced \/ Restarted \/ StopMonitor
         => UNCHANGED <<diskVars, serial>>
    BY DEF Start, LoopEnds, ClientExited, WaitForMessage, NoMessage, Receive, Rediscover,
           Intervention, BeginReduction, Rotate, BeginRestart, Delay, Intervenes,
           Reduced, Restarted, Adapted, StopMonitor, dockVars
  <1>18. \/ RecordDir \/ StageSucceeds \/ StagesExhausted \/ ResumeNext \/ Monitor
         \/ Detach \/ MountDrops \/ Done
         => UNCHANGED <<diskVars, serial>>
    BY DEF RecordDir, StageSucceeds, StagesExhausted, ResumeNext, Decides, Monitor,
           MonitorSignals, MonitorFails, MonitorEnds, MonitorStep, Detach, MountDrops,
           Done, vars, dockVars
  <1> QED
    BY <1>3, <1>4, <1>5, <1>6, <1>7, <1>8, <1>10, <1>11, <1>12, <1>13, <1>14, <1>15,
       <1>16, <1>17, <1>18 DEF Next, Loop, Fault, Signal, Crash

LEMMA CountsTypes == Typed /\ Next => CountsTyped'
  <1> SUFFICES ASSUME Typed, Next PROVE CountsTyped'
    OBVIOUS
  <1>1. /\ runs \in Nat /\ runs <= MaxRuns /\ faults \in Nat /\ faults <= MaxFaults
        /\ MaxRuns \in Nat /\ MaxFaults \in Nat
    BY BudgetsAssumption DEF Typed, CountsTyped
  <1>2. \/ runs' = runs
        \/ runs' = runs + 1 /\ runs < MaxRuns
    <2>1. Start => runs' = runs + 1 /\ runs < MaxRuns
      BY DEF Start
    <2>2. ASSUME NEW f, NEW n, Stop(f, n) PROVE runs' = runs
      BY <2>2 DEF Stop, StopsContainer, StopFails, Stopped
    <2>3. \/ RefuseZim \/ FreshOverwrite \/ ResumeCrawl \/ NewCrawl \/ Launch \/ LaunchFails
          \/ LoopEnds \/ Identified \/ Unidentified \/ ClientExited \/ WaitForMessage
          \/ NoMessage \/ Receive \/ Rediscover \/ Intervention \/ Reduced \/ Restarted
          => runs' = runs
      BY DEF RefuseZim, FreshOverwrite, ResumeCrawl, NewCrawl, Prepare, Launch,
             LaunchFails, LoopEnds, Identified, Unidentified, ClientExited,
             WaitForMessage, NoMessage, Receive, Rediscover, Intervention,
             BeginReduction, Rotate, BeginRestart, Delay, Intervenes, Reduced,
             Restarted, Adapted
    <2>4. \/ StopMonitor \/ RecordDir \/ StageSucceeds \/ StagesExhausted \/ ResumeNext
          \/ CheckWarcs \/ StartBuild \/ NoBuild \/ BuildEnds \/ Exit
          \/ Monitor \/ Docker \/ Fault \/ Done
          => runs' = runs
      BY DEF StopMonitor, RecordDir, StageSucceeds, StagesExhausted, ResumeNext, Decides,
             CheckWarcs, StartBuild, NoBuild, BuildEnds, Finishes, Exit, Monitor,
             MonitorSignals, MonitorFails, MonitorEnds, MonitorStep, Docker, CrawlEnds,
             StrayEnds, ContainerStep, Fault, Detach, MountDrops, Signal, Crash, Dies,
             Done, vars
    <2> QED
      BY <2>1, <2>2, <2>3, <2>4 DEF Next, Loop
  <1>3. \/ faults' = faults
        \/ faults' = faults + 1 /\ faults < MaxFaults
    <2>1. ASSUME NEW f, NEW n, Stop(f, n)
          PROVE  \/ faults' = faults
                 \/ faults' = faults + 1 /\ faults < MaxFaults
      BY <2>1 DEF Stop, StopsContainer, StopFails
    <2>2. Fault => faults' = faults + 1 /\ faults < MaxFaults
      BY DEF Fault, Detach, MountDrops, Signal, Crash, Dies
    <2>3. \/ Start \/ RefuseZim \/ FreshOverwrite \/ ResumeCrawl \/ NewCrawl \/ Launch
          \/ LaunchFails \/ LoopEnds \/ Identified \/ Unidentified \/ ClientExited
          \/ WaitForMessage \/ NoMessage \/ Receive \/ Rediscover \/ Intervention
          \/ Reduced \/ Restarted
          => faults' = faults
      BY DEF Start, RefuseZim, FreshOverwrite, ResumeCrawl, NewCrawl, Prepare, Launch,
             LaunchFails, LoopEnds, Identified, Unidentified, ClientExited,
             WaitForMessage, NoMessage, Receive, Rediscover, Intervention,
             BeginReduction, Rotate, BeginRestart, Delay, Intervenes, Reduced,
             Restarted, Adapted
    <2>4. \/ StopMonitor \/ RecordDir \/ StageSucceeds \/ StagesExhausted \/ ResumeNext
          \/ CheckWarcs \/ StartBuild \/ NoBuild \/ BuildEnds \/ Exit
          \/ Monitor \/ Docker \/ Done
          => faults' = faults
      BY DEF StopMonitor, RecordDir, StageSucceeds, StagesExhausted, ResumeNext, Decides,
             CheckWarcs, StartBuild, NoBuild, BuildEnds, Finishes, Exit, Monitor,
             MonitorSignals, MonitorFails, MonitorEnds, MonitorStep, Docker, CrawlEnds,
             StrayEnds, ContainerStep, Done, vars
    <2> QED
      BY <2>1, <2>2, <2>3, <2>4 DEF Next, Loop
  <1>4. runs' \in 0 .. MaxRuns
    BY <1>1, <1>2
  <1>5. faults' \in 0 .. MaxFaults
    BY <1>1, <1>3
  <1> QED
    BY <1>4, <1>5 DEF CountsTyped

\* The count of a strategy that can be afforded, raised, and nothing else.
LEMMA RaisedCounts ==
  ASSUME mem \in Memory
  PROVE  /\ LET m == [mem EXCEPT !.rotations = @ + 1]
            IN  mem.rotations < MaxRotations =>
                  /\ m \in Memory /\ m.dirs = mem.dirs
                  /\ m.reductions = mem.reductions /\ m.restarts = mem.restarts
         /\ LET m == [mem EXCEPT !.restarts = @ + 1]
            IN  mem.restarts < MaxRestarts =>
                  /\ m \in Memory /\ m.dirs = mem.dirs
                  /\ m.reductions = mem.reductions /\ m.restarts = mem.restarts + 1
         /\ LET m == [mem EXCEPT !.workers = @ - 1, !.reductions = @ + 1]
            IN  mem.reductions < MaxReductions /\ mem.workers > MinWorkers =>
                  /\ m \in Memory /\ m.dirs = mem.dirs
                  /\ m.reductions = mem.reductions + 1 /\ m.restarts = mem.restarts
  <1>1. /\ mem.workers \in MinWorkers .. InitialWorkers
        /\ mem.reductions \in 0 .. MaxReductions /\ mem.restarts \in 0 .. MaxRestarts
        /\ mem.rotations \in 0 .. MaxRotations
    BY DEF Memory
  <1>2. /\ MaxReductions \in Nat /\ MaxRestarts \in Nat /\ MaxRotations \in Nat
        /\ InitialWorkers \in Nat /\ MinWorkers \in Nat
    BY BudgetsAssumption
  <1>3. mem.rotations < MaxRotations => mem.rotations + 1 \in 0 .. MaxRotations
    BY <1>1, <1>2
  <1>4. mem.restarts < MaxRestarts => mem.restarts + 1 \in 0 .. MaxRestarts
    BY <1>1, <1>2
  <1>5. mem.reductions < MaxReductions => mem.reductions + 1 \in 0 .. MaxReductions
    BY <1>1, <1>2
  <1>6. mem.workers > MinWorkers => mem.workers - 1 \in MinWorkers .. InitialWorkers
    BY <1>1, <1>2
  <1>7. ASSUME mem.rotations < MaxRotations
        PROVE  LET m == [mem EXCEPT !.rotations = @ + 1]
               IN  /\ m \in Memory /\ m.dirs = mem.dirs
                   /\ m.reductions = mem.reductions /\ m.restarts = mem.restarts
    BY <1>3, <1>7 DEF Memory
  <1>8. ASSUME mem.restarts < MaxRestarts
        PROVE  LET m == [mem EXCEPT !.restarts = @ + 1]
               IN  /\ m \in Memory /\ m.dirs = mem.dirs
                   /\ m.reductions = mem.reductions /\ m.restarts = mem.restarts + 1
    BY <1>4, <1>8 DEF Memory
  <1>9. ASSUME mem.reductions < MaxReductions, mem.workers > MinWorkers
        PROVE  LET m == [mem EXCEPT !.workers = @ - 1, !.reductions = @ + 1]
               IN  /\ m \in Memory /\ m.dirs = mem.dirs
                   /\ m.reductions = mem.reductions + 1 /\ m.restarts = mem.restarts
    BY <1>5, <1>6, <1>9 DEF Memory
  <1> QED
    BY <1>7, <1>8, <1>9

\* Containers are numbered upwards.
LEMMA SerialGrows ==
  ASSUME Typed, Next
  PROVE  serial \in Nat /\ serial' \in Nat /\ serial' >= serial
  <1>1. serial \in Nat
    BY DEF Typed, DockTyped
  <1>2. serial' = serial \/ serial' = serial + 1
    <2>1. Launch \/ StartBuild => serial' = serial + 1
      BY DEF Launch, StartBuild
    <2>2. ASSUME NEW f, NEW n, Stop(f, n) PROVE serial' = serial
      BY <2>2 DEF Stop, StopsContainer, StopFails, Stopped
    <2>3. \/ Start \/ RefuseZim \/ FreshOverwrite \/ ResumeCrawl \/ NewCrawl
          \/ LaunchFails \/ LoopEnds \/ Identified \/ Unidentified \/ ClientExited
          \/ WaitForMessage \/ NoMessage \/ Receive \/ Rediscover \/ Intervention
          \/ Reduced \/ Restarted
          => serial' = serial
      BY DEF Start, RefuseZim, FreshOverwrite, ResumeCrawl, NewCrawl, Prepare,
             LaunchFails, LoopEnds, Identified, Unidentified, ClientExited,
             WaitForMessage, NoMessage, Receive, Rediscover, Intervention,
             BeginReduction, Rotate, BeginRestart, Delay, Intervenes, Reduced,
             Restarted, Adapted, dockVars
    <2>4. \/ StopMonitor \/ RecordDir \/ StageSucceeds \/ StagesExhausted \/ ResumeNext
          \/ CheckWarcs \/ NoBuild \/ BuildEnds \/ Exit \/ Monitor \/ Docker \/ Fault
          \/ Done
          => serial' = serial
      BY DEF StopMonitor, RecordDir, StageSucceeds, StagesExhausted, ResumeNext, Decides,
             CheckWarcs, NoBuild, BuildEnds, Finishes, Exit, Monitor, MonitorSignals,
             MonitorFails, MonitorEnds, MonitorStep, Docker, CrawlEnds, StrayEnds,
             ContainerStep, Fault, Detach, MountDrops, Signal, Crash, Dies, Done,
             dockVars, vars
    <2> QED
      BY <2>1, <2>2, <2>3, <2>4 DEF Next, Loop
  <1> QED
    BY <1>1, <1>2

LEMMA MemTypes == Typed /\ Affordable /\ Next => MemTyped'
  <1> SUFFICES ASSUME Typed, Affordable, Next PROVE MemTyped'
    OBVIOUS
  <1>1. MemTyped /\ DiskTyped /\ serial \in Nat
    BY DEF Typed, DockTyped
  <1>2. disk \in SUBSET Nat /\ mem \in Memory /\ mem.dirs \subseteq 1 .. serial
    BY <1>1 DEF MemTyped, DiskTyped
  <1>3. 1 .. serial \subseteq 1 .. serial'
    BY SerialGrows
  <1>4. ASSUME NEW m \in Memory, m.dirs \subseteq 1 .. serial, mem' = m,
               file' \in {file, m, Absent, Torn}, lost' \in BOOLEAN
        PROVE  MemTyped'
    <2>1. mem' \in Memory /\ mem'.dirs \subseteq 1 .. serial'
      BY <1>3, <1>4
    <2>2. file' \in Memory \cup {Absent, Torn}
      BY <1>1, <1>4 DEF MemTyped
    <2> QED
      BY <1>4, <2>1, <2>2 DEF MemTyped
  <1>5. /\ Discovered \in Memory /\ Discovered.dirs \subseteq 1 .. serial
    BY <1>1, <1>2, DiscoversAll DEF DiskTyped
  <1>6. lost \in BOOLEAN /\ FreshMemory \in Memory /\ FreshMemory.dirs \subseteq 1 .. serial
    BY <1>1, FreshInMemory DEF MemTyped
  <1>7. Remembers => MemTyped'
    BY <1>2, <1>4, <1>6, RemembersFrame DEF memVars
  <1>8. Start => MemTyped'
    <2>1. Loaded \in Memory /\ Loaded.dirs \subseteq 1 .. serial
      <3>1. CASE file \in {Absent, Torn}
        BY <1>6, <3>1 DEF Loaded
      <3>2. CASE ~(file \in {Absent, Torn})
        <4>1. file \in Memory
          BY <1>1, <3>2 DEF MemTyped
        <4>2. Existing(file) \in Memory /\ Existing(file).dirs = file.dirs \cap disk
          BY <1>2, <4>1, MemoryOps
        <4> QED
          BY <1>1, <3>2, <4>2 DEF Loaded, DiskTyped
      <3> QED
        BY <3>1, <3>2
    <2>2. Start => mem' = Loaded /\ file' = file /\ lost' = lost
      BY DEF Start
    <2> QED
      BY <1>4, <1>6, <2>1, <2>2
  <1>9. RefuseZim => MemTyped'
    <2>1. RefuseZim => /\ mem' = FreshMemory /\ file' \in {file, Discovered}
                       /\ lost' = FALSE
      BY DEF RefuseZim, GoesDown, Written
    <2>2. RefuseZim => mem' \in Memory /\ mem'.dirs \subseteq 1 .. serial'
      BY <1>3, <1>6, <2>1
    <2> QED
      BY <1>1, <1>5, <2>1, <2>2 DEF MemTyped
  <1>10. FreshOverwrite => MemTyped'
    BY <1>4, <1>6 DEF FreshOverwrite, Prepare, Save, Written
  <1>11. ResumeCrawl => MemTyped'
    BY <1>4, <1>5, <1>6 DEF ResumeCrawl, Prepare, Save, Written
  <1>12. NewCrawl => MemTyped'
    <2>1. ResetCounts(Discovered) \in Memory
          /\ ResetCounts(Discovered).dirs \subseteq 1 .. serial
      BY <1>2, <1>5, MemoryOps
    <2>2. NewCrawl => /\ mem' = ResetCounts(Discovered) /\ file' \in {file, mem'}
                      /\ lost' = lost
      BY DEF NewCrawl, Prepare, Save, Written
    <2> QED
      BY <1>4, <1>6, <2>1, <2>2
  <1>13. Rediscover => MemTyped'
    BY <1>4, <1>5 DEF Rediscover, Save
  <1>14. Rotate => MemTyped'
    <2>1. Rotate => mem.rotations < MaxRotations
      BY DEF Rotate, CanRotate
    <2>2. Rotate => /\ mem' = [mem EXCEPT !.rotations = @ + 1]
                    /\ file' \in {file, mem'} /\ lost' = lost
      BY DEF Rotate, Intervenes, Rotation, Save, Written
    <2> QED
      BY <1>2, <1>4, <1>6, <2>1, <2>2, RaisedCounts
  <1>15. Reduced => MemTyped'
    <2>1. Reduced => mem.reductions < MaxReductions /\ mem.workers > MinWorkers
      BY DEF Reduced, Adapted, Affordable
    <2>2. Reduced => /\ mem' = [mem EXCEPT !.workers = @ - 1, !.reductions = @ + 1]
                     /\ file' \in {file, mem'} /\ lost' = lost
      BY DEF Reduced, Adapted, Reduction, Save, Written
    <2> QED
      BY <1>2, <1>4, <1>6, <2>1, <2>2, RaisedCounts
  <1>16. Restarted => MemTyped'
    <2>1. Restarted => mem.restarts < MaxRestarts
      BY DEF Restarted, Adapted, Affordable
    <2>2. Restarted => /\ mem' = [mem EXCEPT !.restarts = @ + 1]
                       /\ file' \in {file, mem'} /\ lost' = lost
      BY DEF Restarted, Adapted, Restart, Save, Written
    <2> QED
      BY <1>2, <1>4, <1>6, <2>1, <2>2, RaisedCounts
  <1>17. RecordDir => MemTyped'
    <2>1. StageDir \subseteq 1 .. serial
      <3>1. disk \subseteq 1 .. serial
        BY <1>1 DEF DiskTyped
      <3>2. disk # {} => Max(disk) \in 1 .. serial
        BY <1>1, <3>1, MaxIsIn
      <3> QED
        BY <3>1, <3>2 DEF StageDir
    <2>2. StageDir \in SUBSET Nat
      BY <2>1
    <2>3. /\ Tracking(mem, StageDir) \in Memory
          /\ Tracking(mem, StageDir).dirs \subseteq 1 .. serial
      BY <1>2, <2>1, <2>2, MemoryOps
    <2>4. RecordDir => /\ mem' \in {mem, Tracking(mem, StageDir)}
                       /\ file' \in {file, mem'} /\ lost' = lost
      BY DEF RecordDir, Save, Written
    <2> QED
      BY <1>2, <1>4, <1>6, <2>3, <2>4
  <1>18. MountDrops => MemTyped'
    <2>1. [mem EXCEPT !.dirs = {}] \in Memory /\ [mem EXCEPT !.dirs = {}].dirs = {}
      BY <1>2 DEF Memory
    <2>2. MountDrops => /\ mem' = [mem EXCEPT !.dirs = {}] /\ file' = file /\ lost' = TRUE
      BY DEF MountDrops
    <2> QED
      BY <1>4, <2>1, <2>2
  <1>19. Exit \/ Dies => MemTyped'
    <2>1. Exit \/ Dies => /\ mem' = FreshMemory /\ file' \in {file, Torn, Absent}
                          /\ lost' = FALSE
      BY DEF Exit, Dies, GoesDown
    <2> QED
      BY <1>4, <1>6, <2>1
  <1> QED
    BY <1>7, <1>8, <1>9, <1>10, <1>11, <1>12, <1>13, <1>14, <1>15, <1>16, <1>17, <1>18,
       <1>19 DEF Next, Loop, Intervention, Fault, Signal, Crash, Remembers

LEMMA StaysAffordable == Typed /\ Affordable /\ Next => Affordable'
  <1> SUFFICES ASSUME Typed, Affordable, Next PROVE Affordable'
    OBVIOUS
  <1> USE DEF Affordable
  <1>1. ASSUME pc' \notin {"reducing", "reduced", "restarting", "restarted"}
        PROVE  Affordable'
    BY <1>1
  <1>2. UNCHANGED <<pc, mem>> => Affordable'
    OBVIOUS
  <1>3. BeginReduction => Affordable'
    BY DEF BeginReduction, CanReduce, Intervenes
  <1>4. BeginRestart => Affordable'
    BY DEF BeginRestart, CanRestart, Intervenes
  <1>5. Stop("reducing", "reduced") => Affordable'
    BY DEF Stop, StopsContainer, StopFails, Stopped, memVars
  <1>6. Stop("restarting", "restarted") => Affordable'
    BY DEF Stop, StopsContainer, StopFails, Stopped, memVars
  <1>7. MountDrops => Affordable'
    <2>1. MountDrops => /\ pc' = pc /\ mem'.reductions = mem.reductions
                        /\ mem'.workers = mem.workers /\ mem'.restarts = mem.restarts
      BY DEF MountDrops, Typed, MemTyped, Memory
    <2> QED
      BY <2>1
  <1>8. \/ Start \/ RefuseZim \/ FreshOverwrite \/ ResumeCrawl \/ NewCrawl \/ Launch
        \/ LaunchFails \/ LoopEnds \/ Identified \/ Unidentified \/ ClientExited
        \/ WaitForMessage \/ NoMessage \/ Receive \/ Rediscover \/ Rotate \/ Delay
        \/ Reduced \/ Restarted
        => pc' \notin {"reducing", "reduced", "restarting", "restarted"}
    BY DEF Start, RefuseZim, GoesDown, FreshOverwrite, ResumeCrawl, NewCrawl, Prepare,
           Launch, LaunchFails, LoopEnds, Identified, Unidentified, ClientExited,
           WaitForMessage, NoMessage, Receive, Rediscover, Rotate, Delay, Intervenes,
           Reduced, Restarted, Adapted
  <1>9. \/ StopMonitor \/ RecordDir \/ StageSucceeds \/ StagesExhausted \/ ResumeNext
        \/ CheckWarcs \/ StartBuild \/ NoBuild \/ BuildEnds \/ Exit \/ Dies
        => pc' \notin {"reducing", "reduced", "restarting", "restarted"}
    BY DEF StopMonitor, RecordDir, StageSucceeds, StagesExhausted, ResumeNext, Decides,
           CheckWarcs, StartBuild, NoBuild, BuildEnds, Finishes, Exit, Dies, GoesDown
  <1>10. Monitor \/ Docker \/ Detach \/ Done => UNCHANGED <<pc, mem>>
    BY DEF Monitor, MonitorSignals, MonitorFails, MonitorEnds, MonitorStep, Docker,
           CrawlEnds, StrayEnds, ContainerStep, Detach, Done, memVars, vars
  <1> QED
    BY <1>1, <1>2, <1>3, <1>4, <1>5, <1>6, <1>7, <1>8, <1>9, <1>10
       DEF Next, Loop, Intervention, Fault, Signal, Crash

LEMMA StutterTyped == Typed /\ Affordable /\ UNCHANGED vars => Typed' /\ Affordable'
  BY DEF Typed, Affordable, LoopTyped, MonTyped, DockTyped, MemTyped, DiskTyped,
         CountsTyped, vars, loopVars, monVars, dockVars, memVars, diskVars

LEMMA AlwaysTyped == Spec => [](Typed /\ Affordable)
  <1>1. Init => Typed /\ Affordable
    BY InitTyped
  <1>2. Typed /\ Affordable /\ [Next]_vars => (Typed /\ Affordable)'
    BY StutterTyped, LoopTypes, MonTypes, DockTypes, MemTypes, DiskTypes, CountsTypes,
       StaysAffordable DEF Typed
  <1> QED
    BY <1>1, <1>2, PTL DEF Spec

----------------------------------------------------------------------------
(* What a run remembers of what earlier runs have spent.                             *)

\* What the operators on the remembered state do to workers and budgets.
LEMMA BudgetOps ==
  ASSUME NEW m \in Memory, NEW ds \in SUBSET Nat
  PROVE  /\ Budget(m) \in Memory
         /\ Budget(Existing(m)) = Budget(m)
         /\ Budget(Tracking(m, ds)) = Budget(m)
         /\ Budget([m EXCEPT !.dirs = {}]) = Budget(m)
         /\ Budget(ResetCounts(m)) = ResetCounts(Budget(m))
         /\ Budget(Reduction(m)) = Reduction(Budget(m))
         /\ Budget(Rotation(m)) = Rotation(Budget(m))
         /\ Budget(Restart(m)) = Restart(Budget(m))
         /\ Recorded(m) = Budget(m)
  <1>1. Budget(m) \in Memory
    BY DEF Budget, Memory
  <1>2. Budget(Existing(m)) = Budget(m)
    BY DEF Budget, Existing, Memory
  <1>3. Budget(Tracking(m, ds)) = Budget(m)
    BY DEF Budget, Tracking, Memory
  <1>4. Budget([m EXCEPT !.dirs = {}]) = Budget(m)
    BY DEF Budget, Memory
  <1>5. Budget(ResetCounts(m)) = ResetCounts(Budget(m))
    BY DEF Budget, ResetCounts, Memory
  <1>6. /\ Budget(Reduction(m)) = Reduction(Budget(m))
        /\ Budget(Rotation(m)) = Rotation(Budget(m))
        /\ Budget(Restart(m)) = Restart(Budget(m))
    BY DEF Budget, Reduction, Rotation, Restart, Memory
  <1>7. Recorded(m) = Budget(m)
    BY FileAssumption DEF Recorded
  <1> QED
    BY <1>1, <1>2, <1>3, <1>4, <1>5, <1>6, <1>7

\* Why a kill gives nothing back: what the adaptations have spent is remembered while a
\* run lasts, and on file at any time at which no save can have failed.
SavedInv ==
    /\ pc = "down" => ~lost
    /\ pc # "down" => Budget(mem) = spent
    /\ ~lost => Recorded(file) = spent

LEMMA SavedStep == Typed /\ Affordable /\ SavedInv /\ Next => SavedInv'
  <1> SUFFICES ASSUME Typed, Affordable, SavedInv, Next PROVE SavedInv'
    OBVIOUS
  <1>1. mem \in Memory /\ disk \in SUBSET Nat
    BY DEF Typed, MemTyped, DiskTyped, DockTyped
  <1>2. Budget(FreshMemory) = FreshMemory
    BY DEF Budget, FreshMemory
  <1>3. Budget(Discovered) = Budget(mem) /\ Discovered \in Memory
    BY <1>1, BudgetOps, MemoryOps DEF Discovered
  \* A step of a run that saves m.
  <1>4. ASSUME NEW m \in Memory, pc # "down", pc' # "down", mem' = m, lost' = lost,
               file' \in Written(m), Budget(m) = spent'
        PROVE  SavedInv'
    <2>1. Recorded(m) = Budget(m)
      BY BudgetOps
    <2>2. ~lost => file' = m
      BY <1>4 DEF Written
    <2> QED
      BY <1>4, <2>1, <2>2 DEF SavedInv
  \* The end of a run.
  <1>5. ASSUME GoesDown, Forgives, ~lost => Recorded(file') = spent \/ file' \in {Absent, Torn}
        PROVE  SavedInv'
    BY <1>5 DEF GoesDown, Forgives, SavedInv
  <1>6. Start => SavedInv'
    <2>1. Budget(Loaded) = Recorded(file)
      <3>1. CASE file \in {Absent, Torn}
        BY <1>2, <3>1 DEF Loaded, Recorded
      <3>2. CASE file \notin {Absent, Torn}
        <4>1. file \in Memory
          BY <3>2 DEF Typed, MemTyped
        <4>2. Budget(Existing(file)) = Budget(file) /\ Recorded(file) = Budget(file)
          BY <1>1, <4>1, BudgetOps
        <4> QED
          BY <3>2, <4>2 DEF Loaded
      <3> QED
        BY <3>1, <3>2
    <2>2. Start => /\ pc = "down" /\ pc' = "setup" /\ mem' = Loaded
                   /\ UNCHANGED <<file, lost, spent>>
      BY DEF Start
    <2> QED
      BY <2>1, <2>2 DEF SavedInv
  <1>7. RefuseZim => SavedInv'
    <2>1. RefuseZim => /\ pc = "setup" /\ GoesDown /\ Forgives /\ file' \in Written(Discovered)
      BY DEF RefuseZim
    <2>2. Recorded(Discovered) = Budget(mem)
      BY <1>1, <1>3, BudgetOps
    <2> QED
      BY <1>5, <2>1, <2>2 DEF Written, SavedInv
  <1>8. FreshOverwrite => SavedInv'
    <2>1. FreshMemory \in Memory
      BY FreshInMemory
    <2> QED
      BY <1>2, <1>4, <2>1 DEF FreshOverwrite, Prepare, Save
  <1>9. ResumeCrawl => SavedInv'
    BY <1>3, <1>4 DEF ResumeCrawl, Prepare, Save, SavedInv
  <1>10. NewCrawl => SavedInv'
    <2>1. ResetCounts(Discovered) \in Memory
      BY <1>1, <1>3, MemoryOps
    <2>2. Budget(ResetCounts(Discovered)) = ResetCounts(Budget(mem))
      BY <1>1, <1>3, BudgetOps
    <2>3. NewCrawl => /\ pc = "setup" /\ pc' = "head" /\ Save(ResetCounts(Discovered))
                      /\ lost' = lost /\ spent' = ResetCounts(spent)
      BY DEF NewCrawl, Prepare
    <2> QED
      BY <1>4, <2>1, <2>2, <2>3 DEF Save, SavedInv
  <1>11. Rediscover => SavedInv'
    <2>1. Recorded(Discovered) = Budget(mem)
      BY <1>1, <1>3, BudgetOps
    <2> QED
      BY <1>3, <2>1 DEF Rediscover, SavedInv
  <1>12. Rotate => SavedInv'
    <2>1. Rotate => Rotation(mem) \in Memory
      BY <1>1, RaisedCounts DEF Rotate, CanRotate, Rotation
    <2>2. Budget(Rotation(mem)) = Rotation(Budget(mem))
      BY <1>1, BudgetOps
    <2>3. Rotate => /\ pc = "adapt" /\ pc' = "watch" /\ Save(Rotation(mem))
                    /\ lost' = lost /\ spent' = Rotation(spent)
      BY DEF Rotate, Intervenes
    <2> QED
      BY <1>4, <2>1, <2>2, <2>3 DEF Save, SavedInv
  <1>13. Reduced => SavedInv'
    <2>1. Reduced => Reduction(mem) \in Memory
      BY <1>1, RaisedCounts DEF Reduced, Adapted, Affordable, Reduction
    <2>2. Budget(Reduction(mem)) = Reduction(Budget(mem))
      BY <1>1, BudgetOps
    <2>3. Reduced => /\ pc = "reduced" /\ pc' = "drain" /\ Save(Reduction(mem))
                     /\ lost' = lost /\ spent' = Reduction(spent)
      BY DEF Reduced, Adapted
    <2> QED
      BY <1>4, <2>1, <2>2, <2>3 DEF Save, SavedInv
  <1>14. Restarted => SavedInv'
    <2>1. Restarted => Restart(mem) \in Memory
      BY <1>1, RaisedCounts DEF Restarted, Adapted, Affordable, Restart
    <2>2. Budget(Restart(mem)) = Restart(Budget(mem))
      BY <1>1, BudgetOps
    <2>3. Restarted => /\ pc = "restarted" /\ pc' = "drain" /\ Save(Restart(mem))
                       /\ lost' = lost /\ spent' = Restart(spent)
      BY DEF Restarted, Adapted
    <2> QED
      BY <1>4, <2>1, <2>2, <2>3 DEF Save, SavedInv
  <1>15. RecordDir => SavedInv'
    <2>1. ASSUME RecordDir PROVE SavedInv'
      <3>1. pc = "record" /\ pc' = "decide" /\ lost' = lost /\ spent' = spent
        BY <2>1 DEF RecordDir
      <3>2. CASE StageDir \subseteq mem.dirs
        BY <2>1, <3>1, <3>2 DEF RecordDir, SavedInv
      <3>3. CASE ~(StageDir \subseteq mem.dirs)
        <4>1. StageDir \in SUBSET Nat
          <5>1. disk # {} => Max(disk) \in disk
            BY MaxIsIn DEF Typed, DockTyped, DiskTyped
          <5> QED
            BY <1>1, <5>1 DEF StageDir
        <4>2. Tracking(mem, StageDir) \in Memory
              /\ Budget(Tracking(mem, StageDir)) = Budget(mem)
          BY <1>1, <4>1, BudgetOps, MemoryOps
        <4>3. Save(Tracking(mem, StageDir))
          BY <2>1, <3>3 DEF RecordDir
        <4> QED
          BY <1>4, <3>1, <4>2, <4>3 DEF Save, SavedInv
      <3> QED
        BY <3>2, <3>3
    <2> QED
      BY <2>1
  <1>16. MountDrops => SavedInv'
    <2>1. Budget([mem EXCEPT !.dirs = {}]) = Budget(mem)
      BY <1>1, BudgetOps
    <2>2. MountDrops => /\ mem' = [mem EXCEPT !.dirs = {}] /\ lost' = TRUE
                        /\ UNCHANGED <<pc, spent>> /\ pc \in Saving \cup {"head", "finish"}
      BY DEF MountDrops
    <2> QED
      BY <2>1, <2>2 DEF SavedInv, Saving
  <1>17. Exit => SavedInv'
    <2>1. Exit => /\ pc = "exit" /\ GoesDown /\ Forgives /\ file' \in {file, Absent}
      BY DEF Exit
    <2> QED
      BY <1>5, <2>1 DEF SavedInv
  <1>18. Dies => SavedInv'
    <2>1. Dies => /\ GoesDown /\ Forgives /\ file' \in {file, Torn}
      BY DEF Dies
    <2> QED
      BY <1>5, <2>1 DEF SavedInv
  <1>19. Remembers => SavedInv'
    <2>1. Remembers => pc' = pc \/ (pc # "down" /\ pc' # "down")
      BY DEF Remembers, Launch, LaunchFails, EnterStage, LoopEnds, Identified,
             Unidentified, ClientExited, WaitForMessage, NoMessage, Receive,
             BeginReduction, BeginRestart, Delay, Intervenes, Stop, StopsContainer,
             StopFails, Stopped, StopMonitor, StageSucceeds, StagesExhausted, ResumeNext,
             Decides, CheckWarcs, StartBuild, NoBuild, BuildEnds, Finishes, Monitor,
             MonitorSignals, MonitorFails, MonitorEnds, MonitorStep, Docker, CrawlEnds,
             StrayEnds, ContainerStep, Detach, Done, vars
    <2>2. Remembers => UNCHANGED <<mem, file, lost, spent>>
      BY RemembersFrame DEF memVars
    <2> QED
      BY <2>1, <2>2 DEF SavedInv
  <1> QED
    BY <1>6, <1>7, <1>8, <1>9, <1>10, <1>11, <1>12, <1>13, <1>14, <1>15, <1>16, <1>17,
       <1>18, <1>19 DEF Next, Loop, Intervention, Fault, Signal, Crash, Remembers

LEMMA AlwaysSaved == Spec => []SavedInv
  <1>1. Init => SavedInv
    <2>1. Recorded(Absent) = FreshMemory
      BY DEF Recorded
    <2> QED
      BY <2>1 DEF Init, SavedInv
  <1>2. Typed /\ Affordable /\ SavedInv /\ [Next]_vars => SavedInv'
    <2>1. ASSUME SavedInv, UNCHANGED vars PROVE SavedInv'
      BY <2>1 DEF SavedInv, Recorded, vars, memVars
    <2> QED
      BY <2>1, SavedStep
  <1> QED
    BY <1>1, <1>2, AlwaysTyped, PTL DEF Spec

\* Whatever kills archive_tool, and however often, the run that follows has the workers
\* and the budgets that the adaptations of the crawl have left it, but for what a save
\* that was torn, or refused by a stale mount, could not put on file.
THEOREM BudgetsAreSaved == Spec => []SpentIsSaved
  <1>1. SavedInv => SpentIsSaved
    BY DEF SavedInv, SpentIsSaved
  <1> QED
    BY <1>1, AlwaysSaved, PTL

\* The loop, its monitor, Docker and the state file always have values of their
\* types: no budget is overdrawn, no stage counted past the last, and no temp dir
\* remembered that no container has made.
THEOREM RunTyped == Spec => []TypeOK
  <1>1. Typed /\ SavedInv => TypeOK
    <2> SUFFICES ASSUME Typed, SavedInv PROVE spent \in Memory
      BY TypedIsTypeOK
    <2>1. mem \in Memory /\ Budget(mem) \in Memory
      BY BudgetOps DEF Typed, MemTyped
    <2>2. Recorded(file) \in Memory
      <3>1. CASE file \in {Absent, Torn}
        BY <3>1, FreshInMemory DEF Recorded
      <3>2. CASE file \notin {Absent, Torn}
        <4>1. file \in Memory
          BY <3>2 DEF Typed, MemTyped
        <4> QED
          BY <4>1, BudgetOps
      <3> QED
        BY <3>1, <3>2
    <2> QED
      BY <2>1, <2>2 DEF SavedInv
  <1> QED
    BY <1>1, AlwaysTyped, AlwaysSaved, PTL

----------------------------------------------------------------------------
(* What the final build has before it.                                               *)

\* While a stage is under way its own temp dir may be missing from the list; at
\* any other time of a run none is, unless a stale mount emptied the list.
Staged == {"launch", "watch", "get", "adapt", "reducing", "reduced", "restarting",
           "restarted", "drain", "record"}
ListedInv ==
    pc \notin {"down", "setup"} /\ ~lost =>
        disk \ discarded \subseteq mem.dirs \cup (IF pc \in Staged THEN {serial} ELSE {})

LEMMA ListedStep == Typed /\ Affordable /\ ListedInv /\ Next => ListedInv'
  <1> SUFFICES ASSUME Typed, Affordable, ListedInv, Next PROVE ListedInv'
    OBVIOUS
  <1>1. mem \in Memory /\ disk \subseteq Nat
    BY DEF Typed, DockTyped, MemTyped, DiskTyped
  <1>2. Discovered.dirs = disk
    BY <1>1, DiscoversAll
  <1>3. ASSUME UNCHANGED <<disk, discarded, serial, lost>>, mem'.dirs = mem.dirs,
               pc \notin {"down", "setup"} \/ pc' = pc, pc \in Staged => pc' \in Staged
        PROVE  ListedInv'
    BY <1>3 DEF ListedInv
  <1>4. Start \/ RefuseZim \/ Exit \/ Dies => ListedInv'
    BY DEF Start, RefuseZim, Exit, Dies, GoesDown, ListedInv
  <1>5. FreshOverwrite => ListedInv'
    BY DEF FreshOverwrite, Prepare, ListedInv
  <1>6. ResumeCrawl => ListedInv'
    BY <1>2 DEF ResumeCrawl, Prepare, Save, ListedInv
  <1>7. NewCrawl => ListedInv'
    <2>1. ResetCounts(Discovered).dirs = disk
      BY <1>1, <1>2, DiscoversAll, MemoryOps
    <2> QED
      BY <2>1 DEF NewCrawl, Prepare, Save, ListedInv
  <1>8. Launch => ListedInv'
    <2>1. Launch => pc = "head" /\ UNCHANGED <<mem, disk, discarded, lost>>
      BY DEF Launch, EnterStage, memVars
    <2> QED
      BY <2>1 DEF ListedInv, Staged
  <1>9. LaunchFails \/ LoopEnds => ListedInv'
    <2>1. LaunchFails \/ LoopEnds =>
             pc = "head" /\ UNCHANGED <<mem, disk, discarded, serial, lost>>
      BY DEF LaunchFails, LoopEnds, EnterStage, memVars, dockVars, diskVars
    <2> QED
      BY <1>3, <2>1 DEF Staged
  <1>10. Identified \/ Unidentified => ListedInv'
    BY DEF Identified, Unidentified, Labelled, ListedInv, Staged, memVars, dockVars
  <1>11. ClientExited \/ WaitForMessage \/ NoMessage \/ Receive => ListedInv'
    BY <1>3 DEF ClientExited, WaitForMessage, NoMessage, Receive, Staged, memVars,
                dockVars, diskVars
  <1>12. Rediscover => ListedInv'
    BY <1>2 DEF Rediscover, Save, ListedInv, dockVars, diskVars
  <1>13. Intervention => ListedInv'
    <2>1. Rotate => mem'.dirs = mem.dirs
      BY <1>1, RaisedCounts DEF Rotate, CanRotate, Rotation, Save
    <2> QED
      BY <1>3, <2>1 DEF Intervention, BeginReduction, Rotate, BeginRestart, Delay,
                        Intervenes, Staged, dockVars, diskVars
  <1>14. ASSUME NEW f \in Staged, NEW n \in Staged, Stop(f, n) PROVE ListedInv'
    BY <1>3, <1>14 DEF Stop, StopsContainer, StopFails, Stopped, Staged, memVars
  <1>15. Reduced \/ Restarted => ListedInv'
    <2>1. Reduced => mem'.dirs = mem.dirs
      BY <1>1, RaisedCounts DEF Reduced, Adapted, Reduction, Save, Affordable
    <2>2. Restarted => mem'.dirs = mem.dirs
      BY <1>1, RaisedCounts DEF Restarted, Adapted, Restart, Save, Affordable
    <2> QED
      BY <1>3, <2>1, <2>2 DEF Reduced, Restarted, Adapted, Staged, diskVars
  <1>16. StopMonitor => ListedInv'
    BY <1>3 DEF StopMonitor, Staged, memVars, dockVars, diskVars
  <1>17. RecordDir => ListedInv'
    <2>1. ASSUME RecordDir PROVE StageDir \subseteq mem'.dirs /\ mem.dirs \subseteq mem'.dirs
      <3>1. CASE StageDir \subseteq mem.dirs
        BY <2>1, <3>1 DEF RecordDir
      <3>2. CASE ~(StageDir \subseteq mem.dirs)
        <4>1. mem' = Tracking(mem, StageDir)
          BY <2>1, <3>2 DEF RecordDir, Save
        <4>2. StageDir \in SUBSET Nat
          <5>1. disk # {} => Max(disk) \in disk
            BY MaxIsIn DEF Typed, DockTyped, DiskTyped
          <5> QED
            BY <1>1, <5>1 DEF StageDir
        <4>3. mem'.dirs = mem.dirs \cup StageDir
          BY <1>1, <4>1, <4>2, MemoryOps
        <4> QED
          BY <4>3
      <3> QED
        BY <3>1, <3>2
    <2>2. serial \in disk => StageDir = {serial}
      BY DEF StageDir
    <2>3. RecordDir => /\ pc = "record" /\ pc' = "decide"
                       /\ UNCHANGED <<disk, discarded, serial, lost>>
      BY DEF RecordDir, dockVars, diskVars
    <2> QED
      BY <2>1, <2>2, <2>3 DEF ListedInv, Staged
  <1>18. StageSucceeds \/ StagesExhausted \/ ResumeNext => ListedInv'
    BY <1>3 DEF StageSucceeds, StagesExhausted, ResumeNext, Decides, Staged, memVars,
                dockVars, diskVars
  <1>19. CheckWarcs \/ StartBuild \/ NoBuild \/ BuildEnds => ListedInv'
    BY DEF CheckWarcs, StartBuild, NoBuild, BuildEnds, Finishes, ListedInv, Staged,
           memVars, diskVars
  <1>20. Monitor \/ Docker \/ Detach \/ Done => ListedInv'
    <2>1. Monitor \/ Docker \/ Detach \/ Done =>
             UNCHANGED <<pc, mem, disk, discarded, serial, lost>>
      BY DEF Monitor, MonitorSignals, MonitorFails, MonitorEnds, MonitorStep, Docker,
             CrawlEnds, StrayEnds, ContainerStep, Detach, Done, memVars, dockVars,
             diskVars, vars
    <2> QED
      BY <1>3, <2>1
  <1>21. MountDrops => ListedInv'
    BY DEF MountDrops, ListedInv
  <1> QED
    BY <1>4, <1>5, <1>6, <1>7, <1>8, <1>9, <1>10, <1>11, <1>12, <1>13, <1>14, <1>15,
       <1>16, <1>17, <1>18, <1>19, <1>20, <1>21
       DEF Next, Loop, Fault, Signal, Crash, Staged

\* Crashes, torn state files, signals and retries lose no stage: a build that
\* starts, and a crawl that is reported as done, has every temp dir with WARCs that
\* was not set aside, unless a mount went stale in this very run.
THEOREM NoStageIsLost == Spec => []BuildSeesAll
  <1>1. Init => ListedInv
    BY DEF Init, ListedInv
  <1>2. Typed /\ Affordable /\ ListedInv /\ [Next]_vars => ListedInv'
    BY ListedStep DEF ListedInv, vars, memVars, dockVars, diskVars
  <1>3. ListedInv => BuildSeesAll
    BY DEF ListedInv, BuildSeesAll, Staged
  <1> QED
    BY <1>1, <1>2, <1>3, AlwaysTyped, PTL DEF Spec

----------------------------------------------------------------------------
(* What a success stands on.                                                         *)

\* Where the verdict of a run may stand, and what it goes back to.
VerdictInv ==
    /\ rc # "none" => client = "gone"
    /\ final = "pending" => /\ pc \in {"finish", "build"}
                            /\ stage = "running" /\ rc = "ok"
    /\ pc = "build" => final = "pending" /\ mem.dirs # {}
    /\ final = "success" => /\ pc = "exit"
                            /\ stage = "running" /\ rc = "ok" /\ mem.dirs # {}

LEMMA VerdictStep == Typed /\ Affordable /\ VerdictInv /\ Next => VerdictInv'
  <1> SUFFICES ASSUME Typed, Affordable, VerdictInv, Next PROVE VerdictInv'
    OBVIOUS
  <1> DEFINE Ended == {"finish", "build", "exit"}
  <1>1. HasWarcs(mem) => mem.dirs # {}
    BY DEF HasWarcs, Existing, Typed, MemTyped, Memory
  <1>2. rc # "none" => client = "gone"
    BY DEF VerdictInv
  <1>3. ASSUME pc \notin Ended, pc' # "build", final' = final,
               rc' # "none" => client' = "gone"
        PROVE  VerdictInv'
    BY <1>3 DEF VerdictInv
  <1>4. ASSUME UNCHANGED <<pc, final, stage, mem>>, rc' # "none" => client' = "gone",
               pc = "build" \/ client = "gone" => rc' = rc
        PROVE  VerdictInv'
    BY <1>4 DEF VerdictInv
  <1>5. RefuseZim \/ Exit \/ Dies => VerdictInv'
    BY DEF RefuseZim, Exit, Dies, GoesDown, VerdictInv
  <1>6. Start \/ LoopEnds \/ Identified \/ Unidentified \/ ClientExited \/ WaitForMessage
        \/ NoMessage \/ Receive \/ Rediscover => VerdictInv'
    BY <1>2, <1>3 DEF Start, LoopEnds, Identified, Unidentified, ClientExited,
                      WaitForMessage, NoMessage, Receive, Rediscover, loopVars, dockVars
  <1>7. FreshOverwrite \/ ResumeCrawl \/ NewCrawl => VerdictInv'
    <2>1. ASSUME NEW m, NEW name, NEW ds, Prepare(m, name, ds) PROVE VerdictInv'
      BY <1>2, <1>3, <2>1 DEF Prepare, dockVars
    <2> QED
      BY <2>1 DEF FreshOverwrite, ResumeCrawl, NewCrawl
  <1>8. Launch => VerdictInv'
    BY <1>3 DEF Launch, EnterStage
  <1>9. LaunchFails => VerdictInv'
    BY DEF LaunchFails, EnterStage, VerdictInv
  <1>10. Intervention => VerdictInv'
    BY <1>2, <1>3 DEF Intervention, BeginReduction, Rotate, BeginRestart, Delay,
                      Intervenes, loopVars, dockVars
  <1>11. ASSUME NEW f \in Pcs \ Ended, NEW n \in Pcs \ Ended, Stop(f, n) PROVE VerdictInv'
    <2>1. pc = f /\ pc' = n /\ final' = final
      BY <1>11 DEF Stop, StopsContainer, StopFails, Stopped, loopVars
    <2>2. rc' # "none" => client' = "gone"
      BY <1>2, <1>11 DEF Stop, StopsContainer, StopFails
    <2> QED
      BY <1>3, <2>1, <2>2
  <1>12. Reduced \/ Restarted => VerdictInv'
    BY <1>3 DEF Reduced, Restarted, Adapted
  <1>13. StopMonitor \/ RecordDir => VerdictInv'
    BY <1>2, <1>3 DEF StopMonitor, RecordDir, loopVars, dockVars
  <1>14. StageSucceeds => VerdictInv'
    BY DEF StageSucceeds, Succeeded, Decides, VerdictInv, dockVars, memVars
  <1>15. StagesExhausted \/ ResumeNext => VerdictInv'
    BY DEF StagesExhausted, ResumeNext, Decides, VerdictInv, dockVars, memVars
  <1>16. CheckWarcs => VerdictInv'
    BY <1>1 DEF CheckWarcs, Finishes, VerdictInv, memVars
  <1>17. StartBuild => VerdictInv'
    BY <1>1 DEF StartBuild, Finishes, VerdictInv, memVars
  <1>18. NoBuild => VerdictInv'
    BY DEF NoBuild, Finishes, VerdictInv, memVars
  <1>19. BuildEnds => VerdictInv'
    BY DEF BuildEnds, BuildVerdict, VerdictInv, memVars
  <1>20. Monitor \/ Docker \/ Detach \/ Done => VerdictInv'
    <2>1. Monitor \/ Done => VerdictInv'
      BY <1>2, <1>4 DEF Monitor, MonitorSignals, MonitorFails, MonitorEnds, MonitorStep,
                        Done, loopVars, dockVars, memVars, vars
    <2>2. CrawlEnds => VerdictInv'
      BY <1>2, <1>4 DEF CrawlEnds, IsStage, ContainerStep, loopVars, memVars
    <2>3. StrayEnds => VerdictInv'
      BY <1>2, <1>4 DEF StrayEnds, ContainerStep, loopVars, memVars
    <2>4. Detach => VerdictInv'
      BY <1>3 DEF Detach, loopVars
    <2> QED
      BY <2>1, <2>2, <2>3, <2>4 DEF Docker
  <1>21. MountDrops => VerdictInv'
    BY DEF MountDrops, Saving, VerdictInv, loopVars, dockVars
  <1> QED
    BY <1>5, <1>6, <1>7, <1>8, <1>9, <1>10, <1>11, <1>12, <1>13, <1>14, <1>15, <1>16,
       <1>17, <1>18, <1>19, <1>20, <1>21
       DEF Next, Loop, Fault, Signal, Crash, Pcs, Running, Saving

\* Exit status 0 stands for a crawl whose client ended by itself with an accepted
\* code and that was not stopped for an adaptation in the same moment, with a temp
\* dir to show for it.
THEOREM SuccessIsEarned == Spec => []SuccessWasCrawled
  <1>1. Init => VerdictInv
    BY DEF Init, VerdictInv
  <1>2. Typed /\ Affordable /\ VerdictInv /\ [Next]_vars => VerdictInv'
    BY VerdictStep DEF VerdictInv, vars, loopVars, dockVars, memVars
  <1>3. VerdictInv => SuccessWasCrawled
    BY DEF VerdictInv, SuccessWasCrawled
  <1> QED
    BY <1>1, <1>2, <1>3, AlwaysTyped, PTL DEF Spec

----------------------------------------------------------------------------
(* What containers are started for.                                                  *)

Paid(m) == m.reductions + m.restarts
InStage == {"launch", "watch", "get", "adapt", "reducing", "reduced", "restarting",
            "restarted"}
AfterStage == {"drain", "record", "decide"}

\* Each container of a run is the first of an attempt, or was paid for by an
\* adaptation; the one of the current stage is accounted for when the stage is.
PaidInv ==
    /\ launches <= attempt + Paid(mem)
    /\ pc \in {"down", "setup"} => launches = 0
    /\ pc = "head" => launches <= attempt - 1 + Paid(mem)
    /\ pc \in InStage => stage = "running"
    /\ pc \in AfterStage /\ stage # "running" => launches <= attempt - 1 + Paid(mem)

LEMMA PaidTyped ==
  ASSUME Typed
  PROVE  /\ attempt \in Nat /\ attempt >= 1 /\ launches \in Nat
         /\ Paid(mem) \in Nat /\ Paid(mem) <= MaxReductions + MaxRestarts
  <1>1. attempt \in Nat /\ attempt >= 1 /\ launches \in Nat
    BY BudgetsAssumption DEF Typed, LoopTyped
  <1>2. mem.reductions \in 0 .. MaxReductions /\ mem.restarts \in 0 .. MaxRestarts
    BY DEF Typed, MemTyped, Memory
  <1> QED
    BY <1>1, <1>2, BudgetsAssumption DEF Paid

LEMMA PaidStep == Typed /\ Affordable /\ PaidInv /\ Next => PaidInv'
  <1> SUFFICES ASSUME Typed, Affordable, PaidInv, Next PROVE PaidInv'
    OBVIOUS
  <1>1. mem \in Memory /\ disk \subseteq Nat
    BY DEF Typed, DockTyped, MemTyped, DiskTyped
  <1>2. attempt \in Nat /\ attempt >= 1 /\ launches \in Nat /\ Paid(mem) \in Nat
    BY PaidTyped
  <1>3. Paid(mem)' \in Nat
    <2>1. mem' \in Memory
      BY MemTypes DEF MemTyped
    <2>2. mem'.reductions \in 0 .. MaxReductions /\ mem'.restarts \in 0 .. MaxRestarts
      BY <2>1 DEF Memory
    <2> QED
      BY <2>2, BudgetsAssumption DEF Paid
  <1>4. ASSUME UNCHANGED <<launches, attempt, stage>>, Paid(mem)' = Paid(mem),
               pc \in {"down", "setup"} \/ pc' \notin {"down", "setup"},
               pc' = "head" => pc = "head", pc' \in InStage => pc \in InStage,
               pc' \in AfterStage => pc \in InStage \cup AfterStage
        PROVE  PaidInv'
    BY <1>2, <1>4 DEF PaidInv, InStage, AfterStage
  <1>5. RefuseZim \/ Exit \/ Dies => PaidInv'
    <2>1. RefuseZim \/ Exit \/ Dies => pc' = "down" /\ attempt' = 1 /\ launches' = 0
      BY DEF RefuseZim, Exit, Dies, GoesDown
    <2> QED
      BY <1>3, <2>1 DEF PaidInv, InStage, AfterStage
  <1>6. Start => PaidInv'
    <2>1. Start => /\ pc = "down" /\ pc' = "setup" /\ attempt' = attempt
                   /\ launches' = launches
      BY DEF Start, loopVars
    <2> QED
      BY <1>2, <1>3, <2>1 DEF PaidInv, InStage, AfterStage
  <1>7. FreshOverwrite \/ ResumeCrawl \/ NewCrawl => PaidInv'
    <2>1. ASSUME NEW m, NEW name, NEW ds, Prepare(m, name, ds) PROVE PaidInv'
      <3>1. pc = "setup" /\ pc' = "head" /\ attempt' = attempt /\ launches' = launches
        BY <2>1 DEF Prepare
      <3> QED
        BY <1>2, <1>3, <3>1 DEF PaidInv, InStage, AfterStage
    <2> QED
      BY <2>1 DEF FreshOverwrite, ResumeCrawl, NewCrawl
  <1>8. Launch => PaidInv'
    <2>1. Launch => /\ pc = "head" /\ pc' = "launch" /\ stage' = "running"
                    /\ launches' = launches + 1 /\ attempt' = attempt /\ mem' = mem
      BY DEF Launch, EnterStage, memVars
    <2>2. Launch => Paid(mem)' = Paid(mem)
      BY <2>1
    <2> QED
      BY <1>2, <2>1, <2>2 DEF PaidInv, InStage, AfterStage
  <1>9. \/ LaunchFails \/ LoopEnds \/ Identified \/ Unidentified \/ ClientExited
        \/ WaitForMessage \/ NoMessage \/ Receive \/ StopMonitor
        => PaidInv'
    <2>1. \/ LaunchFails \/ LoopEnds \/ Identified \/ Unidentified \/ ClientExited
          \/ WaitForMessage \/ NoMessage \/ Receive \/ StopMonitor
          => UNCHANGED <<launches, attempt, stage, mem>>
      BY DEF LaunchFails, LoopEnds, Identified, Unidentified, ClientExited,
             WaitForMessage, NoMessage, Receive, StopMonitor, loopVars, memVars
    <2>2. \/ LaunchFails \/ LoopEnds \/ Identified \/ Unidentified \/ ClientExited
          \/ WaitForMessage \/ NoMessage \/ Receive \/ StopMonitor
          => \/ pc \in InStage /\ pc' \in InStage \cup AfterStage
             \/ pc \in AfterStage /\ pc' \in AfterStage
             \/ pc' = "finish"
      BY DEF LaunchFails, EnterStage, LoopEnds, Identified, Unidentified, ClientExited,
             WaitForMessage, NoMessage, Receive, StopMonitor, InStage, AfterStage
    <2> QED
      BY <1>4, <2>1, <2>2 DEF InStage, AfterStage
  <1>10. Rediscover => PaidInv'
    <2>1. Rediscover => Paid(mem)' = Paid(mem)
      BY <1>1, DiscoversAll DEF Rediscover, Save, Paid
    <2> QED
      BY <1>4, <2>1 DEF Rediscover, loopVars, InStage
  <1>11. Intervention => PaidInv'
    <2>1. Intervention => Paid(mem)' = Paid(mem)
      BY <1>1, RaisedCounts DEF Intervention, BeginReduction, Rotate, CanRotate, Rotation, Save,
                                BeginRestart, Delay, Paid
    <2>2. Intervention => /\ pc \in InStage /\ pc' \in InStage
                          /\ UNCHANGED <<launches, attempt, stage>>
      BY DEF Intervention, BeginReduction, Rotate, BeginRestart, Delay, Intervenes,
             InStage, loopVars
    <2> QED
      BY <1>4, <2>1, <2>2 DEF InStage
  <1>12. Stop("reducing", "reduced") \/ Stop("restarting", "restarted") => PaidInv'
    <2>1. ASSUME NEW f \in InStage, NEW n \in InStage, Stop(f, n) PROVE PaidInv'
      <3>1. pc = f /\ pc' = n /\ UNCHANGED <<launches, attempt, stage, mem>>
        BY <2>1 DEF Stop, StopsContainer, StopFails, Stopped, loopVars, memVars
      <3> QED
        BY <1>4, <2>1, <3>1 DEF InStage
    <2> QED
      BY <2>1 DEF InStage
  <1>13. Reduced \/ Restarted => PaidInv'
    <2>1. Reduced => Paid(mem)' = Paid(mem) + 1
      <3>1. ASSUME Reduced
            PROVE  mem'.reductions = mem.reductions + 1 /\ mem'.restarts = mem.restarts
        BY <1>1, <3>1, RaisedCounts DEF Reduced, Adapted, Reduction, Save, Affordable
      <3>2. mem.reductions \in Int /\ mem.restarts \in Int
        BY <1>1 DEF Memory
      <3> QED
        BY <3>1, <3>2 DEF Paid
    <2>2. Restarted => Paid(mem)' = Paid(mem) + 1
      <3>1. ASSUME Restarted
            PROVE  mem'.reductions = mem.reductions /\ mem'.restarts = mem.restarts + 1
        BY <1>1, <3>1, RaisedCounts DEF Restarted, Adapted, Restart, Save, Affordable
      <3>2. mem.reductions \in Int /\ mem.restarts \in Int
        BY <1>1 DEF Memory
      <3> QED
        BY <3>1, <3>2 DEF Paid
    <2>3. Reduced \/ Restarted => pc' = "drain" /\ UNCHANGED <<launches, attempt>>
      BY DEF Reduced, Restarted, Adapted
    <2> QED
      BY <1>2, <2>1, <2>2, <2>3 DEF PaidInv, InStage, AfterStage
  <1>14. RecordDir => PaidInv'
    <2>1. StageDir \in SUBSET Nat
      <3>1. disk # {} => Max(disk) \in disk
        BY MaxIsIn DEF Typed, DockTyped, DiskTyped
      <3> QED
        BY <1>1, <3>1 DEF StageDir
    <2>2. RecordDir => mem' \in {mem, Tracking(mem, StageDir)}
      BY DEF RecordDir, Save
    <2>3. RecordDir => Paid(mem)' = Paid(mem)
      BY <1>1, <2>1, <2>2, MemoryOps DEF Paid
    <2> QED
      BY <1>4, <2>3 DEF RecordDir, loopVars, InStage, AfterStage
  <1>15. StageSucceeds \/ StagesExhausted => PaidInv'
    BY <1>4 DEF StageSucceeds, StagesExhausted, Decides, InStage, AfterStage, memVars,
                Paid
  <1>16. ResumeNext => PaidInv'
    <2>1. ResumeNext => /\ pc = "decide" /\ pc' \in {"head", "finish"}
                        /\ UNCHANGED <<launches, stage, mem>>
                        /\ attempt' = IF stage = "running" THEN attempt + 1 ELSE attempt
      BY DEF ResumeNext, Decides, memVars
    <2>2. ResumeNext => Paid(mem)' = Paid(mem)
      BY <2>1
    <2> QED
      BY <1>2, <2>1, <2>2 DEF PaidInv, InStage, AfterStage
  <1>17. CheckWarcs \/ StartBuild \/ NoBuild \/ BuildEnds => PaidInv'
    <2>1. CheckWarcs \/ StartBuild \/ NoBuild \/ BuildEnds =>
             pc' \in {"exit", "build"} /\ UNCHANGED <<launches, attempt, stage, mem>>
      BY DEF CheckWarcs, StartBuild, NoBuild, BuildEnds, Finishes, memVars
    <2> QED
      BY <1>4, <2>1 DEF InStage, AfterStage
  <1>18. Monitor \/ Docker \/ Detach \/ Done => PaidInv'
    <2>1. Monitor \/ Docker \/ Detach \/ Done =>
             UNCHANGED <<pc, launches, attempt, stage, mem>>
      BY DEF Monitor, MonitorSignals, MonitorFails, MonitorEnds, MonitorStep, Docker,
             CrawlEnds, StrayEnds, ContainerStep, Detach, Done, loopVars, memVars, vars
    <2> QED
      BY <1>4, <2>1
  <1>19. MountDrops => PaidInv'
    <2>1. MountDrops => Paid(mem)' = Paid(mem)
      BY <1>1 DEF MountDrops, Memory, Paid
    <2> QED
      BY <1>4, <2>1 DEF MountDrops, loopVars
  <1>20. Fault => PaidInv'
    BY <1>5, <1>18, <1>19 DEF Fault, Signal, Crash
  <1>21. Loop => PaidInv'
    BY <1>5, <1>7, <1>8, <1>9, <1>10, <1>11, <1>12, <1>13, <1>14, <1>15, <1>16, <1>17
       DEF Loop
  <1> QED
    BY <1>6, <1>18, <1>20, <1>21 DEF Next

\* However often the monitors report a stall, and whichever of the strategies the
\* reports meet, a run starts no more containers than its stages and budgets allow.
THEOREM LaunchesArePaid == Spec => []LaunchesAreBudgeted
  <1>1. Init => PaidInv
    <2> SUFFICES ASSUME Init PROVE PaidInv
      OBVIOUS
    <2>1. mem.reductions = 0 /\ mem.restarts = 0
      BY FreshInMemory DEF Init
    <2>2. Paid(mem) = 0
      BY <2>1 DEF Paid
    <2>3. pc = "down" /\ launches = 0 /\ attempt = 1 /\ stage = "running"
      BY DEF Init
    <2> QED
      BY <2>2, <2>3 DEF PaidInv, InStage, AfterStage
  <1>2. Typed /\ Affordable /\ PaidInv /\ [Next]_vars => PaidInv'
    BY PaidStep DEF PaidInv, Paid, vars, loopVars, memVars
  <1>3. Typed /\ PaidInv => LaunchesAreBudgeted
    <2> SUFFICES ASSUME Typed, PaidInv PROVE LaunchesAreBudgeted
      OBVIOUS
    <2>1. attempt <= MaxStages /\ attempt \in Nat
      BY BudgetsAssumption DEF Typed, LoopTyped
    <2>2. launches <= attempt + Paid(mem)
      BY DEF PaidInv
    <2> QED
      BY <2>1, <2>2, PaidTyped, BudgetsAssumption DEF LaunchesAreBudgeted
  <1> QED
    BY <1>1, <1>2, <1>3, AlwaysTyped, PTL DEF Spec

----------------------------------------------------------------------------
(* What runs in the output directory.                                                *)

Others == up \ {serial}

\* The containers besides the present one are accounted for; so is the present one
\* as soon as its client is gone, and whenever none should run.
LeaksInv ==
    /\ pc \in Running => Cardinality(Others) <= leaks
    /\ pc \notin Running => Cardinality(up) <= leaks
    /\ pc \in Running \ {"build"} /\ client = "gone" => Cardinality(up) <= leaks

LEMMA UpIsFinite ==
  ASSUME Typed
  PROVE  IsFiniteSet(up) /\ Cardinality(up) \in Nat
  <1>1. serial \in Nat /\ up \subseteq 1 .. serial
    BY DEF Typed, DockTyped
  <1>2. IsFiniteSet(1 .. serial)
    BY <1>1, FS_Interval
  <1>3. IsFiniteSet(up)
    BY <1>1, <1>2, FS_Subset
  <1> QED
    BY <1>3, FS_CardinalityType

\* Fewer containers are fewer leaks.
LEMMA FewerUp ==
  ASSUME NEW S, IsFiniteSet(S), NEW T, T \subseteq S
  PROVE  IsFiniteSet(T) /\ Cardinality(T) \in Nat /\ Cardinality(S) \in Nat
         /\ Cardinality(T) <= Cardinality(S)
  <1>1. IsFiniteSet(T) /\ Cardinality(T) <= Cardinality(S)
    BY FS_Subset
  <1> QED
    BY <1>1, FS_CardinalityType

LEMMA LeaksStep == Typed /\ LeaksInv /\ Next => LeaksInv'
  <1> SUFFICES ASSUME Typed, LeaksInv, Next PROVE LeaksInv'
    OBVIOUS
  <1>1. /\ serial \in Nat /\ up \subseteq 1 .. serial /\ leaks \in Nat
        /\ IsFiniteSet(up) /\ Cardinality(up) \in Nat
    BY UpIsFinite DEF Typed, DockTyped
  <1>2. /\ Cardinality(Others) \in Nat /\ Cardinality(Others) <= Cardinality(up)
        /\ IsFiniteSet(Others)
        /\ serial \in up => Cardinality(up) = Cardinality(Others) + 1
        /\ serial \notin up => Others = up
    <2>1. Cardinality(Others) = IF serial \in up THEN Cardinality(up) - 1
                                                 ELSE Cardinality(up)
      BY <1>1, FS_RemoveElement DEF Others
    <2>2. Others \subseteq up
      BY DEF Others
    <2>3. Cardinality(Others) \in Nat /\ IsFiniteSet(Others)
      BY <1>1, <2>2, FewerUp
    <2> QED
      BY <1>1, <2>1, <2>3 DEF Others
  <1>3. /\ pc \notin Running => Cardinality(up) <= leaks
        /\ pc \in Running => Cardinality(up) <= leaks + 1
        /\ pc \in Running /\ pc # "build" /\ client = "gone" => Cardinality(up) <= leaks
        /\ Cardinality(Others) <= leaks
    BY <1>1, <1>2 DEF LeaksInv
  <1>4. ASSUME pc' \notin Running, Cardinality(up') <= leaks' PROVE LeaksInv'
    BY <1>4 DEF LeaksInv
  <1>5. ASSUME pc \notin Running, pc' \notin Running, UNCHANGED <<up, leaks>>
        PROVE  LeaksInv'
    BY <1>3, <1>4, <1>5
  <1>6. ASSUME pc \in Running \ {"build"}, pc' \in Running \ {"build"},
               UNCHANGED <<up, leaks, serial, client>>
        PROVE  LeaksInv'
    BY <1>3, <1>6 DEF LeaksInv, Others
  <1>7. ASSUME pc \notin Running, pc' = "build" \/ client' = "run", pc' \in Running,
               up' = up \cup {serial + 1}, serial' = serial + 1, leaks' = leaks
        PROVE  LeaksInv'
    <2>1. serial + 1 \notin up
      BY <1>1
    <2>2. Others' = up
      BY <1>7, <2>1 DEF Others
    <2> QED
      BY <1>3, <1>7, <2>2 DEF LeaksInv
  <1>8. \/ Start \/ RefuseZim \/ FreshOverwrite \/ ResumeCrawl \/ NewCrawl \/ LaunchFails
        \/ LoopEnds \/ Reduced \/ Restarted
        => LeaksInv'
    BY <1>5 DEF Start, RefuseZim, GoesDown, FreshOverwrite, ResumeCrawl, NewCrawl,
                Prepare, LaunchFails, EnterStage, LoopEnds, Reduced, Restarted, Adapted,
                Running, dockVars
  <1>9. \/ StopMonitor \/ RecordDir \/ StageSucceeds \/ StagesExhausted \/ ResumeNext
        \/ CheckWarcs \/ NoBuild \/ Exit
        => LeaksInv'
    BY <1>5 DEF StopMonitor, RecordDir, StageSucceeds, StagesExhausted, ResumeNext,
                Decides, CheckWarcs, NoBuild, Finishes, Exit, GoesDown, Running, dockVars
  <1>10. \/ Identified \/ Unidentified \/ WaitForMessage \/ NoMessage \/ Receive
         \/ Rediscover \/ Intervention
         => LeaksInv'
    BY <1>6 DEF Identified, Unidentified, WaitForMessage, NoMessage, Receive, Rediscover,
                Intervention, BeginReduction, Rotate, BeginRestart, Delay, Intervenes,
                Running, dockVars
  <1>11. ClientExited => LeaksInv'
    BY <1>3, <1>4 DEF ClientExited, Running, dockVars
  <1>12. Launch \/ StartBuild => LeaksInv'
    BY <1>7 DEF Launch, EnterStage, StartBuild, Finishes, Running
  <1>13. Stop("reducing", "reduced") \/ Stop("restarting", "restarted") => LeaksInv'
    <2>1. ASSUME NEW f, NEW n \in {"reduced", "restarted"}, Stop(f, n) PROVE LeaksInv'
      <3>1. pc' \notin Running
        BY <2>1 DEF Stop, StopsContainer, StopFails, Stopped, Running
      <3>2. CASE StopsContainer(f, n)
        <4>1. up' = Others /\ leaks' = leaks
          BY <3>2 DEF StopsContainer, Others
        <4> QED
          BY <1>3, <1>4, <3>1, <4>1
      <3>3. CASE StopFails(f, n)
        <4>1. up' = up /\ leaks' = leaks + 1
          BY <3>3 DEF StopFails
        <4> QED
          BY <1>1, <1>2, <1>3, <1>4, <3>1, <4>1
      <3> QED
        BY <2>1, <3>2, <3>3 DEF Stop
    <2> QED
      BY <2>1
  <1>14. BuildEnds => LeaksInv'
    <2>1. BuildEnds => pc' = "exit" /\ up' = Others /\ leaks' = leaks
      BY DEF BuildEnds, Others
    <2> QED
      BY <1>3, <1>4, <2>1 DEF Running
  <1>15. Monitor \/ MountDrops \/ Done => LeaksInv'
    <2>1. Monitor \/ MountDrops \/ Done => UNCHANGED <<pc, up, serial, leaks, client>>
      BY DEF Monitor, MonitorSignals, MonitorFails, MonitorEnds, MonitorStep, MountDrops,
             Done, dockVars, vars
    <2> QED
      BY <2>1 DEF LeaksInv, Others
  <1>16. Docker => LeaksInv'
    <2>1. ASSUME CrawlEnds PROVE LeaksInv'
      <3>1. /\ up' = Others /\ UNCHANGED <<pc, serial, leaks>>
        BY <2>1 DEF CrawlEnds, ContainerStep, Others
      <3>2. Others' = Others
        BY <3>1 DEF Others
      <3> QED
        BY <1>3, <3>1, <3>2 DEF LeaksInv
    <2>2. ASSUME StrayEnds PROVE LeaksInv'
      <3>1. /\ up' \subseteq up /\ UNCHANGED <<pc, serial, leaks, client>>
        BY <2>2 DEF StrayEnds, ContainerStep
      <3>2. Cardinality(up') <= Cardinality(up) /\ Cardinality(up') \in Nat
        BY <1>1, <3>1, FewerUp
      <3>3. Others' \subseteq Others
        BY <3>1 DEF Others
      <3>4. Cardinality(Others') <= Cardinality(Others) /\ Cardinality(Others') \in Nat
        BY <1>2, <3>3, FewerUp
      <3>5. pc \in Running /\ pc # "build" /\ client = "gone" => Cardinality(up') <= leaks
        BY <1>1, <1>3, <3>2
      <3>6. pc \notin Running => Cardinality(up') <= leaks
        BY <1>1, <1>3, <3>2
      <3>7. Cardinality(Others') <= leaks
        BY <1>1, <1>2, <1>3, <3>4
      <3> QED
        BY <3>1, <3>5, <3>6, <3>7 DEF LeaksInv
    <2> QED
      BY <2>1, <2>2 DEF Docker
  <1>17. Detach => LeaksInv'
    <2> SUFFICES ASSUME Detach PROVE LeaksInv'
      OBVIOUS
    <2>1. /\ pc \in Running /\ UNCHANGED <<pc, up, serial>> /\ leaks' = leaks + 1
      BY DEF Detach, Running
    <2>2. Others' = Others
      BY <2>1 DEF Others
    <2>3. Cardinality(Others) <= leaks + 1
      BY <1>1, <1>2, <1>3
    <2> QED
      BY <1>3, <2>1, <2>2, <2>3 DEF LeaksInv
  <1>18. ASSUME Dies, up' \in {Others, up, {}} PROVE LeaksInv'
    <2> DEFINE Left == IF pc \in Running THEN Cardinality({serial} \cap up') ELSE 0
    <2>1. pc' = "down" /\ leaks' = leaks + Left
      BY <1>18 DEF Dies, GoesDown
    <2>2. Cardinality({}) = 0 /\ Cardinality({serial}) = 1
      BY FS_EmptySet, FS_Singleton
    <2>3. CASE up' = Others
      <3>1. {serial} \cap up' = {}
        BY <2>3 DEF Others
      <3> QED
        BY <1>1, <1>3, <1>4, <2>1, <2>2, <2>3, <3>1 DEF Running
    <2>4. CASE up' = up
      <3>1. CASE pc \notin Running
        BY <1>1, <1>3, <1>4, <2>1, <2>4, <3>1 DEF Running
      <3>2. CASE pc \in Running /\ serial \in up
        <4>1. {serial} \cap up' = {serial}
          BY <2>4, <3>2
        <4>2. leaks' = leaks + 1
          BY <2>1, <2>2, <3>2, <4>1
        <4> QED
          BY <1>3, <1>4, <2>1, <2>4, <3>2, <4>2 DEF Running
      <3>3. CASE pc \in Running /\ serial \notin up
        <4>1. {serial} \cap up' = {} /\ Others = up
          BY <2>4, <3>3 DEF Others
        <4>2. leaks' = leaks
          BY <1>1, <2>1, <2>2, <3>3, <4>1
        <4> QED
          BY <1>3, <1>4, <2>1, <2>4, <4>1, <4>2 DEF Running
      <3> QED
        BY <3>1, <3>2, <3>3
    <2>5. CASE up' = {}
      <3>1. {serial} \cap up' = {}
        BY <2>5
      <3>2. leaks' = leaks
        BY <1>1, <2>1, <2>2, <3>1
      <3> QED
        BY <1>1, <1>4, <2>1, <2>2, <2>5, <3>2 DEF Running
    <2> QED
      BY <1>18, <2>3, <2>4, <2>5
  <1>19. Signal \/ Crash => LeaksInv'
    BY <1>18 DEF Signal, Crash, Others
  <1>20. Loop => LeaksInv'
    BY <1>8, <1>9, <1>10, <1>11, <1>12, <1>13, <1>14 DEF Loop
  <1>21. Fault => LeaksInv'
    BY <1>15, <1>17, <1>19 DEF Fault
  <1> QED
    BY <1>8, <1>15, <1>16, <1>20, <1>21 DEF Next

\* Adaptation, failure, retry, signal and crash never have two crawls of a job write
\* one output directory: the containers that run besides the present one are at most
\* the faults that left one behind, for any number of runs and any faults.
THEOREM ContainersAreAccounted == Spec => []NoUnaccountedContainer
  <1>1. Init => LeaksInv
    <2> SUFFICES ASSUME Init PROVE LeaksInv
      OBVIOUS
    <2>1. pc = "down" /\ up = {} /\ leaks = 0
      BY DEF Init
    <2> QED
      BY <2>1, FS_EmptySet DEF LeaksInv, Running
  <1>2. Typed /\ LeaksInv /\ [Next]_vars => LeaksInv'
    BY LeaksStep DEF LeaksInv, Others, vars, dockVars
  <1>3. Typed /\ LeaksInv => NoUnaccountedContainer
    <2> SUFFICES ASSUME Typed, LeaksInv PROVE NoUnaccountedContainer
      OBVIOUS
    <2>1. leaks \in Nat /\ IsFiniteSet(up) /\ Cardinality(up) \in Nat
      BY UpIsFinite DEF Typed, DockTyped
    <2>2. Cardinality(up) <= Cardinality(Others) + 1 /\ Cardinality(Others) \in Nat
      <3>1. Cardinality(Others) = IF serial \in up THEN Cardinality(up) - 1
                                                   ELSE Cardinality(up)
        BY <2>1, FS_RemoveElement DEF Others
      <3>2. Others \subseteq up
        BY DEF Others
      <3> QED
        BY <2>1, <3>1, <3>2, FewerUp
    <2> QED
      BY <2>1, <2>2 DEF LeaksInv, NoUnaccountedContainer
  <1> QED
    BY <1>1, <1>2, <1>3, AlwaysTyped, PTL DEF Spec
=============================================================================
