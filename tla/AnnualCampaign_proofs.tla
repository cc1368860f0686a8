------------------------ MODULE AnnualCampaign_proofs ------------------------
(***************************************************************************)
(* Proofs about AnnualCampaign, for every set of sources and of overrides, *)
(* every number of rows, and whatever writes the configs.                  *)
(***************************************************************************)
EXTENDS AnnualCampaign, FiniteSetTheorems, SequenceTheorems, TLAPS

-----------------------------------------------------------------------------
(* Types.                                                                  *)

\* What the tools make of the options of a job are options.
LEMMA OptionsClosed ==
  ASSUME NEW o \in Options
  PROVE  /\ Guarded(o) \in Options
         /\ Retuned(o) \in Options
         /\ \A n \in {1, 2} : Floored(o, n) \in Options
         /\ \A b \in {"unset", "no", "yes"} : [o EXCEPT !.skipBuild = b] \in Options
  <1>1. Guarded(o) \in Options
    BY DEF Guarded, Options
  <1>2. Retuned(o) \in Options
    BY DEF Retuned, Options, Tunings
  <1>3. \A n \in {1, 2} : Floored(o, n) \in Options
    BY DEF Floored, Options
  <1>4. \A b \in {"unset", "no", "yes"} : [o EXCEPT !.skipBuild = b] \in Options
    BY DEF Options
  <1> QED
    BY <1>1, <1>2, <1>3, <1>4

LEMMA ConfigClosed ==
  ASSUME NEW c \in Config, NEW o \in Options
  PROVE  /\ c.options \in Options
         /\ [c EXCEPT !.options = o] \in Config
         /\ Patched(c, o) \in Config
         /\ Scoped(c) \in Config
         /\ Tagged(c) \in Config
         /\ [c EXCEPT !.canonical = FALSE] \in Config
  BY DEF Config, Patched, Scoped, Tagged

\* Whatever the row, reconcile and the watchdog write a config.
LEMMA ToolsWriteConfigs ==
  ASSUME TypeOK, NEW i \in Ids
  PROVE  /\ jobs[i] \in Row /\ jobs[i].config \in Config
         /\ Reconciled(i) \in Config
         /\ Recovered(i) \in Options
  <1>1. jobs[i] \in Row
    BY DEF TypeOK, Ids
  <1>2. jobs[i].config \in Config /\ jobs[i].config.options \in Options
    BY <1>1 DEF Row, Config
  <1>3. Reconciled(i) \in Config
    <2> DEFINE c == jobs[i].config
               o == [Floored(Retuned(Guarded(c.options)), 2) EXCEPT !.skipBuild = "yes"]
    <2>1. o \in Options
      BY <1>2, OptionsClosed
    <2> HIDE DEF o
    <2>2. [c EXCEPT !.options = o] \in Config
      BY <1>2, <2>1, ConfigClosed
    <2>3. Tagged(Scoped([c EXCEPT !.options = o])) \in Config
      BY <2>1, <2>2, ConfigClosed
    <2>4. Reconciled(i) \in {c, Tagged(Scoped([c EXCEPT !.options = o]))}
      BY DEF Reconciled, o
    <2> QED
      BY <1>2, <2>3, <2>4
  <1>4. Recovered(i) \in Options
    <2> DEFINE o == Guarded(jobs[i].config.options)
               p == Floored(Retuned(o), 2)
    <2>1. o \in Options /\ p \in Options
      BY <1>2, OptionsClosed
    <2>2. Floored(o, 1) \in Options /\ [p EXCEPT !.skipBuild = "yes"] \in Options
      BY <2>1, OptionsClosed
    <2>3. Recovered(i) \in {p, [p EXCEPT !.skipBuild = "yes"], Floored(o, 1)}
      BY DEF Recovered
    <2> QED
      BY <2>1, <2>2, <2>3
  <1> QED
    BY <1>1, <1>2, <1>3, <1>4

\* What TypeOK says of the sessions.
EditsTyped ==
    /\ DOMAIN edits = Writers
    /\ \A w \in Writers : \A i \in DOMAIN edits[w] :
          i \in Ids /\ edits[w][i] \in Config

\* A session that has computed a config for each of some rows.
LEMMA ComputedEdits ==
  ASSUME TypeOK, NEW w \in Writers, NEW e, edits' = [edits EXCEPT ![w] = e],
         UNCHANGED jobs, \A i \in DOMAIN e : i \in Ids /\ e[i] \in Config
  PROVE  EditsTyped'
  <1>1. DOMAIN edits' = Writers
    BY DEF TypeOK
  <1>2. ASSUME NEW v \in Writers, NEW i \in DOMAIN edits'[v]
        PROVE  i \in Ids /\ edits'[v][i] \in Config
    <2>1. CASE v = w
      BY <1>2, <2>1 DEF TypeOK
    <2>2. CASE v # w
      BY <1>2, <2>2 DEF TypeOK
    <2> QED
      BY <2>1, <2>2
  <1>3. Ids' = Ids
    BY DEF Ids
  <1> QED
    BY <1>1, <1>2, <1>3 DEF EditsTyped

\* A session that ends.
LEMMA ClosedEdits ==
  ASSUME TypeOK, NEW w \in Writers, edits' = [edits EXCEPT ![w] = NoEdits],
         Ids \subseteq Ids'
  PROVE  EditsTyped'
  <1>1. DOMAIN edits' = Writers
    BY DEF TypeOK
  <1>2. ASSUME NEW v \in Writers, NEW i \in DOMAIN edits'[v]
        PROVE  i \in Ids' /\ edits'[v][i] \in Config
    <2>1. CASE v = w
      BY <1>2, <2>1 DEF TypeOK, NoEdits
    <2>2. CASE v # w
      BY <1>2, <2>2 DEF TypeOK
    <2> QED
      BY <2>1, <2>2
  <1> QED
    BY <1>1, <1>2 DEF EditsTyped

LEMMA OtherEdits ==
  ASSUME TypeOK, UNCHANGED edits, Ids \subseteq Ids'
  PROVE  EditsTyped'
  BY DEF TypeOK, EditsTyped

LoadStep ==
    \/ \E i \in Ids : PatchLoads(i) \/ WatchdogRecovers(i) \/ WatchdogStarts(i)
    \/ \E S \in SUBSET Sources, n \in 1..MaxJobs : ReconcileLoads(S, n)
    \/ WatchdogScopes

\* Session w has computed e: configs, of rows that are there, which keep the
\* metadata of the campaign.
Computes(w, e) ==
    /\ edits' = [edits EXCEPT ![w] = e]
    /\ \A i \in DOMAIN e : /\ i \in Ids /\ e[i] \in Config
                           /\ w # "patch" /\ jobs[i].config.annual => e[i].annual

\* All sessions that rewrite configs do, but that a patch drops the metadata.
LEMMA LoadsCompute ==
  ASSUME TypeOK, LoadStep
  PROVE  \E w \in Writers : \E e :
            /\ Computes(w, e)
            /\ w = "patch" => \E i \in Ids : PatchLoads(i)
  <1>w. {"patch", "reconcile", "watchdog"} = Writers
    BY DEF Writers
  <1>c. \A i \in Ids : /\ jobs[i].config \in Config
                       /\ Reconciled(i) \in Config
                       /\ Recovered(i) \in Options
    BY ToolsWriteConfigs
  <1>g. \A i \in Ids : jobs[i].config.annual =>
           /\ Reconciled(i).annual /\ Scoped(jobs[i].config).annual
           /\ Scoped([jobs[i].config EXCEPT !.options = Recovered(i)]).annual
           /\ Tagged(Scoped([jobs[i].config EXCEPT !.options = Recovered(i)])).annual
    BY <1>c DEF Reconciled, Scoped, Tagged, Config
  <1> DEFINE Goal == \E w \in Writers : \E e :
                        /\ Computes(w, e)
                        /\ w = "patch" => \E i \in Ids : PatchLoads(i)
  <1>1. ASSUME NEW i \in Ids, PatchLoads(i) PROVE Goal
    <2>1. PICK o \in Overrides : Loads("patch", [k \in {i} |-> Patched(jobs[k].config, o)])
      BY <1>1 DEF PatchLoads
    <2> DEFINE I == {k \in {i} : Patched(jobs[k].config, o) # jobs[k].config}
               e == [k \in I |-> Patched(jobs[k].config, o)]
    <2>2. edits' = [edits EXCEPT !["patch"] = e]
      BY <2>1 DEF Loads
    <2>3. o \in Options
      BY OverridesAssumption
    <2>4. \A k \in DOMAIN e : k \in Ids /\ e[k] \in Config
      BY <1>c, <2>3, ConfigClosed
    <2> HIDE DEF e
    <2> QED
      BY <1>w, <1>1, <2>2, <2>4 DEF Computes
  <1>2. ASSUME NEW S \in SUBSET Sources, NEW n \in 1..MaxJobs, ReconcileLoads(S, n)
        PROVE  Goal
    <2> DEFINE Y == {i \in Ids : IsOfYear(i) /\ jobs[i].source \in S}
               L == {i \in Y : Cardinality({k \in Y : k <= i}) <= n}
               I == {i \in L : Reconciled(i) # jobs[i].config}
               e == [i \in I |-> Reconciled(i)]
    <2>1. Loads("reconcile", [k \in L |-> Reconciled(k)])
      BY <1>2 DEF ReconcileLoads
    <2>2. edits' = [edits EXCEPT !["reconcile"] = e]
      BY <2>1 DEF Loads
    <2>3. \A k \in DOMAIN e : /\ k \in Ids /\ e[k] \in Config
                              /\ jobs[k].config.annual => e[k].annual
      BY <1>c, <1>g
    <2> HIDE DEF e
    <2> QED
      BY <1>w, <2>2, <2>3 DEF Computes
  <1>3. CASE WatchdogScopes
    <2> DEFINE R == {i \in Ids : jobs[i].status = "running"}
               I == {i \in R : Scoped(jobs[i].config) # jobs[i].config}
               e == [i \in I |-> Scoped(jobs[i].config)]
    <2>1. edits' = [edits EXCEPT !["watchdog"] = e]
      BY <1>3 DEF WatchdogScopes, Loads
    <2>2. \A k \in DOMAIN e : /\ k \in Ids /\ e[k] \in Config
                              /\ jobs[k].config.annual => e[k].annual
      BY <1>c, <1>g DEF Config, Scoped
    <2> HIDE DEF e
    <2> QED
      BY <1>w, <2>1, <2>2 DEF Computes
  <1>4. ASSUME NEW i \in Ids, WatchdogRecovers(i) \/ WatchdogStarts(i)
        PROVE  Goal
    <2> DEFINE c == [jobs[i].config EXCEPT !.options = Recovered(i)]
    <2>1. Scoped(c) \in Config /\ Tagged(Scoped(c)) \in Config
      <3>1. c \in Config
        BY <1>c, ConfigClosed
      <3>2. Scoped(c) \in Config
        BY <1>c, <3>1, ConfigClosed
      <3> QED
        BY <1>c, <3>2, ConfigClosed
    <2>2. CASE WatchdogRecovers(i)
      <3> DEFINE I == {k \in {i} : Scoped([jobs[k].config EXCEPT !.options = Recovered(k)])
                                     # jobs[k].config}
                 e == [k \in I |-> Scoped([jobs[k].config EXCEPT !.options = Recovered(k)])]
      <3>1. edits' = [edits EXCEPT !["watchdog"] = e]
        BY <2>2 DEF WatchdogRecovers, Loads
      <3>2. \A k \in DOMAIN e : /\ k \in Ids /\ e[k] \in Config
                                /\ jobs[k].config.annual => e[k].annual
        BY <1>g, <2>1
      <3> HIDE DEF e
      <3> QED
        BY <1>w, <3>1, <3>2 DEF Computes
    <2>3. CASE WatchdogStarts(i)
      <3> DEFINE I == {k \in {i} :
                         Tagged(Scoped([jobs[k].config EXCEPT !.options = Recovered(k)]))
                           # jobs[k].config}
                 e == [k \in I |->
                         Tagged(Scoped([jobs[k].config EXCEPT !.options = Recovered(k)]))]
      <3>1. edits' = [edits EXCEPT !["watchdog"] = e]
        BY <2>3 DEF WatchdogStarts, Loads
      <3>2. \A k \in DOMAIN e : /\ k \in Ids /\ e[k] \in Config
                                /\ jobs[k].config.annual => e[k].annual
        BY <1>g, <2>1
      <3> HIDE DEF e
      <3> QED
        BY <1>w, <3>1, <3>2 DEF Computes
    <2> QED
      BY <1>4, <2>2, <2>3
  <1> QED
    BY <1>1, <1>2, <1>3, <1>4 DEF LoadStep

LEMMA LoadsType ==
  ASSUME TypeOK, LoadStep
  PROVE  EditsTyped'
  <1>1. UNCHANGED jobs
    BY DEF LoadStep, PatchLoads, WatchdogRecovers, WatchdogStarts, ReconcileLoads,
           WatchdogScopes
  <1> QED
    BY <1>1, LoadsCompute, ComputedEdits DEF Computes

\* The rows that the commands add.
LEMMA AddedRows ==
  ASSUME NEW s \in Sources
  PROVE  /\ Scheduled(s) \in Row
         /\ \A today \in BOOLEAN :
               NewRow(s, "create", IF today THEN "name" ELSE "none", "queued",
                      [annual |-> FALSE, canonical |-> TRUE,
                       options |-> DefaultOptions]) \in Row
         /\ NewRow(s, "create", "none", "queued",
                   [annual |-> FALSE, canonical |-> FALSE,
                    options |-> [NoOptions EXCEPT !.skipBuild = "yes",
                                                  !.tuning = "own"]]) \in Row
         /\ \A naming \in Namings :
               NewRow(s, "register", naming, "completed",
                      [annual |-> FALSE, canonical |-> s \notin ScopedSources,
                       options |-> NoOptions]) \in Row
  <1>1. /\ DefaultOptions \in Options /\ NoOptions \in Options
        /\ [NoOptions EXCEPT !.skipBuild = "yes", !.tuning = "own"] \in Options
    <2>1. DefaultOptions \in Options
      BY DEF DefaultOptions, Options, Tunings
    <2>2. NoOptions \in Options
      BY DEF NoOptions, Options, Tunings
    <2>3. [NoOptions EXCEPT !.skipBuild = "yes", !.tuning = "own"] \in Options
      BY <2>2 DEF Options, Tunings
    <2> QED
      BY <2>1, <2>2, <2>3
  <1>2. \A a, c \in BOOLEAN, o \in Options :
           [annual |-> a, canonical |-> c, options |-> o] \in Config
    BY DEF Config
  <1>3. \A by \in {"schedule", "create", "register"}, naming \in Namings,
           status \in Statuses, c \in Config :
              NewRow(s, by, naming, status, c) \in Row
    BY DEF NewRow, Row
  <1>4. Scheduled(s) \in Row
    BY <1>1, <1>2, <1>3 DEF Scheduled, Namings, Statuses
  <1>5. \A today \in BOOLEAN :
           NewRow(s, "create", IF today THEN "name" ELSE "none", "queued",
                  [annual |-> FALSE, canonical |-> TRUE,
                   options |-> DefaultOptions]) \in Row
    BY <1>1, <1>2, <1>3 DEF Namings, Statuses
  <1>6. NewRow(s, "create", "none", "queued",
               [annual |-> FALSE, canonical |-> FALSE,
                options |-> [NoOptions EXCEPT !.skipBuild = "yes",
                                              !.tuning = "own"]]) \in Row
    BY <1>1, <1>2, <1>3 DEF Namings, Statuses
  <1>7. \A naming \in Namings :
           NewRow(s, "register", naming, "completed",
                  [annual |-> FALSE, canonical |-> s \notin ScopedSources,
                   options |-> NoOptions]) \in Row
    BY <1>1, <1>2, <1>3 DEF Statuses
  <1> QED
    BY <1>4, <1>5, <1>6, <1>7

\* A step that appends rows: the old ones keep their place.
Appends(rows) ==
    /\ rows \in Seq(Row)
    /\ jobs' = jobs \o rows

LEMMA AppendedRows ==
  ASSUME TypeOK, NEW rows, Appends(rows)
  PROVE  /\ jobs' \in Seq(Row) /\ Len(jobs') = Len(jobs) + Len(rows)
         /\ Ids \subseteq Ids' /\ \A i \in Ids : jobs'[i] = jobs[i]
         /\ \A k \in DOMAIN rows : /\ Len(jobs) + k \in Ids'
                                   /\ jobs'[Len(jobs) + k] = rows[k]
         /\ \A i \in Ids' \ Ids : /\ i - Len(jobs) \in DOMAIN rows
                                  /\ jobs'[i] = rows[i - Len(jobs)]
  <1>1. jobs \in Seq(Row) /\ rows \in Seq(Row) /\ jobs' = jobs \o rows
    BY DEF TypeOK, Appends
  <1> QED
    BY <1>1 DEF Ids

LEMMA AddsAppends ==
  ASSUME TypeOK, NEW r \in Row, Adds(r)
  PROVE  Appends(<<r>>) /\ Len(<<r>>) = 1
  BY DEF TypeOK, Adds, Appends

AddStep(s) ==
    \/ \E today \in BOOLEAN : CreateJob(s, today)
    \/ CreateCanary(s)
    \/ \E naming \in Namings : RegisterDir(s, naming)

\* A row that schedule-annual has not made.
LEMMA AddStepAdds ==
  ASSUME NEW s \in Sources, AddStep(s)
  PROVE  \E r \in Row : Adds(r) /\ r.by # "schedule"
  <1>1. ASSUME NEW today \in BOOLEAN, CreateJob(s, today)
        PROVE  \E r \in Row : Adds(r) /\ r.by # "schedule"
    BY <1>1, AddedRows DEF CreateJob, NewRow
  <1>2. ASSUME CreateCanary(s) PROVE \E r \in Row : Adds(r) /\ r.by # "schedule"
    BY <1>2, AddedRows DEF CreateCanary, NewRow
  <1>3. ASSUME NEW naming \in Namings, RegisterDir(s, naming)
        PROVE  \E r \in Row : Adds(r) /\ r.by # "schedule"
    BY <1>3, AddedRows DEF RegisterDir, NewRow
  <1> QED
    BY <1>1, <1>2, <1>3 DEF AddStep

\* What a run of schedule-annual adds: one row per planned source.
LEMMA ScheduleAppends ==
  ASSUME TypeOK, NEW p \in Schedulers, ScheduleApplies(p)
  PROVE  \E rows : /\ Appends(rows)
                   /\ Len(jobs) + Len(rows) <= MaxJobs
                   /\ \A k \in DOMAIN rows : \E s \in plan[p] : rows[k] = Scheduled(s)
                   /\ \A k, l \in DOMAIN rows :
                         rows[k].source = rows[l].source => k = l
  <1> DEFINE n == Cardinality(plan[p])
  <1>1. plan[p] \subseteq Sources /\ IsFiniteSet(plan[p])
    BY SourcesAssumption, FS_Subset DEF TypeOK
  <1>2. n \in Nat
    BY <1>1, FS_CardinalityType
  <1> HIDE DEF n
  <1>3. PICK order \in SetToSeqs(plan[p]) :
           jobs' = jobs \o [k \in DOMAIN order |-> Scheduled(order[k])]
    BY DEF ScheduleApplies
  <1> DEFINE rows == [k \in DOMAIN order |-> Scheduled(order[k])]
  <1>4. /\ order \in [1..n -> plan[p]]
        /\ \A k, l \in 1..n : k # l => order[k] # order[l]
    BY DEF SetToSeqs, n
  <1>5. DOMAIN rows = 1..n /\ \A k \in 1..n : rows[k] = Scheduled(order[k])
    BY <1>4
  <1>6. \A k \in 1..n : rows[k] \in Row /\ rows[k].source = order[k]
    <2>1. \A k \in 1..n : order[k] \in Sources
      BY <1>1, <1>4
    <2>2. \A s \in Sources : Scheduled(s) \in Row /\ Scheduled(s).source = s
      BY AddedRows DEF Scheduled, NewRow
    <2> QED
      BY <1>5, <2>1, <2>2
  <1>7. rows \in Seq(Row) /\ Len(rows) = n
    BY <1>2, <1>5, <1>6
  <1>8. Appends(rows) /\ Len(jobs) + Len(rows) <= MaxJobs
    BY <1>3, <1>7 DEF Appends, ScheduleApplies, n
  <1>9. /\ \A k \in DOMAIN rows : \E s \in plan[p] : rows[k] = Scheduled(s)
        /\ \A k, l \in DOMAIN rows : rows[k].source = rows[l].source => k = l
    BY <1>4, <1>5, <1>6
  <1> HIDE DEF rows
  <1> QED
    BY <1>8, <1>9

\* A step that rewrites rows in place: who made them, for which source and under
\* which name stays.
Rewrites ==
    /\ jobs' \in Seq(Row) /\ Len(jobs') = Len(jobs)
    /\ \A i \in Ids : /\ jobs'[i].by = jobs[i].by
                      /\ jobs'[i].source = jobs[i].source
                      /\ jobs'[i].naming = jobs[i].naming

LEMMA RewriteSteps ==
  ASSUME TypeOK, \/ \E i \in Ids : JobMoves(i)
                 \/ Deploys
                 \/ \E w \in Writers : Commit(w)
  PROVE  Rewrites
  <1>j. jobs \in Seq(Row) /\ Ids = 1..Len(jobs) /\ Len(jobs) \in Nat
    BY DEF TypeOK, Ids
  <1>r. \A i \in Ids : jobs[i] \in Row
    BY <1>j
  <1>1. ASSUME NEW i \in Ids, JobMoves(i) PROVE Rewrites
    <2>1. PICK m \in Moves : jobs' = [jobs EXCEPT ![i].status = m[2]]
      BY <1>1 DEF JobMoves
    <2>2. m[2] \in Statuses
      BY DEF Moves, Statuses
    <2>3. [jobs[i] EXCEPT !.status = m[2]] \in Row
      BY <1>r, <2>2 DEF Row
    <2> QED
      BY <1>j, <1>r, <2>1, <2>3 DEF Rewrites, Row
  <1>2. CASE Deploys
    <2> DEFINE r(i) == IF jobs[i].source \in ScopedSources
                       THEN [jobs[i] EXCEPT !.config.canonical = FALSE] ELSE jobs[i]
    <2>1. \A i \in Ids : /\ r(i) \in Row /\ r(i).by = jobs[i].by
                         /\ r(i).source = jobs[i].source
                         /\ r(i).naming = jobs[i].naming
      BY <1>r DEF Row, Config
    <2>2. jobs' = [i \in 1..Len(jobs) |-> r(i)]
      BY <1>2, <1>j DEF Deploys
    <2> HIDE DEF r
    <2> QED
      BY <1>j, <2>1, <2>2 DEF Rewrites
  <1>3. ASSUME NEW w \in Writers, Commit(w) PROVE Rewrites
    <2> DEFINE r(i) == IF i \in DOMAIN edits[w]
                       THEN [jobs[i] EXCEPT !.config = edits[w][i]] ELSE jobs[i]
    <2>1. \A i \in DOMAIN edits[w] : edits[w][i] \in Config
      BY DEF TypeOK
    <2>2. \A i \in Ids : /\ r(i) \in Row /\ r(i).by = jobs[i].by
                         /\ r(i).source = jobs[i].source
                         /\ r(i).naming = jobs[i].naming
      BY <1>r, <2>1 DEF Row
    <2>3. jobs' = [i \in 1..Len(jobs) |-> r(i)]
      BY <1>3, <1>j DEF Commit
    <2> HIDE DEF r
    <2> QED
      BY <1>j, <2>2, <2>3 DEF Rewrites
  <1> QED
    BY <1>1, <1>2, <1>3

-----------------------------------------------------------------------------
(* The theorems.                                                           *)

SpentTyped == spent \in [others : 0..MaxOthers, patches : 0..MaxPatches,
                         deploys : 0..MaxDeploys, faults : 0..MaxFaults]

LEMMA SpentType ==
  ASSUME TypeOK,
         \/ UNCHANGED spent
         \/ spent.others < MaxOthers /\ spent' = [spent EXCEPT !.others = @ + 1]
         \/ spent.patches < MaxPatches /\ spent' = [spent EXCEPT !.patches = @ + 1]
         \/ spent.deploys < MaxDeploys /\ spent' = [spent EXCEPT !.deploys = @ + 1]
         \/ spent.faults < MaxFaults /\ spent' = [spent EXCEPT !.faults = @ + 1]
  PROVE  SpentTyped'
  <1>1. /\ MaxOthers \in Nat /\ MaxPatches \in Nat
        /\ MaxDeploys \in Nat /\ MaxFaults \in Nat
    BY BoundsAssumption
  <1>2. SpentTyped
    BY DEF TypeOK, SpentTyped
  <1>3. CASE UNCHANGED spent
    BY <1>2, <1>3 DEF SpentTyped
  <1>4. CASE spent.others < MaxOthers /\ spent' = [spent EXCEPT !.others = @ + 1]
    BY <1>1, <1>2, <1>4 DEF SpentTyped
  <1>5. CASE spent.patches < MaxPatches /\ spent' = [spent EXCEPT !.patches = @ + 1]
    BY <1>1, <1>2, <1>5 DEF SpentTyped
  <1>6. CASE spent.deploys < MaxDeploys /\ spent' = [spent EXCEPT !.deploys = @ + 1]
    BY <1>1, <1>2, <1>6 DEF SpentTyped
  <1>7. CASE spent.faults < MaxFaults /\ spent' = [spent EXCEPT !.faults = @ + 1]
    BY <1>1, <1>2, <1>7 DEF SpentTyped
  <1> QED
    BY <1>3, <1>4, <1>5, <1>6, <1>7

\* The steps that write no row.
NoRowStep == \/ LoadStep
             \/ \E p \in Schedulers : SchedulePlans(p) \/ ScheduleDies(p)
             \/ \E w \in Writers : Dies(w)
             \/ UNCHANGED vars

LEMMA NoRowSteps ==
  ASSUME TypeOK, NoRowStep
  PROVE  TypeOK' /\ UNCHANGED jobs
  <1>1. CASE LoadStep
    <2>1. UNCHANGED <<jobs, plan>>
      BY <1>1 DEF LoadStep, PatchLoads, WatchdogRecovers, WatchdogStarts,
                  ReconcileLoads, WatchdogScopes
    <2>2. \/ UNCHANGED spent
          \/ spent.patches < MaxPatches /\ spent' = [spent EXCEPT !.patches = @ + 1]
      BY <1>1 DEF LoadStep, PatchLoads, WatchdogRecovers, WatchdogStarts,
                  ReconcileLoads, WatchdogScopes
    <2>3. EditsTyped' /\ SpentTyped'
      BY <1>1, <2>2, LoadsType, SpentType
    <2> QED
      BY <2>1, <2>3 DEF TypeOK, EditsTyped, SpentTyped
  <1>2. ASSUME NEW p \in Schedulers, SchedulePlans(p) \/ ScheduleDies(p)
        PROVE  TypeOK' /\ UNCHANGED jobs
    <2>1. UNCHANGED <<jobs, edits>>
      BY <1>2 DEF SchedulePlans, ScheduleDies
    <2>2. plan' \in [Schedulers -> SUBSET Sources]
      BY <1>2 DEF SchedulePlans, ScheduleDies, TypeOK
    <2>3. SpentTyped'
      BY <1>2, SpentType DEF SchedulePlans, ScheduleDies
    <2>4. EditsTyped'
      BY <2>1, OtherEdits DEF Ids
    <2> QED
      BY <2>1, <2>2, <2>3, <2>4 DEF TypeOK, EditsTyped, SpentTyped
  <1>3. ASSUME NEW w \in Writers, Dies(w) PROVE TypeOK' /\ UNCHANGED jobs
    <2>1. UNCHANGED <<jobs, plan>>
      BY <1>3 DEF Dies
    <2>2. SpentTyped' /\ EditsTyped'
      BY <1>3, SpentType, ClosedEdits DEF Dies, Ids
    <2> QED
      BY <2>1, <2>2 DEF TypeOK, EditsTyped, SpentTyped
  <1>4. CASE UNCHANGED vars
    BY <1>4 DEF vars, TypeOK, Ids
  <1> QED
    BY <1>1, <1>2, <1>3, <1>4 DEF NoRowStep

LEMMA RewriteStepsType ==
  ASSUME TypeOK, \/ \E i \in Ids : JobMoves(i)
                 \/ Deploys
                 \/ \E w \in Writers : Commit(w)
  PROVE  TypeOK' /\ UNCHANGED plan
  <1>1. Rewrites
    BY RewriteSteps
  <1>2. Ids' = Ids /\ jobs' \in Seq(Row) /\ Len(jobs') <= MaxJobs
    BY <1>1 DEF Rewrites, TypeOK, Ids
  <1>3. UNCHANGED plan /\ SpentTyped'
    BY SpentType DEF JobMoves, Deploys, Commit
  <1>4. EditsTyped'
    BY <1>2, ClosedEdits, OtherEdits DEF JobMoves, Deploys, Commit
  <1> QED
    BY <1>2, <1>3, <1>4 DEF TypeOK, EditsTyped, SpentTyped

LEMMA AppendStepsType ==
  ASSUME TypeOK, NEW rows, Appends(rows), Len(jobs) + Len(rows) <= MaxJobs,
         plan' \in [Schedulers -> SUBSET Sources], UNCHANGED edits,
         \/ UNCHANGED spent
         \/ spent.others < MaxOthers /\ spent' = [spent EXCEPT !.others = @ + 1]
  PROVE  TypeOK'
  <1>1. jobs' \in Seq(Row) /\ Len(jobs') <= MaxJobs /\ Ids \subseteq Ids'
    BY AppendedRows
  <1>2. EditsTyped' /\ SpentTyped'
    BY <1>1, OtherEdits, SpentType
  <1> QED
    BY <1>1, <1>2 DEF TypeOK, EditsTyped, SpentTyped

LEMMA ScheduleType ==
  ASSUME TypeOK, NEW p \in Schedulers, ScheduleApplies(p)
  PROVE  TypeOK'
  <1>1. plan' \in [Schedulers -> SUBSET Sources] /\ UNCHANGED <<edits, spent>>
    BY DEF ScheduleApplies, TypeOK
  <1> QED
    BY <1>1, ScheduleAppends, AppendStepsType

LEMMA AddType ==
  ASSUME TypeOK, NEW r \in Row, Adds(r)
  PROVE  TypeOK'
  <1>1. Appends(<<r>>) /\ Len(<<r>>) = 1
    BY AddsAppends
  <1>2. /\ Len(jobs) + Len(<<r>>) <= MaxJobs /\ UNCHANGED <<plan, edits>>
        /\ spent.others < MaxOthers /\ spent' = [spent EXCEPT !.others = @ + 1]
    BY <1>1, BoundsAssumption DEF Adds, TypeOK
  <1> QED
    BY <1>1, <1>2, AppendStepsType DEF TypeOK

\* The steps, by what they do to the rows.
LEMMA NextCases ==
  ASSUME [Next]_vars
  PROVE  \/ NoRowStep
         \/ \E i \in Ids : JobMoves(i)
         \/ Deploys
         \/ \E w \in Writers : Commit(w)
         \/ \E p \in Schedulers : ScheduleApplies(p)
         \/ \E s \in Sources : AddStep(s)
  BY DEF Next, NoRowStep, LoadStep, AddStep, Watchdog

\* Rows, plans and sessions are what they should be: no tool computes a config
\* that is none, or for a row that is not there.
THEOREM CampaignTyped == Spec => []TypeOK
  <1>1. Init => TypeOK
    BY BoundsAssumption DEF Init, TypeOK, NoEdits, Ids
  <1>2. TypeOK /\ [Next]_vars => TypeOK'
    <2> SUFFICES ASSUME TypeOK, [Next]_vars PROVE TypeOK'
      OBVIOUS
    <2>1. CASE NoRowStep
      BY <2>1, NoRowSteps
    <2>2. CASE \/ \E i \in Ids : JobMoves(i)
               \/ Deploys
               \/ \E w \in Writers : Commit(w)
      BY <2>2, RewriteStepsType
    <2>3. CASE \E p \in Schedulers : ScheduleApplies(p)
      BY <2>3, ScheduleType
    <2>4. CASE \E s \in Sources : AddStep(s)
      BY <2>4, AddStepAdds, AddType
    <2> QED
      BY <2>1, <2>2, <2>3, <2>4, NextCases
  <1> QED
    BY <1>1, <1>2, PTL DEF Spec

\* Inductive strengthening of ScheduledOnce, for one scheduler: its rows keep the
\* annual name, which stops the next plan when the metadata are gone, and what it
\* has planned it has not made before.
OnceInv ==
    /\ \A i \in Ids : jobs[i].by = "schedule" => jobs[i].naming = "name"
    /\ \A i, k \in Ids : /\ jobs[i].by = "schedule" /\ jobs[k].by = "schedule"
                         /\ jobs[i].source = jobs[k].source
                         => i = k
    /\ \A p \in Schedulers, i \in Ids :
          jobs[i].by = "schedule" => jobs[i].source \notin plan[p]

\* A source for which a job is to be created has no row of the scheduler's.
LEMMA PlannedIsNew ==
  ASSUME TypeOK, OnceInv, NEW s \in Sources, Decision(s) = "create",
         NEW i \in Ids, jobs[i].by = "schedule"
  PROVE  jobs[i].source # s
  BY DEF OnceInv, Decision, Named, OfSource

LEMMA OnceNoRow ==
  ASSUME TypeOK, OnceInv, NoRowStep
  PROVE  OnceInv'
  <1>1. UNCHANGED jobs /\ Ids' = Ids
    BY NoRowSteps DEF Ids
  <1>2. ASSUME NEW p \in Schedulers, NEW i \in Ids, jobs[i].by = "schedule"
        PROVE  jobs[i].source \notin plan'[p]
    <2>1. jobs[i].source \notin plan[p]
      BY <1>2 DEF OnceInv
    <2>2. CASE \E q \in Schedulers : SchedulePlans(q)
      <3>1. PICK q \in Schedulers :
               \E S \in SUBSET {s \in Sources : Decision(s) = "create"} :
                  plan' = [plan EXCEPT ![q] = S]
        BY <2>2 DEF SchedulePlans
      <3> QED
        BY <1>2, <2>1, <3>1, PlannedIsNew DEF TypeOK
    <2>3. CASE \E q \in Schedulers : ScheduleDies(q)
      BY <2>1, <2>3 DEF ScheduleDies, TypeOK
    <2>4. CASE UNCHANGED plan
      BY <2>1, <2>4
    <2> QED
      BY <2>2, <2>3, <2>4 DEF NoRowStep, LoadStep, PatchLoads, WatchdogRecovers,
         WatchdogStarts, ReconcileLoads, WatchdogScopes, Dies, vars
  <1> QED
    BY <1>1, <1>2 DEF OnceInv

LEMMA OnceRewrites ==
  ASSUME TypeOK, OnceInv, \/ \E i \in Ids : JobMoves(i)
                          \/ Deploys
                          \/ \E w \in Writers : Commit(w)
  PROVE  OnceInv'
  <1>1. Rewrites /\ UNCHANGED plan
    BY RewriteSteps, RewriteStepsType
  <1>2. Ids' = Ids
    BY <1>1 DEF Rewrites, TypeOK, Ids
  <1> QED
    BY <1>1, <1>2 DEF Rewrites, OnceInv

LEMMA OnceAdds ==
  ASSUME TypeOK, OnceInv, NEW r \in Row, Adds(r), r.by # "schedule"
  PROVE  OnceInv'
  <1>1. Appends(<<r>>) /\ UNCHANGED plan
    BY AddsAppends DEF Adds
  <1>2. \A i \in Ids' : (i \in Ids /\ jobs'[i] = jobs[i]) \/ jobs'[i] = r
    BY <1>1, AppendedRows
  <1> QED
    BY <1>1, <1>2 DEF OnceInv

LEMMA OnceApplies ==
  ASSUME TypeOK, OnceInv, NEW p \in Schedulers, Schedulers = {p}, ScheduleApplies(p)
  PROVE  OnceInv'
  <1>1. PICK rows : /\ Appends(rows)
                    /\ \A k \in DOMAIN rows :
                          \E s \in plan[p] : rows[k] = Scheduled(s)
                    /\ \A k, l \in DOMAIN rows :
                          rows[k].source = rows[l].source => k = l
    BY ScheduleAppends
  <1>2. \A i \in Ids : i \in Ids' /\ jobs'[i] = jobs[i]
    BY <1>1, AppendedRows
  <1>3. \A i \in Ids' \ Ids : /\ i - Len(jobs) \in DOMAIN rows
                             /\ jobs'[i] = rows[i - Len(jobs)]
    BY <1>1, AppendedRows
  <1>4. \A i \in Ids' \ Ids : /\ jobs'[i].naming = "name"
                             /\ jobs'[i].source \in plan[p]
    BY <1>1, <1>3 DEF Scheduled, NewRow
  <1>5. \A i \in Ids', k \in Ids' : /\ jobs'[i].by = "schedule"
                                   /\ jobs'[k].by = "schedule"
                                   /\ jobs'[i].source = jobs'[k].source
                                   => i = k
    <2> SUFFICES ASSUME NEW i \in Ids', NEW k \in Ids',
                        jobs'[i].by = "schedule", jobs'[k].by = "schedule",
                        jobs'[i].source = jobs'[k].source
                 PROVE  i = k
      OBVIOUS
    <2>1. CASE i \in Ids /\ k \in Ids
      BY <1>2, <2>1 DEF OnceInv
    <2>2. CASE i \in Ids /\ k \notin Ids
      BY <1>2, <1>4, <2>2 DEF OnceInv
    <2>3. CASE i \notin Ids /\ k \in Ids
      BY <1>2, <1>4, <2>3 DEF OnceInv
    <2>4. CASE i \notin Ids /\ k \notin Ids
      <3>1. i - Len(jobs) = k - Len(jobs)
        BY <1>1, <1>3, <2>4
      <3>2. i \in Int /\ k \in Int /\ Len(jobs) \in Int
        <4>1. jobs' \in Seq(Row) /\ jobs \in Seq(Row)
          BY <1>1, AppendedRows DEF TypeOK
        <4> QED
          BY <4>1 DEF Ids
      <3> QED
        BY <3>1, <3>2
    <2> QED
      BY <2>1, <2>2, <2>3, <2>4
  <1>6. plan'[p] = {}
    BY DEF ScheduleApplies, TypeOK
  <1> QED
    BY <1>2, <1>4, <1>5, <1>6 DEF OnceInv

LEMMA AtMostOne ==
  ASSUME NEW M, \A i, k \in M : i = k
  PROVE  Cardinality(M) <= 1
  <1>1. CASE M = {}
    <2>1. Cardinality(M) = 0
      BY <1>1, FS_EmptySet
    <2> QED
      BY <2>1
  <1>2. CASE M # {}
    <2>1. PICK i \in M : M = {i}
      BY <1>2
    <2>2. Cardinality(M) = 1
      BY <2>1, FS_Singleton
    <2> QED
      BY <2>2
  <1> QED
    BY <1>1, <1>2

\* One scheduler makes one job a year for each source, whatever the operators, the
\* other tools and the life of the jobs do to the rows in between, and wherever a
\* run of it is cut off.
THEOREM OneJobAYear ==
  ASSUME NEW p, Schedulers = {p}
  PROVE  Spec => []ScheduledOnce
  <1>1. Init => OnceInv
    BY DEF Init, OnceInv, Ids
  <1>2. TypeOK /\ OnceInv /\ [Next]_vars => OnceInv'
    <2> SUFFICES ASSUME TypeOK, OnceInv, [Next]_vars PROVE OnceInv'
      OBVIOUS
    <2>1. CASE NoRowStep
      BY <2>1, OnceNoRow
    <2>2. CASE \/ \E i \in Ids : JobMoves(i)
               \/ Deploys
               \/ \E w \in Writers : Commit(w)
      BY <2>2, OnceRewrites
    <2>3. ASSUME NEW q \in Schedulers, ScheduleApplies(q) PROVE OnceInv'
      BY <2>3, OnceApplies
    <2>4. CASE \E s \in Sources : AddStep(s)
      BY <2>4, AddStepAdds, OnceAdds
    <2> QED
      BY <2>1, <2>2, <2>3, <2>4, NextCases
  <1>3. TypeOK /\ OnceInv => ScheduledOnce
    <2> SUFFICES ASSUME OnceInv, NEW s \in Sources
                 PROVE  Cardinality({i \in OfSource(s) : jobs[i].by = "schedule"}) <= 1
      BY DEF ScheduledOnce
    <2> DEFINE M == {i \in OfSource(s) : jobs[i].by = "schedule"}
    <2>1. \A i, k \in M : i = k
      BY DEF OnceInv, OfSource
    <2> QED
      BY <2>1, AtMostOne
  <1> QED
    BY <1>1, <1>2, <1>3, CampaignTyped, PTL DEF Spec

\* No option is rewritten to and fro by reconcile-annual-tool-options and
\* crawl-auto-recover: what the former leaves the latter leaves, and what the latter
\* leaves the former leaves but for skip_final_build, which only it sets.
THEOREM RepairsAgree == Spec => []ToolsAgree
  <1>1. TypeOK => ToolsAgree
    <2> SUFFICES ASSUME TypeOK, NEW i \in Ids, IsOfYear(i)
                 PROVE  /\ Reconciled(i) = jobs[i].config
                             => Recovered(i) = jobs[i].config.options
                        /\ Recovered(i) = jobs[i].config.options
                             => Reconciled(i).options
                                  = [jobs[i].config.options EXCEPT !.skipBuild = "yes"]
      BY DEF ToolsAgree
    <2> DEFINE c == jobs[i].config
               p == Floored(Retuned(Guarded(c.options)), 2)
               o == [p EXCEPT !.skipBuild = "yes"]
               kept == IF c.options.skipBuild = "unset"
                       THEN [c.options EXCEPT !.skipBuild = "no"] ELSE c.options
    <2>1. c \in Config /\ c.options \in Options
      BY ToolsWriteConfigs DEF Config
    <2>2. p \in Options /\ p.skipBuild = c.options.skipBuild
      <3>1. p \in Options
        BY <2>1, OptionsClosed
      <3>2. Guarded(c.options).skipBuild = c.options.skipBuild
        BY <2>1 DEF Guarded, Options
      <3>3. \A q \in Options : /\ Retuned(q).skipBuild = q.skipBuild
                              /\ Floored(q, 2).skipBuild = q.skipBuild
        BY DEF Retuned, Floored, Options
      <3>4. Guarded(c.options) \in Options /\ Retuned(Guarded(c.options)) \in Options
        BY <2>1, OptionsClosed
      <3> QED
        BY <3>1, <3>2, <3>3, <3>4
    <2>3. Reconciled(i) = IF ~IsOfYear(i) \/ (o = kept /\ c.canonical) THEN c
                          ELSE Tagged(Scoped([c EXCEPT !.options = o]))
      BY DEF Reconciled
    <2>4. Recovered(i) = IF p.skipBuild = "unset" THEN [p EXCEPT !.skipBuild = "yes"] ELSE p
      BY DEF Recovered
    <2> HIDE DEF p
    <2>5. Tagged(Scoped([c EXCEPT !.options = o])).options = o
      BY <2>1 DEF Tagged, Scoped, Config
    <2>6. ASSUME Reconciled(i) = c PROVE Recovered(i) = c.options
      <3>1. c.options = o
        <4>1. CASE o = kept
          BY <2>1, <2>2, <4>1 DEF Options
        <4>2. CASE ~(o = kept /\ c.canonical)
          BY <2>3, <2>5, <2>6, <4>2
        <4> QED
          BY <4>1, <4>2
      <3>2. p = c.options /\ p.skipBuild = "yes"
        BY <2>1, <2>2, <3>1 DEF Options
      <3> QED
        BY <2>4, <3>2
    <2>7. ASSUME Recovered(i) = c.options
          PROVE  Reconciled(i).options = [c.options EXCEPT !.skipBuild = "yes"]
      <3>1. p.skipBuild # "unset"
        BY <2>1, <2>2, <2>4, <2>7 DEF Options
      <3>2. p = c.options /\ kept = c.options
        BY <2>2, <2>4, <2>7, <3>1
      <3>3. o = [c.options EXCEPT !.skipBuild = "yes"]
        BY <3>2
      <3>4. CASE o = kept /\ c.canonical
        BY <2>3, <3>2, <3>3, <3>4
      <3>5. CASE ~(o = kept /\ c.canonical)
        BY <2>3, <2>5, <3>3, <3>5
      <3> QED
        BY <3>4, <3>5
    <2> QED
      BY <2>6, <2>7
  <1> QED
    BY <1>1, CampaignTyped, PTL

\* Inductive strengthening of ReadyIsHonest: until an operator patches a config, the
\* scheduler's rows keep their metadata, in the table and in every session.
TagsInv ==
    spent.patches = 0 =>
        \A i \in Ids : jobs[i].by = "schedule" =>
            /\ jobs[i].config.annual
            /\ \A w \in Writers : i \in DOMAIN edits[w] => edits[w][i].annual

LEMMA TagsNoRow ==
  ASSUME TypeOK, TagsInv, NoRowStep
  PROVE  TagsInv'
  <1>1. UNCHANGED jobs /\ Ids' = Ids
    BY NoRowSteps DEF Ids
  <1>p. ASSUME NEW i \in Ids, PatchLoads(i) PROVE spent'.patches # 0
    <2>1. spent' = [spent EXCEPT !.patches = spent.patches + 1]
      BY <1>p DEF PatchLoads
    <2>2. MaxPatches \in Nat
      BY BoundsAssumption
    <2>3. spent.patches \in Nat /\ spent'.patches = spent.patches + 1
      BY <2>1, <2>2 DEF TypeOK
    <2> QED
      BY <2>3
  <1>2. CASE LoadStep
    <2>1. PICK w, e : /\ w \in Writers
                      /\ Computes(w, e)
                      /\ w = "patch" => \E i \in Ids : PatchLoads(i)
      BY <1>2, LoadsCompute
    <2>2. CASE w = "patch"
      <3>1. spent'.patches # 0
        BY <1>p, <2>1, <2>2
      <3> QED
        BY <3>1 DEF TagsInv
    <2>3. CASE w # "patch"
      <3>1. spent.patches = spent'.patches \/ spent'.patches # 0
        <4>1. UNCHANGED spent \/ \E i \in Ids : PatchLoads(i)
          BY <1>2 DEF LoadStep, WatchdogRecovers, WatchdogStarts, ReconcileLoads,
                      WatchdogScopes
        <4> QED
          BY <1>p, <4>1
      <3>2. \A i \in Ids : i \in DOMAIN e /\ jobs[i].config.annual => e[i].annual
        BY <2>1, <2>3 DEF Computes
      <3>3. \A v \in Writers : edits'[v] = IF v = w THEN e ELSE edits[v]
        BY <2>1 DEF Computes, TypeOK
      <3> QED
        BY <1>1, <3>1, <3>2, <3>3 DEF TagsInv
    <2> QED
      BY <2>2, <2>3
  <1>3. CASE \E p \in Schedulers : SchedulePlans(p) \/ ScheduleDies(p)
    <2>1. UNCHANGED edits /\ spent'.patches = spent.patches
      BY <1>3 DEF SchedulePlans, ScheduleDies, TypeOK
    <2> QED
      BY <1>1, <2>1 DEF TagsInv
  <1>4. ASSUME NEW w \in Writers, Dies(w) PROVE TagsInv'
    <2>1. /\ \A v \in Writers : edits'[v] = IF v = w THEN NoEdits ELSE edits[v]
          /\ spent'.patches = spent.patches
      BY <1>4 DEF Dies, TypeOK
    <2>2. DOMAIN NoEdits = {}
      BY DEF NoEdits
    <2> QED
      BY <1>1, <2>1, <2>2 DEF TagsInv
  <1>5. CASE UNCHANGED vars
    BY <1>1, <1>5 DEF TagsInv, vars
  <1> QED
    BY <1>2, <1>3, <1>4, <1>5 DEF NoRowStep

LEMMA TagsRewrites ==
  ASSUME TypeOK, TagsInv, \/ \E i \in Ids : JobMoves(i)
                          \/ Deploys
                          \/ \E w \in Writers : Commit(w)
  PROVE  TagsInv'
  <1>0. /\ Rewrites /\ Ids' = Ids
        /\ jobs \in Seq(Row) /\ Ids = 1..Len(jobs)
        /\ \A i \in Ids : jobs[i] \in Row /\ jobs[i].config \in Config
    <2>1. Rewrites
      BY RewriteSteps
    <2> QED
      BY <2>1, ToolsWriteConfigs DEF Rewrites, TypeOK, Ids
  <1>1. ASSUME NEW i \in Ids, JobMoves(i) PROVE TagsInv'
    <2>1. UNCHANGED <<edits, spent>>
      BY <1>1 DEF JobMoves
    <2>2. \A k \in Ids : jobs'[k].config = jobs[k].config
      BY <1>0, <1>1 DEF JobMoves, Row
    <2> QED
      BY <1>0, <2>1, <2>2 DEF TagsInv, Rewrites
  <1>2. CASE Deploys
    <2>1. UNCHANGED edits /\ spent'.patches = spent.patches
      BY <1>2 DEF Deploys, TypeOK
    <2>2. \A k \in Ids : jobs'[k].config.annual = jobs[k].config.annual
      BY <1>0, <1>2 DEF Deploys, Row, Config
    <2> QED
      BY <1>0, <2>1, <2>2 DEF TagsInv, Rewrites
  <1>3. ASSUME NEW w \in Writers, Commit(w) PROVE TagsInv'
    <2>1. /\ UNCHANGED spent
          /\ \A v \in Writers : edits'[v] = IF v = w THEN NoEdits ELSE edits[v]
      BY <1>3 DEF Commit, TypeOK
    <2>2. DOMAIN NoEdits = {}
      BY DEF NoEdits
    <2>3. \A k \in Ids : jobs'[k].config = IF k \in DOMAIN edits[w]
                                           THEN edits[w][k] ELSE jobs[k].config
      BY <1>0, <1>3 DEF Commit, Row
    <2> QED
      BY <1>0, <2>1, <2>2, <2>3 DEF TagsInv, Rewrites
  <1> QED
    BY <1>1, <1>2, <1>3

LEMMA TagsAppends ==
  ASSUME TypeOK, TagsInv, NEW rows, Appends(rows), UNCHANGED edits,
         spent'.patches = spent.patches,
         \A k \in DOMAIN rows : rows[k].by = "schedule" => rows[k].config.annual
  PROVE  TagsInv'
  <1>1. /\ \A i \in Ids : jobs'[i] = jobs[i]
        /\ \A i \in Ids' \ Ids : /\ i - Len(jobs) \in DOMAIN rows
                                 /\ jobs'[i] = rows[i - Len(jobs)]
    BY AppendedRows
  <1>2. \A w \in Writers : DOMAIN edits[w] \subseteq Ids
    BY DEF TypeOK
  <1> QED
    BY <1>1, <1>2 DEF TagsInv

\* As long as no config is patched, annual-status says ready only when all the jobs
\* that were scheduled are indexed: what it takes for a source's job is the one
\* that was scheduled, for any number of schedulers and of rows named alike.
THEOREM ReadyIsEarned == Spec => []ReadyIsHonest
  <1>1. Init => TagsInv
    BY DEF Init, TagsInv, Ids
  <1>2. TypeOK /\ TagsInv /\ [Next]_vars => TagsInv'
    <2> SUFFICES ASSUME TypeOK, TagsInv, [Next]_vars PROVE TagsInv'
      OBVIOUS
    <2>1. CASE NoRowStep
      BY <2>1, TagsNoRow
    <2>2. CASE \/ \E i \in Ids : JobMoves(i)
               \/ Deploys
               \/ \E w \in Writers : Commit(w)
      BY <2>2, TagsRewrites
    <2>3. ASSUME NEW p \in Schedulers, ScheduleApplies(p) PROVE TagsInv'
      <3>1. PICK rows : /\ Appends(rows)
                        /\ \A k \in DOMAIN rows :
                              \E s \in plan[p] : rows[k] = Scheduled(s)
        BY <2>3, ScheduleAppends
      <3>2. \A k \in DOMAIN rows : rows[k].config.annual
        BY <3>1 DEF Scheduled, NewRow
      <3> QED
        BY <2>3, <3>1, <3>2, TagsAppends DEF ScheduleApplies
    <2>4. ASSUME NEW r \in Row, Adds(r), r.by # "schedule" PROVE TagsInv'
      <3>1. Appends(<<r>>) /\ \A k \in DOMAIN <<r>> : <<r>>[k].by # "schedule"
        BY <2>4, AddsAppends
      <3>2. UNCHANGED edits /\ spent'.patches = spent.patches
        BY <2>4 DEF Adds, TypeOK
      <3> QED
        BY <3>1, <3>2, TagsAppends
    <2>5. CASE \E s \in Sources : AddStep(s)
      BY <2>4, <2>5, AddStepAdds
    <2> QED
      BY <2>1, <2>2, <2>3, <2>5, NextCases
  <1>3. TypeOK /\ TagsInv => ReadyIsHonest
    <2> SUFFICES ASSUME TypeOK, TagsInv, ReadyForSearch, spent.patches = 0,
                        NEW i \in Ids, jobs[i].by = "schedule"
                 PROVE  jobs[i].status = "indexed"
      BY DEF ReadyIsHonest
    <2>1. PICK s \in Sources : s = jobs[i].source
      BY ToolsWriteConfigs DEF Row
    <2>2. i \in Annual(s) /\ Candidates(s) = Annual(s)
      BY <2>1 DEF TagsInv, Annual, OfSource, Candidates
    <2>3. /\ ~(Cardinality(Annual(s)) > 1)
          /\ jobs[CHOOSE k \in Annual(s) : TRUE].status = "indexed"
      BY <2>2 DEF ReadyForSearch, AnnualStatus
    <2>4. IsFiniteSet(Annual(s)) /\ Cardinality(Annual(s)) \in Nat
      <3>1. IsFiniteSet(1..Len(jobs)) /\ Annual(s) \subseteq 1..Len(jobs)
        <4>1. Len(jobs) \in Nat /\ Ids = 1..Len(jobs)
          BY DEF TypeOK, Ids
        <4> QED
          BY <4>1, FS_Interval DEF Annual, OfSource
      <3> QED
        BY <3>1, FS_Subset, FS_CardinalityType
    <2>5. Cardinality(Annual(s)) = 1
      BY <2>2, <2>3, <2>4, FS_EmptySet
    <2>6. PICK x : Annual(s) = {x}
      BY <2>4, <2>5, FS_Singleton
    <2> QED
      BY <2>2, <2>3, <2>6
  <1> QED
    BY <1>1, <1>2, <1>3, CampaignTyped, PTL DEF Spec

=============================================================================
