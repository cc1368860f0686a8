--------------------------- MODULE AnnualCampaign ---------------------------
(***************************************************************************)
(* The annual campaign of one year: the jobs that stand for it, the rows'  *)
(* config, and everything that writes either.                              *)
(*                                                                         *)
(*   schedule-annual, create-job, register-job-dir     add rows            *)
(*   patch-job-config, reconcile-annual-tool-options,                      *)
(*   crawl-auto-recover                                rewrite a config    *)
(*   annual-status                                     reads both          *)
(*                                                                         *)
(* The config is one JSON column.  Its writers read it, compute a new      *)
(* value and write the whole column back in a later statement, without a   *)
(* lock: of two that overlap, the later commit wins (see Commit).  The     *)
(* scheduler too plans in one statement and inserts in another.            *)
(***************************************************************************)
EXTENDS Integers, FiniteSets, Sequences, SequencesExt

CONSTANTS
    Sources,      \* the annual sources
    ScopedSources,\* those with managed scope arguments (hc, phac)
    CanarySources,\* those with a canary template (hc)
    Schedulers,   \* processes that may run schedule-annual at the same time
    Overrides,    \* tool options that operators ask for
    MaxCreate,    \* --max-create-per-run
    MaxJobs,      \* bound: rows
    MaxOthers,    \* bound: rows that schedule-annual has not made
    MaxPatches,   \* bound: patches by the operator
    MaxDeploys,   \* bound: deployments that change the scope regexes
    MaxFaults     \* bound: processes killed

ASSUME SourcesAssumption == ScopedSources \cup CanarySources \subseteq Sources /\ IsFiniteSet(Sources)
ASSUME BoundsAssumption == {MaxCreate, MaxJobs, MaxOthers, MaxPatches, MaxDeploys, MaxFaults}
                           \subseteq Nat

VARIABLES
    jobs,     \* the rows, by id
    plan,     \* the sources for which each run of schedule-annual means to create a job
    edits,    \* per writer of configs: the new values that its session has computed
    spent     \* other rows, patches, deployments and faults so far

vars == <<jobs, plan, edits, spent>>

-----------------------------------------------------------------------------
(* Rows.                                                                   *)

\* "queued" is retryable too, and "completed" is indexing and index_failed too:
\* nothing here tells them apart.
Statuses == {"queued", "running", "completed", "failed", "indexed"}
Blocking == Statuses \ {"failed", "indexed"}

\* One tuning value for initial_workers, stall_timeout_minutes, the error
\* thresholds and backoff_delay_minutes, which are handled alike: a value of
\* the legacy baseline (or none), the source's profile, or an operator's own.
Tunings == {"baseline", "profile", "own"}

\* max_container_restarts: below the floor of any job, of an annual one, or enough.
Options == [monitor : BOOLEAN, adaptRestart : BOOLEAN,
            skipBuild : {"unset", "no", "yes"},
            tuning : Tunings, restarts : 0..2]

\* annual: campaign_kind and campaign_year are there.  canonical: the scope
\* arguments are those of the deployed code.
Config == [annual : BOOLEAN, canonical : BOOLEAN, options : Options]

\* The source's annual name of the year is the job's name, only part of its
\* output_dir, or neither.
Namings == {"name", "path", "none"}
Row == [source : Sources, naming : Namings, by : {"schedule", "create", "register"},
        status : Statuses, config : Config]

DefaultOptions == [monitor |-> TRUE, adaptRestart |-> TRUE, skipBuild |-> "yes",
                   tuning |-> "profile", restarts |-> 2]
ASSUME OverridesAssumption ==
    Overrides \subseteq {o \in Options : o.skipBuild # "unset" /\ (o.adaptRestart => o.monitor)}

NoOptions == [monitor |-> FALSE, adaptRestart |-> FALSE, skipBuild |-> "unset",
              tuning |-> "baseline", restarts |-> 0]

Ids == DOMAIN jobs
OfSource(s) == {i \in Ids : jobs[i].source = s}
Annual(s) == {i \in OfSource(s) : jobs[i].config.annual}
Named(s) == {i \in OfSource(s) : jobs[i].naming = "name"}
Active(s) == {i \in OfSource(s) : jobs[i].status \in Blocking}

Writers == {"patch", "reconcile", "watchdog"}
NoEdits == <<>>
Closed(w) == edits[w] = NoEdits

TypeOK ==
    /\ jobs \in Seq(Row) /\ Len(jobs) <= MaxJobs
    /\ plan \in [Schedulers -> SUBSET Sources]
    /\ DOMAIN edits = Writers
    /\ \A w \in Writers : \A i \in DOMAIN edits[w] :
          i \in Ids /\ edits[w][i] \in Config
    /\ spent \in [others : 0..MaxOthers, patches : 0..MaxPatches,
                  deploys : 0..MaxDeploys, faults : 0..MaxFaults]

Init ==
    /\ jobs = <<>>
    /\ plan = [p \in Schedulers |-> {}]
    /\ edits = [w \in Writers |-> NoEdits]
    /\ spent = [others |-> 0, patches |-> 0, deploys |-> 0, faults |-> 0]

-----------------------------------------------------------------------------
(* Adding rows.                                                            *)

\* Mutant: the job is recognised by its metadata alone.
DecisionByMetadata(s) ==
    IF Cardinality(Annual(s)) > 1 THEN "error"
    ELSE IF Annual(s) # {} \/ Active(s) # {} THEN "skip"
    ELSE "create"

\* What schedule-annual decides for a source.
Decision(s) ==
    IF Cardinality(Annual(s)) > 1 THEN "error"
    ELSE IF Annual(s) # {} \/ Named(s) # {} \/ Active(s) # {} THEN "skip"
    ELSE "create"

\* A source with two annual jobs makes the whole run fail; the rest of the plan
\* is cut to --max-create-per-run, in the order of the sources.
SchedulePlans(p) ==
    /\ plan[p] = {}
    /\ \A s \in Sources : Decision(s) # "error"
    /\ \E S \in SUBSET {s \in Sources : Decision(s) = "create"} :
          /\ S # {} /\ Cardinality(S) <= MaxCreate
          /\ plan' = [plan EXCEPT ![p] = S]
    /\ UNCHANGED <<jobs, edits, spent>>

NewRow(s, by, naming, status, config) ==
    [source |-> s, naming |-> naming, by |-> by, status |-> status, config |-> config]

Scheduled(s) == NewRow(s, "schedule", "name", "queued",
                       [annual |-> TRUE, canonical |-> TRUE, options |-> DefaultOptions])

\* The session inserts a row per planned source and commits.
ScheduleApplies(p) ==
    /\ plan[p] # {}
    /\ Len(jobs) + Cardinality(plan[p]) <= MaxJobs
    /\ \E order \in SetToSeqs(plan[p]) :
          jobs' = jobs \o [k \in DOMAIN order |-> Scheduled(order[k])]
    /\ plan' = [plan EXCEPT ![p] = {}]
    /\ UNCHANGED <<edits, spent>>

ScheduleDies(p) ==
    /\ plan[p] # {}
    /\ spent.faults < MaxFaults
    /\ spent' = [spent EXCEPT !.faults = @ + 1]
    /\ plan' = [plan EXCEPT ![p] = {}]
    /\ UNCHANGED <<jobs, edits>>

Adds(row) ==
    /\ Len(jobs) < MaxJobs /\ spent.others < MaxOthers
    /\ spent' = [spent EXCEPT !.others = @ + 1]
    /\ jobs' = Append(jobs, row)
    /\ UNCHANGED <<plan, edits>>

\* create-job looks at no other row.  Its name is that of the day, so on Jan 01
\* it is the annual one.
CreateJob(s, today) ==
    Adds(NewRow(s, "create", IF today THEN "name" ELSE "none", "queued",
                [annual |-> FALSE, canonical |-> TRUE, options |-> DefaultOptions]))

\* The template hc_canary makes a job of the source hc with arguments of its own.
CreateCanary(s) ==
    /\ s \in CanarySources
    /\ Adds(NewRow(s, "create", "none", "queued",
                   [annual |-> FALSE, canonical |-> FALSE,
                    options |-> [NoOptions EXCEPT !.skipBuild = "yes", !.tuning = "own"]]))

\* register-job-dir: a row without config for a directory that is there already,
\* perhaps that of another row, under any name.
RegisterDir(s, naming) ==
    Adds(NewRow(s, "register", naming, "completed",
                [annual |-> FALSE, canonical |-> s \notin ScopedSources,
                 options |-> NoOptions]))

-----------------------------------------------------------------------------
(* What the worker and the operator do to a status (see JobLifecycle).     *)

Moves == {<<"queued", "running">>, <<"running", "queued">>, <<"running", "completed">>,
          <<"running", "failed">>, <<"failed", "queued">>, <<"completed", "indexed">>}

JobMoves(i) ==
    /\ \E m \in Moves : jobs[i].status = m[1] /\ jobs' = [jobs EXCEPT ![i].status = m[2]]
    /\ UNCHANGED <<plan, edits, spent>>

\* New code with narrower scope regexes: no stored arguments are canonical now.
Deploys ==
    /\ spent.deploys < MaxDeploys
    /\ spent' = [spent EXCEPT !.deploys = @ + 1]
    /\ jobs' = [i \in Ids |-> IF jobs[i].source \in ScopedSources
                              THEN [jobs[i] EXCEPT !.config.canonical = FALSE] ELSE jobs[i]]
    /\ UNCHANGED <<plan, edits>>

-----------------------------------------------------------------------------
(* Rewriting configs.                                                      *)

\* A session loads rows and gives each its new config.  The ORM will write the
\* column of the rows whose value has changed.
Loads(w, new) ==
    LET changed == {i \in DOMAIN new : new[i] # jobs[i].config}
    IN /\ Closed(w)
       /\ edits' = [edits EXCEPT ![w] = [i \in changed |-> new[i]]]

Commit(w) ==
    /\ ~Closed(w)
    /\ jobs' = [i \in Ids |-> IF i \in DOMAIN edits[w]
                              THEN [jobs[i] EXCEPT !.config = edits[w][i]] ELSE jobs[i]]
    /\ edits' = [edits EXCEPT ![w] = NoEdits]
    /\ UNCHANGED <<plan, spent>>

\* The writer is killed, or its session raises and is rolled back.
Dies(w) ==
    /\ ~Closed(w)
    /\ spent.faults < MaxFaults
    /\ spent' = [spent EXCEPT !.faults = @ + 1]
    /\ edits' = [edits EXCEPT ![w] = NoEdits]
    /\ UNCHANGED <<jobs, plan>>

\* ArchiveJobConfig keeps seeds, arguments and tool options, and nothing else:
\* writing it back drops the campaign metadata.
Patched(c, o) == [c EXCEPT !.options = o, !.annual = FALSE]

PatchLoads(i) ==
    /\ jobs[i].status \in {"queued", "failed"}
    /\ spent.patches < MaxPatches
    /\ \E o \in Overrides :
          Loads("patch", [k \in {i} |-> Patched(jobs[k].config, o)])
    /\ spent' = [spent EXCEPT !.patches = @ + 1]
    /\ UNCHANGED <<jobs, plan>>

\* Mutant: the budget is raised by the floor.
FlooredOnTop(o, floor) ==
    IF o.restarts < floor THEN [o EXCEPT !.restarts = @ + floor] ELSE o

Retuned(o) == IF o.tuning = "baseline" THEN [o EXCEPT !.tuning = "profile"] ELSE o
Floored(o, floor) == IF o.restarts < floor THEN [o EXCEPT !.restarts = floor] ELSE o
Guarded(o) == [o EXCEPT !.monitor = TRUE, !.adaptRestart = TRUE]

\* reconcile_scope_passthrough_args, _ensure_annual_campaign_metadata
Scoped(c) == [c EXCEPT !.canonical = TRUE]
Tagged(c) == [c EXCEPT !.annual = TRUE]

\* _is_annual_job_for_year
IsOfYear(i) == jobs[i].config.annual \/ jobs[i].naming # "none"

\* Mutant: the restart budget is held against the floor of any job.
ReconciledLow(i) ==
    LET c == jobs[i].config
        o == [Floored(Retuned(Guarded(c.options)), 1) EXCEPT !.skipBuild = "yes"]
        kept == IF c.options.skipBuild = "unset" THEN [c.options EXCEPT !.skipBuild = "no"]
                ELSE c.options
    IN IF ~IsOfYear(i) \/ (o = kept /\ c.canonical) THEN c
       ELSE Tagged(Scoped([c EXCEPT !.options = o]))

\* The metadata is set along with a change, and is no change by itself.
Reconciled(i) ==
    LET c == jobs[i].config
        o == [Floored(Retuned(Guarded(c.options)), 2) EXCEPT !.skipBuild = "yes"]
        kept == IF c.options.skipBuild = "unset" THEN [c.options EXCEPT !.skipBuild = "no"]
                ELSE c.options
    IN IF ~IsOfYear(i) \/ (o = kept /\ c.canonical) THEN c
       ELSE Tagged(Scoped([c EXCEPT !.options = o]))

\* --sources S --limit n: the oldest rows of the year, whatever their status.
ReconcileLoads(S, n) ==
    /\ LET ofYear == {i \in Ids : IsOfYear(i) /\ jobs[i].source \in S}
           oldest == {i \in ofYear : Cardinality({k \in ofYear : k <= i}) <= n}
       IN Loads("reconcile", [i \in oldest |-> Reconciled(i)])
    /\ UNCHANGED <<jobs, plan, spent>>

\* crawl-auto-recover: the options of a job that it is about to restart.
Recovered(i) ==
    LET o == Guarded(jobs[i].config.options)
    IN IF IsOfYear(i)
       THEN LET p == Floored(Retuned(o), 2)
            IN IF p.skipBuild = "unset" THEN [p EXCEPT !.skipBuild = "yes"] ELSE p
       ELSE Floored(o, 1)

\* Mutant: only annual jobs are looked at.
WatchdogScopesAnnual ==
    /\ Loads("watchdog", [i \in {k \in Ids : jobs[k].status = "running" /\ IsOfYear(k)} |->
                         Scoped(jobs[i].config)])
    /\ UNCHANGED <<jobs, plan, spent>>

\* Each run begins with the scope of every running job ...
WatchdogScopes ==
    /\ Loads("watchdog", [i \in {k \in Ids : jobs[k].status = "running"} |->
                         Scoped(jobs[i].config)])
    /\ UNCHANGED <<jobs, plan, spent>>

\* ... and goes on with a stalled job ...
WatchdogRecovers(i) ==
    /\ jobs[i].status = "running"
    /\ Loads("watchdog", [k \in {i} |->
                         Scoped([jobs[k].config EXCEPT !.options = Recovered(k)])])
    /\ UNCHANGED <<jobs, plan, spent>>

\* ... or with the first pending job of the year, to be started.
WatchdogStarts(i) ==
    /\ jobs[i].status = "queued" /\ IsOfYear(i)
    /\ \A k \in 1..(i - 1) : ~(jobs[k].status = "queued" /\ IsOfYear(k))
    /\ Loads("watchdog", [k \in {i} |->
                         Tagged(Scoped([jobs[k].config EXCEPT !.options = Recovered(k)]))])
    /\ UNCHANGED <<jobs, plan, spent>>

-----------------------------------------------------------------------------
(* annual-status.                                                          *)

Candidates(s) == IF Annual(s) # {} THEN Annual(s) ELSE Named(s)

\* Mutant: the newest candidate counts.
AnnualStatusNewest(s) ==
    IF Candidates(s) = {} THEN "missing"
    ELSE LET i == CHOOSE k \in Candidates(s) : \A l \in Candidates(s) : l <= k
         IN jobs[i].status

AnnualStatus(s) ==
    IF Candidates(s) = {} THEN "missing"
    ELSE IF Cardinality(Candidates(s)) > 1 THEN "error"
    ELSE LET i == CHOOSE k \in Candidates(s) : TRUE IN jobs[i].status

ReadyForSearch == \A s \in Sources : AnnualStatus(s) = "indexed"

-----------------------------------------------------------------------------
(* The specification.                                                      *)

Watchdog ==
    \/ WatchdogScopes
    \/ \E i \in Ids : WatchdogRecovers(i) \/ WatchdogStarts(i)

Next ==
    \/ \E p \in Schedulers : SchedulePlans(p) \/ ScheduleApplies(p) \/ ScheduleDies(p)
    \/ \E s \in Sources :
          \/ \E today \in BOOLEAN : CreateJob(s, today)
          \/ CreateCanary(s)
          \/ \E naming \in Namings : RegisterDir(s, naming)
    \/ \E i \in Ids : JobMoves(i) \/ PatchLoads(i)
    \/ Deploys
    \/ \E S \in SUBSET Sources, n \in 1..MaxJobs : ReconcileLoads(S, n)
    \/ \E w \in Writers : Commit(w) \/ Dies(w)
    \/ Watchdog

Spec == Init /\ [][Next]_vars

\* The watchdog is a timer of five minutes, and each of its runs begins with the
\* scopes, whatever the one before has done after that.
LiveSpec == Spec /\ SF_vars(WatchdogScopes) /\ WF_vars(Commit("watchdog"))

-----------------------------------------------------------------------------
(* Properties.                                                             *)

Drifted(i) == i \in Ids /\ jobs[i].status = "running" /\ ~jobs[i].config.canonical

\* However often schedule-annual runs, and whatever has become of the job and
\* of its config in the meantime, it makes one job a year for each source.
ScheduledOnce ==
    \A s \in Sources : Cardinality({i \in OfSource(s) : jobs[i].by = "schedule"}) <= 1

\* annual-status calls the campaign ready for search only if every job that
\* was scheduled for it is indexed, as long as no patch has dropped the metadata
\* that tells that job from a row with the same name.
ReadyIsHonest ==
    ReadyForSearch /\ spent.patches = 0 =>
        \A i \in Ids : jobs[i].by = "schedule" => jobs[i].status = "indexed"

\* The two tools that bring annual options up to date do not undo each other: what
\* reconcile would leave as it is, crawl-auto-recover leaves as it is, and of the
\* options that crawl-auto-recover leaves, reconcile changes none but
\* skip_final_build, which it alone turns on when a row says no.
ToolsAgree ==
    \A i \in Ids : IsOfYear(i) =>
        LET c == jobs[i].config
        IN /\ Reconciled(i) = c => Recovered(i) = c.options
           /\ Recovered(i) = c.options
                 => Reconciled(i).options = [c.options EXCEPT !.skipBuild = "yes"]

\* A job that is crawled with scope arguments of an older release gets the
\* current ones while it runs, whatever else writes its config.
ScopeIsRepaired ==
    \A i \in 1..MaxJobs : Drifted(i) ~> ~Drifted(i)
=============================================================================
