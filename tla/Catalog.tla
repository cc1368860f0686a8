------------------------------- MODULE Catalog -------------------------------
(***************************************************************************)
(* The tables derived from the WARCs of one source: `snapshots` with their *)
(* outlinks, written by index_job                                          *)
(* (indexing/pipeline.py); `pages` (pages.py), `page_signals`              *)
(* (authority.py), `snapshot_changes` (changes.py), the deduplication flag *)
(* and its audit rows (indexing/deduplication.py).  Each command is one    *)
(* transaction on Postgres, except that applying a deduplication decides   *)
(* on what it found earlier.  PublicApi has the queries that read them.    *)
(***************************************************************************)
EXTENDS Integers, FiniteSets, FiniteSetsExt

CONSTANTS
    Jobs,       \* the jobs of the source
    Groups,     \* page groups (normalized_url_group)
    Captures,   \* HTML records in the WARCs, numbered in their order there
    Capture,    \* what each holds: its job, URL and its group, time, day, hash, code, links
    FirstSince, \* where the window of compute-changes --since-days begins at first
    MaxEvents,  \* compute-changes --max-events
    LastSince,  \* bound: where the window begins at last
    MaxId,      \* bound: snapshot ids that are ever given out
    MaxTroubles \* bound: failed indexings, and repairs of outlinks and search vectors

(* A hash of 0 is a missing content_hash, a code of 0 a missing status_code.  *)
(* The group of a URL is what is left of it without its query.             *)
ASSUME CaptureAssumption ==
    /\ Captures \subseteq Nat
    /\ Capture \in [Captures -> [job : Jobs, group : Groups, url : Nat, ts : Nat, day : Nat,
                                 hash : Nat, code : Nat, links : SUBSET Groups]]
    /\ \A c, d \in Captures : Capture[c].url = Capture[d].url => Capture[c].group = Capture[d].group

(* The tables are finite, and so is what is read into them.                *)
ASSUME BoundsAssumption ==
    /\ IsFiniteSet(Captures) /\ IsFiniteSet(Groups)
    /\ MaxId \in Nat /\ MaxTroubles \in Nat
    /\ FirstSince \in Nat /\ LastSince \in Nat

VARIABLES
    status,     \* archive_jobs.status: "completed", "indexed" or "index_failed"
    snaps,      \* the rows of snapshots, each with its outlinks; `full`: its search
                \* vector has the text of the page, not only title, snippet and URL
    nextId,     \* the sequence of snapshot ids
    pages,      \* the rows of pages, by group; a pointer of 0 is NULL
    signals,    \* the rows of page_signals, by group
    changes,    \* the rows of snapshot_changes; `same`: unchanged, `from` 0: NULL
    audit,      \* the rows of snapshot_deduplications
    found,      \* the candidates a deduplication found and has not applied
    since,      \* where the window of compute-changes begins today
    pagesBehind,    \* ghost: groups that a failed index left without a rebuild
    linksBehind,    \* ghost: groups whose inlinks changed without a recompute
    troubles        \* how many of MaxTroubles there have been

vars == <<status, snaps, nextId, pages, signals, changes, audit, found, since,
          pagesBehind, linksBehind, troubles>>

-----------------------------------------------------------------------------
(* Rows.                                                                   *)

Of(s) == Capture[s.cap]

RowsOf(j) == {s \in snaps : Of(s).job = j}

GroupsOf(rows) == {Of(s).group : s \in rows}

InGroup(rows, g) == {s \in rows : Of(s).group = g}

Targets(rows) == UNION {s.links : s \in rows}

Ids(rows) == {s.id : s \in rows}

Is2xx(code) == code \in 200 .. 299

IsOk(s) == Of(s).code = 0 \/ Is2xx(Of(s).code)

(* ORDER BY capture_timestamp, id.                                         *)
Before(s, t) == Of(s).ts < Of(t).ts \/ (Of(s).ts = Of(t).ts /\ s.id < t.id)

Newest(rows) == CHOOSE s \in rows : \A t \in rows \ {s} : Before(t, s)

NewestId(rows) == IF rows = {} THEN 0 ELSE Newest(rows).id

-----------------------------------------------------------------------------
(* pages.py and authority.py.                                              *)

PageOf(rows) ==
    [n |-> Cardinality(rows),
     first |-> Min({Of(s).ts : s \in rows}),
     last |-> Max({Of(s).ts : s \in rows}),
     latest |-> NewestId(rows),
     latestOk |-> NewestId({s \in rows : IsOk(s)})]

(* rebuild_pages: an upsert of the groups that have rows; rows of the other *)
(* groups asked for go only if the caller says so.                         *)
RebuildPages(table, rows, groups, deleteMissing) ==
    LET live == groups \cap GroupsOf(rows)
        missing == IF deleteMissing THEN groups \ live ELSE {}
    IN  [g \in (DOMAIN table \cup live) \ missing |->
            IF g \in live THEN PageOf(InGroup(rows, g)) ELSE table[g]]

Edges(rows) ==
    UNION {{<<Of(s).group, g>> : g \in s.links \ {Of(s).group}} : s \in rows}

SignalOf(rows, g) ==
    [in |-> Cardinality({e \in Edges(rows) : e[2] = g}),
     out |-> Cardinality({e \in Edges(rows) : e[1] = g})]

NoLinks == [in |-> 0, out |-> 0]

(* recompute_page_signals(groups): rows without any link left go.          *)
RecomputeGroups(table, rows, groups) ==
    LET linked == {g \in groups : SignalOf(rows, g) # NoLinks}
    IN  [g \in (DOMAIN table \ groups) \cup linked |->
            IF g \in linked THEN SignalOf(rows, g) ELSE table[g]]

(* recompute_page_signals(None): the whole table from the link graph.      *)
RecomputeAll(rows) ==
    [g \in {h \in Groups : SignalOf(rows, h) # NoLinks} |-> SignalOf(rows, g)]

-----------------------------------------------------------------------------
(* indexing/deduplication.py.                                              *)

SameDayCopy(s, t) ==
    /\ Of(s).group = Of(t).group
    /\ Of(s).day = Of(t).day
    /\ Of(s).hash = Of(t).hash
    /\ Of(s).hash # 0

(* find_same_day_duplicates(job_id): the filter on the job decides which   *)
(* classes are found and their canonical row, not which rows are marked.   *)
Duplicates(rows, scope) ==
    LET active == {s \in rows : ~s.dedup}
        scoped == {s \in active : Of(s).job \in scope}
        canonical == {c \in scoped :
            /\ \E t \in scoped \ {c} : SameDayCopy(t, c)
            /\ \A t \in scoped : SameDayCopy(t, c) => c.id <= t.id}
    IN  {d \in [dup : Ids(active), canon : Ids(canonical)] :
            \E s \in active, c \in canonical :
                d = [dup |-> s.id, canon |-> c.id] /\ SameDayCopy(s, c) /\ s # c}

(* deduplicate_snapshots: rows that are gone or marked already are skipped. *)
Marked(rows, candidates) ==
    {d \in candidates : \E s \in rows : s.id = d.dup /\ ~s.dedup}

MarkRows(rows, candidates) ==
    {[s EXCEPT !.dedup = @ \/ \E d \in candidates : d.dup = s.id] : s \in rows}

(* Foreign keys of the audit rows have no ON DELETE: they refuse.          *)
Referenced(rows) == \E a \in audit : {a.dup, a.canon} \cap Ids(rows) # {}

-----------------------------------------------------------------------------
(* What DELETE FROM snapshots takes along: change events of the deleted row *)
(* (CASCADE), and pointers to it from events and pages (SET NULL).         *)

\* Mutant: both ends of an event are SET NULL, so that the event stays.
ChangesNulled(gone) ==
    {[c EXCEPT !.from = IF @ \in gone THEN 0 ELSE @,
               !.to = IF @ \in gone THEN 0 ELSE @] : c \in changes}

ChangesWithout(gone) ==
    {[c EXCEPT !.from = IF @ \in gone THEN 0 ELSE @] : c \in {e \in changes : e.to \notin gone}}

PagesWithout(gone) ==
    [g \in DOMAIN pages |->
        [pages[g] EXCEPT !.latest = IF @ \in gone THEN 0 ELSE @,
                         !.latestOk = IF @ \in gone THEN 0 ELSE @]]

(* record_to_snapshot, with the outlinks of 2xx records and 4 KB of text in *)
(* the search vector.                                                      *)
RowOf(c, read) ==
    [id |-> nextId + Cardinality({d \in read : d < c}),
     cap |-> c,
     dedup |-> FALSE, full |-> TRUE,
     links |-> IF Is2xx(Capture[c].code) THEN Capture[c].links ELSE {}]

NewRows(read) == {RowOf(c, read) : c \in read}

-----------------------------------------------------------------------------
Init ==
    /\ status = [j \in Jobs |-> "completed"]
    /\ snaps = {} /\ nextId = 1
    /\ pages = << >> /\ signals = << >>
    /\ changes = {} /\ audit = {} /\ found = {}
    /\ since = FirstSince
    /\ pagesBehind = {} /\ linksBehind = {}
    /\ troubles = 0

Trouble == troubles < MaxTroubles /\ troubles' = troubles + 1

\* Mutant: audit rows do not hold on to the snapshots they name.
ReplacesReferenced(j, read) ==
    /\ nextId + Cardinality(read) - 1 <= MaxId
    /\ nextId' = nextId + Cardinality(read)
    /\ changes' = ChangesWithout(Ids(RowsOf(j)))

(* The common part of an index_job that gets as far as replacing the rows  *)
(* of the job.  What `read` leaves out is in WARCs that are no longer       *)
(* there, or could not be parsed.                                          *)
Replaces(j, read) ==
    /\ ~Referenced(RowsOf(j))
    /\ nextId + Cardinality(read) - 1 <= MaxId
    /\ nextId' = nextId + Cardinality(read)
    /\ changes' = ChangesWithout(Ids(RowsOf(j)))

\* Mutant: the groups of the rows that are replaced are forgotten.
PageGroupsNew(j, read) == GroupsOf(NewRows(read))

PageGroupsTouched(j, read) == GroupsOf(RowsOf(j)) \cup GroupsOf(NewRows(read))

\* Mutant: the targets of the outlinks that are deleted are forgotten.
LinkGroupsNew(j, read) ==
    Targets(NewRows(read)) \cup GroupsOf({s \in NewRows(read) : Is2xx(Of(s).code)})

LinkGroupsTouched(j, read) ==
    Targets(RowsOf(j)) \cup Targets(NewRows(read))
        \cup GroupsOf({s \in NewRows(read) : Is2xx(Of(s).code)})

(* index_job: the rows, the pages and signals they touch and, if it is     *)
(* enabled, the deduplication of the job, in one transaction.              *)
IndexJob(j) == \E read \in SUBSET {c \in Captures : Capture[c].job = j}, auto \in BOOLEAN :
    /\ Replaces(j, read)
    /\ LET rows == (snaps \ RowsOf(j)) \cup NewRows(read)
           marks == IF auto THEN Duplicates(rows, {j}) ELSE {}
       IN  /\ snaps' = MarkRows(rows, marks)
           /\ audit' = audit \cup marks
           /\ pages' = RebuildPages(PagesWithout(Ids(RowsOf(j))), rows,
                                    PageGroupsTouched(j, read), TRUE)
           /\ signals' = RecomputeGroups(signals, rows, LinkGroupsTouched(j, read))
    /\ status' = [status EXCEPT ![j] = "indexed"]
    /\ pagesBehind' = pagesBehind \ PageGroupsTouched(j, read)
    /\ linksBehind' = linksBehind \ LinkGroupsTouched(j, read)
    /\ UNCHANGED <<found, troubles, since>>

(* A storage error half way: what was read so far is committed with the    *)
(* status, without the pages and signals.                                  *)
IndexBreaks(j) == \E read \in SUBSET {c \in Captures : Capture[c].job = j} :
    /\ Trouble
    /\ Replaces(j, read)
    /\ snaps' = (snaps \ RowsOf(j)) \cup NewRows(read)
    /\ pages' = PagesWithout(Ids(RowsOf(j)))
    /\ status' = [status EXCEPT ![j] = "index_failed"]
    /\ pagesBehind' = pagesBehind \cup PageGroupsTouched(j, read)
    /\ linksBehind' = linksBehind \cup LinkGroupsTouched(j, read)
    /\ UNCHANGED <<signals, audit, found, since>>

(* The output directory is not readable, there are no WARCs, or they do    *)
(* not verify: nothing but the status.                                     *)
IndexRefuses(j) ==
    /\ Trouble
    /\ status' = [status EXCEPT ![j] = "index_failed"]
    /\ UNCHANGED <<snaps, nextId, pages, signals, changes, audit, found, pagesBehind, linksBehind, since>>

(* rebuild-pages --job-id.                                                 *)
RebuildJobPages(j) ==
    /\ pages' = RebuildPages(pages, snaps, GroupsOf(RowsOf(j)), TRUE)
    /\ pagesBehind' = pagesBehind \ GroupsOf(RowsOf(j))
    /\ UNCHANGED <<status, snaps, nextId, signals, changes, audit, found, linksBehind, troubles, since>>

(* rebuild-pages, with or without --truncate: rows of groups that have no  *)
(* snapshot any more go only with it.                                      *)
RebuildAllPages == \E truncate \in BOOLEAN :
    /\ pages' = RebuildPages(IF truncate THEN << >> ELSE pages, snaps, GroupsOf(snaps), FALSE)
    /\ pagesBehind' = IF truncate THEN {} ELSE pagesBehind \ GroupsOf(snaps)
    /\ UNCHANGED <<status, snaps, nextId, signals, changes, audit, found, linksBehind, troubles, since>>

(* recompute-page-signals.                                                 *)
RecomputeSignals ==
    /\ signals' = RecomputeAll(snaps)
    /\ linksBehind' = {}
    /\ UNCHANGED <<status, snaps, nextId, pages, changes, audit, found, pagesBehind, troubles, since>>

(* backfill-outlinks: the outlinks of a job again, from the WARCs that are *)
(* still there; the signals with them only if asked to.                    *)
BackfillOutlinks(j) == \E readable \in SUBSET {s.cap : s \in RowsOf(j)}, update \in BOOLEAN :
    LET again(s) == [s EXCEPT !.links = IF s.cap \in readable /\ Is2xx(Of(s).code)
                                        THEN Of(s).links ELSE {}]
        renewed == {again(s) : s \in RowsOf(j)}
        rows == (snaps \ RowsOf(j)) \cup renewed
        touched == Targets(RowsOf(j)) \cup Targets(renewed)
                    \cup GroupsOf({s \in renewed : s.cap \in readable /\ Is2xx(Of(s).code)})
    IN  /\ Trouble
        /\ RowsOf(j) # {}
        /\ snaps' = rows
        /\ signals' = IF update THEN RecomputeGroups(signals, rows, touched) ELSE signals
        /\ linksBehind' = IF update THEN linksBehind \ touched ELSE linksBehind \cup touched
        /\ UNCHANGED <<status, nextId, pages, changes, audit, found, pagesBehind, since>>

(* build_search_vector without content_text.                               *)
Shortened(rows) == {[s EXCEPT !.full = FALSE] : s \in rows}

(* refresh-snapshot-metadata: title and snippet again, from the WARCs that  *)
(* are still there, and the search vector of every row from those.         *)
RefreshMetadata(j) ==
    /\ Trouble
    /\ RowsOf(j) # {}
    /\ snaps' = (snaps \ RowsOf(j)) \cup Shortened(RowsOf(j))
    /\ UNCHANGED <<status, nextId, pages, signals, changes, audit, found, pagesBehind, linksBehind, since>>

(* backfill-search-vector --force.  Without it there is nothing to fill:    *)
(* index_job leaves no row without a vector.                               *)
BackfillVectors ==
    /\ Trouble
    /\ snaps # {}
    /\ snaps' = Shortened(snaps)
    /\ UNCHANGED <<status, nextId, pages, signals, changes, audit, found, pagesBehind, linksBehind, since>>

-----------------------------------------------------------------------------
(* dedupe-snapshots --apply, for one job or for all.  One runs at a time.  *)
Scopes == {Jobs} \cup {{j} : j \in Jobs}

DedupeFinds == \E scope \in Scopes :
    /\ found = {}
    /\ found' = Duplicates(snaps, scope)
    /\ found' # {}
    /\ UNCHANGED <<status, snaps, nextId, pages, signals, changes, audit, pagesBehind, linksBehind, troubles, since>>

(* An audit row whose canonical snapshot has gone violates its foreign key, *)
(* and the whole transaction is rolled back.                               *)
DedupeApplies ==
    /\ found # {}
    /\ found' = {}
    /\ LET marks == Marked(snaps, found)
       IN  IF \A d \in marks : d.canon \in Ids(snaps)
           THEN /\ snaps' = MarkRows(snaps, marks)
                /\ audit' = audit \cup marks
           ELSE UNCHANGED <<snaps, audit>>
    /\ UNCHANGED <<status, nextId, pages, signals, changes, pagesBehind, linksBehind, troubles, since>>

(* restore-deduped-snapshots, for one job or for all.                      *)
RestoreDeduped == \E scope \in Scopes :
    LET back == {s \in snaps : s.dedup /\ Of(s).job \in scope}
    IN  /\ back # {}
        /\ snaps' = (snaps \ back) \cup {[s EXCEPT !.dedup = FALSE] : s \in back}
        /\ audit' = {a \in audit : a.dup \notin Ids(back)}
        /\ UNCHANGED <<status, nextId, pages, signals, changes, found, pagesBehind, linksBehind, troubles, since>>

-----------------------------------------------------------------------------
(* changes.py.                                                             *)

Unchanged(s, t) == Of(s).hash # 0 /\ Of(s).hash = Of(t).hash

Event(s, from) == [to |-> s.id, from |-> NewestId(from),
                   same |-> from # {} /\ Unchanged(s, Newest(from))]

Pending == {s \in snaps : \A e \in changes : e.to # s.id}

\* Mutant: the earlier capture may be of the same time, or the same row.
ComputeSinceLoosely ==
    LET eligible == {s \in Pending : Of(s).ts >= since}
        batch == {s \in eligible : Cardinality({t \in eligible : Before(t, s)}) < MaxEvents}
        earlier(s) == {t \in InGroup(snaps, Of(s).group) : Of(t).ts <= Of(s).ts}
    IN  /\ eligible # {}
        /\ changes' = changes \cup {Event(s, earlier(s)) : s \in batch}
        /\ UNCHANGED <<status, snaps, nextId, pages, signals, audit, found, pagesBehind, linksBehind, troubles, since>>

\* Mutant: rows that have an event already count towards the limit.
ComputeSinceCounting ==
    LET window == {s \in snaps : Of(s).ts >= since}
        batch == {s \in window : Cardinality({t \in window : Before(t, s)}) < MaxEvents}
        earlier(s) == {t \in InGroup(snaps, Of(s).group) : Of(t).ts < Of(s).ts}
    IN  /\ window # {}
        /\ changes' = changes \cup {Event(s, earlier(s)) : s \in batch \cap Pending}
        /\ UNCHANGED <<status, snaps, nextId, pages, signals, audit, found, pagesBehind, linksBehind, troubles, since>>

(* compute_changes_since: the oldest that have no event yet, up to the      *)
(* limit, each against the last strictly earlier capture of its group.     *)
ComputeSince ==
    LET eligible == {s \in Pending : Of(s).ts >= since}
        batch == {s \in eligible : Cardinality({t \in eligible : Before(t, s)}) < MaxEvents}
        earlier(s) == {t \in InGroup(snaps, Of(s).group) : Of(t).ts < Of(s).ts}
    IN  /\ eligible # {}
        /\ changes' = changes \cup {Event(s, earlier(s)) : s \in batch}
        /\ UNCHANGED <<status, snaps, nextId, pages, signals, audit, found, pagesBehind, linksBehind, troubles, since>>

(* Another day: the window is a number of days before today.               *)
WindowMoves ==
    /\ since < LastSince
    /\ since' = since + 1
    /\ UNCHANGED <<status, snaps, nextId, pages, signals, changes, audit, found, pagesBehind, linksBehind, troubles>>

(* compute_changes_backfill: group by group, each against its predecessor. *)
ComputeBackfill ==
    LET sooner(t, s) == \/ Of(t).group < Of(s).group
                        \/ Of(t).group = Of(s).group /\ Before(t, s)
        batch == {s \in Pending : Cardinality({t \in Pending : sooner(t, s)}) < MaxEvents}
        earlier(s) == {t \in InGroup(snaps, Of(s).group) : Before(t, s)}
    IN  /\ Pending # {}
        /\ changes' = changes \cup {Event(s, earlier(s)) : s \in batch}
        /\ UNCHANGED <<status, snaps, nextId, pages, signals, audit, found, pagesBehind, linksBehind, troubles, since>>

Next ==
    \/ \E j \in Jobs : \/ IndexJob(j) \/ IndexBreaks(j) \/ IndexRefuses(j)
                       \/ RebuildJobPages(j) \/ BackfillOutlinks(j) \/ RefreshMetadata(j)
    \/ BackfillVectors \/ RebuildAllPages \/ RecomputeSignals
    \/ DedupeFinds \/ DedupeApplies \/ RestoreDeduped
    \/ ComputeSince \/ ComputeBackfill \/ WindowMoves

Spec == Init /\ [][Next]_vars

(* healtharchive-change-tracking.timer runs compute-changes for ever.      *)
LiveSpec == Spec /\ WF_vars(ComputeSince)

-----------------------------------------------------------------------------
(* Properties.                                                             *)

Rows == [id : 1 .. MaxId, cap : Captures, dedup : BOOLEAN, full : BOOLEAN,
         links : SUBSET Groups]
PageRows == [n : Nat, first : Nat, last : Nat, latest : 0 .. MaxId, latestOk : 0 .. MaxId]
Pairs == [dup : 1 .. MaxId, canon : 1 .. MaxId]

(* Every table holds rows of its type, and no id is given out twice.       *)
TypeOK ==
    /\ status \in [Jobs -> {"completed", "indexed", "index_failed"}]
    /\ snaps \subseteq Rows
    /\ \A s, t \in snaps : s.id = t.id => s = t
    /\ nextId \in 1 .. MaxId + 1
    /\ DOMAIN pages \subseteq Groups /\ \A g \in DOMAIN pages : pages[g] \in PageRows
    /\ DOMAIN signals \subseteq Groups
    /\ \A g \in DOMAIN signals : signals[g] \in [in : Nat, out : Nat]
    /\ changes \subseteq [to : 1 .. MaxId, from : 0 .. MaxId, same : BOOLEAN]
    /\ audit \subseteq Pairs /\ found \subseteq Pairs
    /\ pagesBehind \subseteq Groups /\ linksBehind \subseteq Groups
    /\ since \in Nat
    /\ troubles \in 0 .. MaxTroubles

(* Outside the groups that a failed index left behind, the incremental     *)
(* rebuilds keep each page row equal to what a rebuild from nothing gives, *)
(* and no row stays for a group that has no snapshot.                      *)
PagesMatch ==
    LET full == RebuildPages(<< >>, snaps, Groups, FALSE)
    IN  \A g \in Groups \ pagesBehind :
            /\ g \in DOMAIN pages <=> g \in DOMAIN full
            /\ g \in DOMAIN full => pages[g] = full[g]

(* The inlink counts that rank the results match the link graph, outside   *)
(* the groups whose signals an operator chose not to update or a failed    *)
(* index did not reach.                                                    *)
InlinksMatch ==
    \A g \in Groups \ linksBehind :
        SignalOf(snaps, g).in = IF g \in DOMAIN signals THEN signals[g].in ELSE 0

=============================================================================
