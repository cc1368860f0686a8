------------------------------ MODULE PublicApi ------------------------------
(***************************************************************************)
(* What api/routes_public.py and the search debugger of                    *)
(* api/routes_admin.py answer from the tables of Catalog: search and       *)
(* browsing page by page, the sources and their editions, replay           *)
(* resolution, the change feed with its comparisons, and the export of     *)
(* snapshots.  Every request is one read of one state.                     *)
(*                                                                         *)
(* A group stands for the scheme, host and slash variants of its URL that  *)
(* a request tries, and its number for the length and depth of that URL.   *)
(* The URLs of one group differ in their queries or among those variants.  *)
(***************************************************************************)
EXTENDS Catalog

CONSTANTS
    Words,      \* what a visitor may search for
    Match,      \* per capture and word: how its title, snippet or URL match it
    Rank,       \* per capture, and whether its vector is full: text rank with boosts
                \* and penalties, as a number
    Queries,    \* the requests to /api/search
    PageSize,   \* pageSize of the requests
    HasTrgm,    \* whether Postgres has pg_trgm and the word 4 letters
    EntryScan,  \* rows of a host that are looked at for an entry page (500)
    ResolveScan, \* rows of a group that are looked at to resolve a URL (250)
    ExportLimit \* rows in one export

(* "body": in the page's text, beyond title, snippet and URL.              *)
Hows == {"fts", "body", "part", "like"}

(* `wanted` is FALSE in a boolean query that excludes its word; `from` and  *)
(* `to` are days, 0 if missing.                                            *)
Requests ==
    [text : {"none", "words", "url", "boolean"}, word : Words, group : Groups, wanted : BOOLEAN,
     view : {"pages", "snapshots"}, sort : {"relevance", "newest"}, ranking : {"v1", "v2"},
     non2xx : BOOLEAN, dups : BOOLEAN, from : Nat, to : Nat]

ASSUME PublicApiAssumption ==
    /\ Groups \subseteq Nat
    /\ Match \in [Captures -> [Words -> SUBSET Hows]]
    /\ Rank \in [Captures -> [BOOLEAN -> Nat]]
    /\ Queries \subseteq Requests
    /\ PageSize \in Nat \ {0} /\ ExportLimit \in Nat \ {0}
    /\ EntryScan \in Nat \ {0} /\ ResolveScan \in Nat \ {0}
    /\ HasTrgm \in BOOLEAN

-----------------------------------------------------------------------------
(* Which rows answer a search.                                             *)

(* Both days are inclusive.                                                *)
InRange(q, s) == (q.from = 0 \/ Of(s).day >= q.from) /\ (q.to = 0 \/ Of(s).day <= q.to)

(* The filters of every search: same-day copies, status, dates.            *)
Searchable(q) ==
    {s \in snaps : (q.dups \/ ~s.dedup) /\ (q.non2xx \/ IsOk(s)) /\ InRange(q, s)}

Matches(s, word, how) ==
    how \in Match[s.cap][word] \/ (how = "fts" /\ s.full /\ "body" \in Match[s.cap][word])

Hits(q, how) == {s \in Searchable(q) : Matches(s, q.word, how)}

(* A query that only excludes has nothing to rank by.                      *)
ByRelevance(q) ==
    q.sort = "relevance" /\ (q.text = "words" \/ (q.text = "boolean" /\ q.wanted))

(* Full text if the results are to be ranked, then substrings, then        *)
(* similar words: the first that finds something.                          *)
How(q) ==
    IF ByRelevance(q) /\ Hits(q, "fts") # {} THEN "fts"
    ELSE IF Hits(q, "part") = {} /\ HasTrgm THEN "like"
    ELSE "part"

Matching(q) ==
    CASE q.text = "none" -> Searchable(q)
      [] q.text = "url" -> InGroup(Searchable(q), q.group)
      [] q.text = "boolean" -> {s \in Searchable(q) : q.wanted <=> Matches(s, q.word, "part")}
      [] q.text = "words" -> Hits(q, How(q))

(* What a result stands for: a page, a content of a URL and day, or itself. *)
ContentKey(s) == <<Of(s).url, Of(s).day, Of(s).hash, IF Of(s).hash = 0 THEN s.id ELSE 0>>

Key(q, s) ==
    IF q.view = "pages" THEN <<Of(s).group>>
    ELSE IF q.dups THEN <<s.id>> ELSE ContentKey(s)

SlowTotal(q) == Cardinality({Key(q, s) : s \in Matching(q)})

(* row_number() = 1 over the partition of each key, newest first.          *)
SlowItems(q) ==
    LET rows == Matching(q)
    IN  {s \in rows : \A t \in rows \ {s} : Key(q, t) = Key(q, s) => Before(t, s)}

(* Browsing pages by the table of pages.                                   *)
FastRows(q) ==
    {s \in snaps : \E g \in DOMAIN pages :
        s.id = IF q.non2xx THEN pages[g].latest ELSE pages[g].latestOk}

Fast(q) ==
    /\ q.view = "pages" /\ q.text = "none" /\ q.from = 0 /\ q.to = 0
    /\ FastRows(q) # {}

Items(q) == IF Fast(q) THEN FastRows(q) ELSE SlowItems(q)

Total(q) == IF Fast(q) THEN Cardinality(FastRows(q)) ELSE SlowTotal(q)

-----------------------------------------------------------------------------
(* In which order they come.                                               *)

Quality(s) ==
    IF Of(s).code = 0 THEN 0
    ELSE IF Is2xx(Of(s).code) THEN 2
    ELSE IF Of(s).code \in 300 .. 399 THEN 1 ELSE -1

(* ORDER BY a DESC, b DESC, ...                                            *)
Over(a, b) == \E i \in DOMAIN a : a[i] > b[i] /\ \A k \in 1 .. i - 1 : a[k] = b[k]

Authority(g) == IF g \in DOMAIN signals THEN signals[g].in ELSE 0

Similar(q) == q.text = "words" /\ How(q) = "like"

(* Text rank with its boosts and penalties.                                *)
TextRank(s) == Rank[s.cap][s.full]

(* Results that are only similar rank without the authority of their page. *)
Score(q, s) == TextRank(s) + IF Similar(q) THEN 0 ELSE Authority(Of(s).group)

(* Ranking v2 orders pages by their best match, v1 by their newest.        *)
Merit(q, s) ==
    IF ~ByRelevance(q) THEN 0
    ELSE IF q.view = "pages" /\ q.ranking = "v2" /\ ~Similar(q)
         THEN Max({Score(q, t) : t \in InGroup(Matching(q), Of(s).group)})
         ELSE Score(q, s)

Length(q, s) == IF q.view = "pages" /\ ByRelevance(q) THEN Of(s).group ELSE 0

Place(q, s) == <<Quality(s), Merit(q, s), -Length(q, s), Of(s).ts, s.id>>

(* OFFSET and LIMIT of the k-th page.                                      *)
Slice(place, k) ==
    {s \in DOMAIN place :
        Cardinality({t \in DOMAIN place : Over(place[t], place[s])})
            \in (k - 1) * PageSize .. k * PageSize - 1}

Places(q) == [s \in Items(q) |-> Place(q, s)]

Page(q, k) == Slice(Places(q), k)

-----------------------------------------------------------------------------
(* search_debug: full text or substrings of the whole text, no duplicates  *)
(* left out, no fallback, no table of pages.                               *)

DebugMatching(q) ==
    {s \in snaps : /\ q.non2xx \/ IsOk(s)
                   /\ q.text = "none" \/
                        Matches(s, q.word, IF ByRelevance(q) THEN "fts" ELSE "part")}

DebugKey(q, s) == IF q.view = "pages" THEN Of(s).group ELSE s.id

DebugTotal(q) == Cardinality({DebugKey(q, s) : s \in DebugMatching(q)})

DebugItems(q) ==
    LET rows == DebugMatching(q)
    IN  {s \in rows : \A t \in rows \ {s} : DebugKey(q, t) = DebugKey(q, s) => Before(t, s)}

DebugMerit(q, s) ==
    LET score(t) == TextRank(t) + Authority(Of(t).group)
    IN  IF ~ByRelevance(q) THEN 0
        ELSE IF q.view = "pages" /\ q.ranking = "v2"
             THEN Max({score(t) : t \in InGroup(DebugMatching(q), Of(s).group)})
             ELSE score(s)

DebugPage(q, k) ==
    Slice([s \in DebugItems(q) |-> <<Quality(s), DebugMerit(q, s), Of(s).ts, s.id>>], k)

-----------------------------------------------------------------------------
(* Sources, editions and replay.                                           *)

(* /snapshots/{id}/latest, and what the raw view offers a comparison with. *)
LatestId(s) == NewestId(InGroup(snaps, Of(s).group))

(* /stats.                                                                 *)
SnapshotsTotal == Cardinality(snaps)
PagesTotal == Cardinality(GroupsOf(snaps))

FirstId(rows, place(_)) ==
    IF rows = {} THEN 0
    ELSE (CHOOSE s \in rows : \A t \in rows \ {s} : Over(place(s), place(t))).id

BestId(rows) == LET place(s) == <<Quality(s), Of(s).ts, s.id>> IN FirstId(rows, place)

(* _entry_candidate_key: of the newest rows, shallow and short URLs first. *)
HostEntry(rows) ==
    LET scanned == {s \in rows : Cardinality({t \in rows : Before(s, t)}) < EntryScan}
        place(s) == <<Quality(s), -Of(s).group, Of(s).ts, s.id>>
    IN  FirstId(scanned, place)

(* The entry page, of the base URL's group g if that was captured.         *)
EntryOf(rows, g) == IF InGroup(rows, g) # {} THEN BestId(InGroup(rows, g)) ELSE HostEntry(rows)

SourceEntry(g) == EntryOf(snaps, g)

(* /sources/{code}/editions: the indexed jobs that have snapshots.         *)
Editions == {j \in Jobs : status[j] = "indexed" /\ RowsOf(j) # {}}

LastCapture(j) == Max({Of(s).ts : s \in RowsOf(j)})

EditionEntry(j, g) == EntryOf(RowsOf(j), g)

FirstEdition ==
    CHOOSE j \in Editions : \A k \in Editions \ {j} : Over(<<LastCapture(j), j>>, <<LastCapture(k), k>>)

\* Mutant: the nearest to the time, whatever its status.
NearestFirst(rows, anchor) ==
    LET gap(s) == IF anchor = 0 THEN 0
                  ELSE IF Of(s).ts > anchor THEN Of(s).ts - anchor ELSE anchor - Of(s).ts
        place(s) == <<-gap(s), Quality(s), Of(s).ts, s.id>>
    IN  FirstId(rows, place)

(* The best of some rows by status, then the nearest to a time if one is    *)
(* asked for, then the newest; 0 if there is none.                         *)
NearestId(rows, anchor) ==
    LET gap(s) == IF anchor = 0 THEN 0
                  ELSE IF Of(s).ts > anchor THEN Of(s).ts - anchor ELSE anchor - Of(s).ts
        place(s) == <<Quality(s), -gap(s), Of(s).ts, s.id>>
    IN  FirstId(rows, place)

WithUrl(rows, urls) == {s \in rows : Of(s).url \in urls}

(* /replay/resolve: in an edition, the captures of the URL as it is, in any *)
(* of its variants `urls`, and only if there is none the newest ones of its *)
(* group g; 0 if nothing is found or there is no such edition.             *)
Resolve(j, g, urls, anchor) ==
    LET exact == WithUrl(RowsOf(j), urls)
        rows == InGroup(RowsOf(j), g)
        recent == {s \in rows : Cardinality({t \in rows : Before(s, t)}) < ResolveScan}
    IN  IF status[j] # "indexed" THEN 0
        ELSE NearestId(IF exact # {} THEN exact ELSE recent, anchor)

-----------------------------------------------------------------------------
(* Changes and exports.                                                    *)

(* /changes without a source, a job or dates: the latest indexed job.      *)
Feed(includeUnchanged) ==
    {e \in changes : /\ Editions # {}
                     /\ \E s \in snaps : s.id = e.to /\ Of(s).job = FirstEdition
                     /\ includeUnchanged \/ ~e.same}

(* /snapshots/{id}/timeline: what each capture can be compared with.       *)
CompareFrom(s) == {e.from : e \in {c \in changes : c.to = s.id}}

(* /changes/compare: the event of `to`, if `from` is its other side.       *)
Compared(to, from) ==
    {e \in changes : e.to = to /\ to \in Ids(snaps) /\ (from = 0 \/ e.from = from)}

(* /exports/snapshots?afterId=, and the same again from the last id.       *)
Export(after) ==
    LET rest == {s \in snaps : s.id > after}
    IN  {s \in rest : Cardinality({t \in rest : t.id < s.id}) < ExportLimit}

Exported ==
    LET from[after \in 0 .. MaxId] ==
            IF Export(after) = {} THEN {}
            ELSE Export(after) \cup from[Max(Ids(Export(after)))]
    IN  from[0]

-----------------------------------------------------------------------------
(* Properties.                                                             *)

Copies(s) == {t \in snaps : t = s \/ SameDayCopy(s, t)}

(* A same-day copy is hidden only while another copy is shown: whatever    *)
(* re-indexing, deduplicating and restoring do in between, each content of *)
(* a page and day is a result of the browsing that includes every status.  *)
(* The default leaves out what is not 2xx, but the deduplication keeps the *)
(* copy with the lowest id, whatever its status: the default shows a       *)
(* content for certain only if no copy of it has another status.           *)
EveryContentIsShown ==
    \A q \in {r \in Queries : /\ r.view = "snapshots" /\ r.text = "none" /\ r.from = 0 /\ r.to = 0
                             /\ ~r.dups} :
        \A s \in snaps : q.non2xx \/ (\A t \in Copies(s) : IsOk(t)) => Copies(s) \cap Items(q) # {}

(* Asking for one page after the other, a visitor gets as many results as  *)
(* the total says, each of them once, and no page is short but the last.   *)
PagesAddUp ==
    \A q \in Queries :
        LET places == Places(q)
            total == Total(q)
        IN  /\ Cardinality(DOMAIN places) = total
            /\ \A k \in 1 .. Cardinality(Captures) :
                    Cardinality(Slice(places, k)) = Min({PageSize, Max({0, total - (k - 1) * PageSize})})

CleanGroups == {g \in Groups \ pagesBehind : \A s \in InGroup(snaps, g) : ~s.dedup}

(* Browsing by the table of pages gives what the window functions give, in *)
(* groups that were not left behind and have no deduplicated row.          *)
FastAgrees ==
    \A q \in Queries : Fast(q) =>
        LET clean(rows) == {s \in rows : Of(s).group \in CleanGroups}
        IN  clean(FastRows(q)) = clean(SlowItems(q))

(* routes_admin.py:327: the debugger has the ordering of the search, in so *)
(* far as the search needs none of what the debugger leaves out, and no    *)
(* two pages tie until the length of their URLs.                           *)
DebugAgrees ==
    \A q \in {r \in Queries : r.text \in {"none", "words"} /\ r.from = 0 /\ r.to = 0
                              /\ (r.view = "pages" \/ r.dups)} :
        LET plain == q.text = "words" => How(q) = IF ByRelevance(q) THEN "fts" ELSE "part"
            tied(s, t) == Quality(s) = Quality(t) /\ Merit(q, s) = Merit(q, t)
            apart == \A s, t \in Items(q) :
                        s # t /\ q.view = "pages" /\ ByRelevance(q) => ~tied(s, t)
        IN  CleanGroups = Groups /\ plain /\ apart =>
                /\ DebugTotal(q) = Total(q)
                /\ \A k \in 1 .. Cardinality(Captures) : DebugPage(q, k) = Page(q, k)

UrlsOf(g) == {Capture[c].url : c \in {d \in Captures : Capture[d].group = g}}

(* Switching editions comes back to the entry page: resolving an URL of    *)
(* the page, without a time, at that of the entry or a later one, gives    *)
(* the entry if the URL is the entry's, or is not in the edition and the   *)
(* page has no more captures there than are looked at.  An URL of the page *)
(* that is in the edition beside that of the entry may resolve to a worse  *)
(* capture, but never to one of another page.                              *)
EntriesResolve ==
    \A j \in Editions : \A g \in GroupsOf(RowsOf(j)) : \A e \in InGroup(RowsOf(j), g) :
        e.id = EditionEntry(j, g) =>
            \A urls \in SUBSET UrlsOf(g) : \A anchor \in {0} \cup {Of(s).ts : s \in snaps} :
                LET id == Resolve(j, g, urls, anchor)
                    alone == /\ WithUrl(RowsOf(j), urls) = {}
                             /\ Cardinality(InGroup(RowsOf(j), g)) <= ResolveScan
                IN  /\ id \in Ids(InGroup(RowsOf(j), g))
                    /\ (anchor = 0 \/ anchor >= Of(e).ts) /\ (Of(e).url \in urls \/ alone) => id = e.id

(* Two requests that answer the same question agree: the pages of a search *)
(* with its total, browsing by either way, search and its debugger, the    *)
(* counts of /stats with the pages and with an export followed to its end, *)
(* the newest capture of a page, the entry of a source with the best of    *)
(* the entries of its editions, and the entry of an edition with what its  *)
(* page resolves to there.                                                 *)
ReadsAgree ==
    LET entries(g) == {s \in InGroup(snaps, g) : \E j \in Jobs : EditionEntry(j, g) = s.id}
    IN  /\ PagesAddUp /\ FastAgrees /\ DebugAgrees
        /\ pagesBehind = {} => PagesTotal = Cardinality(DOMAIN pages)
        /\ Exported = snaps /\ Cardinality(Exported) = SnapshotsTotal
        /\ \A s \in snaps : Of(s).group \notin pagesBehind => LatestId(s) = pages[Of(s).group].latest
        /\ \A g \in GroupsOf(snaps) : SourceEntry(g) = BestId(entries(g))
        /\ EntriesResolve

(* The timeline never points at what is gone or lies ahead: an event is of *)
(* a live snapshot, at most one of each, compared with nothing or with an  *)
(* earlier capture of the same group, and each pair that is offered can be *)
(* compared.                                                               *)
ComparesBackwards ==
    /\ \A e \in changes : e.to \in Ids(snaps)
    /\ \A s \in snaps : /\ Cardinality(CompareFrom(s)) <= 1
                        /\ \A i \in CompareFrom(s) \ {0} :
                              \E t \in InGroup(snaps, Of(s).group) : t.id = i /\ Before(t, s)
                        /\ \A i \in CompareFrom(s) : Cardinality(Compared(s.id, i)) = 1

(* Every capture in the window gets its change event, shown in the feed if *)
(* its edition is the latest and the page did change, or is replaced, or   *)
(* the window moves past it: the oldest are taken first, and what waits    *)
(* longer than the window is wide has no event of the timer any more.  One *)
(* that stays in the window gets it, however many wait and however few one *)
(* run takes.                                                              *)
FeedCatchesUp ==
    \A i \in 1 .. MaxId :
        (\E s \in snaps : s.id = i /\ Of(s).ts >= since)
            ~> \A s \in snaps : s.id = i /\ Of(s).ts >= since =>
                    /\ CompareFrom(s) # {}
                    /\ Editions # {} /\ Of(s).job = FirstEdition =>
                            \E e \in Feed(TRUE) : e.to = i /\ (e.same \/ e \in Feed(FALSE))

(* routes_public.py:1115: deduplicated snapshots are excluded unless       *)
(* duplicates are requested.                                               *)
BrowseHidesDuplicates == \A q \in Queries : \A s \in Items(q) : s.dedup => q.dups

(* planning/implemented/2026-01-03-search-ranking-and-snippets-v3.md:10 of  *)
(* the docs: 4 KB of content in the vector "improves recall".  What full    *)
(* text finds, it finds after the backfills of lines 34-39 too.            *)
BackfillKeepsRecall ==
    [][\A s \in snaps, t \in snaps', word \in Words :
          s.id = t.id /\ Matches(s, word, "fts") => Matches(t, word, "fts")]_vars

=============================================================================
