--------------------------- MODULE ReplayCollections ---------------------------
(* The pywb collection job-<id> of one job, composed with the job's files and rows:  *)
(* replay-index-job links the WARCs that discovery finds, has the container build    *)
(* the CDX index over the links and records in replay-index.meta.json which WARCs it *)
(* was asked for; replay-reconcile, which a timer starts once a day, compares the    *)
(* collections of indexed jobs with that and indexes again where it sees a need.     *)
(* Both are several steps, and every step of a storage command may fall between.     *)
(*                                                                                   *)
(* A link is a symbolic link numbered by the place of its WARC in the sorted list;   *)
(* the index refers to links by number.  One replay command runs at a time, as the   *)
(* lock file of replay-reconcile sees to; replay-index-job takes no lock.            *)
EXTENDS WarcStorage, Sequences, Functions

CONSTANT MaxBreaks   \* bound on the faults of storage and replay commands together

VARIABLES
    links,     \* archive/warc-<i>: the path each link leads to
    built,     \* indexes/index.cdxj exists
    index,     \* what the index holds for link i: the WARC it read there
    marker,    \* replay-index.meta.json: the paths of the last indexing, {} without one
    stage,     \* the step of the replay command in progress
    plan,      \* the paths it was given, in order
    torn,      \* ghost: the last indexing broke off between its unlinking and its marker
    freed,     \* ghost: stable names that may be given to another WARC than the index read
    breaks

collection == <<links, built, index, marker>>
replay     == <<collection, stage, plan, torn, breaks>>
allvars    == <<vars, replay, freed>>

ASSUME ReplayAssumption == Warcs \subseteq Nat /\ MaxBreaks \in Nat

(* The paths, sorted: stable names by number, temp WARCs by theirs.                  *)
Sorted(paths) == {s \in [1 .. Cardinality(paths) -> paths] :
                     \A i, k \in DOMAIN s : i < k => s[i].of < s[k].of}

NoLinks == [i \in {} |-> InStable(1)]
NoIndex == [i \in {} |-> NoWarc]

ReplayInit ==
    /\ Init
    /\ links = NoLinks /\ built = FALSE /\ index = NoIndex /\ marker = {}
    /\ stage = "idle" /\ plan = <<>> /\ torn = FALSE /\ freed = {} /\ breaks = 0

----------------------------------------------------------------------------
(* replay-index-job.                                                                 *)

ReplayIdle == stage' = "idle" /\ plan' = <<>>

Indexing(paths) ==
    /\ stage = "idle"
    /\ plan' = paths /\ stage' = "relink"
    /\ UNCHANGED <<vars, freed, breaks, collection, torn>>

(* By an operator: for a job in any state, with or without --limit-warcs.            *)
ReplayIndexJob ==
    \E paths \in Sorted(Discovered), n \in 1 .. Cardinality(Discovered) :
        Indexing(SubSeq(paths, 1, n))

(* Every warc-* link goes, then the planned ones are made.                           *)
Relink ==
    /\ stage = "relink"
    /\ links' = plan /\ stage' = "reindex"
    /\ torn' = TRUE
    /\ UNCHANGED <<vars, freed, breaks, built, index, marker, plan>>

(* It breaks off between the two or within either.                                   *)
RelinkBreaksOff ==
    /\ stage = "relink" /\ faults + breaks < MaxBreaks /\ breaks' = breaks + 1
    /\ \/ \E kept \in SUBSET DOMAIN links : links' = Restrict(links, kept)
       \/ \E n \in 0 .. Len(plan) : links' = SubSeq(plan, 1, n)
    /\ torn' = TRUE /\ ReplayIdle
    /\ UNCHANGED <<vars, freed, built, index, marker>>

(* wb-manager reindex reads the WARC behind every link that leads to one.            *)
\* Mutant of Readable: a link that leads nowhere is indexed as well.
EveryLink == DOMAIN links

Readable == {i \in DOMAIN links : Content(links[i]) # NoWarc}

Reindex ==
    /\ stage = "reindex"
    /\ built' = TRUE /\ index' = [i \in Readable |-> Content(links[i])]
    /\ stage' = "mark"
    /\ freed' = freed \ StableNames
    /\ UNCHANGED <<vars, breaks, links, marker, plan, torn>>

(* The container is down, or wb-manager fails: the old index stays.                  *)
ReindexFails ==
    /\ stage = "reindex" /\ faults + breaks < MaxBreaks /\ breaks' = breaks + 1
    /\ ReplayIdle
    /\ UNCHANGED <<vars, freed, collection, torn>>

\* Mutant of WriteMarker: the marker is made from the WARCs found by now.
MarkFound ==
    /\ stage = "mark" /\ ReplayIdle
    /\ marker' = Discovered /\ torn' = FALSE
    /\ UNCHANGED <<vars, freed, breaks, links, built, index>>

WriteMarker ==
    /\ stage = "mark" /\ ReplayIdle
    /\ marker' = {plan[i] : i \in DOMAIN plan} /\ torn' = FALSE
    /\ UNCHANGED <<vars, freed, breaks, links, built, index>>

(* A marker that cannot be written is a warning; a death here leaves the old one too. *)
NoMarkerWritten ==
    /\ stage = "mark" /\ faults + breaks < MaxBreaks /\ breaks' = breaks + 1
    /\ ReplayIdle
    /\ UNCHANGED <<vars, freed, collection, torn>>

----------------------------------------------------------------------------
(* replay-reconcile.                                                                 *)

(* What previews of a source wait for.                                               *)
IsReplayReady == built /\ DOMAIN links # {}

\* Mutant of Missing: a collection that has links is taken to be indexed.
MissingLinks == DOMAIN links = {}

Missing == ~built \/ DOMAIN links = {}

(* --verify-warc-hash; a collection without a marker is believed.                    *)
Drifted == marker # {} /\ marker # Discovered

(* A job without WARCs is reported as blocked.                                       *)
Reconcile(verify) ==
    /\ status = "indexed" /\ Discovered # {}
    /\ Missing \/ (verify /\ Drifted)
    /\ \E paths \in Sorted(Discovered) : Indexing(paths)

----------------------------------------------------------------------------

Continue == \/ Relink \/ RelinkBreaksOff \/ Reindex \/ ReindexFails
            \/ WriteMarker \/ NoMarkerWritten

(* A step of a storage command.  No crawl writes a WARC at a path that was used before,*)
(* were it one of which only the collection still knows.                             *)
Known == marker \cup Range(plan) \cup Range(links)
(* A name that is quarantined before any manifest had it is free to be given again.  *)
Freed == {n \in StableNames : stable'[n] = NoWarc /\ \A w \in Warcs : manifest[w] # n}
Storage == /\ Next /\ UNCHANGED replay
           /\ \A w \in tmp' \ tmp : InTmp(w) \notin Known
           /\ freed' = freed \cup Freed
           /\ faults' + breaks <= MaxBreaks

ReplayNext ==
    \/ Storage \/ ReplayIndexJob \/ Continue
    \/ \E verify \in BOOLEAN : Reconcile(verify)

(* The timer comes round, without --verify-warc-hash, and what it starts goes on.    *)
ReplaySpec == /\ ReplayInit /\ [][ReplayNext]_allvars
              /\ WF_allvars(Reconcile(FALSE)) /\ WF_allvars(Continue)

----------------------------------------------------------------------------
(* Correctness.                                                                      *)

(* The values of the collection and the replay command, with those of the files: the *)
(* index holds no entry without a WARC.                                              *)
ReplayTypeOK ==
    /\ TypeOK
    /\ \A i \in DOMAIN links : links[i] \in Paths
    /\ \A i \in DOMAIN index : index[i] \in Warcs
    /\ built \in BOOLEAN /\ marker \subseteq Paths
    /\ stage \in {"idle", "relink", "reindex", "mark"} /\ plan \in Seq(Paths)
    /\ torn \in BOOLEAN /\ freed \subseteq Names /\ breaks \in 0 .. MaxBreaks

GivenAgain(p) == p.at = "stable" /\ p.of \in freed

Served(p) == \E i \in DOMAIN links \cap DOMAIN index :
                links[i] = p /\ index[i] = Content(p)

(* A collection that --verify-warc-hash calls "ready (marker verified)" serves every *)
(* sound WARC of the job from its present place, whatever storage commands ran       *)
(* between its steps and since.  The marker compares paths only (cli.py:4497-4575);  *)
(* that is enough as long as a path never comes to hold another WARC, and it fails   *)
(* in two cases, which are exempt.  After an indexing that broke off the old marker  *)
(* may still agree with what is there (torn).  And a stable name that was quarantined*)
(* before any manifest had it, because the consolidation that made its link died     *)
(* before it wrote the manifest (archive_storage.py:257), is given again: if its WARC *)
(* was indexed and another one has come under that name since the last reindex, or   *)
(* may come, the collection is called ready and serves the first WARC, or none, in   *)
(* place of the second.  A reindex ends that for every name that has a file then.    *)
VerifiedIsServed ==
    stage = "idle" /\ IsReplayReady /\ marker = Discovered /\ ~torn =>
        \A p \in Discovered : Content(p) \notin corrupt => Served(p) \/ GivenAgain(p)

(* The plan of the automation ("for every ArchiveJob with status=indexed, replay is  *)
(* eventually available"): an indexed job gets a collection with links and an index, *)
(* whatever broke off on the way, as long as it stays indexed.                       *)
IndexedIsReplayed == status = "indexed" ~> IsReplayReady \/ status # "indexed"
================================================================================
