------------------------------- MODULE WarcStorage -------------------------------
(* Where the WARCs of one job are, and what its snapshots refer to: crawls write     *)
(* WARCs under .tmp*; consolidation hard-links them into warcs/ and records the      *)
(* names in manifest.json; indexing fills the table `snapshots`; verification moves  *)
(* corrupt WARCs to a quarantine; cleanup deletes .tmp* (src/ha_backend/cli.py,      *)
(* archive_storage.py, indexing/).                                                   *)
(*                                                                                   *)
(* Every command is a sequence of steps on the file system around one database       *)
(* transaction, which takes effect at its end or, when the command dies, not at all. *)
(* Commands do not overlap.  A WARC is corrupt when the configured level of          *)
(* verification finds it so; replay is enabled and nobody gives --force, so          *)
(* cleanup runs in mode temp-nonwarc only.                                           *)
EXTENDS Naturals, FiniteSets, FiniteSetsExt

CONSTANTS
    Warcs,       \* the WARC files that crawls may write
    NoWarc,      \* no file of that name
    MaxNames,    \* bound on the stable names warc-000001, warc-000002, ...
    MaxFaults    \* bound on crashes and failed system calls

Names == 1 .. MaxNames
NoName == 0

ASSUME StorageAssumption ==
    /\ NoWarc \notin Warcs /\ IsFiniteSet(Warcs)
    /\ MaxNames \in Nat /\ MaxFaults \in Nat

VARIABLES
    status,      \* ArchiveJob.status, as far as it matters here
    tmp,         \* WARCs under .tmp*
    corrupt,     \* the corrupt ones among all WARCs written
    stable,      \* name in warcs/ -> the WARC whose content it has
    manifest,    \* manifest.json: WARC under .tmp* -> stable name
    quarantine,  \* contents moved to warcs_quarantine/
    snapshots,   \* the job's rows: the WARC a snapshot was made from, and warc_path
    command, step, todo,   \* the command in progress, its next step, WARCs still to link
    entries, rows,         \* its copy of the manifest, its uncommitted rows
    interrupted, \* ghost: a cleanup was interrupted after it began to delete
    faults

files == <<tmp, corrupt, stable, manifest, quarantine>>
db    == <<status, snapshots>>
work  == <<command, step, todo, entries, rows>>
vars  == <<files, db, work, interrupted, faults>>

Statuses == {"retryable", "completed", "index_failed", "indexed"}
Commands == {"none", "index", "consolidate", "cleanup"}
Steps    == {"idle", "link", "read", "rewrite", "delete", "commit"}
Paths    == [at : {"tmp"}, of : Warcs] \cup [at : {"stable"}, of : Names]
InTmp(w)    == [at |-> "tmp", of |-> w]
InStable(n) == [at |-> "stable", of |-> n]

(* The file a path leads to.                                                         *)
Content(p) == IF p.at = "stable" THEN stable[p.of]
              ELSE IF p.of \in tmp THEN p.of ELSE NoWarc

StableNames == {n \in Names : stable[n] # NoWarc}

Init ==
    /\ status = "retryable" /\ tmp = {} /\ corrupt = {} /\ quarantine = {}
    /\ stable = [n \in Names |-> NoWarc] /\ manifest = [w \in Warcs |-> NoName]
    /\ snapshots = {}
    /\ command = "none" /\ step = "idle" /\ todo = {}
    /\ entries = [w \in Warcs |-> NoName] /\ rows = {}
    /\ interrupted = FALSE /\ faults = 0

----------------------------------------------------------------------------
(* A crawl, the first or a resumed one, ends, well or to be tried again, and leaves  *)
(* new WARCs under .tmp*.                                                            *)

Written == tmp \cup quarantine \cup {stable[n] : n \in StableNames} \cup corrupt
            \cup {w \in Warcs : manifest[w] # NoName}

Crawl ==
    /\ step = "idle" /\ status = "retryable"
    /\ \E new \in SUBSET (Warcs \ Written) :
          /\ tmp' = tmp \cup new
          /\ \E torn \in SUBSET new : corrupt' = corrupt \cup torn
    /\ status' \in {"completed", "retryable"}
    /\ UNCHANGED <<stable, manifest, quarantine, snapshots, work, interrupted, faults>>

----------------------------------------------------------------------------
(* Consolidation, inside the command that asked for it.                              *)

Idle == command' = "none" /\ step' = "idle" /\ todo' = {} /\ rows' = {}
        /\ entries' = [w \in Warcs |-> NoName]

\* Mutant of IsNext: the manifest's names are not looked at.
IsNextOnDisk(n) == (\A k \in StableNames : k < n) /\ n - 1 \in StableNames \cup {0}
(* The next free index follows every name on disk and every name in the manifest.    *)
Used == StableNames \cup {entries[w] : w \in Warcs}
IsNext(n) == (\A k \in Used : k < n) /\ n - 1 \in Used \cup {0}

IsNameOf(w, n) == IF entries[w] # NoName THEN n = entries[w] ELSE IsNext(n)

\* Bound: there are names left for every WARC that may need a new one.
NamesSuffice(ws) ==
    Max({0} \cup StableNames \cup {manifest[w] : w \in Warcs})
        + Cardinality({w \in ws : manifest[w] = NoName}) <= MaxNames

Begins(cmd, next, sources) ==
    /\ step = "idle" /\ NamesSuffice(sources) /\ command' = cmd /\ step' = next /\ todo' = sources
    /\ entries' = manifest /\ rows' = snapshots
    /\ UNCHANGED <<files, db, interrupted, faults>>


(* A WARC with a stable name whose file exists is reused, otherwise it is linked.    *)
Link ==
    /\ step = "link"
    /\ \E w \in todo, n \in Names :
          /\ IsNameOf(w, n)
          /\ entries' = [entries EXCEPT ![w] = n]
          /\ stable' = IF stable[n] # NoWarc THEN stable ELSE [stable EXCEPT ![n] = w]
          /\ todo' = todo \ {w}
    /\ UNCHANGED <<tmp, corrupt, manifest, quarantine, db, command, step, rows,
                   interrupted, faults>>

(* The manifest is written to a temporary file and renamed.                          *)
AfterLinks == IF command = "index" THEN "read" ELSE "rewrite"

WriteManifest ==
    /\ step = "link" /\ todo = {}
    /\ manifest' = entries
    /\ step' = AfterLinks
    /\ UNCHANGED <<tmp, corrupt, stable, quarantine, db, command, todo, entries, rows,
                   interrupted, faults>>

(* A link fails.  Indexing goes on with what it finds; the other commands give up.   *)
LinkFails ==
    /\ step = "link" /\ todo # {} /\ faults < MaxFaults
    /\ faults' = faults + 1
    /\ IF command = "index"
       THEN step' = "read" /\ todo' = {} /\ UNCHANGED <<command, entries, rows>>
       ELSE Idle
    /\ UNCHANGED <<files, db, interrupted>>

----------------------------------------------------------------------------
(* index-job and the worker: stable WARCs are preferred, whatever .tmp* holds.  Every *)
(* .tmp* dir is taken to be tracked in the crawl's state file.                        *)

IndexJob ==
    /\ status \in {"completed", "index_failed", "indexed"}
    /\ IF StableNames = {} /\ tmp # {} THEN Begins("index", "link", tmp)
                                      ELSE Begins("index", "read", {})

\* Mutant of Discovered: the manifest is believed, not the directory.
DiscoveredInManifest == IF StableNames # {}
                        THEN {InStable(manifest[w]) : w \in {v \in Warcs : manifest[v] # NoName}}
                        ELSE {InTmp(w) : w \in tmp}

Discovered == IF StableNames # {} THEN {InStable(n) : n \in StableNames}
              ELSE {InTmp(w) : w \in tmp}

Failures == {p \in Discovered : Content(p) \in corrupt}
SnapshotOf(p) == [warc |-> Content(p), path |-> p]

IndexEnds(new, verdict) ==
    /\ step = "read" /\ command = "index" /\ Idle
    /\ snapshots' = new /\ status' = verdict
    /\ UNCHANGED <<files, interrupted>>

IndexRefuses ==
    /\ Discovered = {} \/ Failures # {}
    /\ IndexEnds(snapshots, "index_failed") /\ UNCHANGED faults

IndexSucceeds ==
    /\ Discovered # {} /\ Failures = {}
    /\ IndexEnds({SnapshotOf(p) : p \in Discovered}, "indexed") /\ UNCHANGED faults

(* The directory or a WARC cannot be read, and nothing was changed; or reading fails  *)
(* half way: what was deleted stays deleted, what was added is kept.                 *)
IndexFails ==
    /\ faults < MaxFaults /\ faults' = faults + 1
    /\ \/ IndexEnds(snapshots, "index_failed")
       \/ /\ Discovered # {} /\ Failures = {}
          /\ \E some \in SUBSET Discovered :
                IndexEnds({SnapshotOf(p) : p \in some}, "index_failed")

----------------------------------------------------------------------------
(* consolidate-warcs, with or without --rewrite-snapshot-paths.                      *)

ConsolidateWarcs == tmp # {} /\ Begins("consolidate", "link", tmp)

(* Rows that refer to a source in the manifest are made to refer to its stable name. *)
Rewritten(s) ==
    IF s.path.at = "tmp" /\ manifest[s.path.of] # NoName
    THEN [s EXCEPT !.path = InStable(manifest[s.path.of])] ELSE s

RewritesAndEnds ==
    /\ step = "rewrite" /\ command = "consolidate" /\ Idle
    /\ snapshots' \in {snapshots, {Rewritten(s) : s \in snapshots}}
    /\ UNCHANGED <<files, status, interrupted, faults>>

----------------------------------------------------------------------------
(* cleanup-job --mode temp-nonwarc; a .tmp* dir without WARCs counts as gone.         *)

CleanupJob ==
    /\ status \in {"indexed", "index_failed"} /\ tmp # {}
    /\ IF StableNames = {} THEN Begins("cleanup", "link", tmp)
                           ELSE Begins("cleanup", "rewrite", {})

RefersToTmp(rs) == \E s \in rs : s.path.at = "tmp"

(* Snapshots that still refer to .tmp* after the rewrite make cleanup refuse.        *)
RewriteForCleanup ==
    /\ step = "rewrite" /\ command = "cleanup"
    /\ LET new == {Rewritten(s) : s \in rows} IN
          IF RefersToTmp(new) THEN Idle
          ELSE rows' = new /\ step' = "delete" /\ UNCHANGED <<command, todo, entries>>
    /\ UNCHANGED <<files, db, interrupted, faults>>

(* rmtree of every temp dir, before the rewritten paths are committed.               *)
DeleteTmp ==
    /\ step = "delete"
    /\ tmp' = {} /\ step' = "commit"
    /\ UNCHANGED <<corrupt, stable, manifest, quarantine, db, command, todo, entries, rows,
                   interrupted, faults>>

\* Mutant of CommitCleanup: the rewritten rows are not committed.
EndCleanup ==
    /\ step = "commit" /\ Idle
    /\ UNCHANGED <<files, db, interrupted, faults>>

CommitCleanup ==
    /\ step = "commit" /\ Idle
    /\ snapshots' = rows
    /\ UNCHANGED <<files, status, interrupted, faults>>

----------------------------------------------------------------------------
(* verify-warcs --apply-quarantine.                                                  *)

Quarantine(bad, verdict) ==
    /\ step = "idle" /\ snapshots = {}
    /\ quarantine' = quarantine \cup {Content(p) : p \in bad}
    /\ stable' = [n \in Names |-> IF InStable(n) \in bad THEN NoWarc ELSE stable[n]]
    /\ tmp' = {w \in tmp : InTmp(w) \notin bad}
    /\ status' = verdict
    /\ UNCHANGED <<corrupt, manifest, snapshots, work, interrupted>>

QuarantineWarcs ==
    Failures # {} /\ Quarantine(Failures, "retryable") /\ UNCHANGED faults

(* It stops half way, before the status is set.                                      *)
QuarantineFails ==
    /\ faults < MaxFaults /\ faults' = faults + 1
    /\ \E some \in SUBSET Failures : some # {} /\ Quarantine(some, status)

----------------------------------------------------------------------------
(* The command dies, or rmtree fails: its transaction is rolled back, what it did to *)
(* the file system stays.                                                            *)
Crash ==
    /\ step # "idle" /\ faults < MaxFaults /\ faults' = faults + 1
    /\ Idle
    /\ tmp' \in IF step = "delete" THEN SUBSET tmp ELSE {tmp}
    /\ interrupted' = (interrupted \/ step \in {"delete", "commit"})
    /\ UNCHANGED <<corrupt, stable, manifest, quarantine, db>>

Done == step = "idle" /\ UNCHANGED vars

Next ==
    \/ Crawl \/ IndexJob \/ ConsolidateWarcs \/ CleanupJob
    \/ QuarantineWarcs \/ QuarantineFails
    \/ Link \/ WriteManifest \/ LinkFails
    \/ IndexRefuses \/ IndexSucceeds \/ IndexFails
    \/ RewritesAndEnds \/ RewriteForCleanup \/ DeleteTmp \/ CommitCleanup
    \/ Crash \/ Done

Spec == Init /\ [][Next]_vars

----------------------------------------------------------------------------
(* Correctness.                                                                      *)

(* The values of the job's files, rows and the command in progress.                  *)
TypeOK ==
    /\ status \in Statuses /\ tmp \subseteq Warcs /\ corrupt \subseteq Warcs
    /\ quarantine \subseteq Warcs
    /\ stable \in [Names -> Warcs \cup {NoWarc}]
    /\ manifest \in [Warcs -> Names \cup {NoName}]
    /\ entries \in [Warcs -> Names \cup {NoName}]
    /\ snapshots \subseteq [warc : Warcs, path : Paths]
    /\ rows \subseteq [warc : Warcs, path : Paths]
    /\ command \in Commands /\ step \in Steps /\ todo \subseteq Warcs
    /\ interrupted \in BOOLEAN /\ faults \in 0 .. MaxFaults

(* A stable name never comes to hold another WARC than the one the manifest gives it *)
(* for, after quarantines, crashes and half-done consolidations: names are not used  *)
(* again (archive_storage.py:216-219).                                               *)
ManifestIsSound ==
    \A w \in Warcs : manifest[w] # NoName => stable[manifest[w]] \in {w, NoWarc}

(* Every snapshot's warc_path leads to the very WARC the snapshot was made from:     *)
(* consolidation, cleanup and quarantine never break or swap what can be viewed.     *)
(* A cleanup deletes before it commits the rewritten rows (cli.py:3240-3256): between*)
(* the two it is those rows that resolve, and one cut off there is exempt.           *)
SnapshotsResolve ==
    interrupted \/ \A s \in IF step = "commit" THEN rows ELSE snapshots :
                       Content(s.path) = s.warc

(* Claimed (cli.py:3011): temp-nonwarc is a "safe cleanup that preserves WARCs by    *)
(* consolidating them into <output_dir>/warcs/ before deleting .tmp*": deleting the  *)
(* temp dirs leaves every sound WARC that was in them in warcs/.                     *)
CleanupPreservesWarcs ==
    [][\A w \in tmp \ corrupt : step = "delete" /\ w \notin tmp' =>
          \E n \in Names : stable'[n] = w]_vars
================================================================================
