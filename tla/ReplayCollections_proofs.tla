------------------------- MODULE ReplayCollections_proofs -------------------------
(* Proofs about WarcStorage and ReplayCollections, for every set of WARCs, every     *)
(* number of names and of faults and every bound. First the storage: the types, that *)
(* a stable name is never given to a second WARC, and that the path of a snapshot    *)
(* leads to its WARC. Then that replay leaves the storage it is composed with to its *)
(* own specification, so that what is proved of WarcStorage holds next to it, and    *)
(* what is proved of replay's own state.                                             *)
EXTENDS ReplayCollections, FiniteSetTheorems, SequenceTheorems, TLAPS

----------------------------------------------------------------------------
(* Storage: the types.                                                               *)

\* What indexing reads is there, and a snapshot of it is a row.
LEMMA DiscoveredExists ==
  ASSUME TypeOK, NEW p \in Discovered
  PROVE  p \in Paths /\ Content(p) \in Warcs /\ SnapshotOf(p) \in [warc : Warcs, path : Paths]
  <1>1. CASE StableNames # {}
    <2>1. PICK n \in StableNames : p = InStable(n)
      BY <1>1 DEF Discovered
    <2>2. n \in Names /\ stable[n] \in Warcs
      BY <2>1 DEF StableNames, TypeOK
    <2>3. p \in Paths /\ Content(p) = stable[n]
      BY <2>1, <2>2 DEF InStable, Paths, Content
    <2> QED
      BY <2>2, <2>3 DEF SnapshotOf
  <1>2. CASE StableNames = {}
    <2>1. PICK w \in tmp : p = InTmp(w)
      BY <1>2 DEF Discovered
    <2>2. w \in Warcs
      BY <2>1 DEF TypeOK
    <2>3. p.at = "tmp" /\ p.of = w /\ p \in Paths
      BY <2>1, <2>2 DEF InTmp, Paths
    <2>4. Content(p) = w
      BY <2>1, <2>3 DEF Content
    <2> QED
      BY <2>2, <2>3, <2>4 DEF SnapshotOf
  <1> QED
    BY <1>1, <1>2

\* Rewriting the path of a row leaves a row.
LEMMA RewrittenRow ==
  ASSUME TypeOK, NEW s \in [warc : Warcs, path : Paths]
  PROVE  Rewritten(s) \in [warc : Warcs, path : Paths]
  <1>1. CASE s.path.at = "tmp" /\ manifest[s.path.of] # NoName
    <2>1. s.path.of \in Warcs
      BY <1>1 DEF Paths
    <2>2. manifest[s.path.of] \in Names
      BY <1>1, <2>1 DEF TypeOK
    <2>3. InStable(manifest[s.path.of]) \in Paths
      BY <2>2 DEF InStable, Paths
    <2> QED
      BY <1>1, <2>3 DEF Rewritten
  <1>2. CASE ~(s.path.at = "tmp" /\ manifest[s.path.of] # NoName)
    BY <1>2 DEF Rewritten
  <1> QED
    BY <1>1, <1>2

\* The initial state is well typed.
LEMMA InitTyped == Init => TypeOK
  <1> SUFFICES ASSUME Init PROVE TypeOK
    OBVIOUS
  <1>1. /\ stable \in [Names -> Warcs \cup {NoWarc}]
        /\ manifest \in [Warcs -> Names \cup {NoName}]
        /\ entries \in [Warcs -> Names \cup {NoName}]
    BY DEF Init
  <1>2. faults \in 0 .. MaxFaults
    BY StorageAssumption DEF Init
  <1> QED
    BY <1>1, <1>2 DEF Init, TypeOK, Statuses, Commands, Steps

\* Every step keeps the types.
LEMMA StepTyped == TypeOK /\ [Next]_vars => TypeOK'
  <1> SUFFICES ASSUME TypeOK, [Next]_vars PROVE TypeOK'
    OBVIOUS
  <1> USE DEF TypeOK, Statuses, Commands, Steps, files, db, work
  <1>1. CASE Crawl
    BY <1>1 DEF Crawl
  <1>2. CASE IndexJob
    BY <1>2 DEF IndexJob, Begins
  <1>3. CASE ConsolidateWarcs
    BY <1>3 DEF ConsolidateWarcs, Begins
  <1>4. CASE CleanupJob
    BY <1>4 DEF CleanupJob, Begins
  <1>5. CASE QuarantineWarcs \/ QuarantineFails
    <2>1. PICK bad \in SUBSET Failures, verdict \in {"retryable", status} :
             Quarantine(bad, verdict)
      BY <1>5 DEF QuarantineWarcs, QuarantineFails
    <2>2. \A p \in bad : Content(p) \in Warcs
      BY <2>1, DiscoveredExists DEF Failures
    <2>3. quarantine' \subseteq Warcs /\ tmp' \subseteq Warcs
             /\ stable' \in [Names -> Warcs \cup {NoWarc}]
      BY <2>1, <2>2 DEF Quarantine
    <2>4. faults' \in 0 .. MaxFaults
      BY <1>5, StorageAssumption DEF QuarantineWarcs, QuarantineFails
    <2> QED
      BY <2>1, <2>3, <2>4 DEF Quarantine
  <1>6. CASE Link
    BY <1>6 DEF Link
  <1>7. CASE WriteManifest
    BY <1>7 DEF WriteManifest, AfterLinks
  <1>8. CASE LinkFails
    BY <1>8, StorageAssumption DEF LinkFails, Idle
  <1>9. CASE IndexRefuses \/ IndexSucceeds \/ IndexFails
    <2>1. PICK new \in {snapshots} \cup {{SnapshotOf(p) : p \in some} : some \in SUBSET Discovered},
               verdict \in Statuses :
             IndexEnds(new, verdict)
      BY <1>9 DEF IndexRefuses, IndexSucceeds, IndexFails
    <2>2. new \subseteq [warc : Warcs, path : Paths]
      BY <2>1, DiscoveredExists
    <2>3. faults' \in 0 .. MaxFaults
      BY <1>9, StorageAssumption DEF IndexRefuses, IndexSucceeds, IndexFails
    <2> QED
      BY <2>1, <2>2, <2>3 DEF IndexEnds, Idle
  <1>10. CASE RewritesAndEnds
    <2>1. snapshots' \subseteq [warc : Warcs, path : Paths]
      BY <1>10, RewrittenRow DEF RewritesAndEnds
    <2> QED
      BY <1>10, <2>1 DEF RewritesAndEnds, Idle
  <1>11. CASE RewriteForCleanup
    <2>1. {Rewritten(s) : s \in rows} \subseteq [warc : Warcs, path : Paths]
      BY RewrittenRow
    <2> QED
      BY <1>11, <2>1 DEF RewriteForCleanup, Idle
  <1>12. CASE DeleteTmp
    BY <1>12 DEF DeleteTmp
  <1>13. CASE CommitCleanup
    BY <1>13 DEF CommitCleanup, Idle
  <1>14. CASE Crash
    BY <1>14, StorageAssumption DEF Crash, Idle
  <1>15. CASE Done \/ UNCHANGED vars
    BY <1>15 DEF Done, vars
  <1> QED
    BY <1>1, <1>2, <1>3, <1>4, <1>5, <1>6, <1>7, <1>8, <1>9, <1>10, <1>11, <1>12,
       <1>13, <1>14, <1>15 DEF Next

\* The files, the rows and the command in progress always have values of their types.
THEOREM StorageTyped == Spec => []TypeOK
  BY InitTyped, StepTyped, PTL DEF Spec

----------------------------------------------------------------------------
(* Stable names.                                                                     *)

\* A table of names is good when no two WARCs share a name and the file of a name, if
\* there is one, is the WARC it was given to.
Good(table, disk) ==
    /\ \A w \in Warcs : table[w] # NoName => disk[table[w]] \in {w, NoWarc}
    /\ \A v, w \in Warcs : table[v] # NoName /\ table[v] = table[w] => v = w

\* The inductive invariant: the manifest is good, and so is the copy that a command in
\* progress works on, which only adds to it.
NamesInv ==
    /\ Good(manifest, stable)
    /\ step # "idle" => /\ Good(entries, stable)
                        /\ \A w \in Warcs : manifest[w] # NoName => entries[w] = manifest[w]

\* Linking one more WARC, under its old name or under the next free one, keeps it.
LEMMA LinkKeepsNames == TypeOK /\ NamesInv /\ Link => NamesInv'
  <1> SUFFICES ASSUME TypeOK, NamesInv, Link PROVE NamesInv'
    OBVIOUS
  <1>1. PICK w \in todo, n \in Names :
           /\ IsNameOf(w, n)
           /\ entries' = [entries EXCEPT ![w] = n]
           /\ stable' = IF stable[n] # NoWarc THEN stable ELSE [stable EXCEPT ![n] = w]
    BY DEF Link
  <1>2. w \in Warcs /\ n # NoName /\ entries \in [Warcs -> Names \cup {NoName}]
           /\ stable \in [Names -> Warcs \cup {NoWarc}] /\ n \in Names
           /\ manifest \in [Warcs -> Names \cup {NoName}]
    BY StorageAssumption DEF TypeOK, Names, NoName
  <1>3. step = "link" /\ step' = step /\ manifest' = manifest
    BY DEF Link
  <1>4. /\ Good(entries, stable)
        /\ \A v \in Warcs : manifest[v] # NoName => entries[v] = manifest[v]
    BY <1>3 DEF NamesInv
  <1>5. \A v \in Warcs : entries[v] = n => v = w
    <2>1. CASE entries[w] # NoName
      BY <1>1, <1>2, <1>4, <2>1 DEF IsNameOf, Good
    <2>2. CASE entries[w] = NoName
      <3>1. \A v \in Warcs : entries[v] < n
        BY <1>1, <2>2 DEF IsNameOf, IsNext, Used
      <3> QED
        BY <1>2, <3>1 DEF Names
    <2> QED
      BY <2>1, <2>2
  <1>6. stable[n] # NoWarc => entries[w] = n /\ stable[n] = w
    <2>1. CASE entries[w] # NoName
      BY <1>1, <1>2, <1>4, <2>1 DEF IsNameOf, Good
    <2>2. CASE entries[w] = NoName
      <3>1. \A k \in StableNames : k < n
        BY <1>1, <2>2 DEF IsNameOf, IsNext, Used
      <3>2. n \notin StableNames
        BY <1>2, <3>1 DEF Names
      <3> QED
        BY <1>2, <3>2 DEF StableNames
    <2> QED
      BY <2>1, <2>2
  <1>7. /\ \A v \in Warcs : entries'[v] = IF v = w THEN n ELSE entries[v]
        /\ \A k \in Names : stable'[k] = IF k = n THEN w ELSE stable[k]
    BY <1>1, <1>2, <1>6
  <1>8. Good(entries', stable')
    BY <1>2, <1>4, <1>5, <1>7 DEF Good
  <1>9. \A v \in Warcs : manifest'[v] # NoName => entries'[v] = manifest'[v]
    BY <1>1, <1>3, <1>4, <1>7 DEF IsNameOf
  <1>10. Good(manifest', stable')
    BY <1>8, <1>9 DEF Good
  <1> QED
    BY <1>8, <1>9, <1>10 DEF NamesInv

\* Every step keeps the invariant.
LEMMA StepKeepsNames == TypeOK /\ NamesInv /\ [Next]_vars => NamesInv'
  <1> SUFFICES ASSUME TypeOK, NamesInv, [Next]_vars PROVE NamesInv'
    OBVIOUS
  <1> USE DEF files, db, work
  <1>1. CASE Link
    BY <1>1, LinkKeepsNames
  <1>2. CASE IndexJob \/ ConsolidateWarcs \/ CleanupJob
    <2>1. entries' = manifest /\ manifest' = manifest /\ stable' = stable
      BY <1>2 DEF IndexJob, ConsolidateWarcs, CleanupJob, Begins
    <2> QED
      BY <2>1 DEF NamesInv, Good
  <1>3. CASE WriteManifest
    <2>1. /\ step # "idle" /\ entries' = entries /\ manifest' = entries /\ stable' = stable
      BY <1>3 DEF WriteManifest
    <2> QED
      BY <2>1 DEF NamesInv, Good
  <1>4. CASE QuarantineWarcs \/ QuarantineFails
    <2>1. /\ step = "idle" /\ step' = step /\ manifest' = manifest
          /\ \A n \in Names : stable'[n] \in {stable[n], NoWarc}
      BY <1>4 DEF QuarantineWarcs, QuarantineFails, Quarantine
    <2>2. \A w \in Warcs : manifest[w] # NoName => manifest[w] \in Names
      BY DEF TypeOK
    <2> QED
      BY <2>1, <2>2 DEF NamesInv, Good
  <1>5. CASE Crawl \/ LinkFails \/ IndexRefuses \/ IndexSucceeds \/ IndexFails
             \/ RewritesAndEnds \/ RewriteForCleanup \/ DeleteTmp \/ CommitCleanup
             \/ Crash \/ Done \/ UNCHANGED vars
    <2>1. /\ manifest' = manifest /\ stable' = stable
          /\ step' # "idle" => step # "idle" /\ entries' = entries
      BY <1>5 DEF Crawl, LinkFails, IndexRefuses, IndexSucceeds, IndexFails, IndexEnds,
                  RewritesAndEnds, RewriteForCleanup, DeleteTmp, CommitCleanup, Crash,
                  Done, Idle, vars
    <2> QED
      BY <2>1 DEF NamesInv, Good
  <1> QED
    BY <1>1, <1>2, <1>3, <1>4, <1>5 DEF Next

\* ManifestIsSound holds in every behaviour, whatever is quarantined, crashes or fails
\* half way: what the manifest says a stable file is, it is.
THEOREM NamesAreNotReused == Spec => []ManifestIsSound
  <1>1. Init => NamesInv
    BY DEF Init, NamesInv, Good
  <1>2. TypeOK /\ NamesInv /\ [Next]_vars => NamesInv'
    BY StepKeepsNames
  <1>3. NamesInv => ManifestIsSound
    BY DEF NamesInv, Good, ManifestIsSound
  <1> QED
    BY <1>1, <1>2, <1>3, StorageTyped, PTL DEF Spec

----------------------------------------------------------------------------
(* Snapshots.                                                                        *)

Resolves(s) == Content(s.path) = s.warc

\* The files of a table's names are there, except of corrupt WARCs, whose files were
\* quarantined.
Present(table) ==
    \A w \in Warcs \ corrupt : table[w] # NoName => stable[table[w]] = w

\* The inductive invariant.  A snapshot refers to .tmp* only if verification had found
\* no corrupt WARC there; so the manifest, where it names that WARC, names a file that
\* is there, and rewriting the path loses nothing.  From the rewrite to the commit of a
\* cleanup its own rows resolve without .tmp*.
PathsInv ==
    /\ Present(manifest)
    /\ step # "idle" => Present(entries)
    /\ step \in {"link", "rewrite"} => rows = snapshots
    /\ ~interrupted =>
          /\ step # "commit" => \A s \in snapshots : Resolves(s)
          /\ \A s \in snapshots : s.path.at = "tmp" => s.warc \notin corrupt
    /\ step \in {"delete", "commit"} /\ ~interrupted =>
          \A s \in rows : s.path.at = "stable" /\ Resolves(s)

\* The content of a path, and whether a row resolves, in terms of its fields.
LEMMA RowFacts ==
  ASSUME TypeOK, NEW s \in [warc : Warcs, path : Paths]
  PROVE  /\ s.warc \in Warcs /\ s.warc # NoWarc
         /\ \/ s.path.at = "tmp" /\ s.path.of \in Warcs
            \/ s.path.at = "stable" /\ s.path.of \in Names
         /\ s.path.at = "tmp" => (Resolves(s) <=> s.path.of \in tmp /\ s.path.of = s.warc)
         /\ s.path.at = "stable" => (Resolves(s) <=> stable[s.path.of] = s.warc)
  <1>1. s.warc \in Warcs /\ s.warc # NoWarc
    BY StorageAssumption
  <1>2. \/ s.path.at = "tmp" /\ s.path.of \in Warcs
        \/ s.path.at = "stable" /\ s.path.of \in Names
    BY DEF Paths
  <1> QED
    BY <1>1, <1>2 DEF Resolves, Content

\* Rewriting the paths of the snapshots, while they resolve, loses nothing.
LEMMA RewritingResolves ==
  ASSUME TypeOK, PathsInv, ~interrupted, step = "rewrite", NEW s \in snapshots
  PROVE  /\ Resolves(Rewritten(s))
         /\ Rewritten(s).path.at = "tmp" => Rewritten(s).warc \notin corrupt
  <1>1. /\ s \in [warc : Warcs, path : Paths] /\ Resolves(s)
        /\ s.path.at = "tmp" => s.warc \notin corrupt
    BY DEF TypeOK, PathsInv
  <1>2. CASE s.path.at = "tmp" /\ manifest[s.path.of] # NoName
    <2>1. s.path.of = s.warc /\ s.warc \in Warcs \ corrupt
      BY <1>1, <1>2, RowFacts
    <2>2. stable[manifest[s.warc]] = s.warc
      BY <1>2, <2>1 DEF PathsInv, Present
    <2>3. /\ Rewritten(s).warc = s.warc
          /\ Rewritten(s).path = InStable(manifest[s.warc])
      BY <1>1, <1>2, <2>1 DEF Rewritten
    <2> QED
      BY <2>2, <2>3 DEF Resolves, Content, InStable
  <1>3. CASE ~(s.path.at = "tmp" /\ manifest[s.path.of] # NoName)
    BY <1>1, <1>3 DEF Rewritten
  <1> QED
    BY <1>2, <1>3

\* What a step must do for rows to keep resolving: files may come, not go.
LEMMA FilesCome ==
  ASSUME TypeOK, NEW s \in [warc : Warcs, path : Paths], Resolves(s),
         tmp \subseteq tmp', \A n \in Names : stable'[n] \in {stable[n]} \/ stable[n] = NoWarc
  PROVE  Resolves(s)'
  <1>1. CASE s.path.at = "tmp"
    <2>1. s.path.of \in tmp' /\ s.path.of = s.warc
      BY <1>1, RowFacts
    <2> QED
      BY <1>1, <2>1 DEF Resolves, Content
  <1>2. CASE s.path.at = "stable"
    <2>1. s.path.of \in Names /\ stable[s.path.of] = s.warc /\ s.warc # NoWarc
      BY <1>2, RowFacts
    <2>2. stable'[s.path.of] = s.warc
      BY <2>1
    <2> QED
      BY <1>2, <2>2 DEF Resolves, Content
  <1> QED
    BY <1>1, <1>2, RowFacts

\* Steps that change none of what PathsInv is about, except that a command may end.
LEMMA QuietStepKeepsPaths ==
  ASSUME TypeOK, PathsInv,
         corrupt' = corrupt, stable' = stable, manifest' = manifest, tmp' = tmp,
         snapshots' = snapshots, interrupted' = interrupted, step # "commit",
         \/ step' = "idle"
         \/ step' = step /\ entries' = entries /\ rows' = rows
         \/ step' \in {"link", "read", "rewrite"} /\ entries' = manifest /\ rows' = snapshots
         \/ step = "link" /\ step' = "read" /\ entries' = entries /\ rows' = rows
  PROVE  PathsInv'
  <1>1. Present(manifest)' /\ (step' # "idle" => Present(entries)')
    BY DEF PathsInv, Present
  <1>2. step' \in {"link", "rewrite"} => rows' = snapshots'
    BY DEF PathsInv
  <1>3. \A s : Resolves(s)' <=> Resolves(s)
    BY DEF Resolves, Content
  <1> QED
    BY <1>1, <1>2, <1>3 DEF PathsInv

\* Linking only adds files, under names that no sound WARC has.
LEMMA LinkKeepsPaths == TypeOK /\ NamesInv /\ PathsInv /\ Link => PathsInv'
  <1> SUFFICES ASSUME TypeOK, NamesInv, PathsInv, Link PROVE PathsInv'
    OBVIOUS
  <1>1. PICK w \in todo, n \in Names :
           /\ entries' = [entries EXCEPT ![w] = n]
           /\ stable' = IF stable[n] # NoWarc THEN stable ELSE [stable EXCEPT ![n] = w]
    BY DEF Link
  <1>2. /\ w \in Warcs /\ entries \in [Warcs -> Names \cup {NoName}]
        /\ manifest \in [Warcs -> Names \cup {NoName}]
        /\ stable \in [Names -> Warcs \cup {NoWarc}]
    BY DEF TypeOK
  <1>3. /\ tmp' = tmp /\ corrupt' = corrupt /\ manifest' = manifest /\ rows' = rows
        /\ snapshots' = snapshots /\ step = "link" /\ step' = "link"
        /\ interrupted' = interrupted
    BY DEF Link, db
  <1>4. \A k \in Names : stable[k] # NoWarc => stable'[k] = stable[k]
    BY <1>1, <1>2
  <1>5. Present(manifest)'
    BY <1>2, <1>3, <1>4, StorageAssumption DEF PathsInv, Present
  <1>6. Present(entries)'
    <2> SUFFICES ASSUME NEW v \in Warcs \ corrupt, entries'[v] # NoName
                 PROVE  stable'[entries'[v]] = v
      BY <1>3 DEF Present
    <2>1. CASE v = w
      <3>1. entries'[v] = n /\ stable'[n] # NoWarc
        BY <1>1, <1>2, <2>1, StorageAssumption
      <3>2. stable'[entries'[v]] \in {v, NoWarc}
        BY LinkKeepsNames, <1>3 DEF NamesInv, Good
      <3> QED
        BY <3>1, <3>2
    <2>2. CASE v # w
      <3>1. entries'[v] = entries[v] /\ entries[v] \in Names
        BY <1>1, <1>2, <2>2
      <3>2. stable[entries[v]] = v
        BY <1>3, <3>1 DEF PathsInv, Present
      <3> QED
        BY <1>4, <3>1, <3>2, StorageAssumption
    <2> QED
      BY <2>1, <2>2
  <1>7. \A s \in snapshots : Resolves(s) => Resolves(s)'
    BY <1>3, <1>4, FilesCome DEF TypeOK
  <1> QED
    BY <1>3, <1>5, <1>6, <1>7 DEF PathsInv

\* A crawl adds WARCs, corrupt ones among them, of names that were never used.
LEMMA CrawlKeepsPaths == TypeOK /\ PathsInv /\ Crawl => PathsInv'
  <1> SUFFICES ASSUME TypeOK, PathsInv, Crawl PROVE PathsInv'
    OBVIOUS
  <1>1. PICK new \in SUBSET (Warcs \ Written), bad \in SUBSET (Warcs \ Written) :
           tmp' = tmp \cup new /\ corrupt' = corrupt \cup bad
    BY DEF Crawl
  <1>2. /\ stable' = stable /\ manifest' = manifest /\ snapshots' = snapshots
        /\ step = "idle" /\ step' = "idle" /\ interrupted' = interrupted
    BY DEF Crawl, work
  <1>3. Present(manifest)'
    BY <1>1, <1>2 DEF PathsInv, Present
  <1>4. ASSUME ~interrupted, NEW s \in snapshots
        PROVE  Resolves(s)' /\ (s.path.at = "tmp" => s.warc \notin corrupt')
    <2>1. s \in [warc : Warcs, path : Paths] /\ Resolves(s)
      BY <1>2, <1>4 DEF PathsInv, TypeOK
    <2>2. Resolves(s)'
      BY <1>1, <1>2, <2>1, FilesCome
    <2>3. s.path.at = "tmp" => s.warc \in Written
      BY <2>1, RowFacts DEF Written
    <2> QED
      BY <1>1, <1>4, <2>2, <2>3 DEF PathsInv
  <1> QED
    BY <1>2, <1>3, <1>4 DEF PathsInv

\* Indexing replaces the rows by rows of what it has read, none of it corrupt.
LEMMA IndexKeepsPaths ==
  TypeOK /\ PathsInv /\ (IndexRefuses \/ IndexSucceeds \/ IndexFails) => PathsInv'
  <1> SUFFICES ASSUME TypeOK, PathsInv, IndexRefuses \/ IndexSucceeds \/ IndexFails
               PROVE  PathsInv'
    OBVIOUS
  <1>1. /\ stable' = stable /\ manifest' = manifest /\ tmp' = tmp /\ corrupt' = corrupt
        /\ step = "read" /\ step' = "idle" /\ interrupted' = interrupted
    BY DEF IndexRefuses, IndexSucceeds, IndexFails, IndexEnds, Idle, files
  <1>2. \/ snapshots' = snapshots
        \/ Failures = {} /\ \E some \in SUBSET Discovered :
                                 snapshots' = {SnapshotOf(p) : p \in some}
    BY DEF IndexRefuses, IndexSucceeds, IndexFails, IndexEnds
  <1>3. \A s : Resolves(s)' <=> Resolves(s)
    BY <1>1 DEF Resolves, Content
  <1>4. ASSUME Failures = {}, NEW p \in Discovered
        PROVE  Resolves(SnapshotOf(p)) /\ SnapshotOf(p).warc \notin corrupt
    BY <1>4 DEF Resolves, SnapshotOf, Failures
  <1>5. Present(manifest)'
    BY <1>1 DEF PathsInv, Present
  <1>6. ~interrupted => \A s \in snapshots' : Resolves(s) /\ (s.path.at = "tmp" => s.warc \notin corrupt)
    BY <1>1, <1>2, <1>4 DEF PathsInv
  <1> QED
    BY <1>1, <1>3, <1>5, <1>6 DEF PathsInv

\* Every step keeps the invariant.
LEMMA StepKeepsPaths == TypeOK /\ NamesInv /\ PathsInv /\ [Next]_vars => PathsInv'
  <1> SUFFICES ASSUME TypeOK, NamesInv, PathsInv, [Next]_vars PROVE PathsInv'
    OBVIOUS
  <1> USE DEF files, db, work
  <1>1. CASE Link
    BY <1>1, LinkKeepsPaths
  <1>2. CASE Crawl
    BY <1>2, CrawlKeepsPaths
  <1>3. CASE IndexRefuses \/ IndexSucceeds \/ IndexFails
    BY <1>3, IndexKeepsPaths
  <1>4. CASE IndexJob \/ ConsolidateWarcs \/ CleanupJob \/ LinkFails
    BY <1>4, QuietStepKeepsPaths DEF IndexJob, ConsolidateWarcs, CleanupJob, Begins,
         LinkFails, Idle
  <1>5. CASE Done \/ UNCHANGED vars
    BY <1>5 DEF PathsInv, Present, Resolves, Content, Done, vars
  <1>6. CASE WriteManifest
    <2>1. /\ step = "link" /\ step' \in {"read", "rewrite"} /\ entries' = entries
          /\ manifest' = entries /\ stable' = stable /\ corrupt' = corrupt /\ tmp' = tmp
          /\ rows' = rows /\ snapshots' = snapshots /\ interrupted' = interrupted
      BY <1>6 DEF WriteManifest, AfterLinks
    <2>2. Present(manifest)' /\ Present(entries)'
      BY <2>1 DEF PathsInv, Present
    <2>3. \A s : Resolves(s)' <=> Resolves(s)
      BY <2>1 DEF Resolves, Content
    <2> QED
      BY <2>1, <2>2, <2>3 DEF PathsInv
  <1>7. CASE RewritesAndEnds
    <2>1. /\ step = "rewrite" /\ step' = "idle" /\ manifest' = manifest /\ stable' = stable
          /\ corrupt' = corrupt /\ tmp' = tmp /\ interrupted' = interrupted
          /\ snapshots' \in {snapshots, {Rewritten(s) : s \in snapshots}}
      BY <1>7 DEF RewritesAndEnds, Idle
    <2>2. \A s : Resolves(s)' <=> Resolves(s)
      BY <2>1 DEF Resolves, Content
    <2>3. Present(manifest)'
      BY <2>1 DEF PathsInv, Present
    <2>4. ~interrupted => \A s \in snapshots' :
             Resolves(s) /\ (s.path.at = "tmp" => s.warc \notin corrupt)
      BY <2>1, RewritingResolves DEF PathsInv
    <2> QED
      BY <2>1, <2>2, <2>3, <2>4 DEF PathsInv
  <1>8. CASE RewriteForCleanup
    <2>1. /\ step = "rewrite" /\ manifest' = manifest /\ stable' = stable
          /\ corrupt' = corrupt /\ tmp' = tmp /\ interrupted' = interrupted
          /\ snapshots' = snapshots /\ rows = snapshots
      BY <1>8 DEF RewriteForCleanup, PathsInv
    <2>2. CASE step' = "idle"
      BY <2>1, <2>2, QuietStepKeepsPaths
    <2>3. CASE step' # "idle"
      <3>1. /\ step' = "delete" /\ entries' = entries
            /\ rows' = {Rewritten(s) : s \in snapshots} /\ ~RefersToTmp(rows')
        BY <1>8, <2>1, <2>3 DEF RewriteForCleanup, Idle
      <3>2. \A s : Resolves(s)' <=> Resolves(s)
        BY <2>1 DEF Resolves, Content
      <3>3. Present(manifest)' /\ Present(entries)'
        BY <2>1, <3>1 DEF PathsInv, Present
      <3>4. ~interrupted => \A s \in rows' : Resolves(s)
        BY <2>1, <3>1, RewritingResolves
      <3>5. \A s \in rows' : s.path.at = "stable"
        <4>1. \A s \in snapshots : Rewritten(s).path.at \in {"tmp", "stable"}
          BY RewrittenRow, RowFacts DEF TypeOK
        <4> QED
          BY <3>1, <4>1 DEF RefersToTmp
      <3> QED
        BY <2>1, <3>1, <3>2, <3>3, <3>4, <3>5 DEF PathsInv
    <2> QED
      BY <2>2, <2>3
  <1>9. CASE DeleteTmp
    <2>1. /\ step = "delete" /\ step' = "commit" /\ manifest' = manifest /\ stable' = stable
          /\ corrupt' = corrupt /\ interrupted' = interrupted /\ entries' = entries
          /\ snapshots' = snapshots /\ rows' = rows
      BY <1>9 DEF DeleteTmp
    <2>2. Present(manifest)' /\ Present(entries)'
      BY <2>1 DEF PathsInv, Present
    <2>3. \A s : s.path.at = "stable" => (Resolves(s)' <=> Resolves(s))
      BY <2>1 DEF Resolves, Content
    <2> QED
      BY <2>1, <2>2, <2>3 DEF PathsInv
  <1>10. CASE CommitCleanup
    <2>1. /\ step = "commit" /\ step' = "idle" /\ manifest' = manifest /\ stable' = stable
          /\ corrupt' = corrupt /\ tmp' = tmp /\ interrupted' = interrupted
          /\ snapshots' = rows
      BY <1>10 DEF CommitCleanup, Idle
    <2>2. Present(manifest)'
      BY <2>1 DEF PathsInv, Present
    <2>3. \A s : Resolves(s)' <=> Resolves(s)
      BY <2>1 DEF Resolves, Content
    <2>4. ~interrupted => \A s \in rows : s.path.at = "stable" /\ Resolves(s)
      BY <2>1 DEF PathsInv
    <2> QED
      BY <2>1, <2>2, <2>3, <2>4 DEF PathsInv
  <1>11. CASE QuarantineWarcs \/ QuarantineFails
    <2>1. PICK bad \in SUBSET Failures :
             /\ step = "idle" /\ step' = "idle" /\ snapshots = {} /\ snapshots' = {}
             /\ manifest' = manifest /\ corrupt' = corrupt
             /\ stable' = [n \in Names |-> IF InStable(n) \in bad THEN NoWarc ELSE stable[n]]
      BY <1>11 DEF QuarantineWarcs, QuarantineFails, Quarantine
    <2>2. \A n \in Names : InStable(n) \in bad => stable[n] \in corrupt
      BY <2>1 DEF Failures, Content, InStable
    <2>3. \A w \in Warcs : manifest[w] # NoName => manifest[w] \in Names
      BY DEF TypeOK
    <2>4. Present(manifest)'
      BY <2>1, <2>2, <2>3 DEF PathsInv, Present
    <2> QED
      BY <2>1, <2>4 DEF PathsInv
  <1>12. CASE Crash
    <2>1. /\ step' = "idle" /\ manifest' = manifest /\ stable' = stable
          /\ corrupt' = corrupt /\ snapshots' = snapshots
      BY <1>12 DEF Crash, Idle
    <2>2. CASE step \in {"delete", "commit"}
      <3>1. interrupted' = TRUE /\ Present(manifest)'
        BY <1>12, <2>1, <2>2 DEF Crash, PathsInv, Present
      <3> QED
        BY <2>1, <3>1 DEF PathsInv
    <2>3. CASE step \notin {"delete", "commit"}
      <3>1. interrupted' = interrupted /\ tmp' = tmp
        BY <1>12, <2>3 DEF Crash, TypeOK
      <3> QED
        BY <2>1, <2>3, <3>1, QuietStepKeepsPaths
    <2> QED
      BY <2>2, <2>3
  <1> QED
    BY <1>1, <1>2, <1>3, <1>4, <1>5, <1>6, <1>7, <1>8, <1>9, <1>10, <1>11, <1>12
       DEF Next

\* SnapshotsResolve holds in every behaviour: no consolidation, quarantine or cleanup,
\* crashed or not, breaks or swaps what a snapshot refers to, except a cleanup cut off
\* between its rmtree and its commit.
THEOREM PathsResolve == Spec => []SnapshotsResolve
  <1>1. Init => NamesInv /\ PathsInv
    BY DEF Init, NamesInv, Good, PathsInv, Present
  <1>2. TypeOK /\ NamesInv /\ PathsInv /\ [Next]_vars => NamesInv' /\ PathsInv'
    BY StepKeepsNames, StepKeepsPaths
  <1>3. TypeOK /\ PathsInv => SnapshotsResolve
    BY DEF TypeOK, PathsInv, Resolves, SnapshotsResolve
  <1> QED
    BY <1>1, <1>2, <1>3, StorageTyped, PTL DEF Spec

----------------------------------------------------------------------------
(* Replay and storage.                                                               *)

\* No step of replay changes a file or a row, and a storage step is one of WarcStorage.
LEMMA StorageUnchanged == [ReplayNext]_allvars => [Next]_vars
  <1> SUFFICES ASSUME [ReplayNext]_allvars PROVE [Next]_vars
    OBVIOUS
  <1>1. CASE Storage
    BY <1>1 DEF Storage
  <1>2. CASE ReplayIndexJob \/ \E verify \in BOOLEAN : Reconcile(verify)
    BY <1>2 DEF ReplayIndexJob, Reconcile, Indexing
  <1>3. CASE Continue
    BY <1>3 DEF Continue, Relink, RelinkBreaksOff, Reindex, ReindexFails, WriteMarker,
                NoMarkerWritten
  <1>4. CASE UNCHANGED allvars
    BY <1>4 DEF allvars
  <1> QED
    BY <1>1, <1>2, <1>3, <1>4 DEF ReplayNext

\* The composition implements the storage: with replay hidden, every behaviour of it
\* is one of WarcStorage.
THEOREM ReplayImplementsStorage == ReplaySpec => Spec
  <1>1. ReplayInit => Init
    BY DEF ReplayInit
  <1> QED
    BY <1>1, StorageUnchanged, PTL DEF ReplaySpec, Spec

\* Stable names are not reused while collections are built and rebuilt.
THEOREM NamesAreNotReusedByReplay == ReplaySpec => []ManifestIsSound
  BY ReplayImplementsStorage, NamesAreNotReused, PTL

\* Snapshots keep resolving while collections are built and rebuilt.
THEOREM PathsResolveWithReplay == ReplaySpec => []SnapshotsResolve
  BY ReplayImplementsStorage, PathsResolve, PTL

----------------------------------------------------------------------------
(* Types.                                                                            *)

\* The part of ReplayTypeOK that is not about files and rows.
CollectionTyped ==
    /\ \A i \in DOMAIN links : links[i] \in Paths
    /\ \A i \in DOMAIN index : index[i] \in Warcs
    /\ built \in BOOLEAN /\ marker \subseteq Paths
    /\ stage \in {"idle", "relink", "reindex", "mark"} /\ plan \in Seq(Paths)
    /\ torn \in BOOLEAN /\ freed \subseteq Names /\ breaks \in 0 .. MaxBreaks
    /\ faults \in Nat

\* Discovery finds finitely many files, each at a path.
LEMMA DiscoveredIsFinite ==
  TypeOK => Discovered \subseteq Paths /\ Cardinality(Discovered) \in Nat
  <1> SUFFICES ASSUME TypeOK PROVE Discovered \subseteq Paths /\ IsFiniteSet(Discovered)
    BY FS_CardinalityType
  <1>1. Discovered \subseteq Paths
    BY DiscoveredExists
  <1>2. IsFiniteSet({InStable(n) : n \in StableNames})
    <2>1. IsFiniteSet(Names)
      BY StorageAssumption, FS_Interval DEF Names
    <2>2. IsFiniteSet(StableNames)
      BY <2>1, FS_Subset DEF StableNames
    <2>3. [n \in StableNames |-> InStable(n)]
             \in Surjection(StableNames, {InStable(n) : n \in StableNames})
      BY DEF Surjection
    <2> QED
      BY <2>2, <2>3, FS_Surjection DEF ExistsSurjection
  <1>3. IsFiniteSet({InTmp(w) : w \in tmp})
    <2>1. IsFiniteSet(tmp)
      BY StorageAssumption, FS_Subset DEF TypeOK
    <2>2. [w \in tmp |-> InTmp(w)] \in Surjection(tmp, {InTmp(w) : w \in tmp})
      BY DEF Surjection
    <2> QED
      BY <2>1, <2>2, FS_Surjection DEF ExistsSurjection
  <1> QED
    BY <1>1, <1>2, <1>3 DEF Discovered

\* What an indexing is given, all of the files or the first of them, is a sequence of
\* paths.
LEMMA PlanIsSequence ==
  ASSUME TypeOK, NEW s \in Sorted(Discovered), NEW n \in 1 .. Cardinality(Discovered)
  PROVE  s \in Seq(Paths) /\ SubSeq(s, 1, n) \in Seq(Paths)
  <1>1. Discovered \subseteq Paths /\ Cardinality(Discovered) \in Nat
    BY DiscoveredIsFinite
  <1>2. s \in [1 .. Cardinality(Discovered) -> Paths]
    BY <1>1 DEF Sorted
  <1>3. s \in Seq(Paths) /\ Len(s) = Cardinality(Discovered)
    BY <1>1, <1>2
  <1> QED
    BY <1>1, <1>3

\* The collection is typed at first.
LEMMA InitCollection == ReplayInit => CollectionTyped
  <1> SUFFICES ASSUME ReplayInit PROVE CollectionTyped
    OBVIOUS
  <1>1. DOMAIN links = {} /\ DOMAIN index = {}
    BY DEF ReplayInit, NoLinks, NoIndex
  <1>2. breaks \in 0 .. MaxBreaks /\ faults \in Nat
    BY ReplayAssumption DEF ReplayInit, Init
  <1>3. plan \in Seq(Paths) /\ marker \subseteq Paths /\ freed \subseteq Names
    BY DEF ReplayInit
  <1> QED
    BY <1>1, <1>2, <1>3 DEF ReplayInit, CollectionTyped

\* Every step keeps the collection typed.
LEMMA StepKeepsCollection ==
  TypeOK /\ CollectionTyped /\ [ReplayNext]_allvars => CollectionTyped'
  <1> SUFFICES ASSUME TypeOK, CollectionTyped, [ReplayNext]_allvars PROVE CollectionTyped'
    OBVIOUS
  <1>0. TypeOK'
    BY StorageUnchanged, StepTyped
  <1> USE DEF CollectionTyped
  <1>1. CASE Storage
    <2>1. Freed \subseteq Names
      BY DEF Freed, StableNames
    <2>2. faults' \in Nat
      BY <1>0, StorageAssumption DEF TypeOK
    <2> QED
      BY <1>1, <2>1, <2>2 DEF Storage, replay, collection
  <1>2. CASE ReplayIndexJob
    <2>1. PICK s \in Sorted(Discovered), n \in 1 .. Cardinality(Discovered) :
                Indexing(SubSeq(s, 1, n))
      BY <1>2 DEF ReplayIndexJob
    <2> QED
      BY <2>1, PlanIsSequence DEF Indexing, collection, vars
  <1>3. CASE \E verify \in BOOLEAN : Reconcile(verify)
    <2>1. PICK s \in Sorted(Discovered) : Indexing(s)
      BY <1>3 DEF Reconcile
    <2>2. Discovered # {}
      BY <1>3 DEF Reconcile
    <2>3. s \in Seq(Paths)
      <3>1. Discovered \subseteq Paths /\ Cardinality(Discovered) \in Nat
        BY DiscoveredIsFinite
      <3> QED
        BY <3>1 DEF Sorted
    <2> QED
      BY <2>1, <2>3 DEF Indexing, collection, vars
  <1>4. CASE Relink
    BY <1>4 DEF Relink, vars
  <1>5. CASE RelinkBreaksOff
    <2>1. \A i \in DOMAIN links' : links'[i] \in Paths
      <3>1. CASE \E kept \in SUBSET DOMAIN links : links' = Restrict(links, kept)
        BY <3>1 DEF Restrict
      <3>2. CASE \E n \in 0 .. Len(plan) : links' = SubSeq(plan, 1, n)
        BY <3>2
      <3> QED
        BY <1>5, <3>1, <3>2 DEF RelinkBreaksOff
    <2>2. breaks' \in 0 .. MaxBreaks
      BY <1>5, ReplayAssumption DEF RelinkBreaksOff
    <2> QED
      BY <1>5, <2>1, <2>2 DEF RelinkBreaksOff, ReplayIdle, vars
  <1>6. CASE Reindex
    <2>1. \A i \in Readable : Content(links[i]) \in Warcs
      BY DEF Readable, Content, TypeOK, Paths
    <2> QED
      BY <1>6, <2>1 DEF Reindex, vars
  <1>7. CASE ReindexFails \/ NoMarkerWritten
    <2>1. breaks' \in 0 .. MaxBreaks
      BY <1>7, ReplayAssumption DEF ReindexFails, NoMarkerWritten
    <2>2. stage' = "idle" /\ plan' = <<>>
      BY <1>7, Zenon DEF ReindexFails, NoMarkerWritten, ReplayIdle
    <2>3. UNCHANGED <<links, built, index, marker, torn, freed, faults>>
      BY <1>7 DEF ReindexFails, NoMarkerWritten, collection, vars
    <2> QED
      BY <2>1, <2>2, <2>3
  <1>8. CASE WriteMarker
    <2>1. {plan[i] : i \in DOMAIN plan} \subseteq Paths
      OBVIOUS
    <2>2. stage' = "idle" /\ plan' \in Seq(Paths) /\ torn' = FALSE
      BY <1>8 DEF WriteMarker, ReplayIdle
    <2>3. UNCHANGED <<links, built, index, freed, breaks, faults>>
      BY <1>8 DEF WriteMarker, vars
    <2> QED
      BY <1>8, <2>1, <2>2, <2>3 DEF WriteMarker
  <1>9. CASE UNCHANGED allvars
    BY <1>9 DEF allvars, replay, collection, vars
  <1> QED
    BY <1>1, <1>2, <1>3, <1>4, <1>5, <1>6, <1>7, <1>8, <1>9 DEF ReplayNext, Continue

\* The collection, the replay command in progress, and the files and rows next to them
\* always have values of their types: an index holds no entry without a WARC.
THEOREM ReplayTyped == ReplaySpec => []ReplayTypeOK
  <1>1. TypeOK /\ CollectionTyped => ReplayTypeOK
    BY DEF CollectionTyped, ReplayTypeOK
  <1> QED
    BY <1>1, InitCollection, StepKeepsCollection, ReplayImplementsStorage, StorageTyped, PTL
       DEF ReplaySpec

----------------------------------------------------------------------------
(* What a verified collection serves.                                                *)

\* A name that no WARC may take any more, but the corrupt one that had it or, if no
\* manifest knew the name when its file was quarantined, the next one.
Spoilt(n) == n \in freed \/ \E w \in corrupt : manifest[w] = n

\* What is behind a link now is what the index read there, or need not be served.
GoodLink(i) ==
    \/ Content(links[i]) = NoWarc \/ Content(links[i]) \in corrupt \/ GivenAgain(links[i])
    \/ i \in DOMAIN index /\ index[i] = Content(links[i])

\* The inductive invariant: a marker that is not torn lists the links; after a reindex
\* the links stay good; and a name that the collection knows and whose file is gone is
\* spoilt, so that nothing sound comes back under it.
ServedInv ==
    /\ stage \in {"reindex", "mark"} => links = plan /\ torn
    /\ ~torn => marker = Range(links)
    /\ stage = "mark" \/ ~torn => \A i \in DOMAIN links : GoodLink(i)
    /\ \A n \in Names : InStable(n) \in Known /\ stable[n] = NoWarc => Spoilt(n)

\* A stable file changes in two ways only: a corrupt one is quarantined, and a name
\* without a file is given to the WARC that the manifest has for it, if it has one.
LEMMA StableMoves ==
  ASSUME TypeOK, NamesInv, Next, NEW n \in Names
  PROVE  \/ stable'[n] = stable[n]
         \/ stable'[n] = NoWarc /\ stable[n] \in corrupt
         \/ stable[n] = NoWarc /\ \A w \in Warcs : manifest[w] = n => stable'[n] = w
  <1>1. CASE Link
    <2>1. PICK v \in todo, k \in Names :
             /\ IsNameOf(v, k)
             /\ stable' = IF stable[k] # NoWarc THEN stable ELSE [stable EXCEPT ![k] = v]
      BY <1>1 DEF Link
    <2>2. /\ v \in Warcs /\ stable \in [Names -> Warcs \cup {NoWarc}]
          /\ entries \in [Warcs -> Names \cup {NoName}] /\ n # NoName
      BY StorageAssumption DEF TypeOK, Names, NoName
    <2>3. /\ Good(entries, stable)
          /\ \A w \in Warcs : manifest[w] # NoName => entries[w] = manifest[w]
      BY <1>1 DEF Link, NamesInv
    <2>4. ASSUME n = k, stable[n] = NoWarc, NEW w \in Warcs, manifest[w] = n
          PROVE  w = v
      <3>1. entries[w] = n
        BY <2>2, <2>3, <2>4
      <3>2. CASE entries[v] # NoName
        BY <2>1, <2>2, <2>3, <2>4, <3>1, <3>2 DEF IsNameOf, Good
      <3>3. CASE entries[v] = NoName
        <4>1. entries[w] < k
          BY <2>1, <3>3 DEF IsNameOf, IsNext, Used
        <4> QED
          BY <2>4, <3>1, <4>1 DEF Names
      <3> QED
        BY <3>2, <3>3
    <2> QED
      BY <2>1, <2>2, <2>4
  <1>2. CASE QuarantineWarcs \/ QuarantineFails
    <2>1. PICK bad \in SUBSET Failures :
             stable' = [k \in Names |-> IF InStable(k) \in bad THEN NoWarc ELSE stable[k]]
      BY <1>2 DEF QuarantineWarcs, QuarantineFails, Quarantine
    <2>2. InStable(n) \in bad => stable[n] \in corrupt
      BY DEF Failures, Content, InStable
    <2> QED
      BY <2>1, <2>2
  <1>3. CASE ~Link /\ ~QuarantineWarcs /\ ~QuarantineFails
    BY <1>3 DEF Next, Crawl, IndexJob, ConsolidateWarcs, CleanupJob, Begins, WriteManifest,
                LinkFails, IndexRefuses, IndexSucceeds, IndexFails, IndexEnds,
                RewritesAndEnds, RewriteForCleanup, DeleteTmp, CommitCleanup, Crash, Done,
                Idle, files, db, work, vars
  <1> QED
    BY <1>1, <1>2, <1>3

\* Names in the manifest and corruption stay.
LEMMA ManifestGrows ==
  ASSUME TypeOK, NamesInv, Next
  PROVE  /\ corrupt \subseteq corrupt'
         /\ \A w \in Warcs : manifest[w] # NoName => manifest'[w] = manifest[w]
  <1>1. CASE WriteManifest
    BY <1>1 DEF WriteManifest, NamesInv
  <1>2. CASE Crawl
    BY <1>2 DEF Crawl
  <1>3. CASE ~WriteManifest /\ ~Crawl
    BY <1>3 DEF Next, IndexJob, ConsolidateWarcs, CleanupJob, Begins, Link, LinkFails,
                QuarantineWarcs, QuarantineFails, Quarantine,
                IndexRefuses, IndexSucceeds, IndexFails, IndexEnds,
                RewritesAndEnds, RewriteForCleanup, DeleteTmp, CommitCleanup, Crash, Done,
                Idle, files, db, work, vars
  <1> QED
    BY <1>1, <1>2, <1>3

\* A storage step that empties a name spoils it, and spoilt names stay spoilt.
LEMMA EmptiedIsSpoilt ==
  ASSUME TypeOK, NamesInv, Storage, NEW n \in Names
  PROVE  /\ Spoilt(n) => Spoilt(n)'
         /\ stable[n] # NoWarc /\ stable'[n] = NoWarc => Spoilt(n)'
  <1>1. Next /\ freed' = freed \cup Freed
    BY DEF Storage
  <1>2. n # NoName /\ corrupt \subseteq Warcs
    BY DEF TypeOK, Names, NoName
  <1>3. Spoilt(n) => Spoilt(n)'
    BY <1>1, <1>2, ManifestGrows DEF Spoilt
  <1>4. ASSUME stable[n] # NoWarc, stable'[n] = NoWarc
        PROVE  Spoilt(n)'
    <2>1. stable[n] \in corrupt
      BY <1>1, <1>4, StableMoves
    <2>2. CASE \A w \in Warcs : manifest[w] # n
      <3>1. n \in Freed
        BY <1>4, <2>2 DEF Freed, StableNames
      <3> QED
        BY <1>1, <3>1 DEF Spoilt
    <2>3. CASE \E w \in Warcs : manifest[w] = n
      <3>1. PICK w \in Warcs : manifest[w] = n
        BY <2>3
      <3>2. w \in corrupt
        BY <1>2, <1>4, <2>1, <3>1 DEF NamesInv, Good
      <3>3. w \in corrupt' /\ manifest'[w] = n
        BY <1>1, <1>2, <3>1, <3>2, ManifestGrows
      <3> QED
        BY <3>3 DEF Spoilt
    <2> QED
      BY <2>2, <2>3
  <1> QED
    BY <1>3, <1>4

\* What comes back at a path that the collection knows need not be served.
LEMMA KnownPathMoves ==
  ASSUME TypeOK, NamesInv, ServedInv, Storage, NEW p \in Paths, p \in Known
  PROVE  \/ Content(p)' = Content(p) \/ Content(p)' = NoWarc
         \/ Content(p)' \in corrupt' \/ GivenAgain(p)'
  <1>1. Next /\ freed' = freed \cup Freed
    BY DEF Storage
  <1>2. CASE p.at = "tmp"
    <2>1. p.of \in Warcs /\ p = InTmp(p.of)
      BY <1>2 DEF Paths, InTmp
    <2>2. p.of \in tmp' => p.of \in tmp
      BY <2>1 DEF Storage
    <2> QED
      BY <1>2, <2>1, <2>2 DEF Content
  <1>3. CASE p.at = "stable"
    <2>1. p.of \in Names /\ p = InStable(p.of)
      BY <1>3 DEF Paths, InStable
    <2>2. Content(p) = stable[p.of] /\ Content(p)' = stable'[p.of]
      BY <1>3 DEF Content
    <2>3. CASE stable[p.of] = NoWarc /\ \A w \in Warcs : manifest[w] = p.of => stable'[p.of] = w
      <3>1. Spoilt(p.of)
        BY <2>1, <2>3 DEF ServedInv
      <3>2. CASE p.of \in freed
        BY <1>1, <1>3, <3>2 DEF GivenAgain
      <3>3. CASE \E w \in corrupt : manifest[w] = p.of
        <4>1. PICK w \in corrupt : manifest[w] = p.of
          BY <3>3
        <4>2. w \in Warcs
          BY DEF TypeOK
        <4>3. stable'[p.of] = w /\ w \in corrupt'
          BY <1>1, <2>3, <4>1, <4>2, ManifestGrows
        <4> QED
          BY <2>2, <4>3
      <3> QED
        BY <3>1, <3>2, <3>3 DEF Spoilt
    <2> QED
      BY <1>1, <2>1, <2>2, <2>3, StableMoves
  <1> QED
    BY <1>2, <1>3 DEF Paths

\* A storage step keeps the links good.
LEMMA StorageKeepsServed ==
  TypeOK /\ NamesInv /\ CollectionTyped /\ ServedInv /\ Storage => ServedInv'
  <1> SUFFICES ASSUME TypeOK, NamesInv, CollectionTyped, ServedInv, Storage
               PROVE ServedInv'
    OBVIOUS
  <1>1. /\ Next /\ freed' = freed \cup Freed
        /\ UNCHANGED <<links, built, index, marker, stage, plan, torn>>
    BY DEF Storage, replay, collection
  <1>2. Known' = Known
    BY <1>1 DEF Known, Range
  <1>3. ASSUME NEW i \in DOMAIN links, GoodLink(i)
        PROVE  GoodLink(i)'
    <2>1. links[i] \in Paths /\ links[i] \in Known
      BY DEF CollectionTyped, Known, Range
    <2>2. \/ Content(links[i])' = Content(links[i]) \/ Content(links[i])' = NoWarc
          \/ Content(links[i])' \in corrupt' \/ GivenAgain(links[i])'
      BY <1>1, <2>1, KnownPathMoves DEF Content, GivenAgain
    <2>3. corrupt \subseteq corrupt' /\ (GivenAgain(links[i]) => GivenAgain(links[i])')
      BY <1>1, ManifestGrows DEF GivenAgain
    <2> QED
      BY <1>1, <1>3, <2>2, <2>3 DEF GoodLink
  <1>4. ASSUME NEW n \in Names, InStable(n) \in Known, stable'[n] = NoWarc
        PROVE  Spoilt(n)'
    BY <1>4, EmptiedIsSpoilt DEF ServedInv
  <1>5. stage' \in {"reindex", "mark"} => links' = plan' /\ torn'
    BY <1>1 DEF ServedInv
  <1>6. ~torn' => marker' = Range(links')
    BY <1>1 DEF ServedInv
  <1> QED
    BY <1>1, <1>2, <1>3, <1>4, <1>5, <1>6 DEF ServedInv

\* An indexing is given files that are there, so no name it adds is spoilt.
LEMMA BeginKeepsServed ==
  ASSUME TypeOK, ServedInv, NEW paths, Range(paths) \subseteq Discovered, Indexing(paths)
  PROVE  ServedInv'
  <1>1. /\ UNCHANGED <<links, built, index, marker, torn, freed, tmp, stable, corrupt, manifest>>
        /\ plan' = paths /\ stage' = "relink"
    BY DEF Indexing, collection, vars, files
  <1>2. ASSUME NEW n \in Names, InStable(n) \in Known', stable[n] = NoWarc
        PROVE  Spoilt(n)
    <2>1. InStable(n) \notin Discovered
      <3>1. InStable(n).at = "stable" /\ InStable(n).of = n
        BY DEF InStable
      <3>2. Content(InStable(n)) = NoWarc
        BY <1>2, <3>1 DEF Content
      <3> QED
        BY <3>2, DiscoveredExists, StorageAssumption
    <2>2. InStable(n) \in marker \cup Range(links)
      BY <1>1, <1>2, <2>1 DEF Known, Range
    <2> QED
      BY <1>2, <2>2 DEF ServedInv, Known
  <1>3. \A i \in DOMAIN links : GoodLink(i) => GoodLink(i)'
    BY <1>1 DEF GoodLink, Content, GivenAgain
  <1>4. Range(links)' = Range(links) /\ \A n \in Names : Spoilt(n) => Spoilt(n)'
    BY <1>1 DEF Range, Spoilt
  <1> QED
    BY <1>1, <1>2, <1>3, <1>4 DEF ServedInv

\* So is every step of an indexing that goes on or breaks off.
LEMMA IndexingKeepsServed ==
  TypeOK /\ CollectionTyped /\ ServedInv /\ Continue => ServedInv'
  <1> SUFFICES ASSUME TypeOK, CollectionTyped, ServedInv, Continue PROVE ServedInv'
    OBVIOUS
  <1>1. UNCHANGED <<tmp, stable, corrupt, manifest>>
    BY DEF Continue, Relink, RelinkBreaksOff, Reindex, ReindexFails, WriteMarker,
           NoMarkerWritten, vars, files
  <1>0. freed' = freed \/ freed' = freed \ StableNames
    BY DEF Continue, Relink, RelinkBreaksOff, Reindex, ReindexFails, WriteMarker,
           NoMarkerWritten
  <1>2. Known' \subseteq Known => \A n \in Names :
             InStable(n) \in Known' /\ stable'[n] = NoWarc => Spoilt(n)'
    BY <1>1, <1>0 DEF ServedInv, Spoilt, StableNames
  <1>3. CASE Relink
    <2>1. links' = plan /\ plan' = plan /\ marker' = marker /\ stage' = "reindex" /\ torn' = TRUE
      BY <1>3 DEF Relink
    <2>2. Known' \subseteq Known
      BY <2>1 DEF Known, Range
    <2> QED
      BY <1>2, <2>1, <2>2 DEF ServedInv
  <1>4. CASE RelinkBreaksOff
    <2>1. marker' = marker /\ plan' = <<>> /\ stage' = "idle" /\ torn' = TRUE
      BY <1>4 DEF RelinkBreaksOff, ReplayIdle
    <2>2. Range(links') \subseteq Range(links) \cup Range(plan)
      <3>1. CASE \E kept \in SUBSET DOMAIN links : links' = Restrict(links, kept)
        BY <3>1 DEF Restrict, Range
      <3>2. CASE \E n \in 0 .. Len(plan) : links' = SubSeq(plan, 1, n)
        <4>1. plan \in Seq(Paths)
          BY DEF CollectionTyped
        <4> QED
          BY <3>2, <4>1 DEF Range
      <3> QED
        BY <1>4, <3>1, <3>2 DEF RelinkBreaksOff
    <2>3. Known' \subseteq Known
      BY <2>1, <2>2 DEF Known, Range
    <2> QED
      BY <1>2, <2>1, <2>3 DEF ServedInv
  <1>5. CASE Reindex
    <2>1. /\ links' = links /\ plan' = plan /\ marker' = marker /\ stage' = "mark" /\ torn' = torn
          /\ index' = [i \in Readable |-> Content(links[i])]
          /\ links = plan /\ torn
      BY <1>5 DEF Reindex, ServedInv
    <2>2. \A i \in DOMAIN links' : GoodLink(i)'
      BY <1>1, <2>1 DEF GoodLink, Readable, Content
    <2>3. Known' \subseteq Known
      BY <2>1 DEF Known, Range
    <2> QED
      BY <1>2, <2>1, <2>2, <2>3 DEF ServedInv
  <1>6. CASE ReindexFails \/ NoMarkerWritten
    <2>1. links' = links /\ marker' = marker /\ stage' = "idle" /\ torn' = torn /\ plan' = <<>>
      BY <1>6, Zenon DEF ReindexFails, NoMarkerWritten, ReplayIdle, collection
    <2>2. torn
      BY <1>6 DEF ReindexFails, NoMarkerWritten, ServedInv
    <2>3. Known' \subseteq Known
      BY <2>1 DEF Known, Range
    <2> QED
      BY <1>2, <2>1, <2>2, <2>3 DEF ServedInv
  <1>7. CASE WriteMarker
    <2>1. /\ links' = links /\ index' = index /\ stage' = "idle" /\ torn' = FALSE /\ plan' = <<>>
          /\ marker' = {plan[i] : i \in DOMAIN plan} /\ links = plan /\ stage = "mark"
      BY <1>7 DEF WriteMarker, ReplayIdle, ServedInv
    <2>2. marker' = Range(links')
      BY <2>1 DEF Range
    <2>3. \A i \in DOMAIN links' : GoodLink(i)'
      BY <1>1, <1>7, <2>1 DEF GoodLink, Content, GivenAgain, ServedInv, WriteMarker
    <2>4. Known' \subseteq Known
      BY <2>1, <2>2 DEF Known, Range
    <2> QED
      BY <1>2, <2>1, <2>2, <2>3, <2>4 DEF ServedInv
  <1> QED
    BY <1>3, <1>4, <1>5, <1>6, <1>7 DEF Continue

\* A collection whose marker agrees with the files of the job, and whose last indexing did
\* not break off, serves every sound WARC of them from its present place, whatever storage
\* commands ran between the steps of that indexing and since, for any number of WARCs and
\* of faults; except under a stable name that was quarantined before any manifest had it,
\* as after a crash between link and manifest, and that had no file when the collection
\* was last indexed or lost it since (VerifiedIsServed).
THEOREM VerifiedServes == ReplaySpec => []VerifiedIsServed
  <1>1. ReplayInit => NamesInv /\ CollectionTyped /\ ServedInv
    <2> SUFFICES ASSUME ReplayInit PROVE NamesInv /\ CollectionTyped /\ ServedInv
      OBVIOUS
    <2>1. NamesInv
      BY DEF ReplayInit, Init, NamesInv, Good
    <2>2. DOMAIN links = {} /\ marker = {} /\ plan = <<>> /\ stage = "idle"
      BY DEF ReplayInit, NoLinks
    <2>3. Range(links) = {} /\ Range(plan) = {}
      BY <2>2 DEF Range
    <2>4. ServedInv
      BY <2>2, <2>3 DEF ServedInv, Known
    <2> QED
      BY <2>1, <2>4, InitCollection
  <1>2. TypeOK /\ NamesInv /\ CollectionTyped /\ ServedInv /\ [ReplayNext]_allvars => ServedInv'
    <2> SUFFICES ASSUME TypeOK, NamesInv, CollectionTyped, ServedInv, [ReplayNext]_allvars
                 PROVE  ServedInv'
      OBVIOUS
    <2>1. CASE Storage
      BY <2>1, StorageKeepsServed
    <2>2. CASE Continue
      BY <2>2, IndexingKeepsServed
    <2>3. CASE ReplayIndexJob
      <3>1. PICK s \in Sorted(Discovered), n \in 1 .. Cardinality(Discovered) :
                  Indexing(SubSeq(s, 1, n))
        BY <2>3 DEF ReplayIndexJob
      <3>2. s \in [1 .. Cardinality(Discovered) -> Discovered] /\ Cardinality(Discovered) \in Nat
        BY DiscoveredIsFinite DEF Sorted
      <3>3. Range(SubSeq(s, 1, n)) \subseteq Discovered
        BY <3>1, <3>2 DEF Range
      <3> QED
        BY <3>1, <3>3, BeginKeepsServed
    <2>4. CASE \E verify \in BOOLEAN : Reconcile(verify)
      <3>1. PICK s \in Sorted(Discovered) : Indexing(s)
        BY <2>4 DEF Reconcile
      <3>2. Range(s) \subseteq Discovered
        BY DEF Sorted, Range
      <3> QED
        BY <3>1, <3>2, BeginKeepsServed
    <2>5. CASE UNCHANGED allvars
      BY <2>5 DEF allvars, vars, files, replay, collection, ServedInv, GoodLink, Content,
                  GivenAgain, Known, Range, Spoilt
    <2> QED
      BY <2>1, <2>2, <2>3, <2>4, <2>5 DEF ReplayNext
  <1>3. TypeOK /\ ServedInv => VerifiedIsServed
    <2> SUFFICES ASSUME TypeOK, ServedInv, stage = "idle", marker = Discovered, ~torn,
                        NEW p \in Discovered, Content(p) \notin corrupt
                 PROVE  Served(p) \/ GivenAgain(p)
      BY DEF VerifiedIsServed
    <2>1. PICK i \in DOMAIN links : links[i] = p
      BY DEF ServedInv, Range
    <2>2. Content(p) # NoWarc
      BY DiscoveredExists, StorageAssumption
    <2> QED
      BY <2>1, <2>2 DEF ServedInv, GoodLink, Served
  <1>4. TypeOK /\ NamesInv /\ [ReplayNext]_allvars => NamesInv'
    BY StorageUnchanged, StepKeepsNames
  <1> QED
    BY <1>1, <1>2, <1>3, <1>4, StepKeepsCollection, ReplayImplementsStorage, StorageTyped, PTL
       DEF ReplaySpec
===================================================================================
