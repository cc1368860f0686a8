------------------------------ MODULE Catalog_proofs ------------------------------
(* Proofs about Catalog, for every set of jobs, groups and captures: the types, that *)
(* the derived tables match the snapshots, that change events look backwards, and    *)
(* that deduplication hides no content.                                              *)
EXTENDS Catalog, FiniteSetTheorems, FunctionTheorems, WellFoundedInduction, TLAPS

----------------------------------------------------------------------------
(* Orders on finite sets.                                                            *)

\* A set of naturals that is not empty has a least one.
LEMMA LeastExists ==
  ASSUME NEW S, S \subseteq Nat, S # {}
  PROVE  \E m \in S : \A y \in S : m <= y
  <1>1. PICK R : R = OpToRel(<, Nat)
    OBVIOUS
  <1>2. PICK t \in S : \A y \in S : ~(<<y, t>> \in R)
    BY <1>1, NatLessThanWellFounded, WFMin
  <1>3. ASSUME NEW y \in S PROVE t <= y
    <2>1. y \in Nat /\ t \in Nat
      OBVIOUS
    <2>2. y < t => <<y, t>> \in R
      BY <1>1, <2>1 DEF OpToRel
    <2>3. ~(<<y, t>> \in R)
      BY <1>2
    <2> QED
      BY <2>1, <2>2, <2>3
  <1> QED
    BY <1>3

\* A finite set that is not empty has an element that nothing is above.
LEMMA TopExists ==
  ASSUME NEW S, IsFiniteSet(S), S # {}, NEW R,
         \A x \in S : <<x, x>> \notin R,
         \A x, y, z \in S : <<x, y>> \in R /\ <<y, z>> \in R => <<x, z>> \in R
  PROVE  \E x \in S : \A y \in S : <<x, y>> \notin R
  <1> DEFINE above(x) == {y \in S : <<x, y>> \in R}
             counts == {Cardinality(above(x)) : x \in S}
  <1>1. ASSUME NEW x \in S
        PROVE  IsFiniteSet(above(x)) /\ Cardinality(above(x)) \in Nat
    <2>1. above(x) \in SUBSET S
      OBVIOUS
    <2> QED
      BY <2>1, FS_Subset, FS_CardinalityType
  <1>2. ASSUME NEW x \in S, NEW y \in S, <<x, y>> \in R
        PROVE  above(y) \subseteq above(x) /\ y \in above(x) /\ y \notin above(y)
    BY <1>2
  <1> HIDE DEF above
  <1>3. counts \subseteq Nat /\ counts # {}
    BY <1>1
  <1>4. PICK m \in counts : \A n \in counts : m <= n
    BY <1>3, LeastExists
  <1>5. PICK x \in S : m = Cardinality(above(x))
    BY <1>4
  <1>6. ASSUME NEW y \in S, <<x, y>> \in R PROVE FALSE
    <2>1. Cardinality(above(x)) \in Nat /\ Cardinality(above(y)) \in Nat /\ IsFiniteSet(above(x))
      BY <1>1
    <2>2. Cardinality(above(y)) \in counts
      OBVIOUS
    <2>3. Cardinality(above(x)) <= Cardinality(above(y))
      BY <1>4, <1>5, <2>2
    <2>4. above(y) \in SUBSET above(x) /\ above(x) # above(y)
      BY <1>2, <1>6
    <2>5. Cardinality(above(y)) <= Cardinality(above(x)) /\ Cardinality(above(x)) # Cardinality(above(y))
      BY <2>1, <2>4, FS_Subset
    <2> QED
      BY <2>1, <2>3, <2>5
  <1> QED
    BY <1>6

\* Counting what comes before each element of a finite ordered set numbers it from 0.
LEMMA RanksAreBijective ==
  ASSUME NEW S, IsFiniteSet(S), NEW R,
         \A x \in S : <<x, x>> \notin R,
         \A x, y, z \in S : <<x, y>> \in R /\ <<y, z>> \in R => <<x, z>> \in R,
         \A x, y \in S : x # y => <<x, y>> \in R \/ <<y, x>> \in R
  PROVE  /\ Cardinality(S) \in Nat
         /\ [x \in S |-> Cardinality({y \in S : <<y, x>> \in R})]
                \in Bijection(S, 0 .. Cardinality(S) - 1)
  <1> DEFINE below(x) == {y \in S : <<y, x>> \in R}
             rank == [x \in S |-> Cardinality(below(x))]
             T == 0 .. Cardinality(S) - 1
  <1>1. ASSUME NEW x \in S
        PROVE  IsFiniteSet(below(x)) /\ Cardinality(below(x)) \in Nat
    <2>1. below(x) \in SUBSET S
      OBVIOUS
    <2> QED
      BY <2>1, FS_Subset, FS_CardinalityType
  <1>2. Cardinality(S) \in Nat
    BY FS_CardinalityType
  <1>3. ASSUME NEW x \in S PROVE rank[x] \in T
    <2>1. below(x) \in SUBSET S /\ x \notin below(x)
      OBVIOUS
    <2>2. Cardinality(below(x)) <= Cardinality(S) /\ Cardinality(below(x)) # Cardinality(S)
      BY <2>1, FS_Subset
    <2> QED
      BY <1>1, <1>2, <2>2
  <1>4. ASSUME NEW x \in S, NEW y \in S, <<x, y>> \in R PROVE rank[x] < rank[y]
    <2>1. below(x) \in SUBSET below(y)
      BY <1>4
    <2>2. x \in below(y) /\ x \notin below(x)
      BY <1>4
    <2>3. Cardinality(below(x)) <= Cardinality(below(y)) /\ Cardinality(below(x)) # Cardinality(below(y))
      BY <1>1, <2>1, <2>2, FS_Subset
    <2> QED
      BY <1>1, <2>3
  <1>5. rank \in Injection(S, T)
    <2>1. rank \in [S -> T]
      BY <1>3
    <2>2. ASSUME NEW x \in S, NEW y \in S, rank[x] = rank[y] PROVE x = y
      <3>1. rank[x] \in Nat /\ rank[y] \in Nat
        BY <1>1
      <3>2. ~(rank[x] < rank[y]) /\ ~(rank[y] < rank[x])
        BY <2>2, <3>1
      <3> QED
        BY <1>4, <3>2
    <2> HIDE DEF rank
    <2> QED
      BY <2>1, <2>2 DEF Injection, IsInjective
  <1>6. IsFiniteSet(T) /\ Cardinality(T) = Cardinality(S)
    <2>1. IsFiniteSet(T) /\ Cardinality(T) = IF 0 > Cardinality(S) - 1 THEN 0 ELSE Cardinality(S) - 1 - 0 + 1
      BY <1>2, FS_Interval
    <2> QED
      BY <1>2, <2>1
  <1> HIDE DEF rank, T
  <1>7. rank \in Surjection(S, T)
    BY <1>5, <1>6, FS_Injection
  <1>8. rank \in Bijection(S, T)
    BY <1>5, <1>7 DEF Bijection
  <1> QED
    BY <1>2, <1>8 DEF rank, T

----------------------------------------------------------------------------
(* Sets of rows.                                                                     *)

UniqueIds(rows) == \A s, t \in rows : s.id = t.id => s = t

\* `new` holds the rows of `rows`, with the same ids and captures.
Alike(rows, new) ==
    /\ \A s \in rows : \E t \in new : t.id = s.id /\ t.cap = s.cap
    /\ \A t \in new : \E s \in rows : t.id = s.id /\ t.cap = s.cap

\* What a row holds has the types of its capture.
LEMMA RowTyped ==
  ASSUME NEW s \in Rows
  PROVE  /\ s.id \in 1 .. MaxId /\ s.id \in Nat /\ s.cap \in Captures
         /\ s.dedup \in BOOLEAN /\ s.full \in BOOLEAN /\ s.links \subseteq Groups
         /\ Of(s).job \in Jobs /\ Of(s).group \in Groups /\ Of(s).links \subseteq Groups
         /\ Of(s).ts \in Nat /\ Of(s).day \in Nat /\ Of(s).hash \in Nat /\ Of(s).code \in Nat
  <1>1. s.id \in 1 .. MaxId /\ s.cap \in Captures
        /\ s.dedup \in BOOLEAN /\ s.full \in BOOLEAN /\ s.links \subseteq Groups
    BY DEF Rows
  <1>2. Capture[s.cap] \in [job : Jobs, group : Groups, url : Nat, ts : Nat, day : Nat,
                            hash : Nat, code : Nat, links : SUBSET Groups]
    BY <1>1, CaptureAssumption
  <1> QED
    BY <1>1, <1>2, BoundsAssumption DEF Of

\* Rows with ids of their own are finitely many.
LEMMA RowsFinite ==
  ASSUME NEW rows, rows \subseteq Rows, UniqueIds(rows)
  PROVE  IsFiniteSet(rows) /\ Cardinality(rows) \in Nat
  <1> DEFINE f == [s \in rows |-> s.id]
  <1>1. f \in [rows -> 1 .. MaxId]
    BY RowTyped
  <1>2. f \in Injection(rows, 1 .. MaxId)
    BY <1>1 DEF Injection, IsInjective, UniqueIds
  <1>3. IsFiniteSet(1 .. MaxId)
    BY BoundsAssumption, FS_Interval
  <1> QED
    BY <1>2, <1>3, FS_Injection, FS_CardinalityType

\* The newest row of a set comes after every other.
LEMMA NewestIs ==
  ASSUME NEW rows, rows \subseteq Rows, UniqueIds(rows), rows # {}
  PROVE  /\ Newest(rows) \in rows
         /\ \A t \in rows \ {Newest(rows)} : Before(t, Newest(rows))
  <1> DEFINE R == {p \in rows \X rows : Before(p[1], p[2])}
  <1>1. ASSUME NEW x \in rows, NEW y \in rows PROVE <<x, y>> \in R <=> Before(x, y)
    OBVIOUS
  <1> HIDE DEF R
  <1>2. \A x \in rows : Of(x).ts \in Nat /\ x.id \in Nat
    BY RowTyped
  <1>3. \A x \in rows : <<x, x>> \notin R
    BY <1>1, <1>2 DEF Before
  <1>4. \A x, y, z \in rows : <<x, y>> \in R /\ <<y, z>> \in R => <<x, z>> \in R
    BY <1>1, <1>2 DEF Before
  <1>5. PICK x \in rows : \A y \in rows : <<x, y>> \notin R
    BY <1>3, <1>4, RowsFinite, TopExists
  <1>6. ASSUME NEW y \in rows, y # x PROVE Before(y, x)
    <2>1. ~Before(x, y) /\ x.id # y.id
      BY <1>1, <1>5, <1>6 DEF UniqueIds
    <2> QED
      BY <1>2, <2>1 DEF Before
  <1> QED
    BY <1>6 DEF Newest

\* Rows that are alike are equally many, and the newest of both is the same.
LEMMA AlikeCounts ==
  ASSUME NEW rows, rows \subseteq Rows, UniqueIds(rows),
         NEW new, new \subseteq Rows, UniqueIds(new), Alike(rows, new)
  PROVE  Cardinality(new) = Cardinality(rows)
  <1> DEFINE f == [s \in rows |-> CHOOSE t \in new : t.id = s.id]
  <1>1. ASSUME NEW s \in rows PROVE f[s] \in new /\ f[s].id = s.id
    BY DEF Alike
  <1>2. f \in [rows -> new]
    BY <1>1
  <1> HIDE DEF f
  <1>3. f \in Injection(rows, new)
    BY <1>1, <1>2 DEF Injection, IsInjective, UniqueIds
  <1>4. ASSUME NEW t \in new PROVE \E s \in rows : f[s] = t
    <2>1. PICK s \in rows : s.id = t.id
      BY DEF Alike
    <2> QED
      BY <1>1, <2>1 DEF UniqueIds
  <1>5. f \in Bijection(rows, new)
    BY <1>2, <1>3, <1>4 DEF Bijection, Surjection
  <1> QED
    BY <1>5, RowsFinite, FS_Bijection DEF ExistsBijection

LEMMA AlikeNewest ==
  ASSUME NEW rows, rows \subseteq Rows, UniqueIds(rows),
         NEW new, new \subseteq Rows, UniqueIds(new), Alike(rows, new)
  PROVE  NewestId(new) = NewestId(rows)
  <1>1. CASE rows = {}
    BY <1>1 DEF Alike, NewestId
  <1>2. CASE rows # {}
    <2> DEFINE m == Newest(rows)
               n == Newest(new)
    <2>1. new # {}
      BY <1>2 DEF Alike
    <2>2. m \in rows /\ n \in new
      BY <1>2, <2>1, NewestIs
    <2>3. PICK t \in new : t.id = m.id /\ t.cap = m.cap
      BY <2>2 DEF Alike
    <2>4. PICK s \in rows : s.id = n.id /\ s.cap = n.cap
      BY <2>2 DEF Alike
    <2>5. /\ Of(t).ts = Of(m).ts /\ Of(s).ts = Of(n).ts
          /\ Of(m).ts \in Nat /\ Of(n).ts \in Nat /\ m.id \in Nat /\ n.id \in Nat
      BY <2>2, <2>3, <2>4, RowTyped DEF Of
    <2>6. t # n => Before(t, n)
      BY <2>1, NewestIs
    <2>7. s # m => Before(s, m)
      BY <1>2, NewestIs
    <2> HIDE DEF m, n
    <2>8. m.id = n.id
      BY <2>3, <2>4, <2>5, <2>6, <2>7 DEF Before
    <2> QED
      BY <1>2, <2>1, <2>8 DEF NewestId, m, n
  <1> QED
    BY <1>1, <1>2

\* The row of a page depends on the ids and captures of its snapshots alone.
LEMMA AlikePages ==
  ASSUME NEW rows, rows \subseteq Rows, UniqueIds(rows),
         NEW new, new \subseteq Rows, UniqueIds(new), Alike(rows, new)
  PROVE  PageOf(new) = PageOf(rows)
  <1>1. {Of(s).ts : s \in rows} = {Of(s).ts : s \in new}
    BY DEF Alike, Of
  <1>2. NewestId(new) = NewestId(rows) /\ Cardinality(new) = Cardinality(rows)
    BY AlikeNewest, AlikeCounts
  <1>3. NewestId({s \in new : IsOk(s)}) = NewestId({s \in rows : IsOk(s)})
    <2> DEFINE ok(r) == {s \in r : IsOk(s)}
    <2>1. ok(rows) \subseteq Rows /\ ok(new) \subseteq Rows /\ UniqueIds(ok(rows)) /\ UniqueIds(ok(new))
      BY DEF UniqueIds
    <2>2. \A s, t : s.cap = t.cap => (IsOk(s) <=> IsOk(t))
      BY DEF IsOk, Of
    <2>3. Alike(ok(rows), ok(new))
      BY <2>2 DEF Alike
    <2> QED
      BY <2>1, <2>3, AlikeNewest
  <1> QED
    BY <1>1, <1>2, <1>3 DEF PageOf

\* A finite set of integers that is not empty has a greatest one.
LEMMA MaxIs ==
  ASSUME NEW S, S \subseteq Int, IsFiniteSet(S), S # {}
  PROVE  Max(S) \in S /\ \A y \in S : y <= Max(S)
  <1> DEFINE R == {p \in S \X S : p[1] < p[2]}
  <1>1. \A x, y \in S : <<x, y>> \in R <=> x < y
    OBVIOUS
  <1> HIDE DEF R
  <1>2. \A x \in S : <<x, x>> \notin R
    BY <1>1
  <1>3. \A x, y, z \in S : <<x, y>> \in R /\ <<y, z>> \in R => <<x, z>> \in R
    BY <1>1
  <1>4. PICK x \in S : \A y \in S : <<x, y>> \notin R
    BY <1>2, <1>3, TopExists
  <1>5. ASSUME NEW y \in S PROVE x >= y
    <2>1. x \in Int /\ y \in Int /\ ~(x < y)
      BY <1>1, <1>4
    <2> QED
      BY <2>1
  <1> QED
    BY <1>5 DEF Max

\* What a function takes on a finite set is finite.
LEMMA ImageFinite ==
  ASSUME NEW S, IsFiniteSet(S), NEW T, NEW f \in [S -> T]
  PROVE  IsFiniteSet({f[x] : x \in S})
  <1>1. f \in Surjection(S, {f[x] : x \in S})
    BY DEF Surjection
  <1> QED
    BY <1>1, FS_Surjection

\* The times of rows have a first and a last.
LEMMA TimesTyped ==
  ASSUME NEW rows, rows \subseteq Rows, UniqueIds(rows), rows # {}
  PROVE  /\ Min({Of(s).ts : s \in rows}) \in Nat
         /\ Max({Of(s).ts : s \in rows}) \in Nat
         /\ Max({Of(s).ts : s \in rows}) \in {Of(s).ts : s \in rows}
         /\ \A s \in rows : Of(s).ts <= Max({Of(t).ts : t \in rows})
  <1> DEFINE T == {Of(s).ts : s \in rows}
             f == [s \in rows |-> Of(s).ts]
  <1>1. T \subseteq Nat /\ T # {}
    BY RowTyped
  <1>2. PICK m \in T : \A y \in T : m <= y
    BY <1>1, LeastExists
  <1>3. Min(T) \in T
    BY <1>2 DEF Min
  <1>4. f \in [rows -> Nat] /\ T = {f[s] : s \in rows}
    BY <1>1
  <1>5. IsFiniteSet(T)
    <2> HIDE DEF f, T
    <2>1. IsFiniteSet({f[s] : s \in rows})
      BY <1>4, RowsFinite, ImageFinite
    <2> QED
      BY <1>4, <2>1
  <1>6. T \subseteq Int
    BY <1>1
  <1>7. Max(T) \in T /\ \A y \in T : y <= Max(T)
    BY <1>1, <1>5, <1>6, MaxIs
  <1> QED
    BY <1>1, <1>3, <1>7

\* The newest row is none or one of the rows.
LEMMA NewestIdIs ==
  ASSUME NEW rows, rows \subseteq Rows, UniqueIds(rows)
  PROVE  /\ rows # {} => NewestId(rows) \in Ids(rows)
         /\ rows = {} => NewestId(rows) = 0
         /\ NewestId(rows) \in 0 .. MaxId
  <1>1. rows = {} => NewestId(rows) = 0
    BY DEF NewestId
  <1>2. rows # {} => Newest(rows) \in rows /\ NewestId(rows) = Newest(rows).id
    BY NewestIs DEF NewestId
  <1>3. rows # {} => NewestId(rows) \in 1 .. MaxId
    BY <1>2, RowTyped
  <1>4. 0 \in 0 .. MaxId
    BY BoundsAssumption
  <1> QED
    BY <1>1, <1>2, <1>3, <1>4, BoundsAssumption DEF Ids

\* The row of a page is well typed, and points at rows of its own.
LEMMA PageTyped ==
  ASSUME NEW rows, rows \subseteq Rows, UniqueIds(rows), rows # {}
  PROVE  /\ PageOf(rows) \in PageRows
         /\ PageOf(rows).latest \in Ids(rows)
         /\ PageOf(rows).latestOk \in Ids(rows) \cup {0}
  <1> DEFINE ok == {s \in rows : IsOk(s)}
  <1>1. ok \subseteq Rows /\ UniqueIds(ok) /\ Ids(ok) \subseteq Ids(rows)
    BY DEF UniqueIds, Ids
  <1>2. NewestId(ok) \in Ids(rows) \cup {0} /\ NewestId(ok) \in 0 .. MaxId
    BY <1>1, NewestIdIs
  <1>3. NewestId(rows) \in Ids(rows) /\ NewestId(rows) \in 0 .. MaxId
    BY NewestIdIs
  <1>4. Cardinality(rows) \in Nat
    BY RowsFinite
  <1>5. Min({Of(s).ts : s \in rows}) \in Nat /\ Max({Of(s).ts : s \in rows}) \in Nat
    BY TimesTyped
  <1> QED
    BY <1>2, <1>3, <1>4, <1>5 DEF PageOf, PageRows

\* The rows of a group are rows with ids of their own.
LEMMA GroupRows ==
  ASSUME NEW rows, rows \subseteq Rows, UniqueIds(rows), NEW g
  PROVE  /\ InGroup(rows, g) \subseteq rows /\ InGroup(rows, g) \subseteq Rows
         /\ UniqueIds(InGroup(rows, g))
         /\ g \in GroupsOf(rows) <=> InGroup(rows, g) # {}
  BY DEF InGroup, UniqueIds, GroupsOf

\* A rebuild gives each group asked for its row or, if that is wanted, none; the others
\* keep theirs.
LEMMA Rebuilt ==
  ASSUME NEW rows, NEW groups, NEW table, NEW remove \in BOOLEAN, NEW g
  PROVE  LET new == RebuildPages(table, rows, groups, remove)
         IN  /\ g \in groups /\ InGroup(rows, g) # {} =>
                    g \in DOMAIN new /\ new[g] = PageOf(InGroup(rows, g))
             /\ g \in groups /\ InGroup(rows, g) = {} /\ remove => g \notin DOMAIN new
             /\ g \notin groups \/ (InGroup(rows, g) = {} /\ ~remove) =>
                    /\ g \in DOMAIN new <=> g \in DOMAIN table
                    /\ g \in DOMAIN table => new[g] = table[g]
  <1>1. g \in GroupsOf(rows) <=> InGroup(rows, g) # {}
    BY DEF InGroup, GroupsOf
  <1> QED
    BY <1>1 DEF RebuildPages

\* The same of a table that is rebuilt, with and without removing what is missing.
WholeRebuild(table, rows, groups) == RebuildPages(table, rows, groups, TRUE)

PartRebuild(table, rows, groups) == RebuildPages(table, rows, groups, FALSE)

LEMMA RebuiltWhole ==
  ASSUME NEW rows, NEW groups, NEW table, NEW new, new = WholeRebuild(table, rows, groups), NEW g
  PROVE  /\ g \in groups => (g \in DOMAIN new <=> InGroup(rows, g) # {})
         /\ g \in groups /\ InGroup(rows, g) # {} => new[g] = PageOf(InGroup(rows, g))
         /\ g \notin groups => (g \in DOMAIN new <=> g \in DOMAIN table)
         /\ g \notin groups /\ g \in DOMAIN table => new[g] = table[g]
  <1>1. g \in GroupsOf(rows) <=> InGroup(rows, g) # {}
    BY DEF InGroup, GroupsOf
  <1> QED
    BY <1>1 DEF WholeRebuild, RebuildPages

LEMMA RebuiltPart ==
  ASSUME NEW rows, NEW groups, NEW table, NEW new, new = PartRebuild(table, rows, groups), NEW g
  PROVE  /\ g \in groups /\ InGroup(rows, g) # {} =>
                g \in DOMAIN new /\ new[g] = PageOf(InGroup(rows, g))
         /\ g \notin groups \/ InGroup(rows, g) = {} => (g \in DOMAIN new <=> g \in DOMAIN table)
  <1>1. g \in GroupsOf(rows) <=> InGroup(rows, g) # {}
    BY DEF InGroup, GroupsOf
  <1> QED
    BY <1>1 DEF PartRebuild, RebuildPages

\* Links are counted in a finite graph.
LEMMA LinksTyped ==
  ASSUME NEW rows, rows \subseteq Rows, NEW g
  PROVE  SignalOf(rows, g) \in [in : Nat, out : Nat]
  <1>1. Edges(rows) \subseteq Groups \X Groups
    BY RowTyped DEF Edges
  <1>2. IsFiniteSet(Groups \X Groups)
    BY BoundsAssumption, FS_Product
  <1>3. {e \in Edges(rows) : e[2] = g} \in SUBSET (Groups \X Groups)
    BY <1>1
  <1>4. {e \in Edges(rows) : e[1] = g} \in SUBSET (Groups \X Groups)
    BY <1>1
  <1>5. Cardinality({e \in Edges(rows) : e[2] = g}) \in Nat
    BY <1>2, <1>3, FS_Subset, FS_CardinalityType
  <1>6. Cardinality({e \in Edges(rows) : e[1] = g}) \in Nat
    BY <1>2, <1>4, FS_Subset, FS_CardinalityType
  <1> QED
    BY <1>5, <1>6 DEF SignalOf

----------------------------------------------------------------------------
(* What a step does to the snapshots.                                                *)

RecordsOf(j) == {c \in Captures : Capture[c].job = j}

\* The rows after index_job has replaced those of the job.
Replacement(j, read) == (snaps \ RowsOf(j)) \cup NewRows(read)

\* Every id that a table holds has been given out.
IdsPast ==
    /\ \A s \in snaps : s.id < nextId
    /\ \A g \in DOMAIN pages : pages[g].latest < nextId /\ pages[g].latestOk < nextId
    /\ \A e \in changes : e.to < nextId /\ e.from < nextId
    /\ \A a \in audit \cup found : a.dup < nextId /\ a.canon < nextId

\* What is read gets ids from nextId on, in the order of the records.
LEMMA NewRowsAre ==
  ASSUME TypeOK, NEW j \in Jobs, NEW read \in SUBSET RecordsOf(j), Replaces(j, read)
  PROVE  /\ NewRows(read) \subseteq Rows /\ UniqueIds(NewRows(read))
         /\ nextId' \in Nat /\ nextId \in Nat /\ nextId' = nextId + Cardinality(read)
         /\ nextId' \in 1 .. MaxId + 1 /\ nextId <= nextId'
         /\ \A s \in NewRows(read) : /\ nextId <= s.id /\ s.id < nextId' /\ ~s.dedup
                                     /\ s.cap \in read /\ Of(s).job = j
  <1> DEFINE R == {p \in read \X read : p[1] < p[2]}
             rank == [c \in read |-> Cardinality({d \in read : <<d, c>> \in R})]
  <1>1. read \subseteq Captures /\ read \subseteq Nat /\ \A c \in read : Capture[c].job = j
    BY CaptureAssumption DEF RecordsOf
  <1>2. IsFiniteSet(read)
    BY <1>1, BoundsAssumption, FS_Subset
  <1>3. \A c, d \in read : <<d, c>> \in R <=> d < c
    OBVIOUS
  <1>4. ASSUME NEW c \in read PROVE rank[c] = Cardinality({d \in read : d < c})
    <2>1. {d \in read : <<d, c>> \in R} = {d \in read : d < c}
      BY <1>3
    <2> QED
      BY <2>1
  <1>5. Cardinality(read) \in Nat /\ rank \in Bijection(read, 0 .. Cardinality(read) - 1)
    <2> HIDE DEF R
    <2>1. \A c \in read : <<c, c>> \notin R
      BY <1>1, <1>3
    <2>2. \A c, d, e \in read : <<c, d>> \in R /\ <<d, e>> \in R => <<c, e>> \in R
      BY <1>1, <1>3
    <2>3. \A c, d \in read : c # d => <<c, d>> \in R \/ <<d, c>> \in R
      BY <1>1, <1>3
    <2> QED
      BY <1>2, <2>1, <2>2, <2>3, RanksAreBijective
  <1>6. \A c \in read : rank[c] \in 0 .. Cardinality(read) - 1
    <2> HIDE DEF rank
    <2> QED
      BY <1>5 DEF Bijection, Injection
  <1>7. \A c, d \in read : rank[c] = rank[d] => c = d
    <2>1. \A c, d \in DOMAIN rank : rank[c] = rank[d] => c = d
      <3> HIDE DEF rank
      <3> QED
        BY <1>5 DEF Bijection, Injection, IsInjective
    <2> QED
      BY <2>1
  <1>8. /\ nextId \in Nat /\ nextId \in 1 .. MaxId + 1 /\ nextId' = nextId + Cardinality(read)
        /\ nextId + Cardinality(read) - 1 <= MaxId
    BY BoundsAssumption DEF TypeOK, Replaces
  <1> HIDE DEF rank, R
  <1>9. ASSUME NEW c \in read
        PROVE  /\ RowOf(c, read).id = nextId + rank[c] /\ RowOf(c, read).cap = c
               /\ RowOf(c, read).id \in nextId .. nextId' - 1
               /\ RowOf(c, read) \in Rows /\ ~RowOf(c, read).dedup
    <2>1. RowOf(c, read).id = nextId + rank[c] /\ RowOf(c, read).cap = c /\ ~RowOf(c, read).dedup
      BY <1>4 DEF RowOf
    <2>2. rank[c] \in 0 .. Cardinality(read) - 1
      BY <1>6
    <2>3. RowOf(c, read).id \in nextId .. nextId' - 1 /\ RowOf(c, read).id \in 1 .. MaxId
      BY <1>5, <1>8, <2>1, <2>2, BoundsAssumption
    <2>4. Capture[c].links \subseteq Groups
      BY <1>1, CaptureAssumption
    <2>5. RowOf(c, read) \in Rows
      BY <1>1, <2>3, <2>4 DEF RowOf, Rows
    <2> QED
      BY <2>1, <2>3, <2>5
  <1>10. UniqueIds(NewRows(read))
    <2> SUFFICES ASSUME NEW c \in read, NEW d \in read, RowOf(c, read).id = RowOf(d, read).id
                 PROVE  RowOf(c, read) = RowOf(d, read)
      BY DEF UniqueIds, NewRows
    <2>1. rank[c] = rank[d]
      BY <1>5, <1>6, <1>8, <1>9
    <2> QED
      BY <1>7, <2>1
  <1>11. \A s \in NewRows(read) : /\ nextId <= s.id /\ s.id < nextId' /\ ~s.dedup
                                  /\ s.cap \in read /\ Of(s).job = j
    BY <1>1, <1>5, <1>8, <1>9 DEF NewRows, Of
  <1> QED
    BY <1>5, <1>8, <1>9, <1>10, <1>11, BoundsAssumption DEF NewRows

\* Replacing the rows of a job leaves rows with ids of their own.
LEMMA ReplacementRows ==
  ASSUME TypeOK, IdsPast, NEW j \in Jobs, NEW read \in SUBSET RecordsOf(j), Replaces(j, read)
  PROVE  /\ Replacement(j, read) \subseteq Rows /\ UniqueIds(Replacement(j, read))
         /\ \A s \in Replacement(j, read) : s.id < nextId'
         /\ \A s \in Replacement(j, read) :
                IF Of(s).job = j THEN s \in NewRows(read) /\ nextId <= s.id
                                 ELSE s \in snaps /\ s.id < nextId
  <1>1. snaps \subseteq Rows /\ UniqueIds(snaps) /\ \A s \in snaps : s.id < nextId
    BY DEF TypeOK, IdsPast, UniqueIds
  <1>2. /\ NewRows(read) \subseteq Rows /\ UniqueIds(NewRows(read))
        /\ nextId' \in Nat /\ nextId \in Nat /\ nextId <= nextId'
        /\ \A s \in NewRows(read) : nextId <= s.id /\ s.id < nextId' /\ Of(s).job = j
    BY NewRowsAre
  <1>3. \A s \in Rows : s.id \in Nat
    BY RowTyped
  <1>4. \A s \in snaps \ RowsOf(j) : s.id < nextId /\ s.id < nextId' /\ Of(s).job # j
    BY <1>1, <1>2, <1>3 DEF RowsOf
  <1>5. Replacement(j, read) \subseteq Rows
    BY <1>1, <1>2 DEF Replacement
  <1>6. UniqueIds(Replacement(j, read))
    <2> SUFFICES ASSUME NEW s \in Replacement(j, read), NEW t \in Replacement(j, read), s.id = t.id
                 PROVE  s = t
      BY DEF UniqueIds
    <2>1. s.id \in Nat /\ t.id \in Nat
      BY <1>3, <1>5
    <2> QED
      BY <1>1, <1>2, <1>4, <2>1 DEF Replacement, UniqueIds
  <1> QED
    BY <1>2, <1>4, <1>5, <1>6 DEF Replacement

\* Marking rows as duplicates changes only that.
LEMMA MarkedAlike ==
  ASSUME NEW rows, rows \subseteq Rows, UniqueIds(rows), NEW marks
  PROVE  /\ MarkRows(rows, marks) \subseteq Rows /\ UniqueIds(MarkRows(rows, marks))
         /\ Alike(rows, MarkRows(rows, marks))
         /\ \A t \in MarkRows(rows, marks) : \E s \in rows :
                /\ t.id = s.id /\ t.cap = s.cap /\ t.links = s.links
                /\ t.dedup <=> s.dedup \/ \E d \in marks : d.dup = s.id
  <1> DEFINE mark(s) == [s EXCEPT !.dedup = @ \/ \E d \in marks : d.dup = s.id]
  <1>1. ASSUME NEW s \in rows
        PROVE  /\ mark(s) \in Rows /\ mark(s).id = s.id /\ mark(s).cap = s.cap /\ mark(s).links = s.links
               /\ mark(s).dedup <=> s.dedup \/ \E d \in marks : d.dup = s.id
    BY DEF Rows
  <1>2. MarkRows(rows, marks) = {mark(s) : s \in rows}
    BY DEF MarkRows
  <1> HIDE DEF mark
  <1> QED
    BY <1>1, <1>2 DEF UniqueIds, Alike

\* Rewriting some rows, but not their ids and captures.
LEMMA RewrittenAlike ==
  ASSUME NEW rows, rows \subseteq Rows, UniqueIds(rows), NEW part, part \subseteq rows,
         NEW f, \A s \in part : f[s] \in Rows /\ f[s].id = s.id /\ f[s].cap = s.cap,
         NEW new, new = (rows \ part) \cup {f[s] : s \in part}
  PROVE  new \subseteq Rows /\ UniqueIds(new) /\ Alike(rows, new)
  <1>1. \A t \in new : \E s \in rows : t.id = s.id /\ t.cap = s.cap /\ (s \in part => t = f[s]) /\ (s \notin part => t = s)
    OBVIOUS
  <1>2. \A s \in rows : \E t \in new : t.id = s.id /\ t.cap = s.cap
    OBVIOUS
  <1>3. new \subseteq Rows
    OBVIOUS
  <1>4. UniqueIds(new)
    BY <1>1 DEF UniqueIds
  <1>5. Alike(rows, new)
    BY <1>1, <1>2 DEF Alike
  <1> QED
    BY <1>3, <1>4, <1>5

LEMMA ShortenedAlike ==
  ASSUME NEW rows, rows \subseteq Rows, UniqueIds(rows), NEW part, part \subseteq rows,
         NEW new, new = (rows \ part) \cup Shortened(part)
  PROVE  new \subseteq Rows /\ UniqueIds(new) /\ Alike(rows, new)
  <1> DEFINE f == [s \in part |-> [s EXCEPT !.full = FALSE]]
  <1>1. \A s \in part : f[s] \in Rows /\ f[s].id = s.id /\ f[s].cap = s.cap
    BY DEF Rows
  <1>2. Shortened(part) = {f[s] : s \in part}
    BY DEF Shortened
  <1> HIDE DEF f
  <1> QED
    BY <1>1, <1>2, RewrittenAlike

\* What restoring, and reading the links again, make of rows.
Restored(rows) == {[s EXCEPT !.dedup = FALSE] : s \in rows}

Relinked(rows, readable) ==
    {[s EXCEPT !.links = IF s.cap \in readable /\ Is2xx(Of(s).code) THEN Of(s).links ELSE {}] : s \in rows}

LEMMA RestoredAlike ==
  ASSUME NEW rows, rows \subseteq Rows, UniqueIds(rows), NEW part, part \subseteq rows,
         NEW new, new = (rows \ part) \cup Restored(part)
  PROVE  new \subseteq Rows /\ UniqueIds(new) /\ Alike(rows, new)
  <1> DEFINE f == [s \in part |-> [s EXCEPT !.dedup = FALSE]]
  <1>1. \A s \in part : f[s] \in Rows /\ f[s].id = s.id /\ f[s].cap = s.cap
    BY DEF Rows
  <1>2. Restored(part) = {f[s] : s \in part}
    BY DEF Restored
  <1> HIDE DEF f
  <1> QED
    BY <1>1, <1>2, RewrittenAlike

LEMMA RelinkedAlike ==
  ASSUME NEW rows, rows \subseteq Rows, UniqueIds(rows), NEW part, part \subseteq rows,
         NEW readable, NEW new, new = (rows \ part) \cup Relinked(part, readable)
  PROVE  new \subseteq Rows /\ UniqueIds(new) /\ Alike(rows, new)
  <1> DEFINE again(s) == [s EXCEPT !.links = IF s.cap \in readable /\ Is2xx(Of(s).code)
                                             THEN Of(s).links ELSE {}]
             f == [s \in part |-> again(s)]
  <1>1. ASSUME NEW s \in part PROVE f[s] \in Rows /\ f[s].id = s.id /\ f[s].cap = s.cap
    <2> DEFINE l == IF s.cap \in readable /\ Is2xx(Of(s).code) THEN Of(s).links ELSE {}
    <2>1. l \subseteq Groups /\ s \in Rows
      BY RowTyped
    <2>2. f[s] = [s EXCEPT !.links = l]
      OBVIOUS
    <2> HIDE DEF l, f
    <2> QED
      BY <2>1, <2>2 DEF Rows
  <1>2. Relinked(part, readable) = {f[s] : s \in part}
    BY DEF Relinked
  <1> HIDE DEF f
  <1> QED
    BY <1>1, <1>2, RewrittenAlike

\* Steps other than index_job keep the rows, their ids and captures.
Rewrites ==
    \/ \E j \in Jobs : BackfillOutlinks(j) \/ RefreshMetadata(j) \/ RebuildJobPages(j) \/ IndexRefuses(j)
    \/ BackfillVectors \/ RebuildAllPages \/ RecomputeSignals
    \/ DedupeFinds \/ DedupeApplies \/ RestoreDeduped
    \/ ComputeSince \/ ComputeBackfill \/ WindowMoves
    \/ UNCHANGED vars

\* Which of them write which table.
LEMMA Writers ==
  ASSUME Rewrites
  PROVE  /\ nextId' = nextId
         /\ \/ snaps' = snaps
            \/ \E j \in Jobs : BackfillOutlinks(j) \/ RefreshMetadata(j)
            \/ BackfillVectors \/ DedupeApplies \/ RestoreDeduped
         /\ status' = status \/ \E j \in Jobs : IndexRefuses(j)
         /\ \/ pages' = pages /\ pagesBehind' = pagesBehind
            \/ RebuildAllPages \/ \E j \in Jobs : RebuildJobPages(j)
         /\ \/ signals' = signals /\ linksBehind' = linksBehind
            \/ RecomputeSignals \/ \E j \in Jobs : BackfillOutlinks(j)
         /\ changes' = changes \/ ComputeSince \/ ComputeBackfill
         /\ audit' = audit \/ DedupeApplies \/ RestoreDeduped
         /\ found' = found \/ DedupeFinds \/ DedupeApplies
         /\ troubles' = troubles \/ Trouble
         /\ since' = since \/ WindowMoves
  BY DEF Rewrites, BackfillOutlinks, RefreshMetadata, RebuildJobPages, IndexRefuses, BackfillVectors,
         RebuildAllPages, RecomputeSignals, DedupeFinds, DedupeApplies, RestoreDeduped, ComputeSince,
         ComputeBackfill, WindowMoves, vars

\* A set of rows is like itself.
LEMMA AlikeSelf == ASSUME NEW rows PROVE Alike(rows, rows)
  BY DEF Alike

LEMMA RewritesAlike ==
  ASSUME TypeOK, Rewrites
  PROVE  snaps' \subseteq Rows /\ UniqueIds(snaps') /\ Alike(snaps, snaps') /\ nextId' = nextId
  <1>1. snaps \subseteq Rows /\ UniqueIds(snaps) /\ Alike(snaps, snaps)
    BY AlikeSelf DEF TypeOK, UniqueIds
  <1>2. ASSUME NEW j \in Jobs, BackfillOutlinks(j)
        PROVE  snaps' \subseteq Rows /\ UniqueIds(snaps') /\ Alike(snaps, snaps') /\ nextId' = nextId
    <2>1. RowsOf(j) \subseteq snaps
      BY DEF RowsOf
    <2>2. PICK readable \in SUBSET {s.cap : s \in RowsOf(j)} :
            snaps' = (snaps \ RowsOf(j)) \cup Relinked(RowsOf(j), readable)
      BY <1>2 DEF BackfillOutlinks, Relinked
    <2>3. nextId' = nextId
      BY <1>2 DEF BackfillOutlinks
    <2> QED
      BY <1>1, <2>1, <2>2, <2>3, RelinkedAlike
  <1>3. ASSUME NEW j \in Jobs, RefreshMetadata(j)
        PROVE  snaps' \subseteq Rows /\ UniqueIds(snaps') /\ Alike(snaps, snaps') /\ nextId' = nextId
    <2>1. RowsOf(j) \subseteq snaps
      BY DEF RowsOf
    <2> QED
      BY <1>1, <1>3, <2>1, ShortenedAlike DEF RefreshMetadata
  <1>4. CASE BackfillVectors
    <2>1. snaps' = (snaps \ snaps) \cup Shortened(snaps)
      BY <1>4 DEF BackfillVectors
    <2> QED
      BY <1>1, <1>4, <2>1, ShortenedAlike DEF BackfillVectors
  <1>5. CASE DedupeApplies
    <2>1. snaps' = snaps \/ snaps' = MarkRows(snaps, Marked(snaps, found))
      BY <1>5 DEF DedupeApplies
    <2>2. nextId' = nextId
      BY <1>5 DEF DedupeApplies
    <2> QED
      BY <1>1, <2>1, <2>2, MarkedAlike
  <1>6. CASE RestoreDeduped
    <2>1. PICK back : back \subseteq snaps /\ snaps' = (snaps \ back) \cup Restored(back)
      BY <1>6 DEF RestoreDeduped, Restored
    <2> QED
      BY <1>1, <1>6, <2>1, RestoredAlike DEF RestoreDeduped
  <1>7. CASE snaps' = snaps
    BY <1>1, <1>7, Writers
  <1> QED
    BY <1>2, <1>3, <1>4, <1>5, <1>6, <1>7, Writers

\* Every step is an index_job that gets to its rows, or rewrites them.
LEMMA StepKinds ==
  ASSUME [Next]_vars
  PROVE  Rewrites \/ \E j \in Jobs : IndexJob(j) \/ IndexBreaks(j)
  BY DEF Next, Rewrites

\* What index_job leaves are the rows it put in place, some of them marked.
LEMMA IndexRows ==
  ASSUME TypeOK, IdsPast, NEW j \in Jobs, IndexJob(j) \/ IndexBreaks(j)
  PROVE  \E read \in SUBSET RecordsOf(j) :
            /\ Replaces(j, read)
            /\ snaps' \subseteq Rows /\ UniqueIds(snaps') /\ Alike(Replacement(j, read), snaps')
  <1>1. PICK read \in SUBSET RecordsOf(j) :
            /\ Replaces(j, read)
            /\ \/ \E marks : snaps' = MarkRows(Replacement(j, read), marks)
               \/ snaps' = Replacement(j, read)
    BY DEF IndexJob, IndexBreaks, RecordsOf, Replacement
  <1>2. Replacement(j, read) \subseteq Rows /\ UniqueIds(Replacement(j, read))
    BY <1>1, ReplacementRows
  <1> QED
    BY <1>1, <1>2, MarkedAlike, AlikeSelf

----------------------------------------------------------------------------
(* Types.                                                                            *)

\* The pages of a table are rows of their type, with pointers below n.
PagesBelow(table, n) ==
    /\ DOMAIN table \subseteq Groups
    /\ \A g \in DOMAIN table : /\ table[g] \in PageRows
                               /\ table[g].latest < n /\ table[g].latestOk < n

LEMMA RebuiltBelow ==
  ASSUME NEW rows, rows \subseteq Rows, UniqueIds(rows), NEW n \in Nat, n > 0,
         \A s \in rows : s.id < n,
         NEW table, PagesBelow(table, n), NEW groups, NEW remove \in BOOLEAN
  PROVE  PagesBelow(RebuildPages(table, rows, groups, remove), n)
  <1> DEFINE new == RebuildPages(table, rows, groups, remove)
  <1>1. ASSUME NEW g \in DOMAIN new
        PROVE  g \in Groups /\ new[g] \in PageRows /\ new[g].latest < n /\ new[g].latestOk < n
    <2>1. CASE g \in groups /\ InGroup(rows, g) # {}
      <3> DEFINE own == InGroup(rows, g)
      <3>1. new[g] = PageOf(own)
        BY <2>1, Rebuilt
      <3>2. own \subseteq rows /\ own \subseteq Rows /\ UniqueIds(own) /\ own # {}
        BY <2>1, GroupRows
      <3>3. g \in Groups
        <4>1. PICK s \in rows : Of(s).group = g
          BY <2>1 DEF InGroup
        <4> QED
          BY <4>1, RowTyped
      <3>4. /\ PageOf(own) \in PageRows
            /\ PageOf(own).latest \in Ids(own) /\ PageOf(own).latestOk \in Ids(own) \cup {0}
        BY <3>2, PageTyped
      <3>5. \A i \in Ids(own) \cup {0} : i < n
        BY <3>2 DEF Ids
      <3> QED
        BY <3>1, <3>3, <3>4, <3>5
    <2>2. CASE ~(g \in groups /\ InGroup(rows, g) # {})
      <3>1. g \in DOMAIN table /\ new[g] = table[g]
        BY <2>2, Rebuilt
      <3> QED
        BY <3>1 DEF PagesBelow
    <2> QED
      BY <2>1, <2>2
  <1> QED
    BY <1>1 DEF PagesBelow

\* Pointers that are set to NULL stay below n.
LEMMA WithoutBelow ==
  ASSUME NEW n \in Nat, n > 0, PagesBelow(pages, n), NEW gone
  PROVE  PagesBelow(PagesWithout(gone), n)
  <1>1. ASSUME NEW g \in DOMAIN pages
        PROVE  /\ PagesWithout(gone)[g] \in PageRows
               /\ PagesWithout(gone)[g].latest < n /\ PagesWithout(gone)[g].latestOk < n
    <2>1. pages[g] \in PageRows /\ pages[g].latest < n /\ pages[g].latestOk < n
      BY DEF PagesBelow
    <2> DEFINE a == IF pages[g].latest \in gone THEN 0 ELSE pages[g].latest
               b == IF pages[g].latestOk \in gone THEN 0 ELSE pages[g].latestOk
    <2>2. pages[g].latest \in 0 .. MaxId /\ pages[g].latestOk \in 0 .. MaxId /\ 0 \in 0 .. MaxId
      BY <2>1, BoundsAssumption DEF PageRows
    <2>3. a \in 0 .. MaxId /\ b \in 0 .. MaxId /\ a < n /\ b < n
      BY <2>1, <2>2
    <2>4. PagesWithout(gone)[g] = [pages[g] EXCEPT !.latest = a, !.latestOk = b]
      BY DEF PagesWithout
    <2> HIDE DEF a, b
    <2>5. PagesWithout(gone)[g] \in PageRows
      BY <2>1, <2>3, <2>4 DEF PageRows
    <2>6. PagesWithout(gone)[g].latest = a /\ PagesWithout(gone)[g].latestOk = b
      BY <2>1, <2>4 DEF PageRows
    <2> QED
      BY <2>3, <2>5, <2>6
  <1> QED
    BY <1>1 DEF PagesBelow, PagesWithout

SignalsTyped(table) ==
    DOMAIN table \subseteq Groups /\ \A g \in DOMAIN table : table[g] \in [in : Nat, out : Nat]

\* A group without links counts none.
LEMMA RecomputedTyped ==
  ASSUME NEW rows, rows \subseteq Rows, NEW table, SignalsTyped(table), NEW groups, groups \subseteq Groups
  PROVE  SignalsTyped(RecomputeGroups(table, rows, groups)) /\ SignalsTyped(RecomputeAll(rows))
  BY LinksTyped DEF RecomputeGroups, RecomputeAll, SignalsTyped

\* Events that point below n.
ChangesBelow(events, n) ==
    /\ events \subseteq [to : 1 .. MaxId, from : 0 .. MaxId, same : BOOLEAN]
    /\ \A e \in events : e.to < n /\ e.from < n

LEMMA ChangesWithoutBelow ==
  ASSUME NEW n \in Nat, n > 0, ChangesBelow(changes, n), NEW gone
  PROVE  ChangesBelow(ChangesWithout(gone), n)
  <1>1. ASSUME NEW e \in changes
        PROVE  LET c == [e EXCEPT !.from = IF @ \in gone THEN 0 ELSE @]
               IN  c \in [to : 1 .. MaxId, from : 0 .. MaxId, same : BOOLEAN] /\ c.to < n /\ c.from < n
    <2>1. e \in [to : 1 .. MaxId, from : 0 .. MaxId, same : BOOLEAN] /\ e.to < n /\ e.from < n
      BY DEF ChangesBelow
    <2> QED
      BY <2>1, BoundsAssumption
  <1> QED
    BY <1>1 DEF ChangesWithout, ChangesBelow

\* The event of a row points at the row and at none or one of the earlier rows.
LEMMA EventIs ==
  ASSUME NEW rows, rows \subseteq Rows, UniqueIds(rows), NEW s \in rows, NEW from, from \subseteq rows
  PROVE  /\ Event(s, from) \in [to : 1 .. MaxId, from : 0 .. MaxId, same : BOOLEAN]
         /\ Event(s, from).to = s.id
         /\ Event(s, from).from = 0 \/ \E t \in from : t.id = Event(s, from).from
  <1>1. from \subseteq Rows /\ UniqueIds(from)
    BY DEF UniqueIds
  <1>2. NewestId(from) \in 0 .. MaxId /\ (NewestId(from) = 0 \/ NewestId(from) \in Ids(from))
    BY <1>1, NewestIdIs
  <1>3. s.id \in 1 .. MaxId
    BY RowTyped
  <1>4. (from # {} /\ Unchanged(s, Newest(from))) \in BOOLEAN
    BY DEF Unchanged
  <1> QED
    BY <1>2, <1>3, <1>4 DEF Event, Ids

LEMMA EventsBelow ==
  ASSUME TypeOK, IdsPast, ComputeSince \/ ComputeBackfill
  PROVE  /\ ChangesBelow(changes', nextId)
         /\ \A e \in changes' \ changes : \E s \in snaps :
                /\ s \in Pending /\ e.to = s.id
                /\ e.from = 0 \/ \E t \in InGroup(snaps, Of(s).group) : t.id = e.from /\ Before(t, s)
         /\ \A e, f \in changes' \ changes : e.to = f.to => e = f
  <1>1. snaps \subseteq Rows /\ UniqueIds(snaps) /\ nextId \in Nat /\ nextId > 0
    BY BoundsAssumption DEF TypeOK, UniqueIds
  <1>2. ASSUME NEW batch, batch \subseteq Pending, NEW earlier,
               \A s \in batch : /\ earlier[s] \subseteq InGroup(snaps, Of(s).group)
                                /\ \A t \in earlier[s] : Before(t, s),
               changes' = changes \cup {Event(s, earlier[s]) : s \in batch}
        PROVE  /\ ChangesBelow(changes', nextId)
               /\ \A e \in changes' \ changes : \E s \in snaps :
                      /\ s \in Pending /\ e.to = s.id
                      /\ e.from = 0 \/ \E t \in InGroup(snaps, Of(s).group) : t.id = e.from /\ Before(t, s)
               /\ \A e, f \in changes' \ changes : e.to = f.to => e = f
    <2>1. ASSUME NEW s \in batch
          PROVE  /\ Event(s, earlier[s]) \in [to : 1 .. MaxId, from : 0 .. MaxId, same : BOOLEAN]
                 /\ s \in snaps /\ Event(s, earlier[s]).to = s.id
                 /\ Event(s, earlier[s]).to < nextId /\ Event(s, earlier[s]).from < nextId
                 /\ \/ Event(s, earlier[s]).from = 0
                    \/ \E t \in InGroup(snaps, Of(s).group) : t.id = Event(s, earlier[s]).from /\ Before(t, s)
      <3>1. s \in snaps /\ earlier[s] \subseteq snaps
        BY <1>2 DEF Pending, InGroup
      <3>2. /\ Event(s, earlier[s]) \in [to : 1 .. MaxId, from : 0 .. MaxId, same : BOOLEAN]
            /\ Event(s, earlier[s]).to = s.id
            /\ Event(s, earlier[s]).from = 0 \/ \E t \in earlier[s] : t.id = Event(s, earlier[s]).from
        BY <1>1, <3>1, EventIs
      <3>3. s.id < nextId /\ \A t \in earlier[s] : t.id < nextId
        BY <3>1 DEF IdsPast
      <3> QED
        BY <1>1, <1>2, <3>1, <3>2, <3>3
    <2>2. ChangesBelow(changes, nextId)
      BY DEF TypeOK, IdsPast, ChangesBelow
    <2>3. ChangesBelow(changes', nextId)
      BY <1>2, <2>1, <2>2 DEF ChangesBelow
    <2>4. ASSUME NEW e \in changes' \ changes PROVE \E s \in batch : e = Event(s, earlier[s])
      BY <1>2
    <2>5. ASSUME NEW e \in changes' \ changes, NEW f \in changes' \ changes, e.to = f.to PROVE e = f
      <3>1. PICK s \in batch : e = Event(s, earlier[s])
        BY <2>4
      <3>2. PICK t \in batch : f = Event(t, earlier[t])
        BY <2>4
      <3>3. s = t
        BY <1>1, <2>1, <2>5, <3>1, <3>2 DEF UniqueIds
      <3> QED
        BY <3>1, <3>2, <3>3
    <2> QED
      BY <1>2, <2>1, <2>3, <2>4, <2>5
  <1>3. CASE ComputeSince
    <2> DEFINE earlier == [s \in snaps |-> {t \in InGroup(snaps, Of(s).group) : Of(t).ts < Of(s).ts}]
    <2>1. PICK batch : /\ batch \subseteq Pending
                       /\ changes' = changes \cup
                            {Event(s, {t \in InGroup(snaps, Of(s).group) : Of(t).ts < Of(s).ts}) : s \in batch}
      BY <1>3 DEF ComputeSince
    <2>2. batch \subseteq snaps
      BY <2>1 DEF Pending
    <2>3. \A s \in batch : /\ earlier[s] \subseteq InGroup(snaps, Of(s).group)
                           /\ \A t \in earlier[s] : Before(t, s)
      BY <2>2 DEF Before
    <2>4. changes' = changes \cup {Event(s, earlier[s]) : s \in batch}
      BY <2>1, <2>2
    <2> HIDE DEF earlier
    <2> QED
      BY <1>2, <2>1, <2>3, <2>4
  <1>4. CASE ComputeBackfill
    <2> DEFINE earlier == [s \in snaps |-> {t \in InGroup(snaps, Of(s).group) : Before(t, s)}]
    <2>1. PICK batch : /\ batch \subseteq Pending
                       /\ changes' = changes \cup
                            {Event(s, {t \in InGroup(snaps, Of(s).group) : Before(t, s)}) : s \in batch}
      BY <1>4 DEF ComputeBackfill
    <2>2. batch \subseteq snaps
      BY <2>1 DEF Pending
    <2>3. \A s \in batch : /\ earlier[s] \subseteq InGroup(snaps, Of(s).group)
                           /\ \A t \in earlier[s] : Before(t, s)
      BY <2>2
    <2>4. changes' = changes \cup {Event(s, earlier[s]) : s \in batch}
      BY <2>1, <2>2
    <2> HIDE DEF earlier
    <2> QED
      BY <1>2, <2>1, <2>3, <2>4
  <1> QED
    BY <1>3, <1>4

\* A duplicate is found with the copy in scope that has the lowest id.
LEMMA DuplicatesAre ==
  ASSUME NEW rows, NEW scope, NEW d \in Duplicates(rows, scope)
  PROVE  \E s, c \in rows :
            /\ d = [dup |-> s.id, canon |-> c.id] /\ SameDayCopy(s, c) /\ s # c
            /\ ~s.dedup /\ ~c.dedup /\ Of(c).job \in scope
            /\ \A t \in rows : ~t.dedup /\ Of(t).job \in scope /\ SameDayCopy(t, c) => c.id <= t.id
  BY DEF Duplicates

\* Duplicates are pairs of ids of rows that are shown.
LEMMA DuplicatesTyped ==
  ASSUME NEW rows, rows \subseteq Rows, NEW n, \A s \in rows : s.id < n, NEW scope
  PROVE  /\ Duplicates(rows, scope) \subseteq Pairs
         /\ \A d \in Duplicates(rows, scope) : d.dup < n /\ d.canon < n
  <1> SUFFICES ASSUME NEW d \in Duplicates(rows, scope)
               PROVE  d \in Pairs /\ d.dup < n /\ d.canon < n
    OBVIOUS
  <1>1. PICK s \in rows, c \in rows : d = [dup |-> s.id, canon |-> c.id]
    BY DuplicatesAre
  <1>2. s.id \in 1 .. MaxId /\ c.id \in 1 .. MaxId
    BY RowTyped
  <1> QED
    BY <1>1, <1>2 DEF Pairs

\* Whichever groups are asked for, they are groups of the source.
LEMMA TouchedAreGroups ==
  ASSUME TypeOK, NEW j \in Jobs, NEW read \in SUBSET RecordsOf(j), Replaces(j, read)
  PROVE  PageGroupsTouched(j, read) \subseteq Groups /\ LinkGroupsTouched(j, read) \subseteq Groups
  <1>1. NewRows(read) \subseteq Rows /\ RowsOf(j) \subseteq Rows
    BY NewRowsAre DEF TypeOK, RowsOf
  <1>2. \A rows : rows \subseteq Rows => GroupsOf(rows) \subseteq Groups /\ Targets(rows) \subseteq Groups
    BY RowTyped DEF GroupsOf, Targets
  <1>3. {s \in NewRows(read) : Is2xx(Of(s).code)} \subseteq Rows
    BY <1>1
  <1> QED
    BY <1>1, <1>2, <1>3 DEF PageGroupsTouched, LinkGroupsTouched

TypeInv == TypeOK /\ IdsPast

\* The types, table by table.
LEMMA TypeParts ==
  TypeInv <=>
    /\ status \in [Jobs -> {"completed", "indexed", "index_failed"}]
    /\ snaps \subseteq Rows /\ UniqueIds(snaps) /\ \A s \in snaps : s.id < nextId
    /\ nextId \in 1 .. MaxId + 1
    /\ PagesBelow(pages, nextId)
    /\ SignalsTyped(signals)
    /\ ChangesBelow(changes, nextId)
    /\ audit \subseteq Pairs /\ found \subseteq Pairs
    /\ \A a \in audit \cup found : a.dup < nextId /\ a.canon < nextId
    /\ pagesBehind \subseteq Groups /\ linksBehind \subseteq Groups
    /\ since \in Nat
    /\ troubles \in 0 .. MaxTroubles
  BY DEF TypeInv, TypeOK, IdsPast, UniqueIds, PagesBelow, SignalsTyped, ChangesBelow

LEMMA TypePartsNext ==
  TypeInv' <=>
    /\ status' \in [Jobs -> {"completed", "indexed", "index_failed"}]
    /\ snaps' \subseteq Rows /\ UniqueIds(snaps') /\ \A s \in snaps' : s.id < nextId'
    /\ nextId' \in 1 .. MaxId + 1
    /\ PagesBelow(pages', nextId')
    /\ SignalsTyped(signals')
    /\ ChangesBelow(changes', nextId')
    /\ audit' \subseteq Pairs /\ found' \subseteq Pairs
    /\ \A a \in audit' \cup found' : a.dup < nextId' /\ a.canon < nextId'
    /\ pagesBehind' \subseteq Groups /\ linksBehind' \subseteq Groups
    /\ since' \in Nat
    /\ troubles' \in 0 .. MaxTroubles
  BY DEF TypeInv, TypeOK, IdsPast, UniqueIds, PagesBelow, SignalsTyped, ChangesBelow

LEMMA InitTyped == Init => TypeInv
  BY BoundsAssumption, TypeParts
     DEF Init, UniqueIds, PagesBelow, SignalsTyped, ChangesBelow

\* A table stays below a larger bound.
LEMMA BelowLater ==
  ASSUME NEW m \in Nat, NEW n \in Nat, m <= n
  PROVE  /\ \A table : PagesBelow(table, m) => PagesBelow(table, n)
         /\ \A events : ChangesBelow(events, m) => ChangesBelow(events, n)
         /\ \A a \in Pairs : a.dup < m /\ a.canon < m => a.dup < n /\ a.canon < n
  BY BoundsAssumption DEF PagesBelow, ChangesBelow, PageRows, Pairs

\* Rows that are alike have the same ids.
LEMMA AlikeBelow ==
  ASSUME NEW rows, NEW new, Alike(rows, new), NEW n, \A s \in rows : s.id < n
  PROVE  \A s \in new : s.id < n
  BY DEF Alike

\* A failed or refused step is one more of a bounded number.
LEMMA TroubleTyped ==
  ASSUME troubles \in 0 .. MaxTroubles, Trouble
  PROVE  troubles' \in 0 .. MaxTroubles
  BY BoundsAssumption DEF Trouble

LEMMA IndexTyped ==
  ASSUME TypeInv, NEW j \in Jobs, IndexJob(j) \/ IndexBreaks(j)
  PROVE  TypeInv'
  <1> USE DEF TypeInv
  <1>1. PICK read \in SUBSET RecordsOf(j) :
            /\ Replaces(j, read)
            /\ snaps' \subseteq Rows /\ UniqueIds(snaps') /\ Alike(Replacement(j, read), snaps')
            /\ \/ \E auto \in BOOLEAN :
                    LET rows == Replacement(j, read)
                        marks == IF auto THEN Duplicates(rows, {j}) ELSE {}
                    IN  /\ audit' = audit \cup marks
                        /\ pages' = RebuildPages(PagesWithout(Ids(RowsOf(j))), rows,
                                                 PageGroupsTouched(j, read), TRUE)
                        /\ signals' = RecomputeGroups(signals, rows, LinkGroupsTouched(j, read))
                        /\ status' = [status EXCEPT ![j] = "indexed"]
                        /\ pagesBehind' = pagesBehind \ PageGroupsTouched(j, read)
                        /\ linksBehind' = linksBehind \ LinkGroupsTouched(j, read)
                        /\ UNCHANGED <<found, troubles>>
               \/ /\ pages' = PagesWithout(Ids(RowsOf(j)))
                  /\ status' = [status EXCEPT ![j] = "index_failed"]
                  /\ pagesBehind' = pagesBehind \cup PageGroupsTouched(j, read)
                  /\ linksBehind' = linksBehind \cup LinkGroupsTouched(j, read)
                  /\ Trouble
                  /\ UNCHANGED <<signals, audit, found>>
    <2>1. CASE IndexJob(j)
      <3>1. PICK read \in SUBSET RecordsOf(j), auto \in BOOLEAN :
                /\ Replaces(j, read)
                /\ LET rows == Replacement(j, read)
                       marks == IF auto THEN Duplicates(rows, {j}) ELSE {}
                   IN  /\ snaps' = MarkRows(rows, marks)
                       /\ audit' = audit \cup marks
                       /\ pages' = RebuildPages(PagesWithout(Ids(RowsOf(j))), rows,
                                                PageGroupsTouched(j, read), TRUE)
                       /\ signals' = RecomputeGroups(signals, rows, LinkGroupsTouched(j, read))
                /\ status' = [status EXCEPT ![j] = "indexed"]
                /\ pagesBehind' = pagesBehind \ PageGroupsTouched(j, read)
                /\ linksBehind' = linksBehind \ LinkGroupsTouched(j, read)
                /\ UNCHANGED <<found, troubles>>
        BY <2>1 DEF IndexJob, Replacement, RecordsOf
      <3>2. Replacement(j, read) \subseteq Rows /\ UniqueIds(Replacement(j, read))
        BY <3>1, ReplacementRows
      <3>3. snaps' \subseteq Rows /\ UniqueIds(snaps') /\ Alike(Replacement(j, read), snaps')
        BY <3>1, <3>2, MarkedAlike
      <3> QED
        BY <3>1, <3>3
    <2>2. CASE IndexBreaks(j)
      <3>1. PICK read \in SUBSET RecordsOf(j) :
                /\ Replaces(j, read) /\ Trouble
                /\ snaps' = Replacement(j, read)
                /\ pages' = PagesWithout(Ids(RowsOf(j)))
                /\ status' = [status EXCEPT ![j] = "index_failed"]
                /\ pagesBehind' = pagesBehind \cup PageGroupsTouched(j, read)
                /\ linksBehind' = linksBehind \cup LinkGroupsTouched(j, read)
                /\ UNCHANGED <<signals, audit, found>>
        BY <2>2 DEF IndexBreaks, Replacement, RecordsOf
      <3>2. Replacement(j, read) \subseteq Rows /\ UniqueIds(Replacement(j, read))
        BY <3>1, ReplacementRows
      <3> QED
        BY <3>1, <3>2, AlikeSelf
    <2> QED
      BY <2>1, <2>2
  <1> DEFINE rows == Replacement(j, read)
  <1>2. rows \subseteq Rows /\ UniqueIds(rows) /\ \A s \in rows : s.id < nextId'
    BY <1>1, ReplacementRows
  <1>3. nextId \in Nat /\ nextId' \in Nat /\ nextId <= nextId' /\ nextId > 0 /\ nextId' > 0
        /\ nextId' \in 1 .. MaxId + 1
    BY <1>1, NewRowsAre, BoundsAssumption DEF TypeOK
  <1>4. \A s \in snaps' : s.id < nextId'
    BY <1>1, <1>2, AlikeBelow
  <1>5. PageGroupsTouched(j, read) \subseteq Groups /\ LinkGroupsTouched(j, read) \subseteq Groups
    BY <1>1, TouchedAreGroups
  <1>6. PagesBelow(PagesWithout(Ids(RowsOf(j))), nextId')
    BY <1>3, TypeParts, WithoutBelow, BelowLater
  <1>7. PagesBelow(pages', nextId')
    <2>1. \/ pages' = PagesWithout(Ids(RowsOf(j)))
          \/ pages' = RebuildPages(PagesWithout(Ids(RowsOf(j))), rows, PageGroupsTouched(j, read), TRUE)
      BY <1>1
    <2> HIDE DEF rows
    <2>2. PagesBelow(RebuildPages(PagesWithout(Ids(RowsOf(j))), rows, PageGroupsTouched(j, read), TRUE), nextId')
      BY <1>2, <1>3, <1>6, RebuiltBelow
    <2> QED
      BY <1>6, <2>1, <2>2
  <1>8. SignalsTyped(signals')
    <2>1. signals' = signals \/ signals' = RecomputeGroups(signals, rows, LinkGroupsTouched(j, read))
      BY <1>1
    <2>2. SignalsTyped(signals)
      BY TypeParts
    <2> HIDE DEF rows
    <2>3. SignalsTyped(RecomputeGroups(signals, rows, LinkGroupsTouched(j, read)))
      BY <1>2, <1>5, <2>2, RecomputedTyped
    <2> QED
      BY <2>1, <2>2, <2>3
  <1>9. ChangesBelow(changes', nextId')
    <2>1. ChangesBelow(ChangesWithout(Ids(RowsOf(j))), nextId)
      BY <1>3, TypeParts, ChangesWithoutBelow
    <2> QED
      BY <1>1, <1>3, <2>1, BelowLater DEF Replaces
  <1>10. audit' \subseteq Pairs /\ \A a \in audit' : a.dup < nextId' /\ a.canon < nextId'
    <2>1. PICK marks : audit' = audit \cup marks /\ (marks = Duplicates(rows, {j}) \/ marks = {})
      BY <1>1
    <2>2. \A a \in audit : a \in Pairs /\ a.dup < nextId /\ a.canon < nextId
      BY DEF TypeOK, IdsPast
    <2>3. marks \subseteq Pairs /\ \A a \in marks : a.dup < nextId' /\ a.canon < nextId'
      BY <1>2, <2>1, DuplicatesTyped
    <2> QED
      BY <1>3, <2>1, <2>2, <2>3, BelowLater
  <1>11. found' \subseteq Pairs /\ \A a \in found' : a.dup < nextId' /\ a.canon < nextId'
    <2>1. found' = found /\ \A a \in found : a \in Pairs /\ a.dup < nextId /\ a.canon < nextId
      BY <1>1 DEF TypeOK, IdsPast
    <2> QED
      BY <1>3, <2>1, BelowLater
  <1>12. troubles' \in 0 .. MaxTroubles
    BY <1>1, TroubleTyped DEF TypeOK
  <1>13. status' \in [Jobs -> {"completed", "indexed", "index_failed"}]
    BY <1>1 DEF TypeOK
  <1>14. pagesBehind' \subseteq Groups /\ linksBehind' \subseteq Groups
    BY <1>1, <1>5 DEF TypeOK
  <1>15. since' \in Nat
    BY DEF IndexJob, IndexBreaks, TypeOK
  <1> QED
    BY <1>1, <1>3, <1>4, <1>7, <1>8, <1>9, <1>10, <1>11, <1>12, <1>13, <1>14, <1>15, TypePartsNext

LEMMA RewritesTyped ==
  ASSUME TypeInv, Rewrites
  PROVE  TypeInv'
  <1> USE DEF TypeInv
  <1>1. snaps' \subseteq Rows /\ UniqueIds(snaps') /\ Alike(snaps, snaps') /\ nextId' = nextId
    BY RewritesAlike
  <1>2. /\ nextId' \in 1 .. MaxId + 1 /\ nextId \in Nat /\ nextId > 0
        /\ \A s \in snaps : s.id < nextId
        /\ \A s \in snaps' : s.id < nextId'
    BY <1>1, AlikeBelow, BoundsAssumption DEF TypeOK, IdsPast
  <1>3. snaps \subseteq Rows /\ UniqueIds(snaps)
    BY TypeParts
  <1>4. status' \in [Jobs -> {"completed", "indexed", "index_failed"}]
    <2>1. status' = status \/ \E j \in Jobs : status' = [status EXCEPT ![j] = "index_failed"]
      BY Writers DEF IndexRefuses
    <2> QED
      BY <2>1 DEF TypeOK
  <1>5. PagesBelow(pages', nextId')
    <2>1. PagesBelow(pages, nextId) /\ PagesBelow(<< >>, nextId)
      BY TypeParts DEF PagesBelow
    <2>2. ASSUME NEW j \in Jobs, RebuildJobPages(j) PROVE PagesBelow(pages', nextId')
      <3>1. pages' = RebuildPages(pages, snaps, GroupsOf(RowsOf(j)), TRUE)
        BY <2>2 DEF RebuildJobPages
      <3> QED
        BY <1>1, <1>2, <1>3, <2>1, <3>1, RebuiltBelow
    <2>3. CASE RebuildAllPages
      <3>1. PICK table : table \in {pages, << >>} /\ pages' = RebuildPages(table, snaps, GroupsOf(snaps), FALSE)
        BY <2>3 DEF RebuildAllPages
      <3> QED
        BY <1>1, <1>2, <1>3, <2>1, <3>1, RebuiltBelow
    <2>4. pages' = pages \/ RebuildAllPages \/ \E j \in Jobs : RebuildJobPages(j)
      BY Writers
    <2> QED
      BY <1>1, <2>1, <2>2, <2>3, <2>4
  <1>6. SignalsTyped(signals')
    <2>1. SignalsTyped(signals)
      BY TypeParts
    <2>2. ASSUME NEW j \in Jobs, BackfillOutlinks(j)
          PROVE  SignalsTyped(signals') /\ linksBehind' \subseteq Groups
      <3>1. PICK touched : /\ touched \subseteq Groups
                           /\ signals' = RecomputeGroups(signals, snaps', touched) \/ signals' = signals
                           /\ linksBehind' = linksBehind \ touched \/ linksBehind' = linksBehind \cup touched
        <4>1. PICK readable \in SUBSET {s.cap : s \in RowsOf(j)}, update \in BOOLEAN :
                LET renewed == Relinked(RowsOf(j), readable)
                    rows == (snaps \ RowsOf(j)) \cup renewed
                    touched == Targets(RowsOf(j)) \cup Targets(renewed)
                        \cup GroupsOf({s \in renewed : s.cap \in readable /\ Is2xx(Of(s).code)})
                IN  /\ snaps' = rows
                    /\ signals' = IF update THEN RecomputeGroups(signals, rows, touched) ELSE signals
                    /\ linksBehind' = IF update THEN linksBehind \ touched ELSE linksBehind \cup touched
          BY <2>2 DEF BackfillOutlinks, Relinked
        <4> DEFINE renewed == Relinked(RowsOf(j), readable)
                   touched == Targets(RowsOf(j)) \cup Targets(renewed)
                        \cup GroupsOf({s \in renewed : s.cap \in readable /\ Is2xx(Of(s).code)})
        <4>2. renewed \subseteq Rows /\ RowsOf(j) \subseteq Rows
          BY <1>1, <1>3, <4>1 DEF RowsOf
        <4>3. touched \subseteq Groups
          BY <4>2, RowTyped DEF GroupsOf, Targets
        <4>4. /\ signals' = RecomputeGroups(signals, snaps', touched) \/ signals' = signals
              /\ linksBehind' = linksBehind \ touched \/ linksBehind' = linksBehind \cup touched
          BY <4>1
        <4> HIDE DEF touched
        <4> QED
          BY <4>3, <4>4
      <3>2. SignalsTyped(signals')
        BY <1>1, <2>1, <3>1, RecomputedTyped
      <3>3. linksBehind' \subseteq Groups
        BY <3>1 DEF TypeOK
      <3> QED
        BY <3>2, <3>3
    <2>3. signals' = signals \/ signals' = RecomputeAll(snaps) \/ \E j \in Jobs : BackfillOutlinks(j)
      BY Writers DEF RecomputeSignals
    <2>4. SignalsTyped(RecomputeAll(snaps))
      BY <1>3, <2>1, RecomputedTyped
    <2> QED
      BY <2>1, <2>2, <2>3, <2>4
  <1>7. ChangesBelow(changes', nextId')
    <2>1. changes' = changes \/ ComputeSince \/ ComputeBackfill
      BY Writers
    <2> QED
      BY <1>1, <2>1, TypeParts, EventsBelow
  <1>8. \A a \in audit' \cup found' : a \in Pairs /\ a.dup < nextId' /\ a.canon < nextId'
    <2>1. audit' \subseteq audit \cup found
      BY Writers DEF DedupeApplies, RestoreDeduped, Marked
    <2>2. found' \subseteq found \/ \E scope : found' = Duplicates(snaps, scope)
      BY Writers DEF DedupeFinds, DedupeApplies
    <2>3. \A a \in audit \cup found : a \in Pairs /\ a.dup < nextId /\ a.canon < nextId
      BY DEF TypeOK, IdsPast
    <2>4. \A scope : \A a \in Duplicates(snaps, scope) : a \in Pairs /\ a.dup < nextId /\ a.canon < nextId
      BY <1>2, <1>3, DuplicatesTyped
    <2> QED
      BY <1>1, <2>1, <2>2, <2>3, <2>4
  <1>9. pagesBehind' \subseteq Groups
    <2>1. pagesBehind' \subseteq pagesBehind
      BY Writers DEF RebuildAllPages, RebuildJobPages
    <2> QED
      BY <2>1 DEF TypeOK
  <1>10. linksBehind' \subseteq Groups
    <2>1. ASSUME NEW j \in Jobs, BackfillOutlinks(j)
          PROVE  linksBehind' \subseteq Groups
      <3>1. PICK readable \in SUBSET {s.cap : s \in RowsOf(j)} :
                LET renewed == Relinked(RowsOf(j), readable)
                    touched == Targets(RowsOf(j)) \cup Targets(renewed)
                        \cup GroupsOf({s \in renewed : s.cap \in readable /\ Is2xx(Of(s).code)})
                IN  /\ snaps' = (snaps \ RowsOf(j)) \cup renewed
                    /\ linksBehind' \subseteq linksBehind \cup touched
        BY <2>1 DEF BackfillOutlinks, Relinked
      <3>2. Relinked(RowsOf(j), readable) \subseteq Rows /\ RowsOf(j) \subseteq Rows
        BY <1>1, <1>3, <3>1 DEF RowsOf
      <3> QED
        BY <3>1, <3>2, RowTyped DEF GroupsOf, Targets, TypeOK
    <2>2. linksBehind' \subseteq linksBehind \/ \E j \in Jobs : BackfillOutlinks(j)
      BY Writers DEF RecomputeSignals
    <2> QED
      BY <2>1, <2>2 DEF TypeOK
  <1>11. troubles' \in 0 .. MaxTroubles
    <2>1. troubles' = troubles \/ Trouble
      BY Writers
    <2> QED
      BY <2>1, TroubleTyped DEF TypeOK
  <1>12. since' \in Nat
    BY Writers DEF WindowMoves, TypeOK
  <1> QED
    BY <1>1, <1>2, <1>4, <1>5, <1>6, <1>7, <1>8, <1>9, <1>10, <1>11, <1>12, TypePartsNext

LEMMA TypeStep ==
  ASSUME TypeInv, [Next]_vars
  PROVE  TypeInv'
  BY StepKinds, IndexTyped, RewritesTyped

\* Every table holds rows of its type and no id is given out twice, whatever is indexed,
\* rebuilt or repaired in whatever order.
THEOREM CatalogTyped == Spec => []TypeOK
  <1>1. Spec => []TypeInv
    BY InitTyped, TypeStep, PTL DEF Spec
  <1>2. TypeInv => TypeOK
    BY DEF TypeInv
  <1> QED
    BY <1>1, <1>2, PTL

----------------------------------------------------------------------------
(* The pages.                                                                        *)

\* Rows that are alike are alike group by group.
LEMMA AlikeGroups ==
  ASSUME NEW rows, NEW new, Alike(rows, new), NEW g
  PROVE  /\ Alike(InGroup(rows, g), InGroup(new, g))
         /\ InGroup(new, g) # {} <=> InGroup(rows, g) # {}
  BY DEF Alike, InGroup, Of

\* PagesMatch with the rebuild from nothing written out.
PagesFit ==
    \A g \in Groups \ pagesBehind :
        /\ g \in DOMAIN pages <=> InGroup(snaps, g) # {}
        /\ InGroup(snaps, g) # {} => pages[g] = PageOf(InGroup(snaps, g))

LEMMA FitIsMatch ==
  ASSUME TypeInv
  PROVE  PagesFit <=> PagesMatch
  <1> DEFINE full == RebuildPages(<< >>, snaps, Groups, FALSE)
  <1>1. snaps \subseteq Rows /\ UniqueIds(snaps)
    BY TypeParts
  <1>2. ASSUME NEW g \in Groups
        PROVE  /\ g \in DOMAIN full <=> InGroup(snaps, g) # {}
               /\ InGroup(snaps, g) # {} => full[g] = PageOf(InGroup(snaps, g))
    <2>1. ~(g \in DOMAIN << >>)
      OBVIOUS
    <2> QED
      BY <1>1, <2>1, Rebuilt
  <1> HIDE DEF full
  <1>3. PagesMatch <=> \A g \in Groups \ pagesBehind :
            /\ g \in DOMAIN pages <=> g \in DOMAIN full
            /\ g \in DOMAIN full => pages[g] = full[g]
    BY DEF PagesMatch, full
  <1> QED
    BY <1>2, <1>3 DEF PagesFit

\* A step of index_job leaves the rows of the groups it does not touch, and the pointers
\* of their pages.
LEMMA UntouchedPages ==
  ASSUME TypeInv, NEW j \in Jobs, NEW read \in SUBSET RecordsOf(j), Replaces(j, read),
         PagesFit, NEW g \in Groups \ pagesBehind, g \notin PageGroupsTouched(j, read)
  PROVE  /\ InGroup(Replacement(j, read), g) = InGroup(snaps, g)
         /\ DOMAIN PagesWithout(Ids(RowsOf(j))) = DOMAIN pages
         /\ InGroup(snaps, g) # {} => PagesWithout(Ids(RowsOf(j)))[g] = pages[g]
  <1> USE DEF TypeInv
  <1>1. snaps \subseteq Rows /\ UniqueIds(snaps)
    BY TypeParts
  <1>2. InGroup(Replacement(j, read), g) = InGroup(snaps, g)
    BY DEF PageGroupsTouched, GroupsOf, Replacement, RowsOf, InGroup
  <1>3. ASSUME InGroup(snaps, g) # {}
        PROVE  PagesWithout(Ids(RowsOf(j)))[g] = pages[g]
    <2> DEFINE own == InGroup(snaps, g)
               p == pages[g]
    <2>1. own \subseteq snaps /\ own \subseteq Rows /\ UniqueIds(own)
      BY <1>1, GroupRows
    <2>2. g \in DOMAIN pages /\ p = PageOf(own)
      BY <1>3 DEF PagesFit
    <2>3. p \in PageRows /\ p.latest \in Ids(own) /\ p.latestOk \in Ids(own) \cup {0}
      BY <1>3, <2>1, <2>2, PageTyped
    <2>4. \A s \in own, t \in RowsOf(j) : s.id # t.id
      <3>1. ASSUME NEW s \in own, NEW t \in RowsOf(j), s.id = t.id PROVE FALSE
        <4>1. s = t
          BY <1>1, <3>1 DEF UniqueIds, RowsOf, InGroup
        <4> QED
          BY <4>1 DEF PageGroupsTouched, GroupsOf, RowsOf, InGroup
      <3> QED
        BY <3>1
    <2>5. 0 \notin Ids(RowsOf(j))
      <3>1. \A t \in RowsOf(j) : t.id \in 1 .. MaxId
        BY <1>1, RowTyped DEF RowsOf
      <3> QED
        BY <3>1, BoundsAssumption DEF Ids
    <2>6. p.latest \notin Ids(RowsOf(j)) /\ p.latestOk \notin Ids(RowsOf(j))
      BY <2>3, <2>4, <2>5 DEF Ids
    <2>7. PagesWithout(Ids(RowsOf(j)))[g] = [p EXCEPT !.latest = p.latest, !.latestOk = p.latestOk]
      BY <2>2, <2>6 DEF PagesWithout
    <2> HIDE DEF p
    <2>8. [p EXCEPT !.latest = p.latest, !.latestOk = p.latestOk] = p
      BY <2>3 DEF PageRows
    <2> QED
      BY <2>7, <2>8 DEF p
  <1> QED
    BY <1>2, <1>3 DEF PagesWithout

LEMMA IndexFits ==
  ASSUME TypeInv, NEW j \in Jobs, IndexJob(j) \/ IndexBreaks(j), PagesFit
  PROVE  PagesFit'
  <1> USE DEF TypeInv
  <1>1. PICK read \in SUBSET RecordsOf(j) :
            /\ Replaces(j, read)
            /\ \E marks : snaps' = MarkRows(Replacement(j, read), marks) \/ snaps' = Replacement(j, read)
            /\ \/ /\ pages' = WholeRebuild(PagesWithout(Ids(RowsOf(j))), Replacement(j, read),
                                           PageGroupsTouched(j, read))
                  /\ pagesBehind' = pagesBehind \ PageGroupsTouched(j, read)
               \/ /\ pages' = PagesWithout(Ids(RowsOf(j)))
                  /\ pagesBehind' = pagesBehind \cup PageGroupsTouched(j, read)
    BY DEF IndexJob, IndexBreaks, Replacement, RecordsOf, WholeRebuild
  <1> DEFINE rows == Replacement(j, read)
             touched == PageGroupsTouched(j, read)
             kept == PagesWithout(Ids(RowsOf(j)))
  <1>2. rows \subseteq Rows /\ UniqueIds(rows)
    BY <1>1, ReplacementRows
  <1>3. snaps' \subseteq Rows /\ UniqueIds(snaps') /\ Alike(rows, snaps')
    BY <1>1, <1>2, MarkedAlike, AlikeSelf
  <1>4. ASSUME NEW g \in Groups \ pagesBehind'
        PROVE  /\ g \in DOMAIN pages' <=> InGroup(rows, g) # {}
               /\ InGroup(rows, g) # {} => pages'[g] = PageOf(InGroup(rows, g))
    <2>1. CASE g \in touched
      <3>1. pages' = WholeRebuild(kept, rows, touched)
        BY <1>1, <1>4, <2>1
      <3> HIDE DEF rows, kept, touched
      <3> QED
        BY <2>1, <3>1, RebuiltWhole
    <2>2. CASE g \notin touched
      <3>1. g \notin pagesBehind
        BY <1>1, <1>4, <2>2
      <3>2. /\ InGroup(rows, g) = InGroup(snaps, g) /\ DOMAIN kept = DOMAIN pages
            /\ InGroup(snaps, g) # {} => kept[g] = pages[g]
        BY <1>1, <2>2, <3>1, UntouchedPages
      <3>3. /\ g \in DOMAIN pages <=> InGroup(snaps, g) # {}
            /\ InGroup(snaps, g) # {} => pages[g] = PageOf(InGroup(snaps, g))
        BY <3>1 DEF PagesFit
      <3>4. pages' = kept \/ pages' = WholeRebuild(kept, rows, touched)
        BY <1>1
      <3> HIDE DEF rows, kept, touched
      <3>5. CASE pages' = WholeRebuild(kept, rows, touched)
        <4>1. (g \in DOMAIN pages' <=> g \in DOMAIN kept) /\ (g \in DOMAIN kept => pages'[g] = kept[g])
          BY <2>2, <3>5, RebuiltWhole
        <4> QED
          BY <3>2, <3>3, <4>1
      <3> QED
        BY <3>2, <3>3, <3>4, <3>5
    <2> QED
      BY <2>1, <2>2
  <1>5. ASSUME NEW g
        PROVE  /\ InGroup(snaps', g) # {} <=> InGroup(rows, g) # {}
               /\ PageOf(InGroup(snaps', g)) = PageOf(InGroup(rows, g))
    <2> HIDE DEF rows
    <2> QED
      BY <1>2, <1>3, AlikeGroups, GroupRows, AlikePages
  <1> QED
    BY <1>4, <1>5 DEF PagesFit

LEMMA RewritesFit ==
  ASSUME TypeInv, Rewrites, PagesFit
  PROVE  PagesFit'
  <1> USE DEF TypeInv
  <1>1. snaps' \subseteq Rows /\ UniqueIds(snaps') /\ Alike(snaps, snaps')
    BY RewritesAlike
  <1>2. snaps \subseteq Rows /\ UniqueIds(snaps)
    BY TypeParts
  <1>3. CASE pages' = pages /\ pagesBehind' = pagesBehind
    <2>1. ASSUME NEW g
          PROVE  /\ InGroup(snaps', g) # {} <=> InGroup(snaps, g) # {}
                 /\ PageOf(InGroup(snaps', g)) = PageOf(InGroup(snaps, g))
      BY <1>1, <1>2, AlikeGroups, GroupRows, AlikePages
    <2> QED
      BY <1>3, <2>1 DEF PagesFit
  <1>4. ASSUME NEW j \in Jobs, RebuildJobPages(j) PROVE PagesFit'
    <2>1. /\ pages' = WholeRebuild(pages, snaps, GroupsOf(RowsOf(j)))
          /\ pagesBehind' = pagesBehind \ GroupsOf(RowsOf(j)) /\ snaps' = snaps
      BY <1>4 DEF RebuildJobPages, WholeRebuild
    <2>2. ASSUME NEW g \in Groups \ pagesBehind'
          PROVE  /\ g \in DOMAIN pages' <=> InGroup(snaps, g) # {}
                 /\ InGroup(snaps, g) # {} => pages'[g] = PageOf(InGroup(snaps, g))
      <3>1. g \notin pagesBehind \/ g \in GroupsOf(RowsOf(j))
        BY <2>1, <2>2
      <3>2. g \in GroupsOf(RowsOf(j)) => InGroup(snaps, g) # {}
        BY DEF GroupsOf, RowsOf, InGroup
      <3> DEFINE groups == GroupsOf(RowsOf(j))
      <3>3. pages' = WholeRebuild(pages, snaps, groups)
        BY <2>1
      <3> HIDE DEF groups
      <3>4. CASE g \in groups
        BY <3>2, <3>3, <3>4, RebuiltWhole DEF groups
      <3>5. CASE g \notin groups
        <4>1. (g \in DOMAIN pages' <=> g \in DOMAIN pages) /\ (g \in DOMAIN pages => pages'[g] = pages[g])
          BY <3>3, <3>5, RebuiltWhole
        <4>2. g \in Groups \ pagesBehind
          BY <3>1, <3>5 DEF groups
        <4> QED
          BY <4>1, <4>2 DEF PagesFit
      <3> QED
        BY <3>4, <3>5
    <2> QED
      BY <2>1, <2>2 DEF PagesFit
  <1>5. CASE RebuildAllPages
    <2>1. PICK table \in {pages, << >>} :
              /\ pages' = PartRebuild(table, snaps, GroupsOf(snaps))
              /\ table # << >> => table = pages /\ pagesBehind' = pagesBehind \ GroupsOf(snaps)
              /\ snaps' = snaps
      BY <1>5 DEF RebuildAllPages, PartRebuild
    <2>2. ASSUME NEW g \in Groups \ pagesBehind'
          PROVE  /\ g \in DOMAIN pages' <=> InGroup(snaps, g) # {}
                 /\ InGroup(snaps, g) # {} => pages'[g] = PageOf(InGroup(snaps, g))
      <3>1. g \in GroupsOf(snaps) <=> InGroup(snaps, g) # {}
        BY <1>2, GroupRows
      <3>2. g \in DOMAIN table => InGroup(snaps, g) # {}
        BY <2>1, <2>2, <3>1 DEF PagesFit
      <3>3. pages' = PartRebuild(table, snaps, GroupsOf(snaps))
        BY <2>1
      <3>4. /\ InGroup(snaps, g) # {} => g \in DOMAIN pages' /\ pages'[g] = PageOf(InGroup(snaps, g))
            /\ InGroup(snaps, g) = {} => (g \in DOMAIN pages' <=> g \in DOMAIN table)
        BY <3>1, <3>3, RebuiltPart
      <3> QED
        BY <3>1, <3>2, <3>4
    <2> QED
      BY <2>1, <2>2 DEF PagesFit
  <1> QED
    BY <1>3, <1>4, <1>5, Writers

\* The pointers of a page, behind or not, are to rows of its group if to any.
PointersOwn ==
    \A g \in DOMAIN pages : \A s \in snaps :
        s.id \in {pages[g].latest, pages[g].latestOk} => Of(s).group = g

PointsInto(table, rows) ==
    \A g \in DOMAIN table : \A s \in rows :
        s.id \in {table[g].latest, table[g].latestOk} => Of(s).group = g

LEMMA RebuiltPoints ==
  ASSUME NEW rows, rows \subseteq Rows, UniqueIds(rows), NEW table, PointsInto(table, rows),
         NEW groups, NEW remove \in BOOLEAN
  PROVE  PointsInto(RebuildPages(table, rows, groups, remove), rows)
  <1> DEFINE new == RebuildPages(table, rows, groups, remove)
  <1> SUFFICES ASSUME NEW g \in DOMAIN new, NEW s \in rows, s.id \in {new[g].latest, new[g].latestOk}
               PROVE  Of(s).group = g
    BY DEF PointsInto
  <1>1. CASE g \in groups /\ InGroup(rows, g) # {}
    <2> DEFINE own == InGroup(rows, g)
    <2>1. new[g] = PageOf(own)
      BY <1>1, Rebuilt
    <2>2. own \subseteq rows /\ own \subseteq Rows /\ UniqueIds(own) /\ own # {}
      BY <1>1, GroupRows
    <2>3. PageOf(own).latest \in Ids(own) /\ PageOf(own).latestOk \in Ids(own) \cup {0}
      BY <2>2, PageTyped
    <2>4. s.id \in 1 .. MaxId
      BY RowTyped
    <2> HIDE DEF new, own
    <2>5. s.id \in Ids(own)
      BY <2>1, <2>3, <2>4
    <2>6. s \in own
      BY <2>2, <2>5 DEF Ids, UniqueIds
    <2> QED
      BY <2>6 DEF own, InGroup
  <1>2. CASE ~(g \in groups /\ InGroup(rows, g) # {})
    <2>1. g \in DOMAIN table /\ new[g] = table[g]
      BY <1>2, Rebuilt
    <2> QED
      BY <2>1 DEF PointsInto
  <1> QED
    BY <1>1, <1>2

LEMMA AlikePoints ==
  ASSUME NEW table, NEW rows, NEW new, Alike(rows, new), PointsInto(table, rows)
  PROVE  PointsInto(table, new)
  BY DEF Alike, PointsInto, Of

LEMMA IndexPoints ==
  ASSUME TypeInv, NEW j \in Jobs, IndexJob(j) \/ IndexBreaks(j), PointersOwn
  PROVE  PointersOwn'
  <1> USE DEF TypeInv
  <1>1. PICK read \in SUBSET RecordsOf(j) :
            /\ Replaces(j, read)
            /\ \E marks : snaps' = MarkRows(Replacement(j, read), marks) \/ snaps' = Replacement(j, read)
            /\ \/ \E remove \in BOOLEAN :
                    pages' = RebuildPages(PagesWithout(Ids(RowsOf(j))), Replacement(j, read),
                                          PageGroupsTouched(j, read), remove)
               \/ pages' = PagesWithout(Ids(RowsOf(j)))
    BY DEF IndexJob, IndexBreaks, Replacement, RecordsOf
  <1> DEFINE rows == Replacement(j, read)
             kept == PagesWithout(Ids(RowsOf(j)))
  <1>2. /\ rows \subseteq Rows /\ UniqueIds(rows)
        /\ \A s \in rows : IF Of(s).job = j THEN nextId <= s.id ELSE s \in snaps /\ s.id < nextId
    BY <1>1, ReplacementRows
  <1>3. Alike(rows, snaps')
    BY <1>1, <1>2, MarkedAlike, AlikeSelf
  <1>4. PointsInto(kept, rows)
    <2> SUFFICES ASSUME NEW g \in DOMAIN pages, NEW s \in rows, s.id \in {kept[g].latest, kept[g].latestOk}
                 PROVE  Of(s).group = g
      BY DEF PointsInto, PagesWithout
    <2>1. /\ pages[g] \in PageRows /\ pages[g].latest < nextId /\ pages[g].latestOk < nextId
          /\ pages[g].latest \in Nat /\ pages[g].latestOk \in Nat
      BY TypeParts, BoundsAssumption DEF PagesBelow, PageRows
    <2>2. kept[g].latest \in {0, pages[g].latest} /\ kept[g].latestOk \in {0, pages[g].latestOk}
      BY <2>1 DEF PagesWithout, PageRows
    <2>3. s.id \in 1 .. MaxId /\ s.id \in Nat /\ nextId \in Nat
      BY <1>1, <1>2, RowTyped, NewRowsAre
    <2> HIDE DEF rows, kept
    <2>4. s.id \in {pages[g].latest, pages[g].latestOk}
      BY <2>2, <2>3
    <2>5. ~(nextId <= s.id)
      BY <2>1, <2>3, <2>4
    <2>6. s \in snaps
      BY <1>2, <2>5
    <2> QED
      BY <2>4, <2>6 DEF PointersOwn
  <1>5. PointsInto(pages', rows)
    <2> HIDE DEF rows, kept
    <2> QED
      BY <1>1, <1>2, <1>4, RebuiltPoints DEF rows, kept
  <1>6. PointsInto(pages', snaps')
    BY <1>3, <1>5, AlikePoints
  <1> QED
    BY <1>6 DEF PointsInto, PointersOwn

LEMMA RewritesPoint ==
  ASSUME TypeInv, Rewrites, PointersOwn
  PROVE  PointersOwn'
  <1> USE DEF TypeInv
  <1>1. Alike(snaps, snaps')
    BY RewritesAlike
  <1>2. snaps \subseteq Rows /\ UniqueIds(snaps)
    BY TypeParts
  <1>3. PointsInto(pages, snaps) /\ PointsInto(<< >>, snaps)
    BY DEF PointersOwn, PointsInto
  <1>4. pages' = pages \/ \E table \in {pages, << >>}, remove \in BOOLEAN : \E groups :
                            pages' = RebuildPages(table, snaps, groups, remove)
    <2>1. ASSUME NEW j \in Jobs, RebuildJobPages(j)
          PROVE  \E remove \in BOOLEAN : \E groups : pages' = RebuildPages(pages, snaps, groups, remove)
      BY <2>1 DEF RebuildJobPages
    <2>2. CASE RebuildAllPages
      <3>1. \E truncate \in BOOLEAN, remove \in BOOLEAN :
              pages' = RebuildPages(IF truncate THEN << >> ELSE pages, snaps, GroupsOf(snaps), remove)
        BY <2>2 DEF RebuildAllPages
      <3> QED
        BY <3>1
    <2> QED
      BY <2>1, <2>2, Writers
  <1>5. PointsInto(pages', snaps)
    BY <1>2, <1>3, <1>4, RebuiltPoints
  <1>6. PointsInto(pages', snaps')
    BY <1>1, <1>5, AlikePoints
  <1> QED
    BY <1>6 DEF PointsInto, PointersOwn

LEMMA AlwaysFit == Spec => [](TypeInv /\ PagesFit /\ PointersOwn)
  <1>1. Init => TypeInv /\ PagesFit /\ PointersOwn
    <2>1. Init => PagesFit /\ PointersOwn
      BY DEF Init, PagesFit, InGroup, PointersOwn
    <2> QED
      BY <2>1, InitTyped
  <1>2. TypeInv /\ PagesFit /\ PointersOwn /\ [Next]_vars => TypeInv' /\ PagesFit' /\ PointersOwn'
    BY TypeStep, StepKinds, IndexFits, RewritesFit, IndexPoints, RewritesPoint
  <1> QED
    BY <1>1, <1>2, PTL DEF Spec

\* Outside the groups that a failed index left behind, each page row is what a rebuild
\* from nothing would give: the incremental rebuilds of index_job and rebuild-pages keep
\* it so through every replacement of a job's rows and every repair.
THEOREM PagesAreRight == Spec => []PagesMatch
  <1>1. TypeInv /\ PagesFit => PagesMatch
    BY FitIsMatch
  <1> QED
    BY <1>1, AlwaysFit, PTL

----------------------------------------------------------------------------
(* The link graph.                                                                   *)

\* The inlinks of a group that a table has, and those in the rows.
InlinksIn(table, g) == IF g \in DOMAIN table THEN table[g].in ELSE 0

InlinksOf(rows, g) == SignalOf(rows, g).in

\* The same groups link to g.
SameLinksTo(g, rows, new) ==
    /\ \A s \in rows : g \in s.links => \E t \in new : t.cap = s.cap /\ g \in t.links
    /\ \A t \in new : g \in t.links => \E s \in rows : s.cap = t.cap /\ g \in s.links

LEMMA SameInlinks ==
  ASSUME NEW rows, NEW new, NEW g, SameLinksTo(g, rows, new)
  PROVE  InlinksOf(new, g) = InlinksOf(rows, g)
  <1>1. ASSUME NEW r, NEW e
        PROVE  e \in {d \in Edges(r) : d[2] = g} <=>
                 \E s \in r : g \in s.links /\ g # Of(s).group /\ e = <<Of(s).group, g>>
    <2>1. e \in Edges(r) <=> \E s \in r : \E h \in s.links \ {Of(s).group} : e = <<Of(s).group, h>>
      BY DEF Edges
    <2>2. \A a, h : <<a, h>>[2] = h
      OBVIOUS
    <2> QED
      BY <2>1, <2>2
  <1>2. \A s, t : s.cap = t.cap => Of(s).group = Of(t).group
    BY DEF Of
  <1>3. {d \in Edges(new) : d[2] = g} = {d \in Edges(rows) : d[2] = g}
    <2>1. \A e : e \in {d \in Edges(new) : d[2] = g} <=> e \in {d \in Edges(rows) : d[2] = g}
      <3> SUFFICES ASSUME NEW e
                   PROVE  (\E s \in new : g \in s.links /\ g # Of(s).group /\ e = <<Of(s).group, g>>)
                            <=> (\E s \in rows : g \in s.links /\ g # Of(s).group /\ e = <<Of(s).group, g>>)
        BY <1>1
      <3> QED
        BY <1>2 DEF SameLinksTo
    <2> QED
      BY <2>1
  <1> QED
    BY <1>3 DEF InlinksOf, SignalOf

\* A recomputation gives the groups asked for what the rows have; the others keep theirs.
LEMMA Recomputed ==
  ASSUME NEW rows, NEW groups, NEW table, NEW new, new = RecomputeGroups(table, rows, groups), NEW g
  PROVE  /\ g \in groups => InlinksIn(new, g) = InlinksOf(rows, g)
         /\ g \notin groups => InlinksIn(new, g) = InlinksIn(table, g)
  <1>1. SignalOf(rows, g) = NoLinks => InlinksOf(rows, g) = 0
    BY DEF NoLinks, InlinksOf
  <1>2. CASE g \in groups
    BY <1>1, <1>2 DEF RecomputeGroups, InlinksIn, InlinksOf
  <1>3. CASE g \notin groups
    BY <1>3 DEF RecomputeGroups, InlinksIn
  <1> QED
    BY <1>2, <1>3

LEMMA RecomputedAll ==
  ASSUME NEW rows, NEW g \in Groups
  PROVE  InlinksIn(RecomputeAll(rows), g) = InlinksOf(rows, g)
  <1>1. SignalOf(rows, g) = NoLinks => InlinksOf(rows, g) = 0
    BY DEF NoLinks, InlinksOf
  <1> QED
    BY <1>1 DEF RecomputeAll, InlinksIn, InlinksOf

\* Marking, restoring and shortening rows keeps their links.
LEMMA KeepsLinks ==
  ASSUME NEW rows, rows \subseteq Rows, NEW part, part \subseteq rows, NEW marks, NEW g
  PROVE  /\ SameLinksTo(g, rows, rows)
         /\ SameLinksTo(g, rows, MarkRows(rows, marks))
         /\ SameLinksTo(g, rows, (rows \ part) \cup Shortened(part))
         /\ SameLinksTo(g, rows, (rows \ part) \cup Restored(part))
  <1>1. SameLinksTo(g, rows, rows)
    BY DEF SameLinksTo
  <1>2. SameLinksTo(g, rows, MarkRows(rows, marks))
    <2> DEFINE mark(s) == [s EXCEPT !.dedup = @ \/ \E d \in marks : d.dup = s.id]
    <2>1. \A s \in rows : mark(s).cap = s.cap /\ mark(s).links = s.links
      BY DEF Rows
    <2>2. MarkRows(rows, marks) = {mark(s) : s \in rows}
      BY DEF MarkRows
    <2> HIDE DEF mark
    <2> QED
      BY <2>1, <2>2 DEF SameLinksTo
  <1>3. SameLinksTo(g, rows, (rows \ part) \cup Shortened(part))
    <2> DEFINE short(s) == [s EXCEPT !.full = FALSE]
    <2>1. \A s \in rows : short(s).cap = s.cap /\ short(s).links = s.links
      BY DEF Rows
    <2>2. Shortened(part) = {short(s) : s \in part}
      BY DEF Shortened
    <2> HIDE DEF short
    <2> QED
      BY <2>1, <2>2 DEF SameLinksTo
  <1>4. SameLinksTo(g, rows, (rows \ part) \cup Restored(part))
    <2> DEFINE back(s) == [s EXCEPT !.dedup = FALSE]
    <2>1. \A s \in rows : back(s).cap = s.cap /\ back(s).links = s.links
      BY DEF Rows
    <2>2. Restored(part) = {back(s) : s \in part}
      BY DEF Restored
    <2> HIDE DEF back
    <2> QED
      BY <2>1, <2>2 DEF SameLinksTo
  <1> QED
    BY <1>1, <1>2, <1>3, <1>4

\* InlinksMatch in these words.
InlinksFit == \A g \in Groups \ linksBehind : InlinksIn(signals, g) = InlinksOf(snaps, g)

LEMMA InlinksFitIsMatch == InlinksFit <=> InlinksMatch
  BY DEF InlinksFit, InlinksMatch, InlinksIn, InlinksOf

\* A group that index_job does not touch has the links to it that it had.
LEMMA IndexLinks ==
  ASSUME TypeInv, NEW j \in Jobs, IndexJob(j) \/ IndexBreaks(j), InlinksFit
  PROVE  InlinksFit'
  <1> USE DEF TypeInv
  <1>1. PICK read \in SUBSET RecordsOf(j) :
            /\ Replaces(j, read)
            /\ \E marks : snaps' = MarkRows(Replacement(j, read), marks) \/ snaps' = Replacement(j, read)
            /\ \/ /\ signals' = RecomputeGroups(signals, Replacement(j, read), LinkGroupsTouched(j, read))
                  /\ linksBehind' = linksBehind \ LinkGroupsTouched(j, read)
               \/ /\ signals' = signals
                  /\ linksBehind' = linksBehind \cup LinkGroupsTouched(j, read)
    BY DEF IndexJob, IndexBreaks, Replacement, RecordsOf
  <1> DEFINE rows == Replacement(j, read)
             touched == LinkGroupsTouched(j, read)
  <1>2. rows \subseteq Rows
    BY <1>1, ReplacementRows
  <1>3. ASSUME NEW g PROVE InlinksOf(snaps', g) = InlinksOf(rows, g)
    <2>1. PICK marks : snaps' = MarkRows(rows, marks) \/ snaps' = rows
      BY <1>1
    <2> HIDE DEF rows
    <2>2. {} \subseteq rows
      OBVIOUS
    <2>3. SameLinksTo(g, rows, snaps')
      BY <1>2, <2>1, <2>2, KeepsLinks
    <2> QED
      BY <2>3, SameInlinks
  <1>4. ASSUME NEW g, g \notin touched PROVE InlinksOf(rows, g) = InlinksOf(snaps, g)
    <2>1. \A s \in RowsOf(j) \cup NewRows(read) : g \notin s.links
      BY <1>4 DEF LinkGroupsTouched, Targets
    <2>2. SameLinksTo(g, snaps, rows)
      BY <2>1 DEF SameLinksTo, Replacement
    <2> QED
      BY <2>2, SameInlinks
  <1>5. ASSUME NEW g \in Groups \ linksBehind'
        PROVE  InlinksIn(signals', g) = InlinksOf(rows, g)
    <2> HIDE DEF rows, touched
    <2>1. CASE signals' = RecomputeGroups(signals, rows, touched) /\ linksBehind' = linksBehind \ touched
      <3>1. CASE g \in touched
        BY <2>1, <3>1, Recomputed
      <3>2. CASE g \notin touched
        <4>1. InlinksIn(signals', g) = InlinksIn(signals, g)
          BY <2>1, <3>2, Recomputed
        <4> QED
          BY <1>4, <1>5, <2>1, <3>2, <4>1 DEF InlinksFit
      <3> QED
        BY <3>1, <3>2
    <2>2. CASE signals' = signals /\ linksBehind' = linksBehind \cup touched
      BY <1>4, <1>5, <2>2 DEF InlinksFit
    <2> QED
      BY <1>1, <2>1, <2>2 DEF rows, touched
  <1> QED
    BY <1>3, <1>5 DEF InlinksFit

LEMMA RewritesLinks ==
  ASSUME TypeInv, Rewrites, InlinksFit
  PROVE  InlinksFit'
  <1> USE DEF TypeInv
  <1>1. snaps \subseteq Rows
    BY TypeParts
  <1>2. ASSUME NEW j \in Jobs, BackfillOutlinks(j) PROVE InlinksFit'
    <2>1. PICK readable \in SUBSET {s.cap : s \in RowsOf(j)}, update \in BOOLEAN :
            LET renewed == Relinked(RowsOf(j), readable)
                rows == (snaps \ RowsOf(j)) \cup renewed
                touched == Targets(RowsOf(j)) \cup Targets(renewed)
                    \cup GroupsOf({s \in renewed : s.cap \in readable /\ Is2xx(Of(s).code)})
            IN  /\ snaps' = rows
                /\ signals' = IF update THEN RecomputeGroups(signals, rows, touched) ELSE signals
                /\ linksBehind' = IF update THEN linksBehind \ touched ELSE linksBehind \cup touched
      BY <1>2 DEF BackfillOutlinks, Relinked
    <2> DEFINE renewed == Relinked(RowsOf(j), readable)
               touched == Targets(RowsOf(j)) \cup Targets(renewed)
                    \cup GroupsOf({s \in renewed : s.cap \in readable /\ Is2xx(Of(s).code)})
    <2>2. ASSUME NEW g, g \notin touched PROVE InlinksOf(snaps', g) = InlinksOf(snaps, g)
      <3>1. \A s \in RowsOf(j) \cup renewed : g \notin s.links
        BY <2>2 DEF Targets
      <3>2. SameLinksTo(g, snaps, snaps')
        <4> HIDE DEF renewed
        <4> QED
          BY <2>1, <3>1 DEF SameLinksTo, renewed
      <3> QED
        BY <3>2, SameInlinks
    <2>3. \/ signals' = RecomputeGroups(signals, snaps', touched) /\ linksBehind' = linksBehind \ touched
          \/ signals' = signals /\ linksBehind' = linksBehind \cup touched
      BY <2>1
    <2> HIDE DEF touched
    <2>4. ASSUME NEW g \in Groups \ linksBehind' PROVE InlinksIn(signals', g) = InlinksOf(snaps', g)
      <3>1. CASE signals' = RecomputeGroups(signals, snaps', touched) /\ linksBehind' = linksBehind \ touched
        <4>1. CASE g \in touched
          BY <3>1, <4>1, Recomputed
        <4>2. CASE g \notin touched
          <5>1. InlinksIn(signals', g) = InlinksIn(signals, g)
            BY <3>1, <4>2, Recomputed
          <5> QED
            BY <2>2, <2>4, <3>1, <4>2, <5>1 DEF InlinksFit
        <4> QED
          BY <4>1, <4>2
      <3>2. CASE signals' = signals /\ linksBehind' = linksBehind \cup touched
        BY <2>2, <2>4, <3>2 DEF InlinksFit
      <3> QED
        BY <2>3, <3>1, <3>2
    <2> QED
      BY <2>4 DEF InlinksFit
  <1>3. CASE RecomputeSignals
    BY <1>3, RecomputedAll DEF InlinksFit, RecomputeSignals
  <1>4. CASE /\ signals' = signals /\ linksBehind' = linksBehind
             /\ \A j \in Jobs : ~BackfillOutlinks(j)
    <2>1. \/ snaps' = snaps
          \/ \E part \in SUBSET snaps : \/ snaps' = (snaps \ part) \cup Shortened(part)
                                        \/ snaps' = (snaps \ part) \cup Restored(part)
          \/ \E marks : snaps' = MarkRows(snaps, marks)
      <3>1. ASSUME NEW j \in Jobs, RefreshMetadata(j)
            PROVE  \E part \in SUBSET snaps : snaps' = (snaps \ part) \cup Shortened(part)
        <4>1. RowsOf(j) \in SUBSET snaps /\ snaps' = (snaps \ RowsOf(j)) \cup Shortened(RowsOf(j))
          BY <3>1 DEF RefreshMetadata, RowsOf
        <4> QED
          BY <4>1
      <3>2. CASE BackfillVectors
        <4>1. snaps \in SUBSET snaps /\ snaps' = (snaps \ snaps) \cup Shortened(snaps)
          BY <3>2 DEF BackfillVectors
        <4> QED
          BY <4>1
      <3>3. DedupeApplies => snaps' = snaps \/ \E marks : snaps' = MarkRows(snaps, marks)
        BY DEF DedupeApplies
      <3>4. CASE RestoreDeduped
        <4>1. PICK back : back \subseteq snaps /\ snaps' = (snaps \ back) \cup Restored(back)
          BY <3>4 DEF RestoreDeduped, Restored
        <4> QED
          BY <4>1
      <3> QED
        BY <1>4, <3>1, <3>2, <3>3, <3>4, Writers
    <2>2. ASSUME NEW g PROVE SameLinksTo(g, snaps, snaps')
      BY <1>1, <2>1, KeepsLinks
    <2>3. ASSUME NEW g PROVE InlinksOf(snaps', g) = InlinksOf(snaps, g)
      BY <2>2, SameInlinks
    <2> QED
      BY <1>4, <2>3 DEF InlinksFit
  <1> QED
    BY <1>2, <1>3, <1>4, Writers

\* The inlink counts match the link graph, outside the groups whose signals an operator
\* chose not to update or a failed index did not reach: replacing or rereading the links
\* of one job recomputes every group whose inlinks that can change.
THEOREM InlinksAreRight == Spec => []InlinksMatch
  <1>1. Init => TypeInv /\ InlinksFit
    <2>1. Init => InlinksFit
      <3> SUFFICES ASSUME Init, NEW g \in Groups PROVE InlinksIn(signals, g) = InlinksOf(snaps, g)
        BY DEF InlinksFit
      <3>1. InlinksIn(signals, g) = 0
        BY DEF Init, InlinksIn
      <3>2. {e \in Edges(snaps) : e[2] = g} = {}
        BY DEF Init, Edges
      <3> QED
        BY <3>1, <3>2, FS_EmptySet DEF InlinksOf, SignalOf
    <2> QED
      BY <2>1, InitTyped
  <1>2. TypeInv /\ InlinksFit /\ [Next]_vars => TypeInv' /\ InlinksFit'
    BY TypeStep, StepKinds, IndexLinks, RewritesLinks
  <1>3. InlinksFit => InlinksMatch
    BY InlinksFitIsMatch
  <1> QED
    BY <1>1, <1>2, <1>3, PTL DEF Spec
----------------------------------------------------------------------------
(* The change events.                                                                *)

\* An event is of one of the rows, compared with nothing or with an earlier one of its
\* group.
LooksBack(rows, e) ==
    \E s \in rows :
        /\ s.id = e.to
        /\ e.from = 0 \/ \E t \in InGroup(rows, Of(s).group) : t.id = e.from /\ Before(t, s)

Backwards ==
    /\ \A e \in changes : LooksBack(snaps, e)
    /\ \A e, f \in changes : e.to = f.to => e = f

LEMMA AlikeLooksBack ==
  ASSUME NEW rows, NEW new, Alike(rows, new), NEW e, LooksBack(rows, e)
  PROVE  LooksBack(new, e)
  <1>1. PICK s \in rows :
            /\ s.id = e.to
            /\ e.from = 0 \/ \E t \in InGroup(rows, Of(s).group) : t.id = e.from /\ Before(t, s)
    BY DEF LooksBack
  <1>2. PICK u \in new : u.id = s.id /\ u.cap = s.cap
    BY DEF Alike
  <1>3. Of(u) = Of(s)
    BY <1>2 DEF Of
  <1>4. ASSUME NEW t \in InGroup(rows, Of(s).group), t.id = e.from, Before(t, s)
        PROVE  \E v \in InGroup(new, Of(u).group) : v.id = e.from /\ Before(v, u)
    <2>1. PICK v \in new : v.id = t.id /\ v.cap = t.cap
      BY DEF Alike, InGroup
    <2>2. Of(v) = Of(t)
      BY <2>1 DEF Of
    <2>3. v \in InGroup(new, Of(u).group)
      BY <1>3, <2>2 DEF InGroup
    <2>4. Before(v, u)
      BY <1>2, <1>3, <1>4, <2>1, <2>2 DEF Before
    <2> QED
      BY <1>4, <2>1, <2>3, <2>4
  <1> QED
    BY <1>1, <1>2, <1>4 DEF LooksBack

LEMMA IndexBackwards ==
  ASSUME TypeInv, NEW j \in Jobs, IndexJob(j) \/ IndexBreaks(j), Backwards
  PROVE  Backwards'
  <1> USE DEF TypeInv
  <1>1. PICK read \in SUBSET RecordsOf(j) : Replaces(j, read) /\ Alike(Replacement(j, read), snaps')
    BY IndexRows
  <1> DEFINE gone == Ids(RowsOf(j))
             cut(e) == [e EXCEPT !.from = IF @ \in gone THEN 0 ELSE @]
  <1>2. changes' = {cut(e) : e \in {d \in changes : d.to \notin gone}}
    BY <1>1 DEF Replaces, ChangesWithout
  <1>3. ASSUME NEW e \in changes
        PROVE  cut(e).to = e.to /\ cut(e).from = IF e.from \in gone THEN 0 ELSE e.from
    BY DEF TypeOK
  <1>4. ASSUME NEW s \in snaps, s.id \notin gone PROVE s \in Replacement(j, read)
    BY <1>4 DEF Ids, Replacement
  <1> HIDE DEF gone, cut
  <1>5. ASSUME NEW e \in changes, e.to \notin gone PROVE LooksBack(Replacement(j, read), cut(e))
    <2>1. PICK s \in snaps :
              /\ s.id = e.to
              /\ e.from = 0 \/ \E t \in InGroup(snaps, Of(s).group) : t.id = e.from /\ Before(t, s)
      BY DEF Backwards, LooksBack
    <2>2. s \in Replacement(j, read) /\ s.id = cut(e).to
      BY <1>3, <1>4, <1>5, <2>1
    <2>3. CASE cut(e).from = 0
      BY <2>2, <2>3 DEF LooksBack
    <2>4. CASE cut(e).from # 0
      <3>1. e.from \notin gone /\ cut(e).from = e.from /\ e.from # 0
        BY <1>3, <2>4
      <3>2. PICK t \in InGroup(snaps, Of(s).group) : t.id = e.from /\ Before(t, s)
        BY <2>1, <3>1
      <3>3. t \in InGroup(Replacement(j, read), Of(s).group)
        BY <1>4, <3>1, <3>2 DEF InGroup
      <3> QED
        BY <2>2, <3>1, <3>2, <3>3 DEF LooksBack
    <2> QED
      BY <2>3, <2>4
  <1>6. \A e \in changes' : LooksBack(snaps', e)
    BY <1>1, <1>2, <1>5, AlikeLooksBack
  <1>7. \A e, f \in changes' : e.to = f.to => e = f
    BY <1>2, <1>3 DEF Backwards
  <1> QED
    BY <1>6, <1>7 DEF Backwards

LEMMA RewritesBackwards ==
  ASSUME TypeInv, Rewrites, Backwards
  PROVE  Backwards'
  <1> USE DEF TypeInv
  <1>1. Alike(snaps, snaps')
    BY RewritesAlike
  <1>2. CASE changes' = changes
    BY <1>1, <1>2, AlikeLooksBack DEF Backwards
  <1>3. CASE ComputeSince \/ ComputeBackfill
    <2>1. /\ changes \subseteq changes' /\ snaps' = snaps
          /\ \A e \in changes' \ changes : \E s \in snaps :
                /\ s \in Pending /\ e.to = s.id
                /\ e.from = 0 \/ \E t \in InGroup(snaps, Of(s).group) : t.id = e.from /\ Before(t, s)
          /\ \A e, f \in changes' \ changes : e.to = f.to => e = f
      <3>1. changes \subseteq changes' /\ snaps' = snaps
        BY <1>3 DEF ComputeSince, ComputeBackfill
      <3> QED
        BY <1>3, <3>1, EventsBelow
    <2>2. \A e \in changes' : LooksBack(snaps', e)
      BY <2>1 DEF Backwards, LooksBack
    <2>3. \A e \in changes' \ changes : \A f \in changes : f.to # e.to
      BY <2>1 DEF Pending
    <2>4. \A e, f \in changes' : e.to = f.to => e = f
      BY <2>1, <2>3 DEF Backwards
    <2> QED
      BY <2>2, <2>4 DEF Backwards
  <1> QED
    BY <1>2, <1>3, Writers

LEMMA AlwaysBackwards == Spec => [](TypeInv /\ Backwards)
  <1>1. Init => TypeInv /\ Backwards
    BY InitTyped DEF Init, Backwards
  <1>2. TypeInv /\ Backwards /\ [Next]_vars => TypeInv' /\ Backwards'
    BY TypeStep, StepKinds, IndexBackwards, RewritesBackwards
  <1> QED
    BY <1>1, <1>2, PTL DEF Spec
----------------------------------------------------------------------------
(* Deduplication.                                                                    *)

\* A row that is marked has an audit row, whose canonical row is a copy of it.
HiddenBy(rows, entries) ==
    \A s \in rows : s.dedup =>
        \E a \in entries : \E c \in rows : a.dup = s.id /\ a.canon = c.id /\ SameDayCopy(s, c)

\* A row that an audit row names as a duplicate is marked.
MarkedBy(rows, entries) == \A a \in entries : \A s \in rows : s.id = a.dup => s.dedup

\* Of what was found, pairs that are both still there are copies.
CopiesIn(rows, candidates) ==
    \A d \in candidates : \A s, c \in rows : s.id = d.dup /\ c.id = d.canon => SameDayCopy(s, c)

\* Following duplicates to their canonical rows never goes round.
Grounded(arcs) ==
    \A X \in SUBSET (1 .. MaxId) : X # {} =>
        \E x \in X : \A a \in arcs : a.dup = x => a.canon \notin X

Hiding ==
    /\ HiddenBy(snaps, audit) /\ MarkedBy(snaps, audit) /\ CopiesIn(snaps, found)
    /\ Grounded(audit \cup found)

LEMMA GroundedLess ==
  ASSUME NEW arcs, Grounded(arcs), NEW less, less \subseteq arcs
  PROVE  Grounded(less)
  BY DEF Grounded

\* It stays so when arcs are added that lead to where none leads on.
LEMMA GroundedMore ==
  ASSUME NEW arcs, Grounded(arcs), NEW more,
         \A d \in more : \A a \in arcs \cup more : a.dup # d.canon
  PROVE  Grounded(arcs \cup more)
  <1> SUFFICES ASSUME NEW X \in SUBSET (1 .. MaxId), X # {}
               PROVE  \E x \in X : \A a \in arcs \cup more : a.dup = x => a.canon \notin X
    BY DEF Grounded
  <1>1. CASE \E d \in more : d.canon \in X
    BY <1>1
  <1>2. CASE \A d \in more : d.canon \notin X
    <2>1. PICK x \in X : \A a \in arcs : a.dup = x => a.canon \notin X
      BY DEF Grounded
    <2> QED
      BY <1>2, <2>1
  <1> QED
    BY <1>1, <1>2

\* The canonical row of a class is not a duplicate of another in the same search.
LEMMA CanonsNotDups ==
  ASSUME NEW rows, rows \subseteq Rows, UniqueIds(rows), NEW scope,
         NEW d \in Duplicates(rows, scope), NEW e \in Duplicates(rows, scope)
  PROVE  e.dup # d.canon
  <1> SUFFICES ASSUME e.dup = d.canon PROVE FALSE
    OBVIOUS
  <1>1. PICK s \in rows, c \in rows :
            /\ d = [dup |-> s.id, canon |-> c.id] /\ SameDayCopy(s, c) /\ s # c
            /\ ~s.dedup /\ ~c.dedup /\ Of(c).job \in scope
            /\ \A t \in rows : ~t.dedup /\ Of(t).job \in scope /\ SameDayCopy(t, c) => c.id <= t.id
    BY DuplicatesAre
  <1>2. PICK u \in rows, v \in rows :
            /\ e = [dup |-> u.id, canon |-> v.id] /\ SameDayCopy(u, v) /\ u # v
            /\ ~u.dedup /\ ~v.dedup /\ Of(v).job \in scope
            /\ \A t \in rows : ~t.dedup /\ Of(t).job \in scope /\ SameDayCopy(t, v) => v.id <= t.id
    BY DuplicatesAre
  <1>3. u = c
    BY <1>1, <1>2 DEF UniqueIds
  <1>4. SameDayCopy(v, c) /\ SameDayCopy(c, v)
    BY <1>2, <1>3 DEF SameDayCopy
  <1>5. c.id <= v.id /\ v.id <= c.id
    BY <1>1, <1>2, <1>4
  <1>6. c.id \in Nat /\ v.id \in Nat
    BY RowTyped
  <1>7. c = v
    BY <1>5, <1>6 DEF UniqueIds
  <1> QED
    BY <1>2, <1>3, <1>7

\* What is found is a copy of its canonical row.
LEMMA DuplicatesCopy ==
  ASSUME NEW rows, rows \subseteq Rows, UniqueIds(rows), NEW scope
  PROVE  /\ CopiesIn(rows, Duplicates(rows, scope))
         /\ \A d \in Duplicates(rows, scope) : \E c \in rows : c.id = d.canon /\ ~c.dedup /\ Of(c).job \in scope
  <1> SUFFICES ASSUME NEW d \in Duplicates(rows, scope)
               PROVE  /\ \A s, c \in rows : s.id = d.dup /\ c.id = d.canon => SameDayCopy(s, c)
                      /\ \E c \in rows : c.id = d.canon /\ ~c.dedup /\ Of(c).job \in scope
    BY DEF CopiesIn
  <1>1. PICK s \in rows, c \in rows :
            /\ d = [dup |-> s.id, canon |-> c.id] /\ SameDayCopy(s, c)
            /\ ~c.dedup /\ Of(c).job \in scope
    BY DuplicatesAre
  <1> QED
    BY <1>1 DEF UniqueIds

\* Rewriting rows without their flags.
Flagged(rows, new) ==
    \A t \in new : \E s \in rows : t.id = s.id /\ t.cap = s.cap /\ (t.dedup <=> s.dedup)

LEMMA FlaggedHides ==
  ASSUME NEW rows, NEW new, Alike(rows, new), NEW entries
  PROVE  /\ CopiesIn(rows, entries) => CopiesIn(new, entries)
         /\ Flagged(rows, new) /\ HiddenBy(rows, entries) => HiddenBy(new, entries)
         /\ Flagged(rows, new) /\ MarkedBy(rows, entries) => MarkedBy(new, entries)
  <1>1. \A s, t, u, v : s.cap = u.cap /\ t.cap = v.cap => (SameDayCopy(s, t) <=> SameDayCopy(u, v))
    BY DEF SameDayCopy, Of
  <1>2. CopiesIn(rows, entries) => CopiesIn(new, entries)
    BY <1>1 DEF CopiesIn, Alike
  <1>3. ASSUME Flagged(rows, new), HiddenBy(rows, entries) PROVE HiddenBy(new, entries)
    <2> SUFFICES ASSUME NEW t \in new, t.dedup
                 PROVE  \E a \in entries : \E c \in new : a.dup = t.id /\ a.canon = c.id /\ SameDayCopy(t, c)
      BY DEF HiddenBy
    <2>1. PICK s \in rows : t.id = s.id /\ t.cap = s.cap /\ s.dedup
      BY <1>3 DEF Flagged
    <2>2. PICK a \in entries, c \in rows : a.dup = s.id /\ a.canon = c.id /\ SameDayCopy(s, c)
      BY <1>3, <2>1 DEF HiddenBy
    <2>3. PICK v \in new : v.id = c.id /\ v.cap = c.cap
      BY DEF Alike
    <2> QED
      BY <1>1, <2>1, <2>2, <2>3
  <1>4. ASSUME Flagged(rows, new), MarkedBy(rows, entries) PROVE MarkedBy(new, entries)
    BY <1>4 DEF MarkedBy, Flagged
  <1> QED
    BY <1>2, <1>3, <1>4

\* Marking rows with their copies still there keeps both.
LEMMA MarkedHides ==
  ASSUME NEW rows, rows \subseteq Rows, UniqueIds(rows), NEW entries,
         HiddenBy(rows, entries), MarkedBy(rows, entries),
         NEW marks, CopiesIn(rows, marks),
         \A d \in marks : \E c \in rows : c.id = d.canon
  PROVE  /\ HiddenBy(MarkRows(rows, marks), entries \cup marks)
         /\ MarkedBy(MarkRows(rows, marks), entries \cup marks)
  <1> DEFINE new == MarkRows(rows, marks)
  <1>1. Alike(rows, new)
    BY MarkedAlike
  <1>2. \A t \in new : \E s \in rows :
            /\ t.id = s.id /\ t.cap = s.cap
            /\ t.dedup <=> s.dedup \/ \E d \in marks : d.dup = s.id
    BY MarkedAlike
  <1>3. \A s, t, u, v : s.cap = u.cap /\ t.cap = v.cap => (SameDayCopy(s, t) <=> SameDayCopy(u, v))
    BY DEF SameDayCopy, Of
  <1> HIDE DEF new
  <1>4. HiddenBy(new, entries \cup marks)
    <2> SUFFICES ASSUME NEW t \in new, t.dedup
                 PROVE  \E a \in entries \cup marks : \E c \in new :
                            a.dup = t.id /\ a.canon = c.id /\ SameDayCopy(t, c)
      BY DEF HiddenBy
    <2>1. PICK s \in rows : /\ t.id = s.id /\ t.cap = s.cap
                            /\ t.dedup <=> s.dedup \/ \E d \in marks : d.dup = s.id
      BY <1>2
    <2>2. \E a \in entries \cup marks : \E c \in rows :
              a.dup = s.id /\ a.canon = c.id /\ SameDayCopy(s, c)
      <3>1. CASE s.dedup
        BY <3>1 DEF HiddenBy
      <3>2. CASE \E d \in marks : d.dup = s.id
        BY <3>2 DEF CopiesIn
      <3> QED
        BY <2>1, <3>1, <3>2
    <2>3. PICK a \in entries \cup marks, c \in rows :
              a.dup = s.id /\ a.canon = c.id /\ SameDayCopy(s, c)
      BY <2>2
    <2>4. PICK v \in new : v.id = c.id /\ v.cap = c.cap
      BY <1>1 DEF Alike
    <2> QED
      BY <1>3, <2>1, <2>3, <2>4
  <1>5. MarkedBy(new, entries \cup marks)
    <2> SUFFICES ASSUME NEW a \in entries \cup marks, NEW t \in new, t.id = a.dup
                 PROVE  t.dedup
      BY DEF MarkedBy
    <2>1. PICK s \in rows : /\ t.id = s.id
                            /\ t.dedup <=> s.dedup \/ \E d \in marks : d.dup = s.id
      BY <1>2
    <2> QED
      BY <2>1 DEF MarkedBy
  <1> QED
    BY <1>4, <1>5 DEF new
\* index_job keeps rows that audit rows name, and gives out ids that no pair has.
LEMMA IndexHides ==
  ASSUME TypeInv, NEW j \in Jobs, IndexJob(j) \/ IndexBreaks(j), Hiding
  PROVE  Hiding'
  <1> USE DEF TypeInv
  <1>1. PICK read \in SUBSET RecordsOf(j) :
            /\ Replaces(j, read) /\ found' = found
            /\ \/ \E marks : /\ snaps' = MarkRows(Replacement(j, read), marks) /\ audit' = audit \cup marks
                             /\ marks = {} \/ marks = Duplicates(Replacement(j, read), {j})
               \/ snaps' = Replacement(j, read) /\ audit' = audit
    BY DEF IndexJob, IndexBreaks, Replacement, RecordsOf
  <1> DEFINE rows == Replacement(j, read)
  <1>2. /\ rows \subseteq Rows /\ UniqueIds(rows)
        /\ \A s \in rows : IF Of(s).job = j THEN s \in NewRows(read) /\ nextId <= s.id
                                            ELSE s \in snaps /\ s.id < nextId
    BY <1>1, ReplacementRows
  <1>3. nextId \in Nat /\ \A s \in rows : s.id \in Nat
    BY <1>1, <1>2, NewRowsAre, RowTyped
  <1>4. ASSUME NEW s \in rows, s.id < nextId PROVE s \in snaps
    BY <1>2, <1>3, <1>4
  <1>5. HiddenBy(rows, audit)
    <2> SUFFICES ASSUME NEW s \in rows, s.dedup
                 PROVE  \E a \in audit : \E c \in rows : a.dup = s.id /\ a.canon = c.id /\ SameDayCopy(s, c)
      BY DEF HiddenBy
    <2>1. \A t \in NewRows(read) : ~t.dedup
      BY <1>1, NewRowsAre
    <2>2. s \in snaps
      BY <1>2, <2>1
    <2>3. PICK a \in audit, c \in snaps : a.dup = s.id /\ a.canon = c.id /\ SameDayCopy(s, c)
      BY <2>2 DEF Hiding, HiddenBy
    <2>4. c.id \notin Ids(RowsOf(j))
      BY <1>1, <2>3 DEF Replaces, Referenced
    <2>5. c \in rows
      BY <2>4 DEF Ids, Replacement
    <2> QED
      BY <2>3, <2>5
  <1>6. MarkedBy(rows, audit)
    <2>1. \A a \in audit : a.dup < nextId
      BY DEF IdsPast
    <2> QED
      BY <1>4, <2>1 DEF Hiding, MarkedBy
  <1>7. CopiesIn(rows, found)
    <2>1. \A d \in found : d.dup < nextId /\ d.canon < nextId
      BY DEF IdsPast
    <2> QED
      BY <1>4, <2>1 DEF Hiding, CopiesIn
  <1> HIDE DEF rows
  <1>8. CASE snaps' = rows /\ audit' = audit
    BY <1>1, <1>5, <1>6, <1>7, <1>8 DEF Hiding
  <1>9. ASSUME NEW marks, snaps' = MarkRows(rows, marks), audit' = audit \cup marks,
               marks = {} \/ marks = Duplicates(rows, {j})
        PROVE  Hiding'
    <2>1. /\ CopiesIn(rows, marks)
          /\ \A d \in marks : \E c \in rows : c.id = d.canon /\ Of(c).job = j
      <3>1. marks = {} => CopiesIn(rows, marks)
        BY DEF CopiesIn
      <3>2. /\ CopiesIn(rows, Duplicates(rows, {j}))
            /\ \A d \in Duplicates(rows, {j}) : \E c \in rows : c.id = d.canon /\ Of(c).job \in {j}
        BY <1>2, DuplicatesCopy
      <3> QED
        BY <1>9, <3>1, <3>2
    <2>2. HiddenBy(snaps', audit') /\ MarkedBy(snaps', audit')
      BY <1>2, <1>5, <1>6, <1>9, <2>1, MarkedHides
    <2>3. CopiesIn(snaps', found')
      <3>1. Alike(rows, snaps')
        BY <1>2, <1>9, MarkedAlike
      <3> QED
        BY <1>1, <1>7, <3>1, FlaggedHides
    <2>4. \A d \in marks : \A a \in (audit \cup found) \cup marks : a.dup # d.canon
      <3> SUFFICES ASSUME NEW d \in marks, NEW a \in (audit \cup found) \cup marks, a.dup = d.canon
                   PROVE  FALSE
        OBVIOUS
      <3>1. PICK c \in rows : c.id = d.canon /\ Of(c).job = j
        BY <2>1
      <3>2. nextId <= d.canon /\ d.canon \in Nat
        BY <1>2, <1>3, <3>1
      <3>3. CASE a \in audit \cup found
        <4>1. a.dup < nextId
          BY <3>3 DEF IdsPast
        <4> QED
          BY <1>3, <3>2, <4>1
      <3>4. CASE a \in marks
        <4>1. marks = Duplicates(rows, {j})
          BY <1>9
        <4> QED
          BY <1>2, <3>4, <4>1, CanonsNotDups
      <3> QED
        BY <3>3, <3>4
    <2>5. Grounded((audit \cup found) \cup marks)
      BY <2>4, GroundedMore DEF Hiding
    <2>6. audit' \cup found' = (audit \cup found) \cup marks
      BY <1>1, <1>9
    <2> QED
      BY <2>2, <2>3, <2>5, <2>6 DEF Hiding
  <1> QED
    BY <1>1, <1>8, <1>9 DEF rows

\* Reading links again and shortening keep the flags.
LEMMA RepairsFlag ==
  ASSUME TypeInv, Rewrites, ~DedupeApplies, ~RestoreDeduped
  PROVE  Flagged(snaps, snaps')
  <1> USE DEF TypeInv
  <1>1. snaps \subseteq Rows
    BY TypeParts
  <1>2. ASSUME NEW part, part \subseteq snaps, NEW readable
        PROVE  /\ Flagged(snaps, (snaps \ part) \cup Shortened(part))
               /\ Flagged(snaps, (snaps \ part) \cup Relinked(part, readable))
    <2> DEFINE short(s) == [s EXCEPT !.full = FALSE]
               again(s) == [s EXCEPT !.links = IF s.cap \in readable /\ Is2xx(Of(s).code)
                                               THEN Of(s).links ELSE {}]
    <2>1. \A s \in snaps : /\ short(s).id = s.id /\ short(s).cap = s.cap /\ short(s).dedup = s.dedup
                           /\ again(s).id = s.id /\ again(s).cap = s.cap /\ again(s).dedup = s.dedup
      BY <1>1 DEF Rows
    <2>2. Shortened(part) = {short(s) : s \in part} /\ Relinked(part, readable) = {again(s) : s \in part}
      BY DEF Shortened, Relinked
    <2> HIDE DEF short, again
    <2> QED
      BY <1>2, <2>1, <2>2 DEF Flagged
  <1>3. ASSUME NEW j \in Jobs, BackfillOutlinks(j) PROVE Flagged(snaps, snaps')
    <2>1. RowsOf(j) \subseteq snaps
      BY DEF RowsOf
    <2>2. PICK readable : snaps' = (snaps \ RowsOf(j)) \cup Relinked(RowsOf(j), readable)
      BY <1>3 DEF BackfillOutlinks, Relinked
    <2> QED
      BY <1>2, <2>1, <2>2
  <1>4. ASSUME NEW j \in Jobs, RefreshMetadata(j) PROVE Flagged(snaps, snaps')
    <2>1. RowsOf(j) \subseteq snaps /\ snaps' = (snaps \ RowsOf(j)) \cup Shortened(RowsOf(j))
      BY <1>4 DEF RowsOf, RefreshMetadata
    <2> QED
      BY <1>2, <2>1
  <1>5. CASE BackfillVectors
    <2>1. snaps' = (snaps \ snaps) \cup Shortened(snaps)
      BY <1>5 DEF BackfillVectors
    <2> QED
      BY <1>2, <2>1
  <1>6. CASE snaps' = snaps
    BY <1>6 DEF Flagged
  <1> QED
    BY <1>3, <1>4, <1>5, <1>6, Writers

LEMMA RewritesHide ==
  ASSUME TypeInv, Rewrites, Hiding
  PROVE  Hiding'
  <1> USE DEF TypeInv
  <1>1. Alike(snaps, snaps')
    BY RewritesAlike
  <1>2. snaps \subseteq Rows /\ UniqueIds(snaps)
    BY TypeParts
  <1>3. CASE audit' = audit /\ found' = found /\ ~DedupeApplies /\ ~RestoreDeduped
    <2>1. Flagged(snaps, snaps')
      BY <1>3, RepairsFlag
    <2> QED
      BY <1>1, <1>3, <2>1, FlaggedHides DEF Hiding
  <1>4. CASE DedupeFinds
    <2>1. PICK scope : found' = Duplicates(snaps, scope) /\ found = {} /\ snaps' = snaps /\ audit' = audit
      BY <1>4 DEF DedupeFinds
    <2>2. /\ CopiesIn(snaps, found')
          /\ \A d \in found' : \E c \in snaps : c.id = d.canon /\ ~c.dedup
      BY <1>2, <2>1, DuplicatesCopy
    <2>3. \A d \in found' : \A a \in (audit \cup found) \cup found' : a.dup # d.canon
      <3>1. \A d \in found' : \A a \in audit : a.dup # d.canon
        BY <2>2 DEF Hiding, MarkedBy
      <3>2. \A d, e \in found' : e.dup # d.canon
        BY <1>2, <2>1, CanonsNotDups
      <3> QED
        BY <2>1, <3>1, <3>2
    <2>4. Grounded((audit \cup found) \cup found')
      BY <2>3, GroundedMore DEF Hiding
    <2>5. audit' \cup found' = (audit \cup found) \cup found'
      BY <2>1
    <2> QED
      BY <2>1, <2>2, <2>4, <2>5 DEF Hiding
  <1>5. CASE DedupeApplies
    <2> DEFINE marks == Marked(snaps, found)
    <2>1. found' = {} /\ marks \subseteq found
      BY <1>5 DEF DedupeApplies, Marked
    <2>2. \/ snaps' = snaps /\ audit' = audit
          \/ /\ \A d \in marks : d.canon \in Ids(snaps)
             /\ snaps' = MarkRows(snaps, marks) /\ audit' = audit \cup marks
      BY <1>5 DEF DedupeApplies
    <2> HIDE DEF marks
    <2>3. HiddenBy(snaps', audit') /\ MarkedBy(snaps', audit')
      <3>1. CASE snaps' = snaps /\ audit' = audit
        BY <3>1 DEF Hiding
      <3>2. CASE /\ \A d \in marks : d.canon \in Ids(snaps)
                 /\ snaps' = MarkRows(snaps, marks) /\ audit' = audit \cup marks
        <4>1. CopiesIn(snaps, marks)
          BY <2>1 DEF Hiding, CopiesIn
        <4>2. \A d \in marks : \E c \in snaps : c.id = d.canon
          BY <3>2 DEF Ids
        <4> QED
          BY <1>2, <3>2, <4>1, <4>2, MarkedHides DEF Hiding
      <3> QED
        BY <2>2, <3>1, <3>2
    <2>4. CopiesIn(snaps', found')
      BY <2>1 DEF CopiesIn
    <2>5. audit' \cup found' \subseteq audit \cup found
      BY <2>1, <2>2
    <2> QED
      BY <2>3, <2>4, <2>5, GroundedLess DEF Hiding
  <1>6. CASE RestoreDeduped
    <2>1. PICK back : /\ back \subseteq snaps
                      /\ snaps' = (snaps \ back) \cup Restored(back)
                      /\ audit' = {a \in audit : a.dup \notin Ids(back)} /\ found' = found
      BY <1>6 DEF RestoreDeduped, Restored
    <2>2. ASSUME NEW t \in snaps'
          PROVE  \/ t \in snaps /\ t.id \notin Ids(back)
                 \/ t.id \in Ids(back) /\ ~t.dedup
      <3>1. CASE t \in snaps \ back
        BY <1>2, <2>1, <3>1 DEF UniqueIds, Ids
      <3>2. CASE t \in Restored(back)
        <4>1. PICK s \in back : t = [s EXCEPT !.dedup = FALSE]
          BY <3>2 DEF Restored
        <4>2. t.id = s.id /\ ~t.dedup
          BY <1>2, <2>1, <4>1 DEF Rows
        <4> QED
          BY <4>2 DEF Ids
      <3> QED
        BY <2>1, <3>1, <3>2
    <2>3. HiddenBy(snaps', audit')
      <3> SUFFICES ASSUME NEW t \in snaps', t.dedup
                   PROVE  \E a \in audit' : \E c \in snaps' : a.dup = t.id /\ a.canon = c.id /\ SameDayCopy(t, c)
        BY DEF HiddenBy
      <3>1. t \in snaps /\ t.id \notin Ids(back)
        BY <2>2
      <3>2. PICK a \in audit, c \in snaps : a.dup = t.id /\ a.canon = c.id /\ SameDayCopy(t, c)
        BY <3>1 DEF Hiding, HiddenBy
      <3>3. PICK v \in snaps' : v.id = c.id /\ v.cap = c.cap
        BY <1>1 DEF Alike
      <3>4. SameDayCopy(t, v)
        BY <3>2, <3>3 DEF SameDayCopy, Of
      <3> QED
        BY <2>1, <3>1, <3>2, <3>3, <3>4
    <2>4. MarkedBy(snaps', audit')
      BY <2>1, <2>2 DEF Hiding, MarkedBy
    <2>5. CopiesIn(snaps', found')
      BY <1>1, <2>1, FlaggedHides DEF Hiding
    <2>6. Grounded(audit' \cup found')
      BY <2>1, GroundedLess DEF Hiding
    <2> QED
      BY <2>3, <2>4, <2>5, <2>6 DEF Hiding
  <1> QED
    BY <1>3, <1>4, <1>5, <1>6, Writers

LEMMA AlwaysHiding == Spec => [](TypeInv /\ Hiding)
  <1>1. Init => TypeInv /\ Hiding
    BY InitTyped DEF Init, Hiding, HiddenBy, MarkedBy, CopiesIn, Grounded
  <1>2. TypeInv /\ Hiding /\ [Next]_vars => TypeInv' /\ Hiding'
    BY TypeStep, StepKinds, IndexHides, RewritesHide
  <1> QED
    BY <1>1, <1>2, PTL DEF Spec

=============================================================================
