----------------------------- MODULE PublicApi_proofs -----------------------------
(* Proofs about PublicApi, for every set of jobs, groups, captures and queries: what  *)
(* the requests answer, from what Catalog_proofs shows of the tables they read.        *)
EXTENDS PublicApi, Catalog_proofs

-----------------------------------------------------------------------------
(* The timeline and its comparisons.                                                 *)

\* The timeline never points at what is gone or lies ahead: an event is of a live
\* snapshot, at most one of each, compared with nothing or with an earlier capture of the
\* same group, and each pair that is offered can be compared.
THEOREM TimelineLooksBack == Spec => []ComparesBackwards
  <1>1. TypeInv /\ Backwards => ComparesBackwards
    <2> SUFFICES ASSUME TypeInv, Backwards PROVE ComparesBackwards
      OBVIOUS
    <2>1. UniqueIds(snaps)
      BY TypeParts
    <2>2. \A e \in changes : e.to \in Ids(snaps)
      BY DEF Backwards, LooksBack, Ids
    <2>3. ASSUME NEW s \in snaps
          PROVE  /\ Cardinality(CompareFrom(s)) <= 1
                 /\ \A i \in CompareFrom(s) \ {0} :
                        \E t \in InGroup(snaps, Of(s).group) : t.id = i /\ Before(t, s)
                 /\ \A i \in CompareFrom(s) : Cardinality(Compared(s.id, i)) = 1
      <3>1. CASE \A e \in changes : e.to # s.id
        <4>1. CompareFrom(s) = {}
          BY <3>1 DEF CompareFrom
        <4> QED
          BY <4>1, FS_EmptySet
      <3>2. ASSUME NEW e \in changes, e.to = s.id
            PROVE  /\ Cardinality(CompareFrom(s)) <= 1
                   /\ \A i \in CompareFrom(s) \ {0} :
                          \E t \in InGroup(snaps, Of(s).group) : t.id = i /\ Before(t, s)
                   /\ \A i \in CompareFrom(s) : Cardinality(Compared(s.id, i)) = 1
        <4>1. \A f \in changes : f.to = s.id => f = e
          BY <3>2 DEF Backwards
        <4>2. CompareFrom(s) = {e.from}
          BY <3>2, <4>1 DEF CompareFrom
        <4>3. Compared(s.id, e.from) = {e}
          BY <3>2, <4>1 DEF Compared, Ids
        <4>4. e.from = 0 \/ \E t \in InGroup(snaps, Of(s).group) : t.id = e.from /\ Before(t, s)
          <5>1. PICK r \in snaps :
                    /\ r.id = e.to
                    /\ e.from = 0 \/ \E t \in InGroup(snaps, Of(r).group) : t.id = e.from /\ Before(t, r)
            BY DEF Backwards, LooksBack
          <5>2. r = s
            BY <2>1, <3>2, <5>1 DEF UniqueIds
          <5> QED
            BY <5>1, <5>2
        <4>5. Cardinality({e.from}) = 1 /\ Cardinality({e}) = 1
          BY FS_Singleton
        <4> QED
          BY <4>2, <4>3, <4>4, <4>5
      <3> QED
        BY <3>1, <3>2
    <2> QED
      BY <2>2, <2>3 DEF ComparesBackwards
  <1> QED
    BY <1>1, AlwaysBackwards, PTL
-----------------------------------------------------------------------------
(* Search results.                                                                   *)

\* What is searched are rows with ids of their own, and results are among them.
LEMMA MatchingRows ==
  ASSUME TypeInv, NEW q \in Queries
  PROVE  /\ Matching(q) \subseteq snaps /\ Matching(q) \subseteq Rows /\ UniqueIds(Matching(q))
         /\ SlowItems(q) \subseteq Matching(q)
  <1>1. snaps \subseteq Rows /\ UniqueIds(snaps)
    BY TypeParts
  <1>2. q.text \in {"none", "words", "url", "boolean"}
    BY PublicApiAssumption DEF Requests
  <1>3. Matching(q) \subseteq snaps
    BY <1>2 DEF Matching, Searchable, InGroup, Hits
  <1> QED
    BY <1>1, <1>3 DEF UniqueIds, SlowItems

\* Of each key there is exactly one result, the newest of its rows.
LEMMA OnePerKey ==
  ASSUME TypeInv, NEW q, Matching(q) \subseteq Rows, UniqueIds(Matching(q))
  PROVE  /\ \A s \in Matching(q) : \E t \in SlowItems(q) : Key(q, t) = Key(q, s)
         /\ \A s, t \in SlowItems(q) : Key(q, s) = Key(q, t) => s = t
  <1>1. ASSUME NEW s \in Matching(q) PROVE \E t \in SlowItems(q) : Key(q, t) = Key(q, s)
    <2> DEFINE same == {t \in Matching(q) : Key(q, t) = Key(q, s)}
    <2>1. same \subseteq Rows /\ UniqueIds(same) /\ same # {}
      BY DEF UniqueIds
    <2>2. Newest(same) \in same /\ \A t \in same \ {Newest(same)} : Before(t, Newest(same))
      BY <2>1, NewestIs
    <2> QED
      BY <2>2 DEF SlowItems
  <1>2. ASSUME NEW s \in SlowItems(q), NEW t \in SlowItems(q), Key(q, s) = Key(q, t), s # t
        PROVE  FALSE
    <2>1. Before(t, s) /\ Before(s, t) /\ s \in Rows /\ t \in Rows
      BY <1>2 DEF SlowItems
    <2>2. Of(s).ts \in Nat /\ Of(t).ts \in Nat /\ s.id \in Nat /\ t.id \in Nat
      BY <2>1, RowTyped
    <2> QED
      BY <2>1, <2>2 DEF Before
  <1> QED
    BY <1>1, <1>2

\* A copy of a copy is a copy.
LEMMA CopiesClose ==
  ASSUME NEW s, NEW u \in Copies(s), NEW t \in Copies(u)
  PROVE  t \in Copies(s)
  BY DEF Copies, SameDayCopy

\* A row that is hidden has a copy that is shown.
LEMMA CopyIsShown ==
  ASSUME TypeInv, Hiding, NEW s \in snaps
  PROVE  \E t \in Copies(s) : ~t.dedup
  <1>1. snaps \subseteq Rows
    BY TypeParts
  <1>2. s \in Copies(s) /\ Copies(s) \subseteq snaps
    BY DEF Copies
  <1>3. CASE ~s.dedup
    BY <1>2, <1>3
  <1>4. CASE s.dedup
    <2> DEFINE hidden == {u \in Copies(s) : u.dedup}
               X == {u.id : u \in hidden}
    <2>1. X \in SUBSET (1 .. MaxId) /\ X # {}
      BY <1>1, <1>2, <1>4, RowTyped
    <2>2. PICK x \in X : \A a \in audit : a.dup = x => a.canon \notin X
      BY <2>1 DEF Hiding, Grounded
    <2>3. PICK u \in hidden : u.id = x
      BY <2>2
    <2>4. PICK a \in audit, c \in snaps : a.dup = u.id /\ a.canon = c.id /\ SameDayCopy(u, c)
      BY <1>2, <2>3 DEF Hiding, HiddenBy
    <2>5. c \in Copies(u)
      BY <2>4 DEF Copies
    <2>6. c \in Copies(s)
      BY <2>3, <2>5, CopiesClose
    <2>7. c.id \notin X
      BY <2>2, <2>3, <2>4
    <2>8. ~c.dedup
      BY <2>6, <2>7
    <2> QED
      BY <2>6, <2>8
  <1> QED
    BY <1>3, <1>4

\* Two rows that are one content of a URL and day are copies.
LEMMA KeysAreCopies ==
  ASSUME TypeInv, NEW s \in snaps, NEW t \in snaps, ContentKey(s) = ContentKey(t)
  PROVE  t \in Copies(s)
  <1>1. snaps \subseteq Rows /\ UniqueIds(snaps)
    BY TypeParts
  <1>2. /\ Of(s).url = Of(t).url /\ Of(s).day = Of(t).day /\ Of(s).hash = Of(t).hash
        /\ Of(s).hash = 0 => s.id = t.id
    BY DEF ContentKey
  <1>3. CASE Of(s).hash = 0
    BY <1>1, <1>2, <1>3 DEF UniqueIds, Copies
  <1>4. CASE Of(s).hash # 0
    <2>1. s.cap \in Captures /\ t.cap \in Captures
      BY <1>1, RowTyped
    <2>2. Of(s).group = Of(t).group
      BY <1>2, <2>1, CaptureAssumption DEF Of
    <2> QED
      BY <1>2, <1>4, <2>2 DEF SameDayCopy, Copies
  <1> QED
    BY <1>3, <1>4

\* Whatever indexing, deduplicating and restoring do in between, each content of a page and
\* day is a result of the browsing that includes every status, and of the default if no copy
\* of it has another status than 2xx: chains of same-day copies always end at one that is
\* not hidden.
THEOREM NothingIsLost == Spec => []EveryContentIsShown
  <1>1. TypeInv /\ Hiding => EveryContentIsShown
    <2> SUFFICES ASSUME TypeInv, Hiding,
                        NEW q \in Queries, q.view = "snapshots", q.text = "none", q.from = 0, q.to = 0,
                        ~q.dups, NEW s \in snaps, q.non2xx \/ \A t \in Copies(s) : IsOk(t)
                 PROVE  Copies(s) \cap Items(q) # {}
      BY DEF EveryContentIsShown
    <2>1. Items(q) = SlowItems(q)
      BY DEF Items, Fast
    <2>2. Matching(q) = {t \in snaps : ~t.dedup /\ (q.non2xx \/ IsOk(t))}
      BY DEF Matching, Searchable, InRange
    <2>3. \A t : Key(q, t) = ContentKey(t)
      BY DEF Key
    <2>4. Matching(q) \subseteq Rows /\ UniqueIds(Matching(q)) /\ SlowItems(q) \subseteq snaps
      BY <2>2, TypeParts DEF UniqueIds, SlowItems
    <2>5. PICK u \in Copies(s) : ~u.dedup
      BY CopyIsShown
    <2>6. u \in snaps /\ u \in Matching(q)
      BY <2>2, <2>5 DEF Copies
    <2>7. PICK t \in SlowItems(q) : Key(q, t) = Key(q, u)
      BY <2>4, <2>6, OnePerKey
    <2>8. t \in Copies(u)
      BY <2>3, <2>4, <2>6, <2>7, KeysAreCopies
    <2>9. t \in Copies(s)
      BY <2>5, <2>8, CopiesClose
    <2> QED
      BY <2>1, <2>7, <2>9
  <1> QED
    BY <1>1, AlwaysHiding, PTL
-----------------------------------------------------------------------------
(* Orders.                                                                           *)

\* Comparing place by place is irreflexive and transitive, and decides between two that
\* differ somewhere.
LEMMA OverOrders ==
  ASSUME NEW n \in Nat,
         NEW a, DOMAIN a = 1 .. n, \A k \in 1 .. n : a[k] \in Int,
         NEW b, DOMAIN b = 1 .. n, \A k \in 1 .. n : b[k] \in Int
  PROVE  /\ ~Over(a, a)
         /\ (\E k \in 1 .. n : a[k] # b[k]) => Over(a, b) \/ Over(b, a)
         /\ ~(Over(a, b) /\ Over(b, a))
  <1>1. ~Over(a, a)
    BY DEF Over
  <1>2. ASSUME NEW k \in 1 .. n, a[k] # b[k] PROVE Over(a, b) \/ Over(b, a)
    <2> DEFINE D == {i \in 1 .. n : a[i] # b[i]}
    <2>1. D \subseteq Nat /\ D # {}
      <3>1. k \in D
        BY <1>2
      <3>2. 1 .. n \subseteq Nat
        OBVIOUS
      <3> QED
        BY <3>1, <3>2
    <2>2. PICK i \in D : \A j \in D : i <= j
      BY <2>1, LeastExists
    <2>3. i \in 1 .. n /\ a[i] # b[i] /\ a[i] \in Int /\ b[i] \in Int
      OBVIOUS
    <2>4. \A j \in 1 .. i - 1 : a[j] = b[j]
      BY <2>2, <2>3
    <2>5. a[i] > b[i] \/ b[i] > a[i]
      BY <2>3
    <2> QED
      BY <2>3, <2>4, <2>5 DEF Over
  <1>3. ASSUME Over(a, b), Over(b, a) PROVE FALSE
    <2>1. PICK i \in 1 .. n : a[i] > b[i] /\ \A k \in 1 .. i - 1 : a[k] = b[k]
      BY <1>3 DEF Over
    <2>2. PICK j \in 1 .. n : b[j] > a[j] /\ \A k \in 1 .. j - 1 : b[k] = a[k]
      BY <1>3 DEF Over
    <2>3. i = j \/ i \in 1 .. j - 1 \/ j \in 1 .. i - 1
      OBVIOUS
    <2> QED
      BY <2>1, <2>2, <2>3
  <1> QED
    BY <1>1, <1>2, <1>3

LEMMA OverTransitive ==
  ASSUME NEW n \in Nat,
         NEW a, DOMAIN a = 1 .. n, \A k \in 1 .. n : a[k] \in Int,
         NEW b, DOMAIN b = 1 .. n, \A k \in 1 .. n : b[k] \in Int,
         NEW c, DOMAIN c = 1 .. n, \A k \in 1 .. n : c[k] \in Int,
         Over(a, b), Over(b, c)
  PROVE  Over(a, c)
  <1>1. PICK i \in 1 .. n : a[i] > b[i] /\ \A k \in 1 .. i - 1 : a[k] = b[k]
    BY DEF Over
  <1>2. PICK j \in 1 .. n : b[j] > c[j] /\ \A k \in 1 .. j - 1 : b[k] = c[k]
    BY DEF Over
  <1>3. CASE i <= j
    <2>1. a[i] > c[i]
      <3>1. i = j \/ i \in 1 .. j - 1
        BY <1>3
      <3>2. b[i] = c[i] \/ b[i] > c[i]
        BY <1>2, <3>1
      <3> QED
        BY <1>1, <3>2
    <2>2. \A k \in 1 .. i - 1 : a[k] = c[k]
      <3>1. \A k \in 1 .. i - 1 : k \in 1 .. j - 1
        BY <1>3
      <3> QED
        BY <1>1, <1>2, <3>1
    <2> QED
      BY <2>1, <2>2 DEF Over
  <1>4. CASE j < i
    <2>1. j \in 1 .. i - 1
      BY <1>4
    <2>2. a[j] > c[j]
      BY <1>1, <1>2, <2>1
    <2>3. \A k \in 1 .. j - 1 : k \in 1 .. i - 1
      BY <1>4
    <2> QED
      BY <1>1, <1>2, <2>2, <2>3 DEF Over
  <1> QED
    BY <1>3, <1>4

\* Comparing tuples of three, four and five, written out.
LEMMA OverThree ==
  ASSUME NEW a, NEW b, DOMAIN a = 1 .. 3
  PROVE  Over(a, b) <=>
            \/ a[1] > b[1]
            \/ a[1] = b[1] /\ a[2] > b[2]
            \/ a[1] = b[1] /\ a[2] = b[2] /\ a[3] > b[3]
  <1>1. 1 .. 3 = {1, 2, 3}
    OBVIOUS
  <1>2. /\ 1 .. 1 - 1 = {}
        /\ 1 .. 2 - 1 = {1}
        /\ 1 .. 3 - 1 = {1, 2}
    OBVIOUS
  <1>3. Over(a, b) <=> \E i \in {1, 2, 3} : a[i] > b[i] /\ \A k \in 1 .. i - 1 : a[k] = b[k]
    BY <1>1 DEF Over
  <1> QED
    BY <1>2, <1>3

LEMMA OverFour ==
  ASSUME NEW a, NEW b, DOMAIN a = 1 .. 4
  PROVE  Over(a, b) <=>
            \/ a[1] > b[1]
            \/ a[1] = b[1] /\ a[2] > b[2]
            \/ a[1] = b[1] /\ a[2] = b[2] /\ a[3] > b[3]
            \/ a[1] = b[1] /\ a[2] = b[2] /\ a[3] = b[3] /\ a[4] > b[4]
  <1>1. 1 .. 4 = {1, 2, 3, 4}
    OBVIOUS
  <1>2. /\ 1 .. 1 - 1 = {}
        /\ 1 .. 2 - 1 = {1}
        /\ 1 .. 3 - 1 = {1, 2}
        /\ 1 .. 4 - 1 = {1, 2, 3}
    OBVIOUS
  <1>3. Over(a, b) <=> \E i \in {1, 2, 3, 4} : a[i] > b[i] /\ \A k \in 1 .. i - 1 : a[k] = b[k]
    BY <1>1 DEF Over
  <1> QED
    BY <1>2, <1>3

LEMMA OverFive ==
  ASSUME NEW a, NEW b, DOMAIN a = 1 .. 5
  PROVE  Over(a, b) <=>
            \/ a[1] > b[1]
            \/ a[1] = b[1] /\ a[2] > b[2]
            \/ a[1] = b[1] /\ a[2] = b[2] /\ a[3] > b[3]
            \/ a[1] = b[1] /\ a[2] = b[2] /\ a[3] = b[3] /\ a[4] > b[4]
            \/ a[1] = b[1] /\ a[2] = b[2] /\ a[3] = b[3] /\ a[4] = b[4] /\ a[5] > b[5]
  <1>1. 1 .. 5 = {1, 2, 3, 4, 5}
    OBVIOUS
  <1>2. /\ 1 .. 1 - 1 = {}
        /\ 1 .. 2 - 1 = {1}
        /\ 1 .. 3 - 1 = {1, 2}
        /\ 1 .. 4 - 1 = {1, 2, 3}
        /\ 1 .. 5 - 1 = {1, 2, 3, 4}
    OBVIOUS
  <1>3. Over(a, b) <=> \E i \in {1, 2, 3, 4, 5} : a[i] > b[i] /\ \A k \in 1 .. i - 1 : a[k] = b[k]
    BY <1>1 DEF Over
  <1> QED
    BY <1>2, <1>3

\* Rows that are placed by tuples of n integers, no two with the same last.
Placed(rows, p, n) ==
    /\ n \in Nat \ {0}
    /\ \A s \in rows : DOMAIN p[s] = 1 .. n /\ \A k \in 1 .. n : p[s][k] \in Int
    /\ \A s, t \in rows : s # t => p[s][n] # p[t][n]

IsFirst(b, rows, p) == b \in rows /\ \A t \in rows \ {b} : Over(p[b], p[t])

\* Of two rows that are placed one is over the other.
LEMMA PlacedOrder ==
  ASSUME NEW rows, NEW p, NEW n, Placed(rows, p, n)
  PROVE  /\ \A s, t \in rows : /\ ~Over(p[s], p[s]) /\ ~(Over(p[s], p[t]) /\ Over(p[t], p[s]))
                               /\ s # t => Over(p[s], p[t]) \/ Over(p[t], p[s])
         /\ \A s, t, u \in rows : Over(p[s], p[t]) /\ Over(p[t], p[u]) => Over(p[s], p[u])
  <1>1. n \in Nat /\ n \in 1 .. n
    BY DEF Placed
  <1>2. ASSUME NEW s \in rows, NEW t \in rows
        PROVE  /\ ~Over(p[s], p[s]) /\ ~(Over(p[s], p[t]) /\ Over(p[t], p[s]))
               /\ s # t => Over(p[s], p[t]) \/ Over(p[t], p[s])
    <2>1. s # t => \E k \in 1 .. n : p[s][k] # p[t][k]
      BY <1>1 DEF Placed
    <2> QED
      BY <1>1, <2>1, OverOrders DEF Placed
  <1>3. ASSUME NEW s \in rows, NEW t \in rows, NEW u \in rows, Over(p[s], p[t]), Over(p[t], p[u])
        PROVE  Over(p[s], p[u])
    BY <1>1, <1>3, OverTransitive DEF Placed
  <1> QED
    BY <1>2, <1>3

\* Among finitely many one is first.
LEMMA FirstExists ==
  ASSUME NEW rows, IsFiniteSet(rows), rows # {}, NEW p, NEW n, Placed(rows, p, n)
  PROVE  /\ \E b : IsFirst(b, rows, p)
         /\ \A b, c : IsFirst(b, rows, p) /\ IsFirst(c, rows, p) => b = c
  <1> DEFINE R == {x \in rows \X rows : Over(p[x[2]], p[x[1]])}
  <1>1. \A s, t \in rows : <<s, t>> \in R <=> Over(p[t], p[s])
    OBVIOUS
  <1> HIDE DEF R
  <1>2. /\ \A s, t \in rows : /\ ~Over(p[s], p[s]) /\ ~(Over(p[s], p[t]) /\ Over(p[t], p[s]))
                              /\ s # t => Over(p[s], p[t]) \/ Over(p[t], p[s])
        /\ \A s, t, u \in rows : Over(p[s], p[t]) /\ Over(p[t], p[u]) => Over(p[s], p[u])
    BY PlacedOrder
  <1>3. \A s \in rows : <<s, s>> \notin R
    BY <1>1, <1>2
  <1>4. \A s, t, u \in rows : <<s, t>> \in R /\ <<t, u>> \in R => <<s, u>> \in R
    BY <1>1, <1>2
  <1>5. PICK b \in rows : \A t \in rows : <<b, t>> \notin R
    BY <1>3, <1>4, TopExists
  <1>6. IsFirst(b, rows, p)
    BY <1>1, <1>2, <1>5 DEF IsFirst
  <1>7. ASSUME NEW x, NEW y, IsFirst(x, rows, p), IsFirst(y, rows, p) PROVE x = y
    BY <1>2, <1>7 DEF IsFirst
  <1> QED
    BY <1>6, <1>7

\* A status has its rank.
LEMMA QualityTyped == ASSUME NEW s PROVE Quality(s) \in Int
  BY DEF Quality

\* The best row of some, by status, time and id.
IsBest(b, rows) ==
    /\ b \in rows
    /\ \A t \in rows \ {b} :
          Over(<<Quality(b), Of(b).ts, b.id>>, <<Quality(t), Of(t).ts, t.id>>)

LEMMA BestExists ==
  ASSUME NEW rows, rows \subseteq Rows, UniqueIds(rows), rows # {}
  PROVE  \E b : /\ IsBest(b, rows) /\ BestId(rows) = b.id
                /\ \A c : IsBest(c, rows) => c = b
  <1> DEFINE p == [s \in rows |-> <<Quality(s), Of(s).ts, s.id>>]
  <1>1. IsFiniteSet(rows)
    BY RowsFinite
  <1>2. ASSUME NEW s \in rows
        PROVE  /\ p[s] = <<Quality(s), Of(s).ts, s.id>>
               /\ DOMAIN p[s] = 1 .. 3 /\ p[s][3] = s.id
               /\ \A k \in 1 .. 3 : p[s][k] \in Int
    <2>1. Quality(s) \in Int /\ Of(s).ts \in Int /\ s.id \in Int
      BY QualityTyped, RowTyped
    <2> QED
      BY <2>1
  <1> HIDE DEF p
  <1>3. Placed(rows, p, 3)
    BY <1>2 DEF UniqueIds, Placed
  <1>4. /\ \E b : IsFirst(b, rows, p)
        /\ \A b, c : IsFirst(b, rows, p) /\ IsFirst(c, rows, p) => b = c
    BY <1>1, <1>3, FirstExists
  <1>5. \A b : IsBest(b, rows) <=> IsFirst(b, rows, p)
    BY <1>2 DEF IsBest, IsFirst
  <1>6. PICK b : IsBest(b, rows)
    BY <1>4, <1>5
  <1>7. \A c : IsBest(c, rows) => c = b
    BY <1>4, <1>5, <1>6
  <1>8. BestId(rows) = b.id
    <2> DEFINE c == CHOOSE s \in rows : \A t \in rows \ {s} :
                        Over(<<Quality(s), Of(s).ts, s.id>>, <<Quality(t), Of(t).ts, t.id>>)
    <2>1. BestId(rows) = c.id
      BY DEF BestId, FirstId
    <2>2. IsBest(c, rows)
      BY <1>6 DEF IsBest
    <2> QED
      BY <1>7, <2>1, <2>2
  <1> QED
    BY <1>6, <1>7, <1>8
-----------------------------------------------------------------------------
(* Sources, editions and replay.                                                     *)

\* The best of more rows that is among fewer is the best of those.
LEMMA BestOfFewer ==
  ASSUME NEW rows, NEW fewer, fewer \subseteq rows, NEW b \in fewer, IsBest(b, rows)
  PROVE  IsBest(b, fewer)
  BY DEF IsBest

\* The entry of a source is the best of the entries of its editions.
LEMMA EntriesAgree ==
  ASSUME TypeInv, NEW g \in GroupsOf(snaps)
  PROVE  SourceEntry(g) = BestId({s \in InGroup(snaps, g) : \E j \in Jobs : EditionEntry(j, g) = s.id})
  <1> DEFINE own == InGroup(snaps, g)
             entries == {s \in own : \E j \in Jobs : EditionEntry(j, g) = s.id}
  <1>1. snaps \subseteq Rows /\ UniqueIds(snaps)
    BY TypeParts
  <1>2. own \subseteq Rows /\ UniqueIds(own) /\ own # {}
    BY <1>1, GroupRows
  <1>3. PICK b : IsBest(b, own) /\ BestId(own) = b.id
    BY <1>2, BestExists
  <1>4. SourceEntry(g) = b.id
    BY <1>2, <1>3 DEF SourceEntry, EntryOf
  <1>5. b \in entries
    <2> DEFINE j == Of(b).job
               rows == InGroup(RowsOf(j), g)
    <2>1. b \in own
      BY <1>3 DEF IsBest
    <2>2. j \in Jobs
      BY <1>2, <2>1, RowTyped
    <2>3. rows \subseteq own /\ b \in rows
      BY <2>1 DEF InGroup, RowsOf
    <2>4. IsBest(b, rows)
      BY <1>3, <2>3, BestOfFewer
    <2>5. rows \subseteq Rows /\ UniqueIds(rows) /\ rows # {}
      BY <1>2, <2>3 DEF UniqueIds
    <2>6. BestId(rows) = b.id
      <3> HIDE DEF rows
      <3>1. PICK c : IsBest(c, rows) /\ BestId(rows) = c.id /\ \A d : IsBest(d, rows) => d = c
        BY <2>5, BestExists
      <3> QED
        BY <2>4, <3>1
    <2>7. EditionEntry(j, g) = b.id
      BY <2>5, <2>6 DEF EditionEntry, EntryOf
    <2> QED
      BY <2>1, <2>2, <2>7
  <1>6. entries \subseteq own
    OBVIOUS
  <1> HIDE DEF entries
  <1>7. IsBest(b, entries)
    BY <1>3, <1>5, <1>6, BestOfFewer
  <1>8. entries \subseteq Rows /\ UniqueIds(entries) /\ entries # {}
    BY <1>2, <1>5, <1>6 DEF UniqueIds
  <1>9. BestId(entries) = b.id
    <2>1. PICK c : IsBest(c, entries) /\ BestId(entries) = c.id /\ \A d : IsBest(d, entries) => d = c
      BY <1>8, BestExists
    <2> QED
      BY <1>7, <2>1
  <1> QED
    BY <1>4, <1>9 DEF entries

\* The nearest row of some to a time, by status, gap, time and id.
Gap(s, anchor) ==
    IF anchor = 0 THEN 0 ELSE IF Of(s).ts > anchor THEN Of(s).ts - anchor ELSE anchor - Of(s).ts

Near(s, anchor) == <<Quality(s), -Gap(s, anchor), Of(s).ts, s.id>>

IsNearest(b, rows, anchor) ==
    b \in rows /\ \A t \in rows \ {b} : Over(Near(b, anchor), Near(t, anchor))

LEMMA NearestExists ==
  ASSUME NEW rows, rows \subseteq Rows, UniqueIds(rows), rows # {}, NEW anchor \in Nat
  PROVE  \E b : /\ IsNearest(b, rows, anchor) /\ NearestId(rows, anchor) = b.id
                /\ \A c : IsNearest(c, rows, anchor) => c = b
  <1> DEFINE p == [s \in rows |-> Near(s, anchor)]
  <1>1. IsFiniteSet(rows)
    BY RowsFinite
  <1>2. ASSUME NEW s \in rows
        PROVE  /\ p[s] = Near(s, anchor)
               /\ DOMAIN p[s] = 1 .. 4 /\ p[s][4] = s.id
               /\ \A k \in 1 .. 4 : p[s][k] \in Int
    <2>1. Quality(s) \in Int /\ Of(s).ts \in Int /\ s.id \in Int
      BY QualityTyped, RowTyped
    <2>2. -Gap(s, anchor) \in Int
      BY <2>1 DEF Gap
    <2>3. p[s] = <<Quality(s), -Gap(s, anchor), Of(s).ts, s.id>>
      BY DEF Near
    <2> HIDE DEF p
    <2> QED
      BY <2>1, <2>2, <2>3 DEF Near
  <1> HIDE DEF p
  <1>3. Placed(rows, p, 4)
    BY <1>2 DEF UniqueIds, Placed
  <1>4. /\ \E b : IsFirst(b, rows, p)
        /\ \A b, c : IsFirst(b, rows, p) /\ IsFirst(c, rows, p) => b = c
    BY <1>1, <1>3, FirstExists
  <1>5. \A b : IsNearest(b, rows, anchor) <=> IsFirst(b, rows, p)
    BY <1>2 DEF IsNearest, IsFirst
  <1>6. PICK b : IsNearest(b, rows, anchor)
    BY <1>4, <1>5
  <1>7. \A c : IsNearest(c, rows, anchor) => c = b
    BY <1>4, <1>5, <1>6
  <1>8. NearestId(rows, anchor) = b.id
    <2> DEFINE c == CHOOSE s \in rows : \A t \in rows \ {s} : Over(Near(s, anchor), Near(t, anchor))
    <2>1. NearestId(rows, anchor) = c.id
      BY DEF NearestId, FirstId, Near, Gap
    <2>2. IsNearest(c, rows, anchor)
      BY <1>6 DEF IsNearest
    <2> QED
      BY <1>7, <2>1, <2>2
  <1> QED
    BY <1>6, <1>7, <1>8

\* Without a time, and at its own or a later one, the best row is the nearest.
LEMMA NearestIsBest ==
  ASSUME NEW rows, rows \subseteq Rows, UniqueIds(rows), NEW b, IsBest(b, rows),
         NEW anchor \in Nat, anchor = 0 \/ anchor >= Of(b).ts
  PROVE  NearestId(rows, anchor) = b.id
  <1>1. b \in rows
    BY DEF IsBest
  <1>2. ASSUME NEW t \in rows \ {b} PROVE Over(Near(b, anchor), Near(t, anchor))
    <2>1. Over(<<Quality(b), Of(b).ts, b.id>>, <<Quality(t), Of(t).ts, t.id>>)
      BY DEF IsBest
    <2>2. /\ Quality(b) \in Int /\ Quality(t) \in Int /\ Of(b).ts \in Nat /\ Of(t).ts \in Nat
          /\ b.id \in Nat /\ t.id \in Nat
      BY <1>1, QualityTyped, RowTyped
    <2> DEFINE c == <<Quality(b), Of(b).ts, b.id>>
               d == <<Quality(t), Of(t).ts, t.id>>
               x == Near(b, anchor)
               y == Near(t, anchor)
    <2>3. DOMAIN c = 1 .. 3 /\ DOMAIN x = 1 .. 4
      BY DEF Near
    <2>4. /\ c[1] = Quality(b) /\ c[2] = Of(b).ts /\ c[3] = b.id
          /\ d[1] = Quality(t) /\ d[2] = Of(t).ts /\ d[3] = t.id
          /\ x[1] = Quality(b) /\ x[2] = -Gap(b, anchor) /\ x[3] = Of(b).ts /\ x[4] = b.id
          /\ y[1] = Quality(t) /\ y[2] = -Gap(t, anchor) /\ y[3] = Of(t).ts /\ y[4] = t.id
      BY DEF Near
    <2> HIDE DEF c, d, x, y
    <2>5. \/ Quality(b) > Quality(t)
          \/ Quality(b) = Quality(t) /\ Of(b).ts > Of(t).ts
          \/ Quality(b) = Quality(t) /\ Of(b).ts = Of(t).ts /\ b.id > t.id
      <3>1. Over(c, d)
        BY <2>1 DEF c, d
      <3> QED
        BY <2>3, <2>4, <3>1, OverThree
    <2>6. /\ Of(b).ts > Of(t).ts => -Gap(b, anchor) > -Gap(t, anchor) \/ -Gap(b, anchor) = -Gap(t, anchor)
          /\ Of(b).ts = Of(t).ts => -Gap(b, anchor) = -Gap(t, anchor)
      BY <2>2 DEF Gap
    <2>7. Over(x, y)
      BY <2>3, <2>4, <2>5, <2>6, OverFour
    <2> QED
      BY <2>7 DEF x, y
  <1>3. IsNearest(b, rows, anchor)
    BY <1>1, <1>2 DEF IsNearest
  <1>4. PICK n : NearestId(rows, anchor) = n.id /\ \A c : IsNearest(c, rows, anchor) => c = n
    BY <1>1, NearestExists
  <1> QED
    BY <1>3, <1>4

\* The rows of a group that are looked at are some, and all if they are few.
LEMMA RecentRows ==
  ASSUME NEW rows, rows \subseteq Rows, UniqueIds(rows), rows # {}
  PROVE  LET recent == {s \in rows : Cardinality({t \in rows : Before(s, t)}) < ResolveScan}
         IN  recent # {} /\ (Cardinality(rows) <= ResolveScan => recent = rows)
  <1> DEFINE after(s) == {t \in rows : Before(s, t)}
  <1>1. IsFiniteSet(rows) /\ Cardinality(rows) \in Nat /\ ResolveScan \in Nat \ {0}
    BY RowsFinite, PublicApiAssumption
  <1>2. ASSUME NEW s \in rows PROVE ~Before(s, s) /\ Of(s).ts \in Nat /\ s.id \in Nat
    BY RowTyped DEF Before
  <1>3. \E s \in rows : Cardinality(after(s)) < ResolveScan
    <2> DEFINE s == Newest(rows)
    <2>1. s \in rows /\ \A t \in rows \ {s} : Before(t, s)
      BY NewestIs
    <2> HIDE DEF s
    <2>2. after(s) = {}
      <3>1. ASSUME NEW t \in rows, Before(s, t) PROVE FALSE
        <4>1. t # s /\ Before(t, s)
          BY <1>2, <2>1, <3>1
        <4> QED
          BY <1>2, <2>1, <3>1, <4>1 DEF Before
      <3> QED
        BY <3>1
    <2> HIDE DEF after
    <2>3. Cardinality(after(s)) = 0
      BY <2>2, FS_EmptySet
    <2> QED
      BY <1>1, <2>1, <2>3
  <1>4. ASSUME Cardinality(rows) <= ResolveScan, NEW s \in rows PROVE Cardinality(after(s)) < ResolveScan
    <2>1. after(s) \in SUBSET (rows \ {s})
      BY <1>2
    <2>2. IsFiniteSet(rows \ {s}) /\ Cardinality(rows \ {s}) = Cardinality(rows) - 1
      BY <1>1, FS_RemoveElement
    <2> HIDE DEF after
    <2>3. Cardinality(after(s)) <= Cardinality(rows \ {s}) /\ Cardinality(after(s)) \in Nat
      BY <2>1, <2>2, FS_Subset, FS_CardinalityType
    <2> QED
      BY <1>1, <1>4, <2>2, <2>3
  <1> QED
    BY <1>3, <1>4

\* What a URL of a page resolves to is a capture of the page, and for the URL of an
\* edition's entry it is the entry.
LEMMA ResolvesToEntry ==
  ASSUME TypeInv
  PROVE  EntriesResolve
  <1> SUFFICES ASSUME NEW j \in Editions, NEW g \in GroupsOf(RowsOf(j)), NEW e \in InGroup(RowsOf(j), g),
                      e.id = EditionEntry(j, g), NEW urls \in SUBSET UrlsOf(g),
                      NEW anchor \in {0} \cup {Of(s).ts : s \in snaps}
               PROVE  /\ Resolve(j, g, urls, anchor) \in Ids(InGroup(RowsOf(j), g))
                      /\ /\ anchor = 0 \/ anchor >= Of(e).ts
                         /\ \/ Of(e).url \in urls
                            \/ /\ WithUrl(RowsOf(j), urls) = {}
                               /\ Cardinality(InGroup(RowsOf(j), g)) <= ResolveScan
                         => Resolve(j, g, urls, anchor) = e.id
    BY DEF EntriesResolve
  <1> DEFINE own == InGroup(RowsOf(j), g)
             exact == WithUrl(RowsOf(j), urls)
             recent == {s \in own : Cardinality({t \in own : Before(s, t)}) < ResolveScan}
  <1>1. RowsOf(j) \subseteq Rows /\ UniqueIds(RowsOf(j)) /\ status[j] = "indexed"
    BY TypeParts DEF UniqueIds, RowsOf, Editions
  <1>2. own \subseteq Rows /\ UniqueIds(own) /\ own # {} /\ own \subseteq RowsOf(j)
    BY <1>1, GroupRows
  <1>3. anchor \in Nat
    BY TypeParts, RowTyped
  <1>4. IsBest(e, own)
    <2>1. PICK b : IsBest(b, own) /\ BestId(own) = b.id
      BY <1>2, BestExists
    <2>2. e.id = b.id /\ b \in own /\ e \in own
      BY <1>2, <2>1 DEF EditionEntry, EntryOf, IsBest
    <2>3. e = b
      BY <1>2, <2>2 DEF UniqueIds
    <2> QED
      BY <2>1, <2>3
  <1>5. exact \subseteq own
    <2>1. ASSUME NEW s \in exact PROVE Of(s).group = g
      <3>1. s \in RowsOf(j) /\ Of(s).url \in UrlsOf(g) /\ s.cap \in Captures
        BY <1>1, RowTyped DEF WithUrl
      <3>2. PICK c \in Captures : Capture[c].group = g /\ Of(s).url = Capture[c].url
        BY <3>1 DEF UrlsOf
      <3> QED
        BY <3>1, <3>2, CaptureAssumption DEF Of
    <2> QED
      BY <2>1 DEF InGroup, WithUrl
  <1>6. Of(e).url \in urls => e \in exact
    BY DEF WithUrl, InGroup
  <1>7. Resolve(j, g, urls, anchor) = NearestId(IF exact # {} THEN exact ELSE recent, anchor)
    BY <1>1 DEF Resolve
  <1>8. recent # {} /\ recent \subseteq own /\ (Cardinality(own) <= ResolveScan => recent = own)
    BY <1>2, RecentRows
  <1> HIDE DEF own, exact, recent
  <1>9. ASSUME NEW rows, rows \subseteq own, rows # {}
        PROVE  /\ NearestId(rows, anchor) \in Ids(own)
               /\ e \in rows /\ (anchor = 0 \/ anchor >= Of(e).ts) => NearestId(rows, anchor) = e.id
    <2>1. rows \subseteq Rows /\ UniqueIds(rows)
      BY <1>2, <1>9 DEF UniqueIds
    <2>2. PICK n : IsNearest(n, rows, anchor) /\ NearestId(rows, anchor) = n.id
      BY <1>3, <1>9, <2>1, NearestExists
    <2>3. n \in own
      BY <1>9, <2>2 DEF IsNearest
    <2>4. e \in rows => IsBest(e, rows)
      BY <1>4, <1>9, BestOfFewer
    <2>5. e \in rows /\ (anchor = 0 \/ anchor >= Of(e).ts) => NearestId(rows, anchor) = e.id
      BY <1>3, <2>1, <2>4, NearestIsBest
    <2> QED
      BY <2>2, <2>3, <2>5 DEF Ids
  <1>10. CASE exact # {}
    BY <1>5, <1>6, <1>7, <1>9, <1>10 DEF exact, own
  <1>11. CASE exact = {}
    <2>1. NearestId(recent, anchor) \in Ids(own)
      BY <1>8, <1>9
    <2>2. Resolve(j, g, urls, anchor) = NearestId(recent, anchor)
      BY <1>7, <1>11
    <2>3. e \in own
      BY DEF own
    <2>4. Cardinality(own) <= ResolveScan /\ (anchor = 0 \/ anchor >= Of(e).ts) => NearestId(recent, anchor) = e.id
      BY <1>8, <1>9, <2>3
    <2> QED
      BY <1>6, <1>11, <2>1, <2>2, <2>4 DEF exact, own
  <1> QED
    BY <1>10, <1>11

\* The newest capture of a page, and how many pages there are, are those of the table.
LEMMA LatestAgrees ==
  ASSUME TypeInv, PagesFit
  PROVE  /\ \A s \in snaps : Of(s).group \notin pagesBehind => LatestId(s) = pages[Of(s).group].latest
         /\ pagesBehind = {} => PagesTotal = Cardinality(DOMAIN pages)
  <1>1. snaps \subseteq Rows /\ DOMAIN pages \subseteq Groups
    BY TypeParts DEF PagesBelow
  <1>2. ASSUME NEW s \in snaps, Of(s).group \notin pagesBehind
        PROVE  LatestId(s) = pages[Of(s).group].latest
    <2>1. Of(s).group \in Groups \ pagesBehind
      BY <1>1, <1>2, RowTyped
    <2>2. InGroup(snaps, Of(s).group) # {}
      BY DEF InGroup
    <2>3. pages[Of(s).group] = PageOf(InGroup(snaps, Of(s).group))
      BY <2>1, <2>2 DEF PagesFit
    <2> QED
      BY <2>3 DEF PageOf, LatestId
  <1>3. ASSUME pagesBehind = {} PROVE PagesTotal = Cardinality(DOMAIN pages)
    <2>1. GroupsOf(snaps) \subseteq Groups
      BY <1>1, RowTyped DEF GroupsOf
    <2>2. \A g : g \in GroupsOf(snaps) <=> InGroup(snaps, g) # {}
      BY DEF GroupsOf, InGroup
    <2>3. GroupsOf(snaps) = DOMAIN pages
      BY <1>1, <1>3, <2>1, <2>2 DEF PagesFit
    <2> QED
      BY <2>3 DEF PagesTotal
  <1> QED
    BY <1>2, <1>3
-----------------------------------------------------------------------------
(* Pages of results.                                                                 *)

\* The lesser and the greater of two integers.
LEMMA MinMaxOfTwo ==
  ASSUME NEW x \in Int, NEW y \in Int
  PROVE  /\ Min({x, y}) = IF x <= y THEN x ELSE y
         /\ Max({x, y}) = IF x >= y THEN x ELSE y
  <1>1. \E m \in {x, y} : \A z \in {x, y} : m <= z
    OBVIOUS
  <1>2. Min({x, y}) \in {x, y} /\ \A z \in {x, y} : Min({x, y}) <= z
    BY <1>1 DEF Min
  <1>3. \E m \in {x, y} : \A z \in {x, y} : m >= z
    OBVIOUS
  <1>4. Max({x, y}) \in {x, y} /\ \A z \in {x, y} : Max({x, y}) >= z
    BY <1>3 DEF Max
  <1> QED
    BY <1>2, <1>4

\* The k-th page of places has as many as are left, up to its size.
LEMMA SliceCounts ==
  ASSUME NEW S, IsFiniteSet(S), NEW place, DOMAIN place = S, NEW n, Placed(S, place, n), NEW k \in Nat \ {0}
  PROVE  Cardinality(Slice(place, k)) = Min({PageSize, Max({0, Cardinality(S) - (k - 1) * PageSize})})
  <1> DEFINE R == {x \in S \X S : Over(place[x[1]], place[x[2]])}
             rank == [s \in S |-> Cardinality({t \in S : <<t, s>> \in R})]
             N == Cardinality(S)
             first == (k - 1) * PageSize
             window == {r \in 0 .. N - 1 : r \in first .. first + PageSize - 1}
             slice == {s \in S : rank[s] \in window}
  <1>1. \A s, t \in S : <<s, t>> \in R <=> Over(place[s], place[t])
    OBVIOUS
  <1>2. ASSUME NEW s \in S
        PROVE  rank[s] = Cardinality({t \in S : Over(place[t], place[s])})
    <2>1. {t \in S : <<t, s>> \in R} = {t \in S : Over(place[t], place[s])}
      BY <1>1
    <2> QED
      BY <2>1
  <1>3. N \in Nat /\ rank \in Bijection(S, 0 .. N - 1)
    <2> HIDE DEF R
    <2>1. \A s \in S : <<s, s>> \notin R
      BY <1>1, PlacedOrder
    <2>2. \A s, t, u \in S : <<s, t>> \in R /\ <<t, u>> \in R => <<s, u>> \in R
      BY <1>1, PlacedOrder
    <2>3. \A s, t \in S : s # t => <<s, t>> \in R \/ <<t, s>> \in R
      BY <1>1, PlacedOrder
    <2> QED
      BY <2>1, <2>2, <2>3, RanksAreBijective
  <1> HIDE DEF rank, R
  <1>4. /\ \A s \in S : rank[s] \in 0 .. N - 1
        /\ \A s, t \in S : rank[s] = rank[t] => s = t
        /\ \A r \in 0 .. N - 1 : \E s \in S : rank[s] = r
    BY <1>3 DEF Bijection, Injection, Surjection, IsInjective
  <1>5. PageSize \in Nat \ {0} /\ first \in Nat /\ k * PageSize = first + PageSize
    <2>1. PageSize \in Nat \ {0}
      BY PublicApiAssumption
    <2> QED
      BY <2>1
  <1>6. Slice(place, k) = slice
    BY <1>2, <1>4, <1>5 DEF Slice
  <1>7. Cardinality(slice) = Cardinality(window) /\ IsFiniteSet(window)
    <2> DEFINE f == [s \in slice |-> rank[s]]
    <2>1. f \in [slice -> window]
      OBVIOUS
    <2>2. \A s, t \in slice : f[s] = f[t] => s = t
      BY <1>4
    <2>3. \A r \in window : \E s \in slice : f[s] = r
      BY <1>4
    <2>4. IsFiniteSet(slice)
      BY FS_Subset
    <2> HIDE DEF f, slice, window
    <2>5. f \in Bijection(slice, window)
      BY <2>1, <2>2, <2>3 DEF Bijection, Injection, Surjection, IsInjective
    <2> QED
      BY <2>4, <2>5, FS_Bijection DEF ExistsBijection
  <1> DEFINE top == IF first + PageSize <= N THEN first + PageSize - 1 ELSE N - 1
  <1>8. window = first .. top
    BY <1>3, <1>5
  <1>9. Cardinality(first .. top) = IF first > top THEN 0 ELSE top - first + 1
    <2>1. first \in Int /\ top \in Int
      BY <1>3, <1>5
    <2> HIDE DEF first, top
    <2> QED
      BY <2>1, FS_Interval
  <1>10. Max({0, N - first}) = IF N - first >= 0 THEN N - first ELSE 0
    <2> HIDE DEF first, N
    <2>1. 0 \in Int /\ N - first \in Int
      BY <1>3, <1>5
    <2>2. Max({0, N - first}) = IF 0 >= N - first THEN 0 ELSE N - first
      BY <2>1, MinMaxOfTwo
    <2> QED
      BY <1>3, <1>5, <2>2
  <1> DEFINE left == IF N - first >= 0 THEN N - first ELSE 0
  <1>11. Min({PageSize, left}) = IF PageSize <= left THEN PageSize ELSE left
    <2>1. left \in Int /\ PageSize \in Int
      BY <1>3, <1>5
    <2> HIDE DEF left
    <2> QED
      BY <2>1, MinMaxOfTwo
  <1>12. Cardinality(Slice(place, k)) = IF first > top THEN 0 ELSE top - first + 1
    BY <1>6, <1>7, <1>8, <1>9
  <1> HIDE DEF first, N
  <1>13. (IF first > top THEN 0 ELSE top - first + 1) = IF PageSize <= left THEN PageSize ELSE left
    BY <1>3, <1>5
  <1> QED
    BY <1>10, <1>11, <1>12, <1>13 DEF first, N

\* Results are rows with ids of their own.
LEMMA ItemsAreRows ==
  ASSUME TypeInv, NEW q \in Queries
  PROVE  /\ Items(q) \subseteq snaps /\ Items(q) \subseteq Rows /\ UniqueIds(Items(q))
         /\ IsFiniteSet(Items(q))
         /\ ~Fast(q) => Items(q) = SlowItems(q)
         /\ ByRelevance(q) => Items(q) \subseteq Matching(q)
  <1>1. snaps \subseteq Rows /\ UniqueIds(snaps)
    BY TypeParts
  <1>2. SlowItems(q) \subseteq snaps /\ SlowItems(q) \subseteq Matching(q)
    BY MatchingRows
  <1>3. Items(q) \subseteq snaps
    BY <1>2 DEF Items, FastRows
  <1>4. Items(q) \subseteq Rows /\ UniqueIds(Items(q))
    BY <1>1, <1>3 DEF UniqueIds
  <1>5. ByRelevance(q) => ~Fast(q)
    BY DEF ByRelevance, Fast
  <1> QED
    BY <1>2, <1>3, <1>4, <1>5, RowsFinite DEF Items

\* What a result is ranked by is a number.
LEMMA MeritTyped ==
  ASSUME TypeInv, NEW q \in Queries, NEW s \in Items(q)
  PROVE  Merit(q, s) \in Int
  <1>1. snaps \subseteq Rows /\ SignalsTyped(signals)
    BY TypeParts
  <1>2. \A g : Authority(g) \in Nat
    BY <1>1 DEF SignalsTyped, Authority
  <1>3. ASSUME NEW t \in snaps PROVE Score(q, t) \in Nat
    <2>1. t.cap \in Captures /\ t.full \in BOOLEAN
      BY <1>1, RowTyped
    <2>2. TextRank(t) \in Nat
      BY <2>1, PublicApiAssumption DEF TextRank
    <2> QED
      BY <1>2, <2>2 DEF Score
  <1>4. s \in snaps
    BY ItemsAreRows
  <1>5. ASSUME ByRelevance(q)
        PROVE  Max({Score(q, t) : t \in InGroup(Matching(q), Of(s).group)}) \in Int
    <2> DEFINE own == InGroup(Matching(q), Of(s).group)
               scores == {Score(q, t) : t \in own}
               f == [t \in own |-> Score(q, t)]
    <2>1. s \in own /\ own \subseteq Matching(q)
      BY <1>5, ItemsAreRows DEF InGroup
    <2>2. own \subseteq snaps /\ own \subseteq Rows /\ UniqueIds(own)
      BY <2>1, MatchingRows DEF UniqueIds
    <2>3. f \in [own -> Nat] /\ scores = {f[t] : t \in own}
      BY <1>3, <2>2
    <2>4. IsFiniteSet(own)
      BY <2>2, RowsFinite
    <2> HIDE DEF f
    <2>5. IsFiniteSet({f[t] : t \in own})
      <3> HIDE DEF own
      <3> QED
        BY <2>3, <2>4, ImageFinite
    <2>6. scores \subseteq Int /\ scores # {}
      BY <1>3, <2>1, <2>2
    <2> HIDE DEF own, scores
    <2>7. Max(scores) \in scores
      BY <2>3, <2>5, <2>6, MaxIs
    <2> QED
      BY <2>6, <2>7 DEF scores, own
  <1> QED
    BY <1>3, <1>4, <1>5 DEF Merit

\* The length of a page's URL, if that counts.
LEMMA LengthTyped ==
  ASSUME NEW q, NEW s \in Rows
  PROVE  Length(q, s) \in Int
  <1>1. Of(s).group \in Groups /\ Groups \subseteq Nat
    BY RowTyped, PublicApiAssumption
  <1>2. Of(s).group \in Nat
    BY <1>1
  <1>3. Length(q, s) \in {0, Of(s).group}
    BY DEF Length
  <1> QED
    BY <1>2, <1>3

\* Results are placed by quality, merit, length, time and, at last, id.
LEMMA ResultsPlaced ==
  ASSUME TypeInv, NEW q \in Queries
  PROVE  Placed(Items(q), Places(q), 5) /\ DOMAIN Places(q) = Items(q)
  <1>1. ASSUME NEW s \in Items(q)
        PROVE  /\ DOMAIN Places(q)[s] = 1 .. 5 /\ Places(q)[s][5] = s.id
               /\ \A k \in 1 .. 5 : Places(q)[s][k] \in Int
    <2>1. s \in Rows
      BY ItemsAreRows
    <2>2. Length(q, s) \in Int
      BY <2>1, LengthTyped
    <2>3. Quality(s) \in Int /\ Merit(q, s) \in Int /\ -Length(q, s) \in Int
          /\ Of(s).ts \in Int /\ s.id \in Int
      BY <2>1, <2>2, QualityTyped, MeritTyped, RowTyped
    <2>4. Places(q)[s] = <<Quality(s), Merit(q, s), -Length(q, s), Of(s).ts, s.id>>
      BY DEF Places, Place
    <2> QED
      BY <2>3, <2>4
  <1>2. \A s, t \in Items(q) : s # t => Places(q)[s][5] # Places(q)[t][5]
    BY <1>1, ItemsAreRows DEF UniqueIds
  <1> QED
    BY <1>1, <1>2 DEF Placed, Places

\* There are as many results as keys.
LEMMA KeysAreCounted ==
  ASSUME TypeInv, NEW q \in Queries
  PROVE  Cardinality(SlowItems(q)) = SlowTotal(q)
  <1> DEFINE keys == {Key(q, s) : s \in Matching(q)}
             f == [s \in SlowItems(q) |-> Key(q, s)]
  <1>1. /\ Matching(q) \subseteq Rows /\ UniqueIds(Matching(q)) /\ SlowItems(q) \subseteq Matching(q)
        /\ SlowItems(q) \subseteq Rows /\ UniqueIds(SlowItems(q))
    BY MatchingRows DEF UniqueIds
  <1>2. /\ \A s \in Matching(q) : \E t \in SlowItems(q) : Key(q, t) = Key(q, s)
        /\ \A s, t \in SlowItems(q) : Key(q, s) = Key(q, t) => s = t
    BY <1>1, OnePerKey
  <1>3. /\ f \in [SlowItems(q) -> keys]
        /\ \A s, t \in SlowItems(q) : f[s] = f[t] => s = t
        /\ \A k \in keys : \E s \in SlowItems(q) : f[s] = k
    BY <1>1, <1>2
  <1>4. IsFiniteSet(SlowItems(q))
    BY <1>1, RowsFinite
  <1> HIDE DEF f, keys
  <1>5. f \in Bijection(SlowItems(q), keys)
    BY <1>3 DEF Bijection, Injection, Surjection, IsInjective
  <1>6. Cardinality(keys) = Cardinality(SlowItems(q))
    BY <1>4, <1>5, FS_Bijection DEF ExistsBijection
  <1> QED
    BY <1>6 DEF SlowTotal, keys

\* Page after page, a visitor gets each result once and as many as the total says.
LEMMA PagesSum ==
  ASSUME TypeInv
  PROVE  PagesAddUp
  <1> SUFFICES ASSUME NEW q \in Queries
               PROVE  /\ Cardinality(DOMAIN Places(q)) = Total(q)
                      /\ \A k \in 1 .. Cardinality(Captures) :
                            Cardinality(Slice(Places(q), k)) =
                                Min({PageSize, Max({0, Total(q) - (k - 1) * PageSize})})
    BY DEF PagesAddUp
  <1>1. Placed(Items(q), Places(q), 5) /\ DOMAIN Places(q) = Items(q) /\ IsFiniteSet(Items(q))
    BY ResultsPlaced, ItemsAreRows
  <1>2. Cardinality(Items(q)) = Total(q)
    BY KeysAreCounted DEF Items, Total
  <1>3. ASSUME NEW k \in 1 .. Cardinality(Captures)
        PROVE  Cardinality(Slice(Places(q), k)) =
                    Min({PageSize, Max({0, Total(q) - (k - 1) * PageSize})})
    <2>1. k \in Nat \ {0}
      BY BoundsAssumption, FS_CardinalityType
    <2>2. Cardinality(Slice(Places(q), k)) =
              Min({PageSize, Max({0, Cardinality(Items(q)) - (k - 1) * PageSize})})
      BY <1>1, <2>1, SliceCounts
    <2> QED
      BY <1>2, <2>2
  <1> QED
    BY <1>1, <1>2, <1>3

\* The newest of rows is the only one that comes after every other.
LEMMA NewestOnly ==
  ASSUME NEW rows, rows \subseteq Rows, UniqueIds(rows),
         NEW s \in rows, \A t \in rows \ {s} : Before(t, s)
  PROVE  s = Newest(rows) /\ NewestId(rows) = s.id
  <1>1. Newest(rows) \in rows /\ \A t \in rows \ {Newest(rows)} : Before(t, Newest(rows))
    BY NewestIs
  <1>2. s = Newest(rows)
    <2> DEFINE m == Newest(rows)
    <2>1. m \in rows /\ (s # m => Before(s, m) /\ Before(m, s))
      BY <1>1
    <2> HIDE DEF m
    <2>2. Of(s).ts \in Nat /\ Of(m).ts \in Nat /\ s.id \in Nat /\ m.id \in Nat
      BY <2>1, RowTyped
    <2>3. s = m
      BY <2>1, <2>2 DEF Before
    <2> QED
      BY <2>3 DEF m
  <1> QED
    BY <1>2 DEF NewestId

\* The rows of a group that a request for pages is about.
Asked(q, g) == IF q.non2xx THEN InGroup(snaps, g) ELSE {s \in InGroup(snaps, g) : IsOk(s)}

\* The table of pages and the window functions show the same row of a clean group.
LEMMA FastIsSlow ==
  ASSUME TypeInv, PagesFit, PointersOwn, NEW q \in Queries, Fast(q),
         NEW s \in snaps, Of(s).group \in CleanGroups
  PROVE  s \in FastRows(q) <=> s \in SlowItems(q)
  <1> DEFINE g == Of(s).group
             asked == Asked(q, g)
  <1>1. snaps \subseteq Rows /\ UniqueIds(snaps) /\ DOMAIN pages \subseteq Groups
    BY TypeParts DEF PagesBelow
  <1>2. /\ InGroup(snaps, g) \subseteq Rows /\ UniqueIds(InGroup(snaps, g)) /\ s \in InGroup(snaps, g)
        /\ g \in Groups \ pagesBehind /\ \A t \in InGroup(snaps, g) : ~t.dedup
    <2>1. InGroup(snaps, g) \subseteq Rows /\ UniqueIds(InGroup(snaps, g))
      BY <1>1, GroupRows
    <2>2. s \in InGroup(snaps, g)
      BY DEF InGroup
    <2>3. g \in Groups \ pagesBehind /\ \A t \in InGroup(snaps, g) : ~t.dedup
      BY DEF CleanGroups
    <2> QED
      BY <2>1, <2>2, <2>3
  <1>3. /\ asked \subseteq Rows /\ UniqueIds(asked) /\ asked \subseteq InGroup(snaps, g)
    BY <1>2 DEF Asked, UniqueIds
  <1>4. g \in DOMAIN pages /\ (IF q.non2xx THEN pages[g].latest ELSE pages[g].latestOk) = NewestId(asked)
    <2>1. g \in DOMAIN pages /\ pages[g] = PageOf(InGroup(snaps, g))
      BY <1>2 DEF PagesFit
    <2>2. /\ pages[g].latest = NewestId(InGroup(snaps, g))
          /\ pages[g].latestOk = NewestId({t \in InGroup(snaps, g) : IsOk(t)})
      BY <2>1 DEF PageOf
    <2> QED
      BY <2>1, <2>2 DEF Asked
  <1>5. Matching(q) = {t \in snaps : (q.dups \/ ~t.dedup) /\ (q.non2xx \/ IsOk(t))}
    BY DEF Fast, Matching, Searchable, InRange
  <1>6. InGroup(Matching(q), g) = asked
    BY <1>2, <1>5 DEF InGroup, Asked
  <1>7. \A t : Key(q, t) = <<Of(t).group>>
    BY DEF Fast, Key
  <1>8. s \in SlowItems(q) <=> s \in asked /\ \A t \in asked \ {s} : Before(t, s)
    <2>1. \A t : t \in asked <=> t \in Matching(q) /\ Of(t).group = g
      BY <1>6 DEF InGroup
    <2>2. \A t : Key(q, t) = Key(q, s) <=> Of(t).group = g
      BY <1>7
    <2> HIDE DEF asked
    <2> QED
      BY <2>1, <2>2 DEF SlowItems
  <1> HIDE DEF asked
  <1>9. s \in FastRows(q) <=> s.id = NewestId(asked)
    <2>1. ASSUME s \in FastRows(q) PROVE s.id = NewestId(asked)
      <3>1. PICK h \in DOMAIN pages : s.id = IF q.non2xx THEN pages[h].latest ELSE pages[h].latestOk
        BY <2>1 DEF FastRows
      <3>2. h = g
        BY <3>1 DEF PointersOwn
      <3> QED
        BY <1>4, <3>1, <3>2
    <2>2. ASSUME s.id = NewestId(asked) PROVE s \in FastRows(q)
      BY <1>4, <2>2 DEF FastRows
    <2> QED
      BY <2>1, <2>2
  <1>10. ASSUME s \in asked, \A t \in asked \ {s} : Before(t, s) PROVE s.id = NewestId(asked)
    BY <1>3, <1>10, NewestOnly
  <1>11. ASSUME s.id = NewestId(asked) PROVE s \in asked /\ \A t \in asked \ {s} : Before(t, s)
    <2>1. s.id \in 1 .. MaxId
      BY <1>1, RowTyped
    <2>2. asked # {}
      BY <1>3, <1>11, <2>1, NewestIdIs
    <2>3. /\ Newest(asked) \in asked /\ s.id = Newest(asked).id
          /\ \A t \in asked \ {Newest(asked)} : Before(t, Newest(asked))
      BY <1>3, <1>11, <2>2, NewestIs DEF NewestId
    <2>4. s = Newest(asked)
      BY <1>2, <1>3, <2>3 DEF UniqueIds
    <2> QED
      BY <2>3, <2>4
  <1> QED
    BY <1>8, <1>9, <1>10, <1>11

\* Browsing by the table of pages gives what the window functions give.
LEMMA BrowsingAgrees ==
  ASSUME TypeInv, PagesFit, PointersOwn
  PROVE  FastAgrees
  <1> SUFFICES ASSUME NEW q \in Queries, Fast(q)
               PROVE  {s \in FastRows(q) : Of(s).group \in CleanGroups}
                        = {s \in SlowItems(q) : Of(s).group \in CleanGroups}
    BY DEF FastAgrees
  <1>1. FastRows(q) \subseteq snaps /\ SlowItems(q) \subseteq snaps
    BY MatchingRows DEF FastRows
  <1> QED
    BY <1>1, FastIsSlow

-----------------------------------------------------------------------------
(* The search debugger.                                                              *)

\* What DebugAgrees supposes of a request.
Comparable(q) ==
    /\ q.text \in {"none", "words"} /\ q.from = 0 /\ q.to = 0 /\ (q.view = "pages" \/ q.dups)
    /\ CleanGroups = Groups
    /\ q.text = "words" => How(q) = IF ByRelevance(q) THEN "fts" ELSE "part"
    /\ \A s, t \in Items(q) :
          s # t /\ q.view = "pages" /\ ByRelevance(q) =>
              ~(Quality(s) = Quality(t) /\ Merit(q, s) = Merit(q, t))

\* The debugger looks at the same rows, and takes the same of them.
LEMMA DebuggerRows ==
  ASSUME TypeInv, NEW q \in Queries, Comparable(q)
  PROVE  /\ DebugMatching(q) = Matching(q)
         /\ \A s, t : DebugKey(q, s) = DebugKey(q, t) <=> Key(q, s) = Key(q, t)
         /\ DebugItems(q) = SlowItems(q)
  <1>1. snaps \subseteq Rows
    BY TypeParts
  <1>2. ASSUME NEW s \in snaps PROVE ~s.dedup
    <2>1. Of(s).group \in CleanGroups
      BY <1>1, RowTyped DEF Comparable
    <2>2. s \in InGroup(snaps, Of(s).group)
      BY DEF InGroup
    <2> QED
      BY <2>1, <2>2 DEF CleanGroups
  <1>3. Searchable(q) = {s \in snaps : q.non2xx \/ IsOk(s)}
    BY <1>2 DEF Searchable, InRange, Comparable
  <1>4. DebugMatching(q) = Matching(q)
    <2>1. CASE q.text = "none"
      BY <1>3, <2>1 DEF DebugMatching, Matching
    <2>2. CASE q.text = "words"
      <3>1. Matching(q) = {s \in Searchable(q) : Matches(s, q.word, How(q))}
        BY <2>2 DEF Matching, Hits
      <3>2. How(q) = IF ByRelevance(q) THEN "fts" ELSE "part"
        BY <2>2 DEF Comparable
      <3> QED
        BY <1>3, <2>2, <3>1, <3>2 DEF DebugMatching
    <2> QED
      BY <2>1, <2>2 DEF Comparable
  <1>5. ASSUME NEW s, NEW t PROVE DebugKey(q, s) = DebugKey(q, t) <=> Key(q, s) = Key(q, t)
    BY DEF DebugKey, Key, Comparable
  <1>6. DebugItems(q) = SlowItems(q)
    BY <1>4, <1>5 DEF DebugItems, SlowItems
  <1> QED
    BY <1>4, <1>5, <1>6

\* It shows what the search shows, and counts as many.
LEMMA DebuggerItems ==
  ASSUME TypeInv, PagesFit, PointersOwn, NEW q \in Queries, Comparable(q)
  PROVE  Items(q) = SlowItems(q) /\ DebugTotal(q) = Total(q)
  <1>1. Items(q) = SlowItems(q)
    <2>1. CASE Fast(q)
      <3>1. FastRows(q) \subseteq snaps /\ SlowItems(q) \subseteq snaps /\ snaps \subseteq Rows
        BY MatchingRows, TypeParts DEF FastRows
      <3>2. \A s \in snaps : Of(s).group \in CleanGroups
        BY <3>1, RowTyped DEF Comparable
      <3>3. FastRows(q) = SlowItems(q)
        BY <2>1, <3>1, <3>2, FastIsSlow
      <3> QED
        BY <2>1, <3>3 DEF Items
    <2>2. CASE ~Fast(q)
      BY <2>2 DEF Items
    <2> QED
      BY <2>1, <2>2
  <1> DEFINE keys == {DebugKey(q, s) : s \in DebugMatching(q)}
             f == [s \in SlowItems(q) |-> DebugKey(q, s)]
  <1>2. /\ Matching(q) \subseteq Rows /\ UniqueIds(Matching(q)) /\ SlowItems(q) \subseteq Matching(q)
        /\ SlowItems(q) \subseteq Rows /\ UniqueIds(SlowItems(q))
    BY MatchingRows DEF UniqueIds
  <1>3. /\ \A s \in Matching(q) : \E t \in SlowItems(q) : DebugKey(q, t) = DebugKey(q, s)
        /\ \A s, t \in SlowItems(q) : DebugKey(q, s) = DebugKey(q, t) => s = t
    BY <1>2, OnePerKey, DebuggerRows
  <1>4. DebugMatching(q) = Matching(q)
    BY DebuggerRows
  <1>5. /\ f \in [SlowItems(q) -> keys]
        /\ \A s, t \in SlowItems(q) : f[s] = f[t] => s = t
        /\ \A k \in keys : \E s \in SlowItems(q) : f[s] = k
    BY <1>2, <1>3, <1>4
  <1>6. IsFiniteSet(SlowItems(q))
    BY <1>2, RowsFinite
  <1> HIDE DEF f, keys
  <1>7. f \in Bijection(SlowItems(q), keys)
    BY <1>5 DEF Bijection, Injection, Surjection, IsInjective
  <1>8. Cardinality(keys) = Cardinality(SlowItems(q))
    BY <1>6, <1>7, FS_Bijection DEF ExistsBijection
  <1>9. Total(q) = Cardinality(Items(q))
    BY KeysAreCounted DEF Items, Total
  <1> QED
    BY <1>1, <1>8, <1>9 DEF DebugTotal, keys

\* It ranks them by the same.
LEMMA DebuggerMerit ==
  ASSUME TypeInv, NEW q \in Queries, Comparable(q), NEW s
  PROVE  DebugMerit(q, s) = Merit(q, s)
  <1>1. ~Similar(q)
    BY DEF Similar, Comparable
  <1>2. \A t : Score(q, t) = TextRank(t) + Authority(Of(t).group)
    BY <1>1 DEF Score
  <1>3. DebugMatching(q) = Matching(q)
    BY DebuggerRows
  <1>4. {TextRank(t) + Authority(Of(t).group) : t \in InGroup(DebugMatching(q), Of(s).group)}
          = {Score(q, t) : t \in InGroup(Matching(q), Of(s).group)}
    BY <1>2, <1>3
  <1> QED
    BY <1>1, <1>2, <1>4 DEF DebugMerit, Merit

\* It puts them in the same order.
LEMMA DebuggerOrder ==
  ASSUME TypeInv, NEW q \in Queries, Comparable(q), NEW s \in Items(q), NEW t \in Items(q)
  PROVE  Over(<<Quality(s), DebugMerit(q, s), Of(s).ts, s.id>>,
              <<Quality(t), DebugMerit(q, t), Of(t).ts, t.id>>)
            <=> Over(Place(q, s), Place(q, t))
  <1> DEFINE a == <<Quality(s), DebugMerit(q, s), Of(s).ts, s.id>>
             b == <<Quality(t), DebugMerit(q, t), Of(t).ts, t.id>>
             c == Place(q, s)
             d == Place(q, t)
  <1>1. DebugMerit(q, s) = Merit(q, s) /\ DebugMerit(q, t) = Merit(q, t)
    BY DebuggerMerit
  <1>2. DOMAIN a = 1 .. 4 /\ DOMAIN c = 1 .. 5
    BY DEF Place
  <1>3. /\ a[1] = Quality(s) /\ a[2] = Merit(q, s) /\ a[3] = Of(s).ts /\ a[4] = s.id
        /\ b[1] = Quality(t) /\ b[2] = Merit(q, t) /\ b[3] = Of(t).ts /\ b[4] = t.id
    BY <1>1
  <1>4. /\ c[1] = Quality(s) /\ c[2] = Merit(q, s) /\ c[3] = -Length(q, s) /\ c[4] = Of(s).ts /\ c[5] = s.id
        /\ d[1] = Quality(t) /\ d[2] = Merit(q, t) /\ d[3] = -Length(q, t) /\ d[4] = Of(t).ts /\ d[5] = t.id
    BY DEF Place
  <1> HIDE DEF a, b, c, d
  <1>5. /\ Quality(s) \in Int /\ Quality(t) \in Int /\ Merit(q, s) \in Int /\ Merit(q, t) \in Int
        /\ Of(s).ts \in Nat /\ Of(t).ts \in Nat /\ s.id \in Nat /\ t.id \in Nat
    <2>1. s \in Rows /\ t \in Rows
      BY ItemsAreRows
    <2> QED
      BY <2>1, QualityTyped, MeritTyped, RowTyped
  <1>6. CASE q.view = "pages" /\ ByRelevance(q) /\ s # t
    <2>1. a[1] # b[1] \/ a[2] # b[2]
      BY <1>3, <1>6 DEF Comparable
    <2>2. c[1] = a[1] /\ d[1] = b[1] /\ c[2] = a[2] /\ d[2] = b[2]
      BY <1>3, <1>4
    <2> QED
      BY <1>2, <2>1, <2>2, OverFour, OverFive DEF a, b, c, d
  <1>7. CASE s = t
    <2>1. a = b /\ c = d
      BY <1>7 DEF a, b, c, d
    <2>2. ~(a[1] > a[1]) /\ ~(a[2] > a[2]) /\ ~(a[3] > a[3]) /\ ~(a[4] > a[4])
      BY <1>3, <1>5
    <2>3. ~(c[1] > c[1]) /\ ~(c[2] > c[2]) /\ ~(c[3] > c[3]) /\ ~(c[4] > c[4]) /\ ~(c[5] > c[5])
      <3>1. Length(q, s) \in Int
        BY ItemsAreRows, LengthTyped
      <3> QED
        BY <1>4, <1>5, <3>1
    <2>4. ~Over(a, a) /\ ~Over(c, c)
      BY <1>2, <2>2, <2>3, OverFour, OverFive
    <2> QED
      BY <2>1, <2>4 DEF a, b, c, d
  <1>8. CASE ~(q.view = "pages" /\ ByRelevance(q))
    <2>1. Length(q, s) = 0 /\ Length(q, t) = 0
      BY <1>8 DEF Length
    <2>2. c[3] = d[3] /\ ~(c[3] > d[3])
      BY <1>4, <2>1
    <2>3. Over(c, d) <=>
            \/ a[1] > b[1]
            \/ a[1] = b[1] /\ a[2] > b[2]
            \/ a[1] = b[1] /\ a[2] = b[2] /\ a[3] > b[3]
            \/ a[1] = b[1] /\ a[2] = b[2] /\ a[3] = b[3] /\ a[4] > b[4]
      BY <1>2, <1>3, <1>4, <2>2, OverFive
    <2> QED
      BY <1>2, <2>3, OverFour DEF a, b, c, d
  <1> QED
    BY <1>6, <1>7, <1>8

\* Where the order is the same, so are the pages.
LEMMA SameSlices ==
  ASSUME NEW S, NEW p, DOMAIN p = S, NEW o, DOMAIN o = S,
         \A s, t \in S : Over(p[s], p[t]) <=> Over(o[s], o[t]), NEW k
  PROVE  Slice(p, k) = Slice(o, k)
  <1>1. ASSUME NEW s \in S
        PROVE  {t \in S : Over(p[t], p[s])} = {t \in S : Over(o[t], o[s])}
    OBVIOUS
  <1>2. ASSUME NEW s \in S
        PROVE  Cardinality({t \in S : Over(p[t], p[s])}) = Cardinality({t \in S : Over(o[t], o[s])})
    BY <1>1
  <1>3. ASSUME NEW s PROVE s \in Slice(p, k) <=> s \in Slice(o, k)
    BY <1>2 DEF Slice
  <1>4. Slice(p, k) \subseteq S /\ Slice(o, k) \subseteq S
    BY DEF Slice
  <1> QED
    BY <1>3, <1>4

\* The debugger shows the ordering of the search.
LEMMA DebuggerAgrees ==
  ASSUME TypeInv, PagesFit, PointersOwn
  PROVE  DebugAgrees
  <1>1. ASSUME NEW q \in Queries, Comparable(q)
        PROVE  /\ DebugTotal(q) = Total(q)
               /\ \A k \in 1 .. Cardinality(Captures) : DebugPage(q, k) = Page(q, k)
    <2> DEFINE o == [s \in DebugItems(q) |-> <<Quality(s), DebugMerit(q, s), Of(s).ts, s.id>>]
    <2>1. DebugItems(q) = Items(q) /\ DebugTotal(q) = Total(q)
      BY <1>1, DebuggerItems, DebuggerRows
    <2>2. \A s, t \in Items(q) : Over(o[s], o[t]) <=> Over(Places(q)[s], Places(q)[t])
      BY <1>1, <2>1, DebuggerOrder DEF Places
    <2>3. DOMAIN o = Items(q) /\ DOMAIN Places(q) = Items(q)
      BY <2>1 DEF Places
    <2>4. \A k : DebugPage(q, k) = Slice(o, k) /\ Page(q, k) = Slice(Places(q), k)
      BY DEF DebugPage, Page
    <2> HIDE DEF o
    <2>5. ASSUME NEW k PROVE Slice(o, k) = Slice(Places(q), k)
      BY <2>2, <2>3, SameSlices
    <2> QED
      BY <2>1, <2>4, <2>5
  <1> QED
    BY <1>1 DEF DebugAgrees, Comparable

-----------------------------------------------------------------------------
(* Exports.                                                                          *)

\* The rows after an id.
After(i) == {s \in snaps : s.id > i}

\* One export is empty only at the end, and otherwise a start of the rest.
LEMMA ExportIs ==
  ASSUME TypeInv, NEW i \in 0 .. MaxId
  PROVE  /\ Export(i) = {} <=> After(i) = {}
         /\ Export(i) # {} =>
                LET m == Max(Ids(Export(i)))
                IN  m \in i + 1 .. MaxId /\ After(i) = Export(i) \cup After(m)
  <1> DEFINE rest == After(i)
             before(s) == {t \in rest : t.id < s.id}
  <1>1. snaps \subseteq Rows /\ UniqueIds(snaps) /\ ExportLimit \in Nat \ {0}
    BY TypeParts, PublicApiAssumption
  <1>2. rest \subseteq Rows /\ UniqueIds(rest) /\ IsFiniteSet(rest)
    BY <1>1, RowsFinite DEF After, UniqueIds
  <1>3. Export(i) = {s \in rest : Cardinality(before(s)) < ExportLimit}
    BY DEF Export, After
  <1>4. ASSUME NEW s \in rest PROVE s.id \in Nat /\ s.id \in i + 1 .. MaxId
    BY <1>2, RowTyped, BoundsAssumption DEF After
  <1>5. ASSUME NEW s \in rest, NEW t \in rest, t.id <= s.id
        PROVE  /\ IsFiniteSet(before(s)) /\ Cardinality(before(s)) \in Nat /\ Cardinality(before(t)) \in Nat
               /\ Cardinality(before(t)) <= Cardinality(before(s))
    <2>1. before(s) \in SUBSET rest /\ before(t) \in SUBSET before(s)
      BY <1>4, <1>5
    <2>2. IsFiniteSet(before(s)) /\ Cardinality(before(s)) \in Nat
      BY <1>2, <2>1, FS_Subset, FS_CardinalityType
    <2> QED
      BY <2>1, <2>2, FS_Subset, FS_CardinalityType
  <1>6. ASSUME rest # {} PROVE Export(i) # {}
    <2> DEFINE ids == {s.id : s \in rest}
    <2>1. ids \subseteq Nat /\ ids # {}
      BY <1>4, <1>6
    <2>2. PICK m \in ids : \A n \in ids : m <= n
      BY <2>1, LeastExists
    <2>3. PICK s \in rest : s.id = m
      BY <2>2
    <2>4. before(s) = {}
      <3>1. ASSUME NEW t \in rest, t.id < s.id PROVE FALSE
        <4>1. m <= t.id /\ t.id \in Nat /\ s.id \in Nat
          BY <1>4, <2>2
        <4> QED
          BY <2>3, <3>1, <4>1
      <3> QED
        BY <3>1
    <2>5. Cardinality(before(s)) = 0
      BY <2>4, FS_EmptySet
    <2> QED
      BY <1>1, <1>3, <2>3, <2>5
  <1>7. ASSUME Export(i) # {}
        PROVE  LET m == Max(Ids(Export(i)))
               IN  m \in i + 1 .. MaxId /\ rest = Export(i) \cup After(m)
    <2> DEFINE ids == Ids(Export(i))
               m == Max(ids)
    <2>1. Export(i) \subseteq rest
      BY <1>3
    <2>2. ids \subseteq i + 1 .. MaxId /\ ids # {}
      BY <1>4, <1>7, <2>1 DEF Ids
    <2>3. IsFiniteSet(ids) /\ ids \subseteq Int
      <3>1. IsFiniteSet(i + 1 .. MaxId) /\ i + 1 .. MaxId \subseteq Int
        BY BoundsAssumption, FS_Interval
      <3> QED
        BY <2>2, <3>1, FS_Subset
    <2> HIDE DEF ids
    <2>4. m \in ids /\ \A n \in ids : n <= m
      BY <2>2, <2>3, MaxIs
    <2>5. m \in i + 1 .. MaxId
      BY <2>2, <2>4
    <2>6. PICK s \in Export(i) : s.id = m
      BY <2>4 DEF ids, Ids
    <2>7. ASSUME NEW t \in rest, t.id <= m PROVE t \in Export(i)
      <3>1. s \in rest
        BY <2>1
      <3>2. Cardinality(before(s)) < ExportLimit
        BY <1>3
      <3>3. /\ Cardinality(before(s)) \in Nat /\ Cardinality(before(t)) \in Nat
            /\ Cardinality(before(t)) <= Cardinality(before(s))
        BY <1>5, <2>6, <2>7, <3>1
      <3>4. Cardinality(before(t)) < ExportLimit
        BY <1>1, <3>2, <3>3
      <3> QED
        BY <1>3, <3>4
    <2>8. After(m) \subseteq rest
      <3> SUFFICES ASSUME NEW t \in snaps, t.id > m PROVE t.id > i
        BY DEF After
      <3>1. t.id \in Nat
        BY <1>1, RowTyped
      <3> QED
        BY <2>5, <3>1
    <2>9. ASSUME NEW t \in rest, t \notin Export(i) PROVE t \in After(m)
      <3>1. t.id \in Nat /\ ~(t.id <= m)
        BY <1>4, <2>7, <2>9
      <3> QED
        BY <2>5, <3>1 DEF After
    <2> HIDE DEF m, rest
    <2>10. rest = Export(i) \cup After(m)
      BY <2>1, <2>8, <2>9
    <2> QED
      BY <2>5, <2>10 DEF m, ids
  <1> QED
    BY <1>3, <1>6, <1>7

\* An export that is followed to its end has every snapshot.
LEMMA ExportsAll ==
  ASSUME TypeInv
  PROVE  Exported = snaps
  <1> DEFINE Step(f) == [after \in 0 .. MaxId |->
                            IF Export(after) = {} THEN {}
                            ELSE Export(after) \cup f[Max(Ids(Export(after)))]]
             whole == [after \in 0 .. MaxId |-> After(after)]
             from == CHOOSE f : f = Step(f)
  <1>1. Exported = from[0]
    BY DEF Exported
  <1>2. ASSUME NEW f, NEW i \in 0 .. MaxId
        PROVE  Step(f)[i] = IF Export(i) = {} THEN {} ELSE Export(i) \cup f[Max(Ids(Export(i)))]
    OBVIOUS
  <1>3. whole = Step(whole)
    <2>1. ASSUME NEW i \in 0 .. MaxId PROVE whole[i] = Step(whole)[i]
      <3>1. CASE Export(i) = {}
        BY <3>1, ExportIs
      <3>2. CASE Export(i) # {}
        <4> DEFINE m == Max(Ids(Export(i)))
        <4>1. m \in i + 1 .. MaxId /\ After(i) = Export(i) \cup After(m)
          BY <3>2, ExportIs
        <4> HIDE DEF m
        <4>2. m \in 0 .. MaxId
          BY <4>1
        <4>3. whole[m] = After(m) /\ whole[i] = After(i)
          BY <4>2
        <4>4. Step(whole)[i] = Export(i) \cup whole[m]
          BY <1>2, <3>2 DEF m
        <4> QED
          BY <4>1, <4>3, <4>4
      <3> QED
        BY <3>1, <3>2
    <2>2. DOMAIN whole = 0 .. MaxId /\ DOMAIN Step(whole) = 0 .. MaxId
      OBVIOUS
    <2>3. whole = [i \in 0 .. MaxId |-> whole[i]] /\ Step(whole) = [i \in 0 .. MaxId |-> Step(whole)[i]]
      OBVIOUS
    <2> HIDE DEF whole, Step
    <2> QED
      BY <2>1, <2>3
  <1>4. from = Step(from)
    <2> HIDE DEF whole, Step
    <2> QED
      BY <1>3
  <1> HIDE DEF from, whole
  <1>5. ASSUME NEW i \in 0 .. MaxId
        PROVE  from[i] = IF Export(i) = {} THEN {} ELSE Export(i) \cup from[Max(Ids(Export(i)))]
    BY <1>2, <1>4
  <1>6. 0 \in 0 .. MaxId /\ MaxId \in Nat
    BY BoundsAssumption
  <1>7. ASSUME NEW i \in 0 .. MaxId, from[i] # After(i) PROVE FALSE
    <2> DEFINE wrong == {k \in 0 .. MaxId : from[k] # After(k)}
               left == {MaxId - k : k \in wrong}
    <2>1. left \subseteq Nat /\ left # {}
      BY <1>6, <1>7
    <2>2. PICK l \in left : \A n \in left : l <= n
      BY <2>1, LeastExists
    <2>3. PICK k \in wrong : l = MaxId - k
      BY <2>2
    <2>4. Export(k) # {}
      BY <1>5, <2>3, ExportIs
    <2> DEFINE m == Max(Ids(Export(k)))
    <2>5. m \in k + 1 .. MaxId /\ After(k) = Export(k) \cup After(m)
      BY <2>3, <2>4, ExportIs
    <2>6. from[k] = Export(k) \cup from[m]
      BY <1>5, <2>3, <2>4
    <2> HIDE DEF m
    <2>7. m \in 0 .. MaxId /\ MaxId - m < MaxId - k
      BY <1>6, <2>3, <2>5
    <2>8. m \notin wrong
      <3>1. ASSUME m \in wrong PROVE FALSE
        <4>1. l <= MaxId - m
          BY <2>2, <3>1
        <4> QED
          BY <1>6, <2>3, <2>7, <4>1
      <3> QED
        BY <3>1
    <2> QED
      BY <2>3, <2>5, <2>6, <2>7, <2>8
  <1>8. After(0) = snaps
    <2>1. \A s \in snaps : s.id \in 1 .. MaxId
      BY TypeParts, RowTyped
    <2> QED
      BY <1>6, <2>1 DEF After
  <1> QED
    BY <1>1, <1>6, <1>7, <1>8
-----------------------------------------------------------------------------
(* All of them.                                                                      *)

\* Two requests that answer the same question agree: the pages of a search with its total,
\* browsing by either way, search and its debugger, the counts of /stats with the pages and
\* with an export followed to its end, the newest capture of a page, the entry of a source
\* with those of its editions, and the entry of an edition with what its URL resolves to.
THEOREM RequestsAgree == Spec => []ReadsAgree
  <1>1. TypeInv /\ PagesFit /\ PointersOwn => ReadsAgree
    <2> SUFFICES ASSUME TypeInv, PagesFit, PointersOwn PROVE ReadsAgree
      OBVIOUS
    <2>1. PagesAddUp /\ FastAgrees /\ DebugAgrees
      BY PagesSum, BrowsingAgrees, DebuggerAgrees
    <2>2. pagesBehind = {} => PagesTotal = Cardinality(DOMAIN pages)
      BY LatestAgrees
    <2>3. Exported = snaps /\ Cardinality(Exported) = SnapshotsTotal
      BY ExportsAll DEF SnapshotsTotal
    <2>4. \A s \in snaps : Of(s).group \notin pagesBehind => LatestId(s) = pages[Of(s).group].latest
      BY LatestAgrees
    <2>5. \A g \in GroupsOf(snaps) :
            SourceEntry(g) = BestId({s \in InGroup(snaps, g) : \E j \in Jobs : EditionEntry(j, g) = s.id})
      BY EntriesAgree
    <2>6. EntriesResolve
      BY ResolvesToEntry
    <2> QED
      BY <2>1, <2>2, <2>3, <2>4, <2>5, <2>6 DEF ReadsAgree
  <1> QED
    BY <1>1, AlwaysFit, PTL

=============================================================================
