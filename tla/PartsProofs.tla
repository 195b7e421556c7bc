----------------------------- MODULE PartsProofs -----------------------------
(***************************************************************************)
(* Proofs about what the archive tells its user, and about its snapshots.   *)
(* Reader: for any conversations, transcripts, limits and number of         *)
(* imports.  Calendar: for any days, requests, moods, score models and      *)
(* number of writes.  Backup: for any processes, retention, clock and       *)
(* number of operations and faults.                                        *)
(***************************************************************************)
EXTENDS Reader, Calendar, Backup, FiniteSetTheorems, FunctionTheorems, WellFoundedInduction, TLAPS

(* What a reader is shown (Reader).                                        *)

-----------------------------------------------------------------------------
(* Orders.                                                                 *)

\* Some number of a set of them is the least.
LEMMA LeastOf ==
  ASSUME NEW D, D \subseteq Nat, D # {}
  PROVE  \E m \in D : \A i \in D : m <= i
<1>1. PICK m \in D : \A i \in D : ~(<<i, m>> \in OpToRel(<, Nat))
  BY NatLessThanWellFounded, WFMin
<1>2. \A i \in D : ~(i < m)
  BY <1>1 DEF OpToRel
<1> QED
  BY <1>2

\* Keys of one length are ordered, strictly and totally.
LEMMA LessOrders ==
  ASSUME NEW n \in Nat, NEW a \in [1 .. n -> Int], NEW b \in [1 .. n -> Int]
  PROVE  /\ ~Less(a, a)
         /\ Less(a, b) => ~Less(b, a)
         /\ a # b => Less(a, b) \/ Less(b, a)
<1>1. ~Less(a, a)
  BY DEF Less
<1>2. ASSUME Less(a, b), Less(b, a) PROVE FALSE
  <2>1. PICK i \in 1 .. n : a[i] < b[i] /\ \A j \in 1 .. i - 1 : a[j] = b[j]
    BY <1>2 DEF Less
  <2>2. PICK k \in 1 .. n : b[k] < a[k] /\ \A j \in 1 .. k - 1 : b[j] = a[j]
    BY <1>2 DEF Less
  <2>3. i < k \/ i = k \/ k < i
    BY <2>1, <2>2
  <2> QED
    BY <2>1, <2>2, <2>3
<1>3. ASSUME a # b PROVE Less(a, b) \/ Less(b, a)
  <2> DEFINE D == {i \in 1 .. n : a[i] # b[i]}
  <2>1. D # {}
    BY <1>3
  <2>2. D \subseteq Nat
    OBVIOUS
  <2>3. PICK m \in D : \A i \in D : m <= i
    BY <2>1, <2>2, LeastOf
  <2>4. m \in 1 .. n /\ a[m] # b[m] /\ \A j \in 1 .. m - 1 : a[j] = b[j]
    <3>1. ASSUME NEW j \in 1 .. m - 1 PROVE a[j] = b[j]
      <4>1. j \in 1 .. n /\ j < m
        BY <2>3
      <4> QED
        BY <2>3, <4>1
    <3> QED
      BY <2>3, <3>1
  <2>5. a[m] \in Int /\ b[m] \in Int
    BY <2>4
  <2>6. DOMAIN a = 1 .. n /\ DOMAIN b = 1 .. n
    OBVIOUS
  <2>7. CASE a[m] < b[m]
    BY <2>4, <2>6, <2>7 DEF Less
  <2>8. CASE b[m] < a[m]
    <3>1. \A j \in 1 .. m - 1 : b[j] = a[j]
      BY <2>4
    <3> QED
      BY <2>4, <2>6, <2>8, <3>1 DEF Less
  <2> QED
    BY <2>4, <2>5, <2>7, <2>8
<1> QED
  BY <1>1, <1>2, <1>3

LEMMA LessTransitive ==
  ASSUME NEW n \in Nat, NEW a \in [1 .. n -> Int], NEW b \in [1 .. n -> Int],
         NEW c \in [1 .. n -> Int], Less(a, b), Less(b, c)
  PROVE  Less(a, c)
<1>1. PICK i \in 1 .. n : a[i] < b[i] /\ \A j \in 1 .. i - 1 : a[j] = b[j]
  BY DEF Less
<1>2. PICK k \in 1 .. n : b[k] < c[k] /\ \A j \in 1 .. k - 1 : b[j] = c[j]
  BY DEF Less
<1>3. DOMAIN a = 1 .. n
  OBVIOUS
<1>4. CASE i < k
  <2>1. a[i] < c[i] /\ \A j \in 1 .. i - 1 : a[j] = c[j]
    BY <1>1, <1>2, <1>4
  <2> QED
    BY <1>3, <2>1 DEF Less
<1>5. CASE k < i
  <2>1. a[k] < c[k] /\ \A j \in 1 .. k - 1 : a[j] = c[j]
    BY <1>1, <1>2, <1>5
  <2> QED
    BY <1>3, <2>1 DEF Less
<1>6. CASE i = k
  <2>1. a[i] < c[i] /\ \A j \in 1 .. i - 1 : a[j] = c[j]
    BY <1>1, <1>2, <1>6
  <2> QED
    BY <1>3, <2>1 DEF Less
<1> QED
  BY <1>1, <1>2, <1>4, <1>5, <1>6

\* Entries that can be ordered: finitely many, whose keys are of one length and
\* tell them apart.
Keyed(E, n) ==
  /\ IsFiniteSet(E) /\ n \in Nat
  /\ \A e \in E : e.key \in [1 .. n -> Int]
  /\ \A e, f \in E : e.key = f.key => e = f

LEMMA Smaller ==
  ASSUME NEW S, IsFiniteSet(S), NEW T, T \subseteq S, T # S
  PROVE  /\ IsFiniteSet(T) /\ Cardinality(T) \in Nat /\ Cardinality(S) \in Nat
         /\ Cardinality(T) < Cardinality(S)
<1>1. T \in SUBSET S
  OBVIOUS
<1>2. IsFiniteSet(T) /\ Cardinality(T) <= Cardinality(S) /\ (Cardinality(S) = Cardinality(T) => S = T)
  BY <1>1, FS_Subset
<1>3. Cardinality(T) \in Nat /\ Cardinality(S) \in Nat
  BY <1>2, FS_CardinalityType
<1> QED
  BY <1>2, <1>3

LEMMA Image ==
  ASSUME NEW f, IsFiniteSet(DOMAIN f)
  PROVE  IsFiniteSet({f[x] : x \in DOMAIN f})
<1>1. PICK S : S = {f[x] : x \in DOMAIN f}
  OBVIOUS
<1>2. PICK g : g = [x \in DOMAIN f |-> f[x]]
  OBVIOUS
<1>3. g \in [DOMAIN f -> S] /\ \A y \in S : \E x \in DOMAIN f : g[x] = y
  BY <1>1, <1>2
<1>4. g \in Surjection(DOMAIN f, S)
  BY <1>3, Fun_IsSurj
<1> QED
  BY <1>1, <1>4, FS_Surjection

\* The least of finitely many numbers: the one that none comes before.
LEMMA LeastInt ==
  ASSUME NEW S, IsFiniteSet(S), S \subseteq Int, S # {}
  PROVE  Min(S) \in S /\ \A y \in S : Min(S) <= y
<1> DEFINE below(x) == {y \in S : y < x}
           D == {Cardinality(below(x)) : x \in S}
<1>1. \A x \in S : IsFiniteSet(below(x)) /\ Cardinality(below(x)) \in Nat
  <2> SUFFICES ASSUME NEW x \in S PROVE IsFiniteSet(below(x)) /\ Cardinality(below(x)) \in Nat
    OBVIOUS
  <2>1. below(x) \in SUBSET S
    OBVIOUS
  <2>2. IsFiniteSet(below(x))
    BY <2>1, FS_Subset
  <2> QED
    BY <2>2, FS_CardinalityType
<1>2. PICK m \in D : \A i \in D : m <= i
  <2>1. D \subseteq Nat /\ D # {}
    BY <1>1
  <2> QED
    BY <2>1, LeastOf
<1>3. PICK x \in S : m = Cardinality(below(x))
  BY <1>2
<1>4. ASSUME NEW y \in S, y < x PROVE FALSE
  <2>1. below(y) \subseteq below(x)
    <3> SUFFICES ASSUME NEW z \in S, z < y PROVE z < x
      OBVIOUS
    <3>1. x \in Int /\ y \in Int /\ z \in Int
      OBVIOUS
    <3> QED
      BY <1>4, <3>1
  <2>2. y \in below(x) /\ y \notin below(y)
    BY <1>4
  <2>3. IsFiniteSet(below(x)) /\ below(y) # below(x) /\ Cardinality(below(y)) \in D
    BY <1>1, <2>2
  <2>4. m <= Cardinality(below(y)) /\ Cardinality(below(y)) \in Nat
    BY <1>1, <1>2, <2>3
  <2> HIDE DEF below
  <2>5. Cardinality(below(y)) < Cardinality(below(x)) /\ Cardinality(below(x)) \in Nat
    BY <2>1, <2>3, Smaller
  <2> QED
    BY <1>3, <2>4, <2>5
<1>5. \A y \in S : x <= y
  BY <1>4
<1> QED
  BY <1>5 DEF Min

LEMMA GreatestInt ==
  ASSUME NEW S, IsFiniteSet(S), S \subseteq Int, S # {}
  PROVE  Max(S) \in S /\ \A y \in S : y <= Max(S)
<1>1. PICK f : f = [x \in S |-> -x]
  OBVIOUS
<1>2. PICK T : T = {f[x] : x \in DOMAIN f}
  OBVIOUS
<1>3. IsFiniteSet(T) /\ T \subseteq Int /\ T # {}
  <2>1. DOMAIN f = S /\ \A x \in S : f[x] \in Int
    BY <1>1
  <2>2. IsFiniteSet({f[x] : x \in DOMAIN f})
    BY <2>1, Image
  <2> QED
    BY <1>2, <2>1, <2>2
<1>4. PICK m \in T : \A y \in T : m <= y
  BY <1>3, LeastInt
<1>5. PICK x \in S : m = -x
  BY <1>1, <1>2, <1>4
<1>6. \A y \in S : y <= x
  <2> SUFFICES ASSUME NEW y \in S PROVE y <= x
    OBVIOUS
  <2>1. m <= -y /\ x \in Int /\ y \in Int
    BY <1>1, <1>2, <1>4
  <2> QED
    BY <1>5, <2>1
<1> QED
  BY <1>6 DEF Max

\* R orders E strictly and totally.
Orders(R, E) ==
  /\ \A e \in E : <<e, e>> \notin R
  /\ \A e, f \in E : e = f \/ <<e, f>> \in R \/ <<f, e>> \in R
  /\ \A e, f, g \in E : <<e, f>> \in R /\ <<f, g>> \in R => <<e, g>> \in R

ByRank(s, E, R) ==
  s = [i \in 1 .. Cardinality(E) |-> CHOOSE e \in E : Cardinality({x \in E : <<x, e>> \in R}) = i - 1]

\* Ranks put a finite set in order, and leave nothing out.
LEMMA RanksAre ==
  ASSUME NEW E, IsFiniteSet(E), NEW R, Orders(R, E), NEW s, ByRank(s, E, R)
  PROVE  /\ Cardinality(E) \in Nat
         /\ s \in [1 .. Cardinality(E) -> E]
         /\ \A e \in E : \E i \in 1 .. Cardinality(E) : s[i] = e
         /\ \A i, j \in 1 .. Cardinality(E) : i < j <=> <<s[i], s[j]>> \in R
<1> DEFINE before(e) == {x \in E : <<x, e>> \in R}
           rank == [e \in E |-> Cardinality(before(e)) + 1]
           c == Cardinality(E)
<1>1. c \in Nat
  BY FS_CardinalityType
<1>2. ASSUME NEW e \in E PROVE IsFiniteSet(before(e)) /\ Cardinality(before(e)) \in Nat /\ Cardinality(before(e)) < c
  <2>1. before(e) \subseteq E /\ before(e) # E
    BY DEF Orders
  <2> QED
    BY <2>1, Smaller
<1>3. \A e \in E : rank[e] = Cardinality(before(e)) + 1
  OBVIOUS
<1>4. ASSUME NEW e \in E PROVE rank[e] \in 1 .. c /\ rank[e] \in Nat
  <2>1. rank[e] = Cardinality(before(e)) + 1
    BY <1>3
  <2> QED
    BY <1>1, <1>2, <2>1
<1>5. ASSUME NEW e \in E, NEW f \in E, <<e, f>> \in R PROVE rank[e] < rank[f]
  <2>1. e \in before(f) /\ e \notin before(e)
    BY <1>5 DEF Orders
  <2>2. before(e) \subseteq before(f)
    BY <1>5 DEF Orders
  <2>3. IsFiniteSet(before(f))
    BY <1>2
  <2>4. before(e) # before(f)
    BY <2>1
  <2> HIDE DEF before
  <2>5. Cardinality(before(e)) < Cardinality(before(f))
    BY <2>2, <2>3, <2>4, Smaller
  <2> QED
    BY <1>2, <1>3, <2>5
<1>6. s = [i \in 1 .. c |-> CHOOSE e \in E : Cardinality(before(e)) = i - 1]
  BY DEF ByRank
<1>7. rank \in [E -> 1 .. c]
  BY <1>4
<1> HIDE DEF before, rank, c
<1>8. ASSUME NEW e \in E, NEW f \in E PROVE rank[e] < rank[f] <=> <<e, f>> \in R
  <2>1. e = f \/ <<e, f>> \in R \/ <<f, e>> \in R
    BY DEF Orders
  <2>2. rank[e] \in Nat /\ rank[f] \in Nat
    BY <1>4
  <2>3. e = f => <<e, f>> \notin R
    BY DEF Orders
  <2>4. <<f, e>> \in R => <<e, f>> \notin R
    BY DEF Orders
  <2>5. CASE <<e, f>> \in R
    BY <1>5, <2>5
  <2>6. CASE e = f
    BY <2>2, <2>3, <2>6
  <2>7. CASE <<f, e>> \in R
    <3>1. rank[f] < rank[e]
      BY <1>5, <2>7
    <3> QED
      BY <2>2, <2>4, <2>7, <3>1
  <2> QED
    BY <2>1, <2>5, <2>6, <2>7
<1>9. \A e, f \in E : rank[e] = rank[f] => e = f
  <2> SUFFICES ASSUME NEW e \in E, NEW f \in E, rank[e] = rank[f] PROVE e = f
    OBVIOUS
  <2>1. ~(rank[e] < rank[f]) /\ ~(rank[f] < rank[e])
    BY <1>4
  <2>2. <<e, f>> \notin R /\ <<f, e>> \notin R
    BY <1>8, <2>1
  <2> QED
    BY <2>2 DEF Orders
<1>10. rank \in Injection(E, 1 .. c)
  BY <1>7, <1>9, Fun_IsInj
<1>11. IsFiniteSet(1 .. c) /\ Cardinality(1 .. c) = c /\ Cardinality(E) = c
  <2>1. 1 \in Int /\ c \in Int
    BY <1>1
  <2> QED
    BY <1>1, <2>1, FS_Interval DEF c
<1>12. rank \in Surjection(E, 1 .. c)
  BY <1>10, <1>11, FS_Injection
<1>13. \A i \in 1 .. c : \E e \in E : rank[e] = i
  BY <1>12, Fun_SurjectionProperties
<1>14. ASSUME NEW i \in 1 .. c
       PROVE  s[i] \in E /\ rank[s[i]] = i
  <2>1. PICK o : o = CHOOSE e \in E : Cardinality(before(e)) = i - 1
    OBVIOUS
  <2>2. PICK e \in E : rank[e] = i
    BY <1>13
  <2>3. Cardinality(before(e)) = i - 1
    BY <1>2, <1>3, <2>2
  <2>4. o \in E /\ Cardinality(before(o)) = i - 1
    BY <2>1, <2>3
  <2>5. rank[o] = i
    BY <1>2, <1>3, <2>4
  <2> QED
    BY <1>6, <2>1, <2>4, <2>5
<1>15. ASSUME NEW e \in E PROVE \E i \in 1 .. c : s[i] = e
  <2>1. PICK i \in 1 .. c : i = rank[e]
    BY <1>4
  <2>2. rank[s[i]] = i /\ s[i] \in E
    BY <1>14
  <2> QED
    BY <1>9, <2>1, <2>2
<1>16. ASSUME NEW i \in 1 .. c, NEW j \in 1 .. c
       PROVE  i < j <=> <<s[i], s[j]>> \in R
  <2>1. PICK e \in E : e = s[i] /\ rank[e] = i
    BY <1>14
  <2>2. PICK f \in E : f = s[j] /\ rank[f] = j
    BY <1>14
  <2>3. rank[e] < rank[f] <=> <<e, f>> \in R
    BY <1>8
  <2> QED
    BY <2>1, <2>2, <2>3
<1>17. s \in [1 .. c -> E]
  BY <1>6, <1>14
<1> QED
  BY <1>1, <1>15, <1>16, <1>17 DEF c

LEMMA Ordering ==
  ASSUME NEW E, NEW n, Keyed(E, n)
  PROVE  /\ Cardinality(E) \in Nat
         /\ Ordered(E) \in [1 .. Cardinality(E) -> E]
         /\ \A e \in E : \E i \in 1 .. Cardinality(E) : Ordered(E)[i] = e
         /\ \A i, j \in 1 .. Cardinality(E) : i < j <=> Less(Ordered(E)[i].key, Ordered(E)[j].key)
<1>1. IsFiniteSet(E)
  BY DEF Keyed
<1>2. PICK R : R = {t \in E \X E : Less(t[1].key, t[2].key)}
  OBVIOUS
<1>3. \A e, f \in E : <<e, f>> \in R <=> Less(e.key, f.key)
  BY <1>2
<1>4. Orders(R, E)
  <2>1. \A e \in E : ~Less(e.key, e.key)
    BY LessOrders, LessTransitive DEF Keyed
  <2>2. ASSUME NEW e \in E, NEW f \in E PROVE e = f \/ Less(e.key, f.key) \/ Less(f.key, e.key)
    BY LessOrders, LessTransitive DEF Keyed
  <2>3. ASSUME NEW e \in E, NEW f \in E, NEW g \in E, Less(e.key, f.key), Less(f.key, g.key) PROVE Less(e.key, g.key)
    BY <2>3, LessOrders, LessTransitive DEF Keyed
  <2> QED
    BY <1>3, <2>1, <2>2, <2>3 DEF Orders
<1>5. PICK s : s = Ordered(E)
  OBVIOUS
<1>6. ByRank(s, E, R)
  <2> DEFINE at(i) == CHOOSE e \in E : Cardinality({x \in E : Less(x.key, e.key)}) = i - 1
             by(i) == CHOOSE e \in E : Cardinality({x \in E : <<x, e>> \in R}) = i - 1
  <2>1. \A e \in E : {x \in E : <<x, e>> \in R} = {x \in E : Less(x.key, e.key)}
    BY <1>3
  <2>2. ASSUME NEW i PROVE at(i) = by(i)
    BY <2>1
  <2>3. s = [i \in 1 .. Cardinality(E) |-> at(i)]
    BY <1>5 DEF Ordered
  <2> HIDE DEF at, by
  <2>4. s = [i \in 1 .. Cardinality(E) |-> by(i)]
    BY <2>2, <2>3
  <2> QED
    BY <2>4 DEF ByRank, by
<1>7. /\ Cardinality(E) \in Nat /\ s \in [1 .. Cardinality(E) -> E]
      /\ \A e \in E : \E i \in 1 .. Cardinality(E) : s[i] = e
      /\ \A i, j \in 1 .. Cardinality(E) : i < j <=> <<s[i], s[j]>> \in R
  BY <1>1, <1>4, <1>6, RanksAre
<1> QED
  BY <1>3, <1>5, <1>7

LEMMA OrderedOnce ==
  ASSUME NEW E, NEW n, Keyed(E, n), NEW i \in 1 .. Cardinality(E), NEW j \in 1 .. Cardinality(E),
         Ordered(E)[i] = Ordered(E)[j]
  PROVE  i = j
<1>1. Cardinality(E) \in Nat /\ Ordered(E)[i] \in E
  BY Ordering
<1>2. ~Less(Ordered(E)[i].key, Ordered(E)[i].key)
  BY <1>1, LessOrders DEF Keyed
<1>3. ~(i < j) /\ ~(j < i)
  BY <1>2, Ordering
<1> QED
  BY <1>1, <1>3

\* Rows that follow each other among the entries.
Run(rows, E) ==
  /\ rows \in Seq(E)
  /\ \A i, j \in 1 .. Len(rows) : i < j <=> Less(rows[i].key, rows[j].key)

LEMMA Least2 ==
  ASSUME NEW a \in Nat, NEW b \in Nat
  PROVE  Min({a, b}) = IF a <= b THEN a ELSE b
<1> DEFINE x == Min({a, b})
<1>1. x \in {a, b} /\ \A i \in {a, b} : x <= i
  BY DEF Min
<1> HIDE DEF x
<1>2. x = IF a <= b THEN a ELSE b
  BY <1>1
<1> QED
  BY <1>2 DEF x

LEMMA Part ==
  ASSUME NEW S, NEW s \in Seq(S), NEW m \in 1 .. Len(s) + 1, NEW n \in 0 .. Len(s), m <= n + 1
  PROVE  /\ SubSeq(s, m, n) \in Seq(S) /\ Len(SubSeq(s, m, n)) = n - m + 1
         /\ \A i \in 1 .. n - m + 1 : SubSeq(s, m, n)[i] = s[i + m - 1]
  OBVIOUS

\* A page of entries: the first of them, and whether there are more.
Paged(rows, more, R) ==
  /\ Run(rows, R) /\ more \in BOOLEAN
  /\ \A e \in R : \/ \E i \in 1 .. Len(rows) : rows[i] = e
                  \/ more /\ \A i \in 1 .. Len(rows) : Less(rows[i].key, e.key)
  /\ more => Len(rows) > 0

\* A page is one of what follows the cursor.
LEMMA PageIs ==
  ASSUME NEW view, NEW cursor, NEW n, Keyed(Entries(shelf, view), n),
         NEW rows, NEW more, rows = Page(view, cursor).rows, more = Page(view, cursor).more
  PROVE  Paged(rows, more, {e \in Entries(shelf, view) : cursor = None \/ Less(cursor, e.key)})
<1> DEFINE R == {e \in Entries(shelf, view) : cursor = None \/ Less(cursor, e.key)}
           rest == Ordered(R)
           m == Min({PageLimit, Len(rest)})
<1>1. rows = SubSeq(rest, 1, m) /\ more = (Len(rest) > PageLimit)
  BY DEF Page
<1>2. Keyed(R, n)
  <2>1. R \in SUBSET Entries(shelf, view)
    OBVIOUS
  <2> QED
    BY <2>1, FS_Subset DEF Keyed
<1> HIDE DEF R
<1>3. /\ Cardinality(R) \in Nat
      /\ rest \in [1 .. Cardinality(R) -> R]
      /\ \A e \in R : \E i \in 1 .. Cardinality(R) : rest[i] = e
      /\ \A i, j \in 1 .. Cardinality(R) : i < j <=> Less(rest[i].key, rest[j].key)
  BY <1>2, Ordering
<1> HIDE DEF rest
<1>4. rest \in Seq(R) /\ Len(rest) = Cardinality(R)
  BY <1>3
<1>5. m = IF PageLimit <= Len(rest) THEN PageLimit ELSE Len(rest)
  BY <1>3, <1>4, Least2, ReaderAssumption
<1> HIDE DEF m
<1>6. m \in 0 .. Len(rest) /\ (more => m > 0 /\ m < Len(rest)) /\ (~more => m = Len(rest)) /\ more \in BOOLEAN
  <2>1. Len(rest) \in Nat /\ PageLimit \in Nat \ {0}
    BY <1>3, <1>4, ReaderAssumption
  <2>2. more \in BOOLEAN
    BY <1>1
  <2>3. CASE Len(rest) > PageLimit
    <3>1. more
      BY <1>1, <2>3
    <3> QED
      BY <1>5, <2>1, <2>3, <3>1
  <2>4. CASE ~(Len(rest) > PageLimit)
    <3>1. ~more
      BY <1>1, <2>4
    <3>2. m = Len(rest) /\ m \in 0 .. Len(rest)
      BY <1>5, <2>1, <2>4
    <3> QED
      BY <2>2, <3>1, <3>2
  <2> QED
    BY <2>3, <2>4
<1>7. rows \in Seq(R) /\ Len(rows) = m /\ \A i \in 1 .. m : rows[i] = rest[i]
  <2>1. 1 \in 1 .. Len(rest) + 1 /\ 1 <= m + 1
    BY <1>3, <1>4, <1>6
  <2>2. /\ SubSeq(rest, 1, m) \in Seq(R) /\ Len(SubSeq(rest, 1, m)) = m - 1 + 1
        /\ \A i \in 1 .. m - 1 + 1 : SubSeq(rest, 1, m)[i] = rest[i + 1 - 1]
    BY <1>4, <1>6, <2>1, Part
  <2> QED
    BY <1>1, <1>3, <1>4, <1>6, <2>2
<1>8. Run(rows, R)
  <2>1. \A i, j \in 1 .. m : i < j <=> Less(rest[i].key, rest[j].key)
    BY <1>3, <1>4, <1>6
  <2> QED
    BY <1>7, <2>1 DEF Run
<1>9. ASSUME NEW e \in R
      PROVE  (\E i \in 1 .. m : rows[i] = e) \/ (more /\ \A i \in 1 .. m : Less(rows[i].key, e.key))
  <2>1. PICK k \in 1 .. Len(rest) : rest[k] = e
    BY <1>3, <1>4
  <2>2. CASE k <= m
    BY <1>6, <1>7, <2>1, <2>2
  <2>3. CASE m < k
    <3>1. more
      BY <1>6, <2>1, <2>3
    <3>2. \A i \in 1 .. m : i < k /\ i \in 1 .. Cardinality(R) /\ k \in 1 .. Cardinality(R)
      BY <1>3, <1>4, <1>6, <2>1, <2>3
    <3>3. \A i \in 1 .. m : Less(rest[i].key, e.key)
      BY <1>3, <2>1, <3>2
    <3> QED
      BY <1>7, <3>1, <3>3
  <2> QED
    BY <1>6, <2>1, <2>2, <2>3
<1>10. Paged(rows, more, R)
  BY <1>6, <1>7, <1>8, <1>9 DEF Paged
<1> QED
  BY <1>10 DEF R

-----------------------------------------------------------------------------
(* The shelf.                                                              *)

View == [kind : {"messages", "files", "links"}, threads : SUBSET Thread, asc : BOOLEAN]

Posts(thread) == UNION {ToSet(posts) : posts \in Content[thread]}

\* A table's rows: finitely many, each of a conversation and a post of it.
Rowed(table) ==
  /\ IsFiniteSet(DOMAIN table) /\ DOMAIN table \subseteq Nat \ {0}
  /\ \A id \in DOMAIN table : table[id].thread \in Thread /\ table[id].post \in Posts(table[id].thread)

ShelfOK(d) ==
  /\ Rowed(d.messages) /\ Rowed(d.files)
  /\ \A i, j \in DOMAIN d.messages : d.messages[i].post = d.messages[j].post => i = j
  /\ \A i, j \in DOMAIN d.files :
       d.files[i].post = d.files[j].post /\ d.files[i].n = d.files[j].n => i = j

Length(view) == IF view.kind = "links" THEN 4 ELSE 2

\* What a view lists has keys, and no item twice.
Listing(E, view) ==
  /\ Keyed(E, Length(view))
  /\ \A e, f \in E : e.item = f.item => e = f
  /\ \A e \in E : e.plain = IF view.kind = "links" THEN e.key ELSE <<e.key[1]>>

LEMMA PostIs ==
  ASSUME NEW thread \in Thread, NEW p \in Posts(thread)
  PROVE  /\ p.ts \in Int /\ p.files \in Nat
         /\ p.url # None => /\ p.url = [domain |-> p.url.domain, path |-> p.url.path]
                            /\ p.url.domain \in Int /\ p.url.path \in Int
<1>1. PICK posts \in Content[thread] : p \in ToSet(posts)
  BY DEF Posts
<1>2. PICK i \in DOMAIN posts : p = posts[i]
  BY <1>1 DEF ToSet
<1> QED
  BY <1>2, ContentAssumption

LEMMA TimedListed ==
  ASSUME NEW rows, Rowed(rows), NEW view \in View, view.kind # "links",
         \A i, j \in DOMAIN rows : rows[i].post = rows[j].post /\ (view.kind = "files" => rows[i].n = rows[j].n) => i = j
  PROVE  Listing(Timed(rows, view), view)
<1> DEFINE dir == IF view.asc THEN 1 ELSE -1
           entry(id) == [key |-> <<dir * rows[id].post.ts, dir * id>>, plain |-> <<dir * rows[id].post.ts>>,
                         item |-> IF view.kind = "files" THEN <<rows[id].post, rows[id].n>> ELSE rows[id].post,
                         id |-> id]
           ids == {i \in DOMAIN rows : rows[i].thread \in view.threads}
<1>1. Timed(rows, view) = {entry(id) : id \in ids}
  BY DEF Timed
<1>2. dir \in {1, -1}
  OBVIOUS
<1> HIDE DEF dir
<1>3. ASSUME NEW id \in ids
      PROVE  entry(id).key \in [1 .. 2 -> Int] /\ entry(id).plain = <<entry(id).key[1]>>
  <2>1. rows[id].post.ts \in Int /\ id \in Int
    <3>1. id \in DOMAIN rows
      OBVIOUS
    <3>2. rows[id].thread \in Thread /\ rows[id].post \in Posts(rows[id].thread) /\ id \in Nat
      BY <3>1 DEF Rowed
    <3>3. PICK thread \in Thread : thread = rows[id].thread
      BY <3>2
    <3>4. PICK p \in Posts(thread) : p = rows[id].post
      BY <3>2, <3>3
    <3>5. p.ts \in Int
      BY PostIs
    <3> QED
      BY <3>2, <3>4, <3>5
  <2>2. dir * rows[id].post.ts \in Int /\ dir * id \in Int
    BY <1>2, <2>1
  <2> QED
    BY <2>2
<1>4. ASSUME NEW i \in ids, NEW j \in ids, entry(i).key = entry(j).key PROVE i = j
  <2>1. dir * i = dir * j /\ i \in Int /\ j \in Int
    BY <1>4 DEF Rowed
  <2> QED
    BY <1>2, <2>1
<1>5. ASSUME NEW i \in ids, NEW j \in ids, entry(i).item = entry(j).item PROVE i = j
  <2>1. rows[i].post = rows[j].post /\ (view.kind = "files" => rows[i].n = rows[j].n)
    BY <1>5
  <2> QED
    BY <2>1
<1>6. IsFiniteSet({entry(id) : id \in ids})
  <2>1. ids \in SUBSET DOMAIN rows /\ IsFiniteSet(DOMAIN rows)
    BY DEF Rowed
  <2>2. IsFiniteSet(ids)
    BY <2>1, FS_Subset
  <2> HIDE DEF ids, entry
  <2>3. PICK f : f = [id \in ids |-> entry(id)]
    OBVIOUS
  <2>4. PICK S : S = {f[id] : id \in ids}
    OBVIOUS
  <2>5. f \in Surjection(ids, S)
    <3>1. f \in [ids -> S]
      BY <2>3, <2>4
    <3> QED
      BY <2>4, <3>1, Fun_IsSurj
  <2>6. IsFiniteSet(S)
    BY <2>2, <2>5, FS_Surjection
  <2>7. S = {entry(id) : id \in ids}
    BY <2>3, <2>4
  <2> QED
    BY <2>6, <2>7
<1> HIDE DEF ids, entry
<1> QED
  BY <1>1, <1>3, <1>4, <1>5, <1>6 DEF Listing, Keyed, Length

LEMMA LinksListed ==
  ASSUME NEW table, Rowed(table), NEW view \in View, view.kind = "links"
  PROVE  Listing(Links(table, view), view)
<1> DEFINE ids(url) == {i \in DOMAIN table : table[i].post.url = url /\ table[i].thread \in view.threads}
           posts(url) == {table[id].post : id \in ids(url)}
           key(url) == <<url.domain, -Cardinality(posts(url)), Min({p.ts : p \in posts(url)}), url.path>>
           entry(url) == [key |-> key(url), plain |-> key(url), item |-> url, id |-> 0]
           urls == {u \in {table[i].post.url : i \in DOMAIN table} : u # None /\ posts(u) # {}}
<1>1. Links(table, view) = {entry(url) : url \in urls}
  BY DEF Links
<1>2. ASSUME NEW i \in DOMAIN table
      PROVE  /\ table[i].post.ts \in Int
             /\ table[i].post.url # None =>
                  /\ table[i].post.url = [domain |-> table[i].post.url.domain, path |-> table[i].post.url.path]
                  /\ table[i].post.url.domain \in Int /\ table[i].post.url.path \in Int
  <2>1. PICK thread \in Thread : thread = table[i].thread /\ table[i].post \in Posts(thread)
    BY DEF Rowed
  <2>2. PICK p \in Posts(thread) : p = table[i].post
    BY <2>1
  <2>3. /\ p.ts \in Int
        /\ p.url # None => /\ p.url = [domain |-> p.url.domain, path |-> p.url.path]
                           /\ p.url.domain \in Int /\ p.url.path \in Int
    BY PostIs
  <2> QED
    BY <2>2, <2>3
<1>3. ASSUME NEW url \in urls
      PROVE  /\ url = [domain |-> url.domain, path |-> url.path]
             /\ url.domain \in Int /\ url.path \in Int
             /\ key(url) \in [1 .. 4 -> Int]
  <2>1. PICK i \in DOMAIN table : url = table[i].post.url
    OBVIOUS
  <2>2. url # None
    OBVIOUS
  <2>3. url = [domain |-> url.domain, path |-> url.path] /\ url.domain \in Int /\ url.path \in Int
    BY <1>2, <2>1, <2>2
  <2>4. ids(url) \in SUBSET DOMAIN table /\ IsFiniteSet(DOMAIN table)
    BY DEF Rowed
  <2>5. IsFiniteSet(ids(url))
    BY <2>4, FS_Subset
  <2>6. posts(url) # {}
    OBVIOUS
  <2>7. \A p \in posts(url) : p.ts \in Int
    BY <1>2
  <2> HIDE DEF ids
  <2>8. IsFiniteSet(posts(url))
    <3>1. PICK f : f = [id \in ids(url) |-> table[id].post]
      OBVIOUS
    <3>2. DOMAIN f = ids(url) /\ posts(url) = {f[x] : x \in DOMAIN f}
      BY <3>1
    <3>3. IsFiniteSet({f[x] : x \in DOMAIN f})
      BY <2>5, <3>2, Image
    <3> QED
      BY <3>2, <3>3
  <2>9. Cardinality(posts(url)) \in Nat
    BY <2>8, FS_CardinalityType
  <2> HIDE DEF posts
  <2>10. PICK T : T = {p.ts : p \in posts(url)}
    OBVIOUS
  <2>11. IsFiniteSet(T)
    <3>1. PICK f : f = [p \in posts(url) |-> p.ts]
      OBVIOUS
    <3>2. DOMAIN f = posts(url) /\ T = {f[x] : x \in DOMAIN f}
      BY <2>10, <3>1
    <3>3. IsFiniteSet({f[x] : x \in DOMAIN f})
      BY <2>8, <3>2, Image
    <3> QED
      BY <3>2, <3>3
  <2>12. T \subseteq Int /\ T # {}
    BY <2>6, <2>7, <2>10
  <2>13. Min(T) \in Int
    BY <2>11, <2>12, LeastInt
  <2>14. PICK a \in Int, b \in Int, c \in Int, e \in Int :
           a = url.domain /\ b = -Cardinality(posts(url)) /\ c = Min(T) /\ e = url.path
    BY <2>3, <2>9, <2>13
  <2>15. key(url) = <<a, b, c, e>>
    BY <2>10, <2>14
  <2> QED
    BY <2>3, <2>15
<1>4. IsFiniteSet(urls)
  <2>1. PICK f : f = [i \in DOMAIN table |-> table[i].post.url]
    OBVIOUS
  <2>2. DOMAIN f = DOMAIN table /\ IsFiniteSet(DOMAIN f)
    BY <2>1 DEF Rowed
  <2>3. PICK U : U = {f[x] : x \in DOMAIN f}
    OBVIOUS
  <2>4. IsFiniteSet(U)
    BY <2>2, <2>3, Image
  <2>5. urls \in SUBSET U
    BY <2>1, <2>3
  <2> QED
    BY <2>4, <2>5, FS_Subset
<1> HIDE DEF urls, posts, ids
<1>5. ASSUME NEW u \in urls, NEW v \in urls, entry(u).key = entry(v).key PROVE u = v
  <2>1. u.domain = v.domain /\ u.path = v.path
    BY <1>5
  <2> QED
    BY <1>3, <2>1
<1> HIDE DEF key
<1>6. IsFiniteSet({entry(url) : url \in urls})
  <2> HIDE DEF entry
  <2>1. PICK f : f = [u \in urls |-> entry(u)]
    OBVIOUS
  <2>2. DOMAIN f = urls /\ {entry(url) : url \in urls} = {f[x] : x \in DOMAIN f}
    BY <2>1
  <2>3. IsFiniteSet({f[x] : x \in DOMAIN f})
    BY <1>4, <2>2, Image
  <2> QED
    BY <2>2, <2>3
<1>7. \A u \in urls : entry(u).key = key(u) /\ entry(u).plain = key(u) /\ entry(u).item = u
  OBVIOUS
<1> HIDE DEF entry
<1> QED
  BY <1>1, <1>3, <1>5, <1>6, <1>7 DEF Listing, Keyed, Length

LEMMA EntriesListed ==
  ASSUME NEW d, ShelfOK(d), NEW view \in View
  PROVE  Listing(Entries(d, view), view)
<1>1. CASE view.kind = "messages"
  <2>1. Entries(d, view) = Timed(d.messages, view)
    BY <1>1 DEF Entries
  <2>2. view.kind # "links" /\ Rowed(d.messages)
    BY <1>1 DEF ShelfOK
  <2>3. \A i, j \in DOMAIN d.messages :
          d.messages[i].post = d.messages[j].post
          /\ (view.kind = "files" => d.messages[i].n = d.messages[j].n) => i = j
    BY DEF ShelfOK
  <2> QED
    BY <2>1, <2>2, <2>3, TimedListed
<1>2. CASE view.kind = "files"
  <2>1. Entries(d, view) = Timed(d.files, view)
    BY <1>2 DEF Entries
  <2>2. view.kind # "links" /\ Rowed(d.files)
    BY <1>2 DEF ShelfOK
  <2>3. \A i, j \in DOMAIN d.files :
          d.files[i].post = d.files[j].post
          /\ (view.kind = "files" => d.files[i].n = d.files[j].n) => i = j
    BY <1>2 DEF ShelfOK
  <2> QED
    BY <2>1, <2>2, <2>3, TimedListed
<1>3. CASE view.kind = "links"
  BY <1>3, LinksListed DEF Entries, ShelfOK
<1> QED
  BY <1>1, <1>2, <1>3 DEF View

-----------------------------------------------------------------------------
(* An import keeps the shelf in order.                                     *)

\* A table by ids, and rows in a line.
Tabled(table) == IsFiniteSet(DOMAIN table) /\ DOMAIN table \subseteq Nat \ {0}
Lined(rows) == Len(rows) \in Nat /\ DOMAIN rows = 1 .. Len(rows)

\* What became of a table when rows were added under ids of their own.
Grown(N, table, rows) ==
  /\ Tabled(N)
  /\ \A id \in DOMAIN N :
       \/ id \in DOMAIN table /\ N[id] = table[id]
       \/ id \notin DOMAIN table /\ \E i \in DOMAIN rows : N[id] = rows[i]
  /\ \A id, jd \in DOMAIN N : id \notin DOMAIN table /\ jd \notin DOMAIN table =>
       \E i, j \in DOMAIN rows : N[id] = rows[i] /\ N[jd] = rows[j] /\ (i = j => id = jd)

LEMMA NumberedIs ==
  ASSUME NEW table, Tabled(table), NEW rows, Lined(rows)
  PROVE  Grown(Numbered(table, rows), table, rows)
<1> DEFINE base == Max(DOMAIN table \union {0})
           N == Numbered(table, rows)
<1> USE DEF Tabled, Lined
<1>1. base \in Nat /\ \A id \in DOMAIN table : id <= base
  <2>1. PICK S : S = DOMAIN table \union {0}
    OBVIOUS
  <2>2. IsFiniteSet(S) /\ S \subseteq Int /\ S # {}
    BY <2>1, FS_AddElement
  <2>3. Max(S) \in S /\ \A y \in S : y <= Max(S)
    BY <2>2, GreatestInt
  <2>4. base = Max(S)
    BY <2>1
  <2> HIDE DEF base
  <2>5. base \in S /\ S \subseteq Nat
    BY <2>1, <2>3, <2>4
  <2> QED
    BY <2>1, <2>3, <2>4, <2>5
<1>2. /\ DOMAIN N = DOMAIN table \union (base + 1 .. base + Len(rows))
      /\ \A id \in DOMAIN N : N[id] = IF id \in DOMAIN table THEN table[id] ELSE rows[id - base]
  BY DEF Numbered
<1> HIDE DEF base, N
<1>3. \A id \in DOMAIN N : id \notin DOMAIN table =>
         id - base \in DOMAIN rows /\ N[id] = rows[id - base] /\ id \in Nat \ {0}
  BY <1>1, <1>2
<1>4. IsFiniteSet(DOMAIN N)
  <2>1. IsFiniteSet(base + 1 .. base + Len(rows))
    <3>1. base + 1 \in Int /\ base + Len(rows) \in Int
      BY <1>1
    <3> QED
      BY <3>1, FS_Interval
  <2> QED
    BY <1>2, <2>1, FS_Union
<1>5. DOMAIN N \subseteq Nat \ {0}
  BY <1>2, <1>3
<1>6. ASSUME NEW id \in DOMAIN N, NEW jd \in DOMAIN N, id \notin DOMAIN table, jd \notin DOMAIN table
      PROVE  \E i, j \in DOMAIN rows : N[id] = rows[i] /\ N[jd] = rows[j] /\ (i = j => id = jd)
  <2>1. /\ id - base \in DOMAIN rows /\ N[id] = rows[id - base] /\ id \in Nat
        /\ jd - base \in DOMAIN rows /\ N[jd] = rows[jd - base] /\ jd \in Nat
    BY <1>3, <1>6
  <2>2. id - base = jd - base => id = jd
    BY <1>1, <2>1
  <2> QED
    BY <2>1, <2>2
<1>7. \A id \in DOMAIN N :
         \/ id \in DOMAIN table /\ N[id] = table[id]
         \/ id \notin DOMAIN table /\ \E i \in DOMAIN rows : N[id] = rows[i]
  BY <1>2, <1>3
<1>8. Grown(N, table, rows)
  BY <1>4, <1>5, <1>6, <1>7 DEF Grown
<1> QED
  BY <1>8 DEF N

LEMMA OthersAre ==
  ASSUME NEW table, Rowed(table), NEW thread, NEW O, O = Others(table, thread)
  PROVE  /\ Rowed(O) /\ DOMAIN O \subseteq DOMAIN table
         /\ \A id \in DOMAIN O : O[id] = table[id] /\ O[id].thread # thread
<1>1. /\ DOMAIN O = {i \in DOMAIN table : table[i].thread # thread}
      /\ \A id \in DOMAIN O : O[id] = table[id]
  BY DEF Others
<1>2. DOMAIN O \in SUBSET DOMAIN table
  BY <1>1
<1>3. IsFiniteSet(DOMAIN O)
  BY <1>2, FS_Subset DEF Rowed
<1> QED
  BY <1>1, <1>2, <1>3 DEF Rowed

\* The posts of two conversations are different.
LEMMA Apart ==
  ASSUME NEW t \in Thread, NEW u \in Thread, NEW p \in Posts(t), p \in Posts(u)
  PROVE  t = u
<1>1. PICK a \in Content[t] : p \in ToSet(a)
  BY DEF Posts
<1>2. PICK b \in Content[u] : p \in ToSet(b)
  BY DEF Posts
<1> QED
  BY <1>1, <1>2, ContentAssumption

\* New rows of a conversation beside the old ones of the others.
Of(rows, thread) == \A i \in DOMAIN rows : rows[i].thread = thread /\ rows[i].post \in Posts(thread)

\* Whoever have the same post are two old rows or two new ones.
Distinct(N, table, rows) ==
  \A id, jd \in DOMAIN N : N[id].post = N[jd].post =>
    \/ id \in DOMAIN table /\ jd \in DOMAIN table /\ N[id] = table[id] /\ N[jd] = table[jd]
    \/ \E i, j \in DOMAIN rows : N[id] = rows[i] /\ N[jd] = rows[j] /\ (i = j => id = jd)

LEMMA NumberedRowed ==
  ASSUME NEW table, Rowed(table), NEW thread \in Thread, NEW rows, Lined(rows), Of(rows, thread)
  PROVE  /\ Rowed(Numbered(Others(table, thread), rows))
         /\ Distinct(Numbered(Others(table, thread), rows), table, rows)
<1>1. PICK O : O = Others(table, thread)
  OBVIOUS
<1>2. PICK N : N = Numbered(O, rows)
  OBVIOUS
<1>3. /\ Rowed(O) /\ DOMAIN O \subseteq DOMAIN table
      /\ \A id \in DOMAIN O : O[id] = table[id] /\ O[id].thread # thread
  BY <1>1, OthersAre
<1>4. Tabled(O)
  BY <1>3 DEF Rowed, Tabled
<1>5. Grown(N, O, rows)
  BY <1>2, <1>4, NumberedIs
<1>6. Rowed(N)
  BY <1>3, <1>5 DEF Rowed, Grown, Tabled, Of
<1>7. \A id \in DOMAIN O, i \in DOMAIN rows : O[id].post # rows[i].post
  <2> SUFFICES ASSUME NEW id \in DOMAIN O, NEW i \in DOMAIN rows, O[id].post = rows[i].post PROVE FALSE
    OBVIOUS
  <2>1. PICK t \in Thread : t = O[id].thread /\ O[id].post \in Posts(t)
    BY <1>3 DEF Rowed
  <2>2. PICK p \in Posts(t) : p = O[id].post
    BY <2>1
  <2> QED
    BY <1>3, <2>1, <2>2, Apart DEF Of
<1>8. ASSUME NEW id \in DOMAIN N, NEW jd \in DOMAIN N, N[id].post = N[jd].post
      PROVE  \/ id \in DOMAIN table /\ jd \in DOMAIN table /\ N[id] = table[id] /\ N[jd] = table[jd]
             \/ \E i, j \in DOMAIN rows : N[id] = rows[i] /\ N[jd] = rows[j] /\ (i = j => id = jd)
  <2>1. CASE id \in DOMAIN O /\ jd \in DOMAIN O
    BY <1>3, <1>5, <2>1 DEF Grown
  <2>2. CASE id \notin DOMAIN O /\ jd \notin DOMAIN O
    BY <1>5, <2>2 DEF Grown
  <2>3. CASE id \in DOMAIN O /\ jd \notin DOMAIN O
    BY <1>5, <1>7, <1>8, <2>3 DEF Grown
  <2>4. CASE id \notin DOMAIN O /\ jd \in DOMAIN O
    BY <1>5, <1>7, <1>8, <2>4 DEF Grown
  <2> QED
    BY <2>1, <2>2, <2>3, <2>4
<1> QED
  BY <1>2, <1>1, <1>6, <1>8 DEF Distinct

\* The files of a transcript, each once and with its message.
LEMMA AttachedIs ==
  ASSUME NEW thread \in Thread, NEW posts \in Content[thread], NEW rows, rows = Attached(thread, posts)
  PROVE  /\ Lined(rows) /\ Of(rows, thread)
         /\ \A k, l \in DOMAIN rows : rows[k].post = rows[l].post /\ rows[k].n = rows[l].n => k = l
<1> DEFINE entry(i, n) == [key |-> <<i, n>>, row |-> [thread |-> thread, post |-> posts[i], n |-> n]]
           of(i) == {entry(i, n) : n \in 1 .. posts[i].files}
<1>1. PICK E : E = UNION {of(i) : i \in DOMAIN posts}
  OBVIOUS
<1>2. rows = [k \in DOMAIN Ordered(E) |-> Ordered(E)[k].row]
  BY <1>1 DEF Attached
<1>3. /\ DOMAIN posts \subseteq Nat /\ IsFiniteSet(DOMAIN posts)
      /\ \A i, j \in DOMAIN posts : posts[i] = posts[j] => i = j
      /\ \A i \in DOMAIN posts : posts[i].files \in Nat /\ posts[i] \in Posts(thread)
  <2>1. posts \in Seq(ToSet(posts))
    BY ContentAssumption
  <2>2. DOMAIN posts = 1 .. Len(posts) /\ Len(posts) \in Nat
    BY <2>1
  <2>3. 1 \in Int /\ Len(posts) \in Int
    BY <2>2
  <2>4. IsFiniteSet(1 .. Len(posts))
    BY <2>3, FS_Interval
  <2>5. \A i \in DOMAIN posts : posts[i] \in Posts(thread)
    BY DEF Posts, ToSet
  <2>6. DOMAIN posts \subseteq Nat /\ IsFiniteSet(DOMAIN posts)
    BY <2>2, <2>4
  <2>7. \A i \in DOMAIN posts : posts[i].files \in Nat
    BY ContentAssumption
  <2>8. \A i, j \in DOMAIN posts : posts[i] = posts[j] => i = j
    BY ContentAssumption
  <2> QED
    BY <2>5, <2>6, <2>7, <2>8
<1>4. ASSUME NEW i \in DOMAIN posts PROVE IsFiniteSet(of(i))
  <2>1. 1 \in Int /\ posts[i].files \in Int
    BY <1>3
  <2>2. IsFiniteSet(1 .. posts[i].files)
    BY <2>1, FS_Interval
  <2>3. PICK f : f = [n \in 1 .. posts[i].files |-> entry(i, n)]
    OBVIOUS
  <2>4. DOMAIN f = 1 .. posts[i].files /\ of(i) = {f[x] : x \in DOMAIN f}
    BY <2>3
  <2>5. IsFiniteSet({f[x] : x \in DOMAIN f})
    BY <2>2, <2>4, Image
  <2> QED
    BY <2>4, <2>5
<1>5. \A e \in E : \E i \in DOMAIN posts : \E n \in 1 .. posts[i].files : e = entry(i, n)
  BY <1>1
<1>6. IsFiniteSet(E)
  <2> HIDE DEF of
  <2>1. PICK f : f = [i \in DOMAIN posts |-> of(i)]
    OBVIOUS
  <2>2. PICK F : F = {f[x] : x \in DOMAIN f}
    OBVIOUS
  <2>3. DOMAIN f = DOMAIN posts /\ F = {of(i) : i \in DOMAIN posts}
    BY <2>1, <2>2
  <2>4. IsFiniteSet(F)
    BY <1>3, <2>2, <2>3, Image
  <2>5. \A T \in F : IsFiniteSet(T)
    BY <1>4, <2>3
  <2> QED
    BY <1>1, <2>3, <2>4, <2>5, FS_UNION
<1>7. Keyed(E, 2)
  <2>1. ASSUME NEW e \in E PROVE e.key \in [1 .. 2 -> Int]
    <3>1. PICK i \in DOMAIN posts : \E n \in 1 .. posts[i].files : e = entry(i, n)
      BY <1>5
    <3>2. PICK n \in 1 .. posts[i].files : e = entry(i, n)
      BY <3>1
    <3>3. i \in Int /\ n \in Int
      BY <1>3
    <3> QED
      BY <3>2, <3>3
  <2>2. ASSUME NEW e \in E, NEW f \in E, e.key = f.key PROVE e = f
    <3>1. PICK i \in DOMAIN posts : \E n \in 1 .. posts[i].files : e = entry(i, n)
      BY <1>5
    <3>2. PICK n \in 1 .. posts[i].files : e = entry(i, n)
      BY <3>1
    <3>3. PICK j \in DOMAIN posts : \E m \in 1 .. posts[j].files : f = entry(j, m)
      BY <1>5
    <3>4. PICK m \in 1 .. posts[j].files : f = entry(j, m)
      BY <3>3
    <3>5. i = j /\ n = m
      BY <2>2, <3>2, <3>4
    <3> QED
      BY <3>2, <3>4, <3>5
  <2> QED
    BY <1>6, <2>1, <2>2 DEF Keyed
<1> HIDE DEF of
<1>8. /\ Cardinality(E) \in Nat /\ Ordered(E) \in [1 .. Cardinality(E) -> E]
      /\ \A k, l \in 1 .. Cardinality(E) : Ordered(E)[k] = Ordered(E)[l] => k = l
  BY <1>7, Ordering, OrderedOnce
<1>9. DOMAIN rows = 1 .. Cardinality(E) /\ Len(rows) = Cardinality(E)
  BY <1>2, <1>8
<1>10. ASSUME NEW k \in DOMAIN rows
       PROVE  \E i \in DOMAIN posts : \E n \in 1 .. posts[i].files :
                Ordered(E)[k] = entry(i, n) /\ rows[k] = [thread |-> thread, post |-> posts[i], n |-> n]
  <2>1. k \in 1 .. Cardinality(E) /\ Ordered(E)[k] \in E
    BY <1>8, <1>9
  <2>2. \E i \in DOMAIN posts : \E n \in 1 .. posts[i].files : Ordered(E)[k] = entry(i, n)
    BY <1>5, <2>1
  <2>3. rows[k] = Ordered(E)[k].row
    BY <1>2, <1>8, <1>9
  <2> QED
    BY <2>2, <2>3
<1>11. ASSUME NEW k \in DOMAIN rows, NEW l \in DOMAIN rows, rows[k].post = rows[l].post, rows[k].n = rows[l].n
       PROVE  k = l
  <2>1. PICK i \in DOMAIN posts : \E n \in 1 .. posts[i].files :
          Ordered(E)[k] = entry(i, n) /\ rows[k] = [thread |-> thread, post |-> posts[i], n |-> n]
    BY <1>10
  <2>2. PICK j \in DOMAIN posts : \E m \in 1 .. posts[j].files :
          Ordered(E)[l] = entry(j, m) /\ rows[l] = [thread |-> thread, post |-> posts[j], n |-> m]
    BY <1>10
  <2>3. PICK n \in 1 .. posts[i].files :
          Ordered(E)[k] = entry(i, n) /\ rows[k] = [thread |-> thread, post |-> posts[i], n |-> n]
    BY <2>1
  <2>4. PICK m \in 1 .. posts[j].files :
          Ordered(E)[l] = entry(j, m) /\ rows[l] = [thread |-> thread, post |-> posts[j], n |-> m]
    BY <2>2
  <2>5. i = j /\ n = m
    BY <1>3, <1>11, <2>3, <2>4
  <2>6. Ordered(E)[k] = Ordered(E)[l]
    BY <2>3, <2>4, <2>5
  <2> QED
    BY <1>8, <1>9, <2>6
<1>12. ASSUME NEW k \in DOMAIN rows PROVE rows[k].thread = thread /\ rows[k].post \in Posts(thread)
  <2>1. PICK i \in DOMAIN posts : \E n \in 1 .. posts[i].files :
           rows[k] = [thread |-> thread, post |-> posts[i], n |-> n]
    BY <1>10
  <2> QED
    BY <1>3, <2>1
<1> QED
  BY <1>8, <1>9, <1>11, <1>12 DEF Lined, Of

LEMMA ShelfKept ==
  ASSUME ShelfOK(shelf), NEW thread \in Thread, NEW posts \in Content[thread], NEW rows,
         rows = [i \in DOMAIN posts |-> [thread |-> thread, post |-> posts[i]]], NEW d,
         d = [messages |-> Numbered(Others(shelf.messages, thread), rows),
              files |-> Numbered(Others(shelf.files, thread), Attached(thread, posts))]
  PROVE  ShelfOK(d)
<1>1. /\ DOMAIN rows = DOMAIN posts /\ Len(rows) \in Nat /\ DOMAIN rows = 1 .. Len(rows)
      /\ \A i \in DOMAIN rows : rows[i].thread = thread /\ rows[i].post = posts[i] /\ rows[i].post \in Posts(thread)
      /\ \A i, j \in DOMAIN rows : rows[i].post = rows[j].post => i = j
  <2>1. posts \in Seq(ToSet(posts)) /\ \A i, j \in DOMAIN posts : posts[i] = posts[j] => i = j
    BY ContentAssumption
  <2>2. DOMAIN posts = 1 .. Len(posts) /\ Len(posts) \in Nat
    BY <2>1
  <2>3. \A i \in DOMAIN posts : posts[i] \in Posts(thread)
    BY DEF Posts, ToSet
  <2>4. Len(rows) = Len(posts)
    BY <2>2
  <2> QED
    BY <2>1, <2>2, <2>3, <2>4
<1>2. PICK M : M = Numbered(Others(shelf.messages, thread), rows)
  OBVIOUS
<1>3. PICK files : files = Attached(thread, posts)
  OBVIOUS
<1>4. PICK F : F = Numbered(Others(shelf.files, thread), files)
  OBVIOUS
<1>5. /\ Lined(files) /\ Of(files, thread)
      /\ \A k, l \in DOMAIN files : files[k].post = files[l].post /\ files[k].n = files[l].n => k = l
  BY <1>3, AttachedIs
<1>6. d.messages = M /\ d.files = F
  BY <1>2, <1>3, <1>4
<1>7. Rowed(M) /\ Distinct(M, shelf.messages, rows)
  <2>1. PICK table : table = shelf.messages
    OBVIOUS
  <2>2. Rowed(table) /\ M = Numbered(Others(table, thread), rows) /\ Lined(rows) /\ Of(rows, thread)
    BY <1>1, <1>2, <2>1 DEF ShelfOK, Lined, Of
  <2> QED
    BY <2>1, <2>2, NumberedRowed
<1>8. Rowed(F) /\ Distinct(F, shelf.files, files)
  <2>1. PICK table : table = shelf.files
    OBVIOUS
  <2>2. Rowed(table) /\ F = Numbered(Others(table, thread), files)
    BY <1>4, <2>1 DEF ShelfOK
  <2> QED
    BY <1>5, <2>1, <2>2, NumberedRowed
<1>9. ASSUME NEW id \in DOMAIN M, NEW jd \in DOMAIN M, M[id].post = M[jd].post PROVE id = jd
  <2>1. CASE /\ id \in DOMAIN shelf.messages /\ jd \in DOMAIN shelf.messages
             /\ M[id] = shelf.messages[id] /\ M[jd] = shelf.messages[jd]
    BY <1>9, <2>1 DEF ShelfOK
  <2>2. CASE \E i, j \in DOMAIN rows : M[id] = rows[i] /\ M[jd] = rows[j] /\ (i = j => id = jd)
    <3>1. PICK i \in DOMAIN rows, j \in DOMAIN rows : M[id] = rows[i] /\ M[jd] = rows[j] /\ (i = j => id = jd)
      BY <2>2
    <3> QED
      BY <1>1, <1>9, <3>1
  <2> QED
    BY <1>7, <1>9, <2>1, <2>2 DEF Distinct
<1>10. ASSUME NEW id \in DOMAIN F, NEW jd \in DOMAIN F, F[id].post = F[jd].post, F[id].n = F[jd].n PROVE id = jd
  <2>1. CASE /\ id \in DOMAIN shelf.files /\ jd \in DOMAIN shelf.files
             /\ F[id] = shelf.files[id] /\ F[jd] = shelf.files[jd]
    BY <1>10, <2>1 DEF ShelfOK
  <2>2. CASE \E i, j \in DOMAIN files : F[id] = files[i] /\ F[jd] = files[j] /\ (i = j => id = jd)
    <3>1. PICK i \in DOMAIN files, j \in DOMAIN files : F[id] = files[i] /\ F[jd] = files[j] /\ (i = j => id = jd)
      BY <2>2
    <3> QED
      BY <1>5, <1>10, <3>1
  <2> QED
    BY <1>8, <1>10, <2>1, <2>2 DEF Distinct
<1> QED
  BY <1>6, <1>7, <1>8, <1>9, <1>10 DEF ShelfOK

-----------------------------------------------------------------------------
(* A walk through the pages.                                               *)

Line(s) == s \in Seq({s[i] : i \in DOMAIN s})

Promised(e) == [item |-> e.item, plain |-> e.plain]

Due(w) == {p \in w.promised : p.plain \notin w.seams}

\* What is due is still to come, or there once; and in order.
Told(w, E, n) ==
  /\ Line(w.shown)
  /\ w.promised \subseteq {Promised(e) : e \in E}
  /\ w.more => w.cursor \in [1 .. n -> Int]
  /\ \A e \in E : Promised(e) \in Due(w) =>
       IF w.more /\ Less(w.cursor, e.key)
       THEN \A i \in DOMAIN w.shown : w.shown[i] # e.item
       ELSE \E i \in DOMAIN w.shown : \A j \in DOMAIN w.shown : w.shown[j] = e.item <=> j = i
  /\ \A e, f \in E : Promised(e) \in Due(w) /\ Promised(f) \in Due(w) =>
       \A i, j \in DOMAIN w.shown :
         w.shown[i] = e.item /\ w.shown[j] = f.item /\ i < j => ~Less(f.plain, e.plain)

WalkInv ==
  \/ walk = NoWalk
  \/ /\ walk = [view |-> walk.view, shown |-> walk.shown, cursor |-> walk.cursor,
                 more |-> walk.more, promised |-> walk.promised, seams |-> walk.seams]
     /\ walk.view \in View
     /\ Told(walk, Entries(shelf, walk.view), Length(walk.view))

LEMMA SameItem ==
  ASSUME NEW E, NEW view, Listing(E, view), NEW e \in E, NEW f \in E, Promised(e) = Promised(f)
  PROVE  e = f
  BY DEF Listing, Promised

\* The part of the key that is no row id never runs backwards.
LEMMA PlainFollows ==
  ASSUME NEW E, NEW view, Listing(E, view), NEW e \in E, NEW f \in E, Less(e.key, f.key)
  PROVE  ~Less(f.plain, e.plain)
<1>1. e.key \in [1 .. Length(view) -> Int] /\ f.key \in [1 .. Length(view) -> Int] /\ Length(view) \in Nat
  BY DEF Listing, Keyed
<1>2. CASE view.kind = "links"
  <2>1. e.plain = e.key /\ f.plain = f.key
    BY <1>2 DEF Listing
  <2> QED
    BY <1>1, <2>1, LessOrders
<1>3. CASE view.kind # "links"
  <2>1. PICK a \in Int, b \in Int : a = e.key[1] /\ b = f.key[1]
    BY <1>1, <1>3 DEF Length
  <2>2. e.plain = <<a>> /\ f.plain = <<b>>
    BY <1>3, <2>1 DEF Listing
  <2>3. ~(b < a)
    <3>1. PICK i \in 1 .. 2 : e.key[i] < f.key[i] /\ \A j \in 1 .. i - 1 : e.key[j] = f.key[j]
      BY <1>1, <1>3 DEF Length, Less
    <3>2. i = 1 \/ e.key[1] = f.key[1]
      BY <3>1
    <3> QED
      BY <2>1, <3>1, <3>2
  <2>4. \A i \in DOMAIN <<b>> : i = 1
    OBVIOUS
  <2> QED
    BY <2>2, <2>3, <2>4 DEF Less
<1> QED
  BY <1>2, <1>3

\* A row is on a page once.
LEMMA RunOnce ==
  ASSUME NEW E, NEW n, Keyed(E, n), NEW rows, Run(rows, E),
         NEW i \in 1 .. Len(rows), NEW j \in 1 .. Len(rows), rows[i] = rows[j]
  PROVE  i = j
<1>1. rows[i] \in E /\ Len(rows) \in Nat
  BY DEF Run
<1>2. ~Less(rows[i].key, rows[i].key)
  BY <1>1, LessOrders DEF Keyed
<1>3. ~(i < j) /\ ~(j < i)
  BY <1>2 DEF Run
<1> QED
  BY <1>1, <1>3

LEMMA Items ==
  ASSUME NEW E, NEW rows \in Seq(E), NEW seen, seen = [i \in DOMAIN rows |-> rows[i].item]
  PROVE  /\ Line(seen)
         /\ DOMAIN seen = 1 .. Len(rows) /\ Len(seen) = Len(rows) /\ Len(rows) \in Nat
         /\ \A i \in 1 .. Len(rows) : rows[i] \in E /\ seen[i] = rows[i].item
  BY DEF Line

\* The first page of a walk tells what it promises.
LEMMA Started ==
  ASSUME NEW E, NEW view \in View, Listing(E, view), NEW P, P \subseteq E, NEW rows, NEW more, Paged(rows, more, P),
         NEW w, w.shown = [i \in DOMAIN rows |-> rows[i].item], w.more = more,
         Len(rows) > 0 => w.cursor = rows[Len(rows)].key,
         w.promised = {Promised(e) : e \in P}, w.seams = {}
  PROVE  Told(w, E, Length(view))
<1> DEFINE n == Length(view)
<1>1. Keyed(E, n) /\ Keyed(P, n) /\ n \in Nat
  <2>1. P \in SUBSET E
    OBVIOUS
  <2> QED
    BY <2>1, FS_Subset DEF Listing, Keyed
<1>2. Run(rows, P) /\ rows \in Seq(P)
  BY DEF Paged, Run
<1>3. /\ Line(w.shown)
      /\ DOMAIN w.shown = 1 .. Len(rows) /\ Len(rows) \in Nat
      /\ \A i \in 1 .. Len(rows) : rows[i] \in P /\ w.shown[i] = rows[i].item
  <2>1. PICK seen : seen = w.shown
    OBVIOUS
  <2>2. seen = [i \in DOMAIN rows |-> rows[i].item]
    BY <2>1
  <2> QED
    BY <1>2, <2>1, <2>2, Items
<1>4. w.promised \subseteq {Promised(e) : e \in E}
  OBVIOUS
<1>5. w.more => Len(rows) \in 1 .. Len(rows) /\ w.cursor = rows[Len(rows)].key /\ w.cursor \in [1 .. n -> Int]
  <2> SUFFICES ASSUME w.more
               PROVE  Len(rows) \in 1 .. Len(rows) /\ w.cursor = rows[Len(rows)].key /\ w.cursor \in [1 .. n -> Int]
    OBVIOUS
  <2>1. Len(rows) > 0
    BY DEF Paged
  <2>2. Len(rows) \in 1 .. Len(rows)
    BY <1>3, <2>1
  <2> QED
    BY <1>1, <1>3, <2>1, <2>2 DEF Keyed
<1>6. ASSUME NEW e \in E, Promised(e) \in Due(w) PROVE e \in P
  <2>1. PICK f \in P : Promised(e) = Promised(f)
    BY <1>6 DEF Due
  <2> QED
    BY <2>1, SameItem
<1>7. \A e \in E, i \in 1 .. Len(rows) : w.shown[i] = e.item <=> rows[i] = e
  BY <1>3 DEF Listing
<1>8. ASSUME NEW e \in E, Promised(e) \in Due(w), NEW k \in 1 .. Len(rows), rows[k] = e
      PROVE  /\ ~(w.more /\ Less(w.cursor, e.key))
             /\ \E i \in DOMAIN w.shown : \A j \in DOMAIN w.shown : w.shown[j] = e.item <=> j = i
  <2>1. \A j \in DOMAIN w.shown : w.shown[j] = e.item <=> j = k
    BY <1>1, <1>2, <1>3, <1>7, <1>8, RunOnce
  <2>2. ASSUME w.more, Less(w.cursor, e.key) PROVE FALSE
    <3>1. Less(rows[Len(rows)].key, rows[k].key) /\ Len(rows) \in 1 .. Len(rows)
      BY <1>5, <1>8, <2>2
    <3>2. Len(rows) < k
      BY <1>2, <3>1 DEF Run
    <3> QED
      BY <1>3, <3>2
  <2> QED
    BY <1>3, <2>1, <2>2
<1>9. ASSUME NEW e \in E, Promised(e) \in Due(w)
      PROVE  IF w.more /\ Less(w.cursor, e.key)
             THEN \A i \in DOMAIN w.shown : w.shown[i] # e.item
             ELSE \E i \in DOMAIN w.shown : \A j \in DOMAIN w.shown : w.shown[j] = e.item <=> j = i
  <2>1. CASE \E k \in 1 .. Len(rows) : rows[k] = e
    BY <1>8, <1>9, <2>1
  <2>2. CASE ~(\E k \in 1 .. Len(rows) : rows[k] = e)
    <3>1. e \in P
      BY <1>6, <1>9
    <3>2. w.more /\ \A i \in 1 .. Len(rows) : Less(rows[i].key, e.key)
      BY <2>2, <3>1 DEF Paged
    <3>3. Less(w.cursor, e.key)
      BY <1>5, <3>2
    <3>4. \A i \in DOMAIN w.shown : w.shown[i] # e.item
      BY <1>3, <1>7, <2>2
    <3> QED
      BY <3>2, <3>3, <3>4
  <2> QED
    BY <2>1, <2>2
<1>10. ASSUME NEW e \in E, NEW f \in E, NEW i \in DOMAIN w.shown, NEW j \in DOMAIN w.shown,
              w.shown[i] = e.item, w.shown[j] = f.item, i < j
       PROVE  ~Less(f.plain, e.plain)
  <2>1. rows[i] = e /\ rows[j] = f
    BY <1>3, <1>7, <1>10
  <2>2. Less(e.key, f.key)
    BY <1>2, <1>3, <1>10, <2>1 DEF Run
  <2> QED
    BY <2>2, PlainFollows
<1> QED
  BY <1>3, <1>4, <1>5, <1>9, <1>10 DEF Told

LEMMA LineOf ==
  ASSUME NEW W, NEW u \in Seq(W)
  PROVE  Line(u)
<1>1. PICK U : U = {u[i] : i \in DOMAIN u}
  OBVIOUS
<1>2. Len(u) \in Nat /\ u \in [1 .. Len(u) -> W]
  OBVIOUS
<1>3. u \in [1 .. Len(u) -> U]
  BY <1>1, <1>2
<1>4. u \in Seq(U)
  BY <1>2, <1>3
<1> QED
  BY <1>1, <1>4 DEF Line

\* One line, then the other.
Both(u, s, t) ==
  /\ Line(u)
  /\ Len(s) \in Nat /\ Len(t) \in Nat /\ DOMAIN s = 1 .. Len(s) /\ DOMAIN u = 1 .. Len(s) + Len(t)
  /\ \A i \in 1 .. Len(s) : u[i] = s[i]
  /\ \A i \in 1 .. Len(s) + Len(t) : i > Len(s) => u[i] = t[i - Len(s)] /\ i - Len(s) \in 1 .. Len(t)

LEMMA Joined ==
  ASSUME NEW s, Line(s), NEW t, Line(t)
  PROVE  Both(s \o t, s, t)
<1>1. PICK S, T : S = {s[i] : i \in DOMAIN s} /\ T = {t[i] : i \in DOMAIN t}
  OBVIOUS
<1>2. PICK W : W = S \union T
  OBVIOUS
<1>3. s \in Seq(W) /\ t \in Seq(W)
  BY <1>1, <1>2 DEF Line
<1>4. /\ Len(s) \in Nat /\ Len(t) \in Nat /\ DOMAIN s = 1 .. Len(s) /\ DOMAIN (s \o t) = 1 .. Len(s) + Len(t)
      /\ \A i \in 1 .. Len(s) : (s \o t)[i] = s[i]
      /\ \A i \in 1 .. Len(s) + Len(t) : i > Len(s) =>
           (s \o t)[i] = t[i - Len(s)] /\ i - Len(s) \in 1 .. Len(t)
  BY <1>3
<1>5. s \o t \in Seq(W)
  BY <1>3
<1> QED
  BY <1>4, <1>5, LineOf DEF Both

\* The next page goes on where the last one ended.
LEMMA Continued ==
  ASSUME NEW E, NEW view \in View, Listing(E, view), NEW w, Told(w, E, Length(view)), w.more,
         NEW rows, NEW more, Paged(rows, more, {e \in E : Less(w.cursor, e.key)}),
         NEW v, v.shown = w.shown \o [i \in DOMAIN rows |-> rows[i].item], v.more = more,
         v.cursor = IF rows = <<>> THEN w.cursor ELSE rows[Len(rows)].key,
         v.promised = w.promised, v.seams = w.seams
  PROVE  Told(v, E, Length(view))
<1> DEFINE n == Length(view)
           R == {e \in E : Less(w.cursor, e.key)}
           c == Len(w.shown)
<1>1. Keyed(E, n) /\ Keyed(R, n) /\ n \in Nat /\ R \subseteq E
  <2>1. R \in SUBSET E
    OBVIOUS
  <2> QED
    BY <2>1, FS_Subset DEF Listing, Keyed
<1>2. Run(rows, R) /\ rows \in Seq(R)
  BY DEF Paged, Run
<1>3. PICK page : page = [i \in DOMAIN rows |-> rows[i].item]
  OBVIOUS
<1>4. /\ Line(page)
      /\ Len(page) = Len(rows) /\ Len(rows) \in Nat
      /\ \A i \in 1 .. Len(rows) : rows[i] \in R /\ page[i] = rows[i].item
  BY <1>2, <1>3, Items
<1>5. PICK old, new : old = w.shown /\ new = v.shown /\ new = old \o page
  BY <1>3
<1>6. Line(old)
  BY <1>5 DEF Told
<1>7. /\ Line(new)
      /\ c \in Nat /\ DOMAIN old = 1 .. c /\ DOMAIN new = 1 .. c + Len(rows)
      /\ \A i \in 1 .. c : new[i] = old[i]
      /\ \A i \in 1 .. c + Len(rows) : i > c => new[i] = rows[i - c].item /\ i - c \in 1 .. Len(rows)
  <2>1. PICK N : N = old \o page
    OBVIOUS
  <2>2. Both(N, old, page)
    BY <1>4, <1>6, <2>1, Joined
  <2>3. new = N
    BY <1>5, <2>1
  <2>4. Len(old) = c /\ Len(page) = Len(rows)
    BY <1>4, <1>5
  <2> HIDE DEF c
  <2> QED
    BY <1>4, <2>2, <2>4, <2>3 DEF Both
<1>8. w.cursor \in [1 .. n -> Int]
  BY DEF Told
<1> HIDE DEF c
<1>9. \A e \in R : Less(w.cursor, e.key)
  OBVIOUS
<1>10. /\ v.more => Len(rows) \in 1 .. Len(rows) /\ v.cursor = rows[Len(rows)].key
       /\ v.cursor = w.cursor \/ (Len(rows) \in 1 .. Len(rows) /\ v.cursor = rows[Len(rows)].key)
  <2>1. more => Len(rows) > 0
    BY DEF Paged
  <2>2. rows # <<>> => Len(rows) > 0
    BY <1>2
  <2>3. Len(rows) > 0 => rows # <<>> /\ Len(rows) \in 1 .. Len(rows)
    BY <1>4
  <2> QED
    BY <2>1, <2>2, <2>3
<1>11. v.more => v.cursor \in [1 .. n -> Int] /\ Less(w.cursor, v.cursor)
  BY <1>1, <1>4, <1>9, <1>10 DEF Keyed
<1> HIDE DEF R
<1>12. Due(v) = Due(w)
  BY DEF Due
<1>13. \A e \in E, i \in 1 .. Len(rows) : rows[i].item = e.item <=> rows[i] = e
  BY <1>1, <1>4 DEF Listing
\* What was there before the cursor stays as it was.
<1>14. ASSUME NEW e \in E, Promised(e) \in Due(w), ~Less(w.cursor, e.key)
       PROVE  /\ ~(v.more /\ Less(v.cursor, e.key))
              /\ \E i \in DOMAIN new : \A j \in DOMAIN new : new[j] = e.item <=> j = i
  <2>1. PICK i \in DOMAIN old : \A j \in DOMAIN old : old[j] = e.item <=> j = i
    BY <1>5, <1>14 DEF Told
  <2>2. \A j \in 1 .. Len(rows) : rows[j] # e
    BY <1>4, <1>14 DEF R
  <2>3. \A j \in DOMAIN new : new[j] = e.item <=> j = i
    <3> SUFFICES ASSUME NEW j \in DOMAIN new PROVE new[j] = e.item <=> j = i
      OBVIOUS
    <3>1. CASE j \in 1 .. c
      BY <1>7, <2>1, <3>1
    <3>2. CASE j \notin 1 .. c
      <4>1. j > c /\ new[j] = rows[j - c].item /\ j - c \in 1 .. Len(rows)
        BY <1>7, <3>2
      <4>2. new[j] # e.item
        BY <1>13, <2>2, <4>1
      <4> QED
        BY <1>7, <3>2, <4>2
    <3> QED
      BY <3>1, <3>2
  <2>4. i \in DOMAIN new
    BY <1>4, <1>7
  <2>5. ASSUME v.more, Less(v.cursor, e.key) PROVE FALSE
    <3>1. e.key \in [1 .. n -> Int]
      BY <1>1 DEF Keyed
    <3> QED
      BY <1>1, <1>8, <1>11, <1>14, <2>5, <3>1, LessTransitive
  <2> QED
    BY <2>3, <2>4, <2>5
<1>15. ASSUME NEW e \in E, Promised(e) \in Due(w), Less(w.cursor, e.key)
       PROVE  \A i \in DOMAIN old : old[i] # e.item
  BY <1>5, <1>15 DEF Told
<1>16. ASSUME NEW e \in E, Promised(e) \in Due(w), Less(w.cursor, e.key), NEW j \in DOMAIN new, new[j] = e.item
       PROVE  j > c /\ j - c \in 1 .. Len(rows) /\ rows[j - c] = e
  <2>1. j \notin 1 .. c
    BY <1>7, <1>15, <1>16
  <2>2. j > c /\ new[j] = rows[j - c].item /\ j - c \in 1 .. Len(rows)
    BY <1>7, <2>1
  <2> QED
    BY <1>13, <1>16, <2>2
<1>17. ASSUME NEW e \in E, Promised(e) \in Due(w), Less(w.cursor, e.key)
       PROVE  IF v.more /\ Less(v.cursor, e.key)
              THEN \A i \in DOMAIN new : new[i] # e.item
              ELSE \E i \in DOMAIN new : \A j \in DOMAIN new : new[j] = e.item <=> j = i
  <2>1. e \in R
    BY <1>17 DEF R
  <2>2. CASE \E k \in 1 .. Len(rows) : rows[k] = e
    <3>1. PICK k \in 1 .. Len(rows) : rows[k] = e
      BY <2>2
    <3>2. ~(v.more /\ Less(v.cursor, e.key))
      <4> SUFFICES ASSUME v.more, Less(v.cursor, e.key) PROVE FALSE
        OBVIOUS
      <4>1. Less(rows[Len(rows)].key, rows[k].key) /\ Len(rows) \in 1 .. Len(rows)
        BY <1>10, <3>1
      <4>2. Len(rows) < k
        BY <1>2, <4>1 DEF Run
      <4> QED
        BY <1>4, <4>2
    <3>3. c + k \in DOMAIN new /\ c + k > c /\ (c + k) - c = k
      BY <1>4, <1>7
    <3>4. new[c + k] = e.item
      BY <1>7, <3>1, <3>3
    <3>5. ASSUME NEW j \in DOMAIN new, new[j] = e.item PROVE j = c + k
      <4>1. j - c \in 1 .. Len(rows) /\ rows[j - c] = e
        BY <1>16, <1>17, <3>5
      <4>2. j - c = k
        BY <1>1, <1>2, <3>1, <4>1, RunOnce
      <4> QED
        BY <1>7, <4>2
    <3> QED
      BY <3>2, <3>3, <3>4, <3>5
  <2>3. CASE ~(\E k \in 1 .. Len(rows) : rows[k] = e)
    <3>1. more /\ \A i \in 1 .. Len(rows) : Less(rows[i].key, e.key)
      BY <2>1, <2>3 DEF Paged, R
    <3>2. v.more /\ Less(v.cursor, e.key)
      BY <1>10, <3>1
    <3>3. \A i \in DOMAIN new : new[i] # e.item
      BY <1>16, <1>17, <2>3
    <3> QED
      BY <3>2, <3>3
  <2> QED
    BY <2>2, <2>3
<1>18. ASSUME NEW e \in E, NEW f \in E, Promised(e) \in Due(w), Promised(f) \in Due(w),
              NEW i \in DOMAIN new, NEW j \in DOMAIN new, new[i] = e.item, new[j] = f.item, i < j
       PROVE  ~Less(f.plain, e.plain)
  <2>1. CASE Less(w.cursor, f.key)
    <3>1. j > c /\ j - c \in 1 .. Len(rows) /\ rows[j - c] = f
      BY <1>16, <1>18, <2>1
    <3>2. CASE Less(w.cursor, e.key)
      <4>1. i > c /\ i - c \in 1 .. Len(rows) /\ rows[i - c] = e
        BY <1>16, <1>18, <3>2
      <4>2. i - c < j - c
        BY <1>7, <1>18
      <4>3. Less(e.key, f.key)
        BY <1>2, <3>1, <4>1, <4>2 DEF Run
      <4> QED
        BY <4>3, PlainFollows
    <3>3. CASE ~Less(w.cursor, e.key)
      <4>1. e.key \in [1 .. n -> Int] /\ f.key \in [1 .. n -> Int]
        BY <1>1 DEF Keyed
      <4>2. e.key = w.cursor \/ Less(e.key, w.cursor)
        BY <1>1, <1>8, <3>3, <4>1, LessOrders
      <4>3. Less(e.key, f.key)
        BY <1>1, <1>8, <2>1, <4>1, <4>2, LessTransitive
      <4> QED
        BY <4>3, PlainFollows
    <3> QED
      BY <3>2, <3>3
  <2>2. CASE ~Less(w.cursor, f.key)
    \* Then it was seen before, and the other before it.
    <3>1. j \in 1 .. c
      <4>1. PICK k \in DOMAIN old : \A l \in DOMAIN old : old[l] = f.item <=> l = k
        BY <1>5, <1>18, <2>2 DEF Told
      <4>2. PICK m \in DOMAIN new : \A l \in DOMAIN new : new[l] = f.item <=> l = m
        BY <1>14, <1>18, <2>2
      <4>3. k \in DOMAIN new /\ new[k] = f.item
        BY <1>4, <1>7, <4>1
      <4> QED
        BY <1>7, <1>18, <4>1, <4>2, <4>3
    <3>2. i \in 1 .. c
      BY <1>7, <1>18, <3>1
    <3>3. old[i] = e.item /\ old[j] = f.item /\ i \in DOMAIN old /\ j \in DOMAIN old
      BY <1>7, <1>18, <3>1, <3>2
    <3> QED
      BY <1>5, <1>18, <3>3 DEF Told
  <2> QED
    BY <2>1, <2>2
<1>19. \A e \in E : Promised(e) \in Due(v) =>
         IF v.more /\ Less(v.cursor, e.key)
         THEN \A i \in DOMAIN v.shown : v.shown[i] # e.item
         ELSE \E i \in DOMAIN v.shown : \A j \in DOMAIN v.shown : v.shown[j] = e.item <=> j = i
  <2> SUFFICES ASSUME NEW e \in E, Promised(e) \in Due(w)
               PROVE  IF v.more /\ Less(v.cursor, e.key)
                      THEN \A i \in DOMAIN new : new[i] # e.item
                      ELSE \E i \in DOMAIN new : \A j \in DOMAIN new : new[j] = e.item <=> j = i
    <3>1. new = v.shown
      BY <1>5
    <3> QED
      BY <1>12, <3>1, Zenon
  <2>1. CASE Less(w.cursor, e.key)
    BY <1>17, <2>1
  <2>2. CASE ~Less(w.cursor, e.key)
    BY <1>14, <2>2
  <2> QED
    BY <2>1, <2>2
<1>20. Line(v.shown) /\ v.promised \subseteq {Promised(e) : e \in E}
  BY <1>5, <1>7 DEF Told
<1> QED
  BY <1>5, <1>11, <1>12, <1>18, <1>19, <1>20 DEF Told

\* An import gives rows new ids: but for the seams, what is still promised is on
\* the side of the cursor that it was on.
LEMMA Imported ==
  ASSUME NEW view \in View, NEW E, Listing(E, view), NEW F, Listing(F, view),
         NEW w, Told(w, E, Length(view)), NEW v, v.shown = w.shown, v.more = w.more, v.cursor = w.cursor,
         v.promised = w.promised \intersect {Promised(e) : e \in F},
         v.seams = IF /\ w.more /\ view.kind # "links" /\ \E e \in E \ F : e.plain = <<w.cursor[1]>>
                   THEN w.seams \union {<<w.cursor[1]>>} ELSE w.seams
  PROVE  Told(v, F, Length(view))
<1> DEFINE n == Length(view)
<1>1. v.promised \subseteq w.promised /\ w.seams \subseteq v.seams
  OBVIOUS
<1>2. Due(v) \subseteq Due(w)
  BY <1>1 DEF Due
<1>3. ASSUME NEW f \in F, Promised(f) \in Due(v)
      PROVE  \E e \in E : /\ Promised(e) = Promised(f)
                          /\ w.more => (Less(w.cursor, e.key) <=> Less(w.cursor, f.key))
  <2>1. Promised(f) \in w.promised
    BY <1>1, <1>3 DEF Due
  <2>2. PICK e \in E : Promised(e) = Promised(f)
    BY <2>1 DEF Told
  <2>3. e.item = f.item /\ e.plain = f.plain
    BY <2>2 DEF Promised
  <2>4. ASSUME w.more PROVE Less(w.cursor, e.key) <=> Less(w.cursor, f.key)
    <3>1. /\ w.cursor \in [1 .. n -> Int] /\ e.key \in [1 .. n -> Int] /\ f.key \in [1 .. n -> Int]
      BY <2>4 DEF Told, Listing, Keyed
    <3>2. CASE view.kind = "links"
      <4>1. e.key = f.key
        BY <2>3, <3>2 DEF Listing
      <4> QED
        BY <4>1
    <3>3. CASE view.kind # "links" /\ e.plain # <<w.cursor[1]>>
      <4>1. n = 2
        BY <3>3 DEF Length
      <4>2. e.plain = <<e.key[1]>> /\ f.plain = <<f.key[1]>>
        BY <3>3 DEF Listing
      <4>3. PICK a \in Int, b \in Int : a = w.cursor[1] /\ b = e.key[1]
        BY <3>1, <4>1
      <4>4. f.key[1] = b /\ a # b
        <5>1. PICK x, y : x = e.key[1] /\ y = f.key[1]
          OBVIOUS
        <5>2. e.plain = <<x>> /\ f.plain = <<y>> /\ e.plain # <<a>>
          BY <3>3, <4>2, <4>3, <5>1
        <5>3. <<x>> = <<y>>
          BY <2>3, <5>2
        <5>4. x = y /\ x # a
          BY <5>2, <5>3
        <5> QED
          BY <4>3, <5>1, <5>4
      <4>5. ASSUME NEW k \in [1 .. 2 -> Int], k[1] = b PROVE Less(w.cursor, k) <=> a < b
        <5>1. DOMAIN w.cursor = 1 .. 2
          BY <3>1, <4>1
        <5>2. ASSUME a < b PROVE Less(w.cursor, k)
          BY <4>3, <4>5, <5>1, <5>2 DEF Less
        <5>3. ASSUME Less(w.cursor, k) PROVE a < b
          <6>1. PICK i \in 1 .. 2 : w.cursor[i] < k[i] /\ \A j \in 1 .. i - 1 : w.cursor[j] = k[j]
            BY <5>1, <5>3 DEF Less
          <6>2. i = 1
            <7>1. i = 2 => w.cursor[1] = k[1]
              BY <6>1
            <7> QED
              BY <4>3, <4>4, <4>5, <6>1, <7>1
          <6> QED
            BY <4>3, <4>5, <6>1, <6>2
        <5> QED
          BY <5>2, <5>3
      <4> QED
        BY <3>1, <4>1, <4>3, <4>4, <4>5
    <3>4. CASE view.kind # "links" /\ e.plain = <<w.cursor[1]>>
      <4>1. <<w.cursor[1]>> \notin v.seams
        BY <1>3, <2>3, <3>4 DEF Due, Promised
      <4>2. e \in F
        BY <2>4, <3>4, <4>1
      <4>3. e = f
        BY <2>2, <4>2, SameItem
      <4> QED
        BY <4>3
    <3> QED
      BY <3>2, <3>3, <3>4
  <2> QED
    BY <2>2, <2>4
<1>4. ASSUME NEW f \in F, Promised(f) \in Due(v)
      PROVE  IF v.more /\ Less(v.cursor, f.key)
             THEN \A i \in DOMAIN v.shown : v.shown[i] # f.item
             ELSE \E i \in DOMAIN v.shown : \A j \in DOMAIN v.shown : v.shown[j] = f.item <=> j = i
  <2>1. PICK e \in E : /\ Promised(e) = Promised(f)
                       /\ w.more => (Less(w.cursor, e.key) <=> Less(w.cursor, f.key))
    BY <1>3, <1>4
  <2>2. e.item = f.item /\ Promised(e) \in Due(w)
    BY <1>2, <1>4, <2>1 DEF Promised
  <2>3. IF w.more /\ Less(w.cursor, e.key)
        THEN \A i \in DOMAIN w.shown : w.shown[i] # e.item
        ELSE \E i \in DOMAIN w.shown : \A j \in DOMAIN w.shown : w.shown[j] = e.item <=> j = i
    BY <2>2 DEF Told
  <2>4. CASE w.more /\ Less(w.cursor, e.key)
    BY <2>1, <2>2, <2>3, <2>4
  <2>5. CASE ~(w.more /\ Less(w.cursor, e.key))
    BY <2>1, <2>2, <2>3, <2>5
  <2> QED
    BY <2>4, <2>5
<1>5. ASSUME NEW e \in F, NEW f \in F, Promised(e) \in Due(v), Promised(f) \in Due(v),
             NEW i \in DOMAIN v.shown, NEW j \in DOMAIN v.shown, v.shown[i] = e.item, v.shown[j] = f.item, i < j
      PROVE  ~Less(f.plain, e.plain)
  <2>1. PICK a \in E : Promised(a) = Promised(e)
    BY <1>3, <1>5
  <2>2. PICK b \in E : Promised(b) = Promised(f)
    BY <1>3, <1>5
  <2>3. /\ a.item = e.item /\ a.plain = e.plain /\ Promised(a) \in Due(w)
        /\ b.item = f.item /\ b.plain = f.plain /\ Promised(b) \in Due(w)
    BY <1>2, <1>5, <2>1, <2>2 DEF Promised
  <2>4. ~Less(b.plain, a.plain)
    BY <1>5, <2>3 DEF Told
  <2> QED
    BY <2>3, <2>4
<1>6. Line(v.shown) /\ v.promised \subseteq {Promised(e) : e \in F} /\ (v.more => v.cursor \in [1 .. n -> Int])
  BY DEF Told
<1> QED
  BY <1>4, <1>5, <1>6 DEF Told

\* The messages around one are a page of those from the first of them on.
LEMMA ContextIs ==
  ASSUME ShelfOK(shelf), NEW id \in DOMAIN shelf.messages, NEW view,
         view = [kind |-> "messages", threads |-> {shelf.messages[id].thread}, asc |-> TRUE],
         NEW rows, rows = GetContext(id)
  PROVE  /\ Len(rows) > 0
         /\ Paged(rows, TRUE, {x \in Entries(shelf, view) : ~Less(x.key, rows[1].key)})
<1> DEFINE at == CHOOSE i \in DOMAIN Ordered(Entries(shelf, view)) : Ordered(Entries(shelf, view))[i].id = id
<1>1. PICK E : E = Entries(shelf, view)
  OBVIOUS
<1>2. Keyed(E, 2)
  <2>1. shelf.messages[id].thread \in Thread
    BY DEF ShelfOK, Rowed
  <2>2. view \in View
    BY <2>1 DEF View
  <2>3. Listing(E, view)
    BY <1>1, <2>2, EntriesListed
  <2> QED
    BY <2>3 DEF Listing, Length
<1>3. PICK all, c : all = Ordered(E) /\ c = Cardinality(E)
  OBVIOUS
<1>4. /\ c \in Nat /\ all \in [1 .. c -> E] /\ \A e \in E : \E i \in 1 .. c : all[i] = e
      /\ \A i, j \in 1 .. c : i < j <=> Less(all[i].key, all[j].key)
  BY <1>2, <1>3, Ordering
<1>5. \E e \in E : e.id = id
  <2>1. id \in {i \in DOMAIN shelf.messages : shelf.messages[i].thread \in view.threads}
    OBVIOUS
  <2>2. E = Timed(shelf.messages, view)
    BY <1>1 DEF Entries
  <2> DEFINE entry(i) ==
        [key |-> <<(IF view.asc THEN 1 ELSE -1) * shelf.messages[i].post.ts, (IF view.asc THEN 1 ELSE -1) * i>>,
         plain |-> <<(IF view.asc THEN 1 ELSE -1) * shelf.messages[i].post.ts>>,
         item |-> IF view.kind = "files" THEN <<shelf.messages[i].post, shelf.messages[i].n>> ELSE shelf.messages[i].post,
         id |-> i]
  <2>3. E = {entry(i) : i \in {j \in DOMAIN shelf.messages : shelf.messages[j].thread \in view.threads}}
    BY <2>2 DEF Timed
  <2>4. entry(id).id = id
    OBVIOUS
  <2> HIDE DEF entry
  <2>5. entry(id) \in E
    BY <2>1, <2>3
  <2> QED
    BY <2>4, <2>5
<1>6. at \in 1 .. c
  <2>1. PICK i \in 1 .. c : all[i].id = id
    BY <1>4, <1>5
  <2>2. DOMAIN all = 1 .. c
    BY <1>4
  <2> QED
    BY <1>1, <1>3, <2>1, <2>2
<1>7. rows = SubSeq(all, Max({1, at - Window}), Min({Len(all), at + Window}))
  BY <1>1, <1>3 DEF GetContext
<1>8. all \in Seq(E) /\ Len(all) = c
  BY <1>4
<1> HIDE DEF at
<1>9. PICK lo, hi : lo = Max({1, at - Window}) /\ hi = Min({c, at + Window})
  OBVIOUS
<1>10. lo \in 1 .. at /\ hi \in at .. c
  <2>1. at \in Nat /\ Window \in Nat /\ at - Window \in Int /\ at + Window \in Nat
    BY <1>4, <1>6, ReaderAssumption
  <2>2. lo = IF 1 >= at - Window THEN 1 ELSE at - Window
    <3>1. PICK S : S = {1, at - Window}
      OBVIOUS
    <3>2. \E x \in S : \A y \in S : x >= y
      BY <2>1, <3>1
    <3>3. lo = CHOOSE x \in S : \A y \in S : x >= y
      BY <1>9, <3>1 DEF Max
    <3>4. lo \in {1, at - Window} /\ \A y \in {1, at - Window} : lo >= y
      BY <3>1, <3>2, <3>3
    <3> QED
      BY <2>1, <3>4
  <2>3. hi = IF c <= at + Window THEN c ELSE at + Window
    BY <1>4, <1>9, <2>1, Least2
  <2> QED
    BY <1>4, <1>6, <2>1, <2>2, <2>3
<1>11. PICK m : m = hi - lo + 1 /\ m \in Nat /\ m > 0
  BY <1>4, <1>6, <1>10
<1>12. rows \in Seq(E) /\ Len(rows) = m /\ \A i \in 1 .. m : rows[i] = all[i + lo - 1] /\ i + lo - 1 \in 1 .. c
  <2>1. lo \in 1 .. Len(all) + 1 /\ hi \in 0 .. Len(all) /\ lo <= hi + 1
    BY <1>4, <1>6, <1>8, <1>10
  <2>2. /\ SubSeq(all, lo, hi) \in Seq(E) /\ Len(SubSeq(all, lo, hi)) = hi - lo + 1
        /\ \A i \in 1 .. hi - lo + 1 : SubSeq(all, lo, hi)[i] = all[i + lo - 1]
    BY <1>8, <2>1, Part
  <2>3. rows = SubSeq(all, lo, hi)
    BY <1>7, <1>8, <1>9
  <2>4. \A i \in 1 .. m : i + lo - 1 \in 1 .. c
    BY <1>4, <1>6, <1>10, <1>11
  <2> QED
    BY <1>11, <2>2, <2>3, <2>4
<1>13. PICK P : P = {x \in E : ~Less(x.key, rows[1].key)}
  OBVIOUS
<1>14. rows[1] = all[lo]
  <2>1. 1 \in 1 .. m /\ 1 + lo - 1 = lo
    BY <1>6, <1>10, <1>11
  <2> QED
    BY <1>12, <2>1
<1>15. \A k \in 1 .. c : all[k] \in P <=> k >= lo
  <2> SUFFICES ASSUME NEW k \in 1 .. c PROVE all[k] \in P <=> k >= lo
    OBVIOUS
  <2>1. lo \in 1 .. c
    BY <1>4, <1>6, <1>10
  <2>2. k < lo <=> Less(all[k].key, all[lo].key)
    BY <1>4, <2>1
  <2>3. all[k] \in E
    BY <1>4
  <2> QED
    BY <1>13, <1>14, <2>1, <2>2, <2>3
<1>16. Run(rows, P)
  <2>1. \A i \in 1 .. m : rows[i] \in P
    <3> SUFFICES ASSUME NEW i \in 1 .. m PROVE rows[i] \in P
      OBVIOUS
    <3>1. i + lo - 1 >= lo
      BY <1>6, <1>10, <1>11
    <3> QED
      BY <1>12, <1>15, <3>1
  <2>2. rows \in Seq(P)
    BY <1>12, <2>1
  <2>3. ASSUME NEW i \in 1 .. m, NEW j \in 1 .. m PROVE i < j <=> Less(rows[i].key, rows[j].key)
    <3>1. i < j <=> i + lo - 1 < j + lo - 1
      BY <1>6, <1>10, <1>11
    <3> QED
      BY <1>4, <1>12, <3>1
  <2> QED
    BY <1>12, <2>2, <2>3 DEF Run
<1>17. ASSUME NEW e \in P
       PROVE  \/ \E i \in 1 .. m : rows[i] = e
              \/ \A i \in 1 .. m : Less(rows[i].key, e.key)
  <2>1. PICK k \in 1 .. c : all[k] = e
    BY <1>4, <1>13
  <2>2. k >= lo
    BY <1>15, <2>1
  <2>3. CASE k <= hi
    <3>1. k - lo + 1 \in 1 .. m /\ (k - lo + 1) + lo - 1 = k
      BY <1>4, <1>6, <1>10, <1>11, <2>2, <2>3
    <3> QED
      BY <1>12, <2>1, <3>1
  <2>4. CASE k > hi
    <3> SUFFICES ASSUME NEW i \in 1 .. m PROVE Less(rows[i].key, e.key)
      OBVIOUS
    <3>1. i + lo - 1 < k /\ i + lo - 1 \in 1 .. c
      BY <1>4, <1>6, <1>10, <1>11, <1>12, <2>4
    <3> QED
      BY <1>4, <1>12, <2>1, <3>1
  <2> QED
    BY <1>4, <1>6, <1>10, <2>3, <2>4
<1>18. Paged(rows, TRUE, P)
  BY <1>11, <1>12, <1>16, <1>17 DEF Paged
<1> QED
  BY <1>1, <1>11, <1>12, <1>13, <1>18

-----------------------------------------------------------------------------
(* The searches.                                                           *)

\* A ranking: ids in a line, each once, and not too many.
Ranking(s, S, limit) ==
  /\ s \in Seq(S) /\ Len(s) <= limit
  /\ \A i, j \in 1 .. Len(s) : s[i] = s[j] => i = j

LEMMA RankedIs ==
  ASSUME NEW S, IsFiniteSet(S), NEW limit \in Nat, NEW s, s \in Ranked(S, limit)
  PROVE  Ranking(s, S, limit) /\ (Len(s) < limit => ToSet(s) = S)
<1>1. PICK p \in SetToAllKPermutations(S) : Len(p) = Cardinality(S) /\ s = SubSeq(p, 1, Min({limit, Len(p)}))
  BY DEF Ranked
<1>2. PICK T \in SUBSET S : p \in SetToSeqs(T)
  BY DEF SetToAllKPermutations
<1>3. IsFiniteSet(T) /\ Cardinality(T) \in Nat /\ Cardinality(S) \in Nat
  BY FS_Subset, FS_CardinalityType
<1>4. PICK c : c = Cardinality(T)
  OBVIOUS
<1>5. p \in [1 .. c -> T] /\ \A i, j \in 1 .. c : i # j => p[i] # p[j]
  BY <1>2, <1>4 DEF SetToSeqs
<1>6. p \in Seq(T) /\ Len(p) = c /\ c = Cardinality(S)
  BY <1>1, <1>3, <1>4, <1>5
<1>7. T = S
  BY <1>3, <1>4, <1>6, FS_Subset
<1>8. p \in Injection(1 .. c, S)
  BY <1>5, <1>7, Fun_IsInj
<1>9. IsFiniteSet(1 .. c) /\ Cardinality(1 .. c) = c
  <2>1. 1 \in Int /\ c \in Int
    BY <1>3, <1>4
  <2> QED
    BY <1>3, <1>4, <2>1, FS_Interval
<1>10. \A x \in S : \E i \in 1 .. c : p[i] = x
  <2>1. PICK D : D = 1 .. c
    OBVIOUS
  <2>2. p \in Surjection(D, S)
    BY <1>6, <1>8, <1>9, <2>1, FS_Injection
  <2>3. \A x \in S : \E i \in D : p[i] = x
    BY <2>2, Fun_SurjectionProperties
  <2> QED
    BY <2>1, <2>3
<1>11. PICK m : m = Min({limit, c}) /\ m = IF limit <= c THEN limit ELSE c
  BY <1>3, <1>4, Least2
<1>12. /\ s \in Seq(S) /\ Len(s) = m /\ m \in 0 .. c /\ m <= limit /\ (m < limit => m = c)
       /\ \A i \in 1 .. m : s[i] = p[i]
  <2>1. m \in 0 .. c /\ m <= limit /\ (m < limit => m = c) /\ m \in 0 .. Len(p)
    BY <1>3, <1>4, <1>6, <1>11
  <2>2. p \in Seq(S) /\ 1 \in 1 .. Len(p) + 1 /\ 1 <= m + 1
    BY <1>3, <1>4, <1>6, <1>7, <2>1
  <2>3. /\ SubSeq(p, 1, m) \in Seq(S) /\ Len(SubSeq(p, 1, m)) = m - 1 + 1
        /\ \A i \in 1 .. m - 1 + 1 : SubSeq(p, 1, m)[i] = p[i + 1 - 1]
    BY <2>1, <2>2, Part
  <2>4. s = SubSeq(p, 1, m)
    BY <1>1, <1>6, <1>11
  <2>5. m - 1 + 1 = m /\ \A i \in 1 .. m : i + 1 - 1 = i
    BY <2>1
  <2> QED
    BY <2>1, <2>3, <2>4, <2>5
<1>13. \A i, j \in 1 .. m : s[i] = s[j] => i = j
  BY <1>3, <1>4, <1>5, <1>12
<1>14. ASSUME Len(s) < limit PROVE ToSet(s) = S
  <2>1. m = c /\ DOMAIN s = 1 .. c
    BY <1>12, <1>14
  <2>2. \A i \in 1 .. c : s[i] = p[i]
    BY <1>12, <2>1
  <2>3. ToSet(s) = {p[i] : i \in 1 .. c}
    BY <2>1, <2>2 DEF ToSet
  <2> QED
    BY <1>5, <1>7, <1>10, <2>3
<1> QED
  BY <1>12, <1>13, <1>14 DEF Ranking

Place(s, id) == CHOOSE i \in DOMAIN s : s[i] = id

LEMMA PlaceIs ==
  ASSUME NEW S, NEW s \in Seq(S), NEW id \in ToSet(s)
  PROVE  Place(s, id) \in 1 .. Len(s) /\ s[Place(s, id)] = id
<1>1. PICK i \in DOMAIN s : s[i] = id
  BY DEF ToSet
<1>2. DOMAIN s = 1 .. Len(s)
  OBVIOUS
<1> QED
  BY <1>1, <1>2 DEF Place

\* Division is monotone in the divisor.
LEMMA Quotient ==
  ASSUME NEW n \in Nat, NEW a \in Nat \ {0}
  PROVE  (n \div a) \in Nat /\ a * (n \div a) <= n /\ n < a * (n \div a) + a
  OBVIOUS

LEMMA Product ==
  ASSUME NEW a \in Nat, NEW b \in Nat, a <= b, NEW q \in Nat
  PROVE  a * q <= b * q
  OBVIOUS

LEMMA QuotientFalls ==
  ASSUME NEW n \in Nat, NEW a \in Nat \ {0}, NEW b \in Nat, a <= b
  PROVE  (n \div b) <= (n \div a)
<1> DEFINE p == n \div a
           q == n \div b
<1>1. p \in Nat /\ q \in Nat /\ n < a * p + a /\ b * q <= n
  BY Quotient
<1> HIDE DEF p, q
<1>2. SUFFICES ASSUME p + 1 <= q PROVE FALSE
  BY <1>1 DEF p, q
<1>3. a * q <= b * q
  BY Product, <1>1
<1>4. a * (p + 1) <= a * q
  BY <1>1, <1>2
<1>5. a * (p + 1) = a * p + a /\ a * p \in Nat /\ a * q \in Nat /\ b * q \in Nat /\ a * (p + 1) \in Nat
  BY <1>1
<1> QED
  BY <1>1, <1>3, <1>4, <1>5

LEMMA QuotientPositive ==
  ASSUME NEW n \in Nat, NEW b \in Nat \ {0}, b <= n
  PROVE  (n \div b) > 0
  OBVIOUS

\* What a place in a ranking is worth.
LEMMA Share ==
  ASSUME NEW S, NEW s, Ranking(s, S, SearchLimit), NEW id
  PROVE  /\ RankShare(s, id) \in Nat
         /\ id \in ToSet(s) => /\ RankShare(s, id) > 0
                               /\ RankShare(s, id) = Scale \div (60 + Place(s, id))
                               /\ Place(s, id) \in 1 .. Len(s)
         /\ id \notin ToSet(s) => RankShare(s, id) = 0
<1>1. Scale \in Nat
  BY DEF Scale
<1>2. CASE id \in ToSet(s)
  <2>1. \E i \in DOMAIN s : s[i] = id
    BY <1>2 DEF ToSet
  <2>2. PICK k : k = Place(s, id)
    OBVIOUS
  <2>3. k \in 1 .. Len(s)
    BY <1>2, <2>2, PlaceIs DEF Ranking
  <2>4. 60 + k \in Nat \ {0} /\ 60 + k <= Scale
    BY <1>1, <2>3, ScaleAssumption, ReaderAssumption DEF Ranking
  <2>5. RankShare(s, id) = Scale \div (60 + k)
    BY <2>1, <2>2 DEF RankShare, Place
  <2>6. (Scale \div (60 + k)) \in Nat /\ (Scale \div (60 + k)) > 0
    BY <1>1, <2>4, Quotient, QuotientPositive
  <2> QED
    BY <1>2, <2>2, <2>3, <2>5, <2>6
<1>3. CASE id \notin ToSet(s)
  <2>1. ~(\E i \in DOMAIN s : s[i] = id)
    BY <1>3 DEF ToSet
  <2>2. RankShare(s, id) = 0
    BY <2>1 DEF RankShare
  <2> QED
    BY <1>3, <2>2
<1> QED
  BY <1>2, <1>3

\* What both halves found is worth more than what one found no better.
LEMMA BothAreWorthMore ==
  ASSUME NEW S, NEW kw, Ranking(kw, S, SearchLimit), NEW sem, Ranking(sem, S, SearchLimit),
         NEW x, x \in ToSet(kw), x \in ToSet(sem),
         NEW y, (y \in ToSet(kw)) # (y \in ToSet(sem)),
         (IF y \in ToSet(kw) THEN Place(kw, y) ELSE Place(sem, y)) >= Min({Place(kw, x), Place(sem, x)})
  PROVE  Score(kw, sem, y) < Score(kw, sem, x)
<1>1. PICK a, b : a = Place(kw, x) /\ b = Place(sem, x)
  OBVIOUS
<1>2. PICK c : c = IF y \in ToSet(kw) THEN Place(kw, y) ELSE Place(sem, y)
  OBVIOUS
<1>3. Len(kw) \in Nat /\ Len(sem) \in Nat /\ Scale \in Nat
  BY DEF Ranking, Scale
<1>4. PICK p, q : p = RankShare(kw, x) /\ q = RankShare(sem, x)
  OBVIOUS
<1>5. /\ p \in Nat /\ p > 0 /\ p = Scale \div (60 + a) /\ a \in Nat
      /\ q \in Nat /\ q > 0 /\ q = Scale \div (60 + b) /\ b \in Nat
  BY <1>1, <1>3, <1>4, Share
<1>6. Score(kw, sem, x) = p + q
  BY <1>4 DEF Score
<1>7. c \in Nat /\ Score(kw, sem, y) = Scale \div (60 + c) /\ Score(kw, sem, y) \in Nat
  <2>1. CASE y \in ToSet(kw)
    <3>1. PICK r : r = RankShare(kw, y)
      OBVIOUS
    <3>2. r \in Nat /\ r = Scale \div (60 + c) /\ c \in Nat
      BY <1>2, <1>3, <2>1, <3>1, Share
    <3>3. RankShare(sem, y) = 0
      BY <2>1, Share
    <3>4. Score(kw, sem, y) = r + 0
      BY <3>1, <3>3 DEF Score
    <3> QED
      BY <3>2, <3>4
  <2>2. CASE y \notin ToSet(kw)
    <3>1. PICK r : r = RankShare(sem, y)
      OBVIOUS
    <3>2. r \in Nat /\ r = Scale \div (60 + c) /\ c \in Nat
      BY <1>2, <1>3, <2>2, <3>1, Share
    <3>3. RankShare(kw, y) = 0
      BY <2>2, Share
    <3>4. Score(kw, sem, y) = 0 + r
      BY <3>1, <3>3 DEF Score
    <3> QED
      BY <3>2, <3>4
  <2> QED
    BY <2>1, <2>2
<1>8. a <= c \/ b <= c
  <2>1. Min({a, b}) = IF a <= b THEN a ELSE b
    BY <1>5, Least2
  <2>2. c >= Min({a, b})
    BY <1>1, <1>2
  <2> QED
    BY <1>5, <1>7, <2>1, <2>2
<1>9. (Scale \div (60 + c)) <= p \/ (Scale \div (60 + c)) <= q
  <2>1. 60 + a \in Nat \ {0} /\ 60 + b \in Nat \ {0} /\ 60 + c \in Nat
    BY <1>5, <1>7
  <2>2. 60 + a <= 60 + c \/ 60 + b <= 60 + c
    BY <1>5, <1>7, <1>8
  <2> QED
    BY <1>3, <1>5, <2>1, <2>2, QuotientFalls
<1>10. PICK r : r = Score(kw, sem, y)
  OBVIOUS
<1>11. r \in Nat /\ (r <= p \/ r <= q)
  BY <1>7, <1>9, <1>10
<1>12. p \in Nat /\ p > 0 /\ q \in Nat /\ q > 0
  BY <1>5
<1>13. r < p + q
  BY <1>11, <1>12
<1> QED
  BY <1>6, <1>10, <1>13

LEMMA FiniteLine ==
  ASSUME NEW S, NEW s \in Seq(S)
  PROVE  IsFiniteSet(ToSet(s)) /\ ToSet(s) \subseteq S
<1>1. Len(s) \in Nat /\ DOMAIN s = 1 .. Len(s) /\ \A i \in DOMAIN s : s[i] \in S
  OBVIOUS
<1>2. IsFiniteSet(DOMAIN s)
  <2>1. 1 \in Int /\ Len(s) \in Int
    BY <1>1
  <2> QED
    BY <1>1, <2>1, FS_Interval
<1> QED
  BY <1>1, <1>2, Image DEF ToSet

\* Messages arrive in the fusion one by one.
LEMMA ArrivalIs ==
  ASSUME NEW S, NEW kw \in Seq(S), NEW sem \in Seq(S), NEW id, id \in ToSet(kw) \union ToSet(sem)
  PROVE  Arrival(kw, sem, id) \in Nat /\ (kw \o sem)[Arrival(kw, sem, id)] = id
<1>1. PICK s : s = kw \o sem
  OBVIOUS
<1>2. /\ Len(kw) \in Nat /\ Len(sem) \in Nat /\ DOMAIN s = 1 .. Len(kw) + Len(sem)
      /\ \A i \in 1 .. Len(kw) : s[i] = kw[i]
      /\ \A i \in 1 .. Len(sem) : s[i + Len(kw)] = sem[i]
  BY <1>1
<1> DEFINE D == {i \in DOMAIN s : s[i] = id}
<1>3. D # {} /\ D \subseteq Nat
  <2>1. CASE id \in ToSet(kw)
    <3>1. PICK i \in 1 .. Len(kw) : kw[i] = id
      BY <2>1 DEF ToSet
    <3>2. i \in D
      BY <1>2, <3>1
    <3> QED
      BY <1>2, <3>2
  <2>2. CASE id \in ToSet(sem)
    <3>1. PICK i \in 1 .. Len(sem) : sem[i] = id
      BY <2>2 DEF ToSet
    <3>2. i + Len(kw) \in D
      BY <1>2, <3>1
    <3> QED
      BY <1>2, <3>2
  <2> QED
    BY <2>1, <2>2
<1>4. PICK m \in D : \A i \in D : m <= i
  BY <1>3, LeastOf
<1>5. \A j \in 1 .. m - 1 : s[j] # id
  <2> SUFFICES ASSUME NEW j \in 1 .. m - 1, s[j] = id PROVE FALSE
    OBVIOUS
  <2>1. m \in 1 .. Len(kw) + Len(sem)
    BY <1>2
  <2>2. j \in D /\ j < m
    BY <1>2, <2>1
  <2> QED
    BY <1>4, <2>1, <2>2
<1>6. \E i \in DOMAIN s : s[i] = id /\ \A j \in 1 .. i - 1 : s[j] # id
  BY <1>5
<1>7. Arrival(kw, sem, id) \in DOMAIN s /\ s[Arrival(kw, sem, id)] = id
  BY <1>1, <1>6 DEF Arrival
<1> QED
  BY <1>1, <1>2, <1>7

\* The fusion shows messages of either half, each once, the one with the higher
\* score above, and leaves out only those below.
LEMMA FuseIs ==
  ASSUME NEW S, NEW kw, Ranking(kw, S, SearchLimit), NEW sem, Ranking(sem, S, SearchLimit),
         NEW hits, hits = fuseSearchResults(kw, sem)
  PROVE  /\ hits \in Seq(ToSet(kw) \union ToSet(sem))
         /\ \A i, j \in 1 .. Len(hits) : hits[i] = hits[j] => i = j
         /\ \A x \in ToSet(kw) \union ToSet(sem), y \in ToSet(kw) \union ToSet(sem) :
              Score(kw, sem, y) < Score(kw, sem, x) /\ y \in ToSet(hits) =>
                x \in ToSet(hits) /\ Place(hits, x) < Place(hits, y)
<1> DEFINE entry(id) == [key |-> <<-Score(kw, sem, id), Arrival(kw, sem, id)>>, id |-> id]
<1>1. PICK M : M = ToSet(kw) \union ToSet(sem)
  OBVIOUS
<1>2. PICK E : E = {entry(id) : id \in M}
  OBVIOUS
<1>3. IsFiniteSet(M)
  <2>1. IsFiniteSet(ToSet(kw)) /\ IsFiniteSet(ToSet(sem))
    BY FiniteLine DEF Ranking
  <2> QED
    BY <1>1, <2>1, FS_Union
<1>4. ASSUME NEW id \in M
      PROVE  /\ Score(kw, sem, id) \in Nat /\ Arrival(kw, sem, id) \in Nat
             /\ (kw \o sem)[Arrival(kw, sem, id)] = id
  <2>1. PICK p, q : p = RankShare(kw, id) /\ q = RankShare(sem, id)
    OBVIOUS
  <2>2. p \in Nat /\ q \in Nat
    BY <2>1, Share
  <2>3. Score(kw, sem, id) = p + q
    BY <2>1 DEF Score
  <2>4. Arrival(kw, sem, id) \in Nat /\ (kw \o sem)[Arrival(kw, sem, id)] = id
    <3>1. kw \in Seq(S) /\ sem \in Seq(S) /\ id \in ToSet(kw) \union ToSet(sem)
      BY <1>1 DEF Ranking
    <3> QED
      BY <3>1, ArrivalIs
  <2> QED
    BY <2>2, <2>3, <2>4
<1>5. \A id \in M : /\ entry(id).id = id /\ entry(id).key \in [1 .. 2 -> Int]
                    /\ entry(id).key[1] = -Score(kw, sem, id) /\ entry(id).key[2] = Arrival(kw, sem, id)
  <2> SUFFICES ASSUME NEW id \in M
               PROVE  /\ entry(id).id = id /\ entry(id).key \in [1 .. 2 -> Int]
                      /\ entry(id).key[1] = -Score(kw, sem, id) /\ entry(id).key[2] = Arrival(kw, sem, id)
    OBVIOUS
  <2>1. PICK a \in Int, b \in Int : a = -Score(kw, sem, id) /\ b = Arrival(kw, sem, id)
    BY <1>4
  <2>2. entry(id).key = <<a, b>>
    BY <2>1
  <2> QED
    BY <2>1, <2>2
<1> HIDE DEF entry
<1>6. IsFiniteSet(E)
  <2>1. PICK f : f = [id \in M |-> entry(id)]
    OBVIOUS
  <2>2. DOMAIN f = M /\ E = {f[x] : x \in DOMAIN f}
    BY <1>2, <2>1
  <2>3. IsFiniteSet({f[x] : x \in DOMAIN f})
    BY <1>3, <2>2, Image
  <2> QED
    BY <2>2, <2>3
<1>7. Keyed(E, 2)
  <2>1. \A e \in E : e.key \in [1 .. 2 -> Int]
    BY <1>2, <1>5
  <2>2. ASSUME NEW e \in E, NEW f \in E, e.key = f.key PROVE e = f
    <3>1. PICK i \in M : e = entry(i)
      BY <1>2
    <3>2. PICK j \in M : f = entry(j)
      BY <1>2
    <3>3. Arrival(kw, sem, i) = Arrival(kw, sem, j)
      BY <1>5, <2>2, <3>1, <3>2
    <3>4. i = j
      BY <1>4, <3>3
    <3> QED
      BY <3>1, <3>2, <3>4
  <2> QED
    BY <1>6, <2>1, <2>2 DEF Keyed
<1>8. PICK all, c : all = Ordered(E) /\ c = Cardinality(E)
  OBVIOUS
<1>9. /\ c \in Nat /\ all \in [1 .. c -> E] /\ \A e \in E : \E i \in 1 .. c : all[i] = e
      /\ \A i, j \in 1 .. c : i < j <=> Less(all[i].key, all[j].key)
      /\ \A i, j \in 1 .. c : all[i] = all[j] => i = j
  BY <1>7, <1>8, Ordering, OrderedOnce
<1>10. Len(all) = c
  BY <1>9
<1>11. PICK m : m = Min({SearchLimit, c}) /\ m = IF SearchLimit <= c THEN SearchLimit ELSE c
  BY <1>9, Least2, ReaderAssumption
<1>12. m \in 0 .. c
  BY <1>9, <1>11, ReaderAssumption
<1>13. hits = [i \in 1 .. m |-> all[i].id]
  <2>1. E = {[key |-> <<-Score(kw, sem, id), Arrival(kw, sem, id)>>, id |-> id] : id \in ToSet(kw) \union ToSet(sem)}
    BY <1>1, <1>2 DEF entry
  <2>2. hits = [i \in 1 .. Min({SearchLimit, Len(all)}) |-> all[i].id]
    BY <1>8, <2>1 DEF fuseSearchResults
  <2> QED
    BY <1>10, <1>11, <2>2
<1>14. \A i \in 1 .. c : all[i].id \in M /\ all[i] = entry(all[i].id)
  BY <1>2, <1>5, <1>9
<1>15. hits \in Seq(M) /\ Len(hits) = m /\ DOMAIN hits = 1 .. m /\ \A i \in 1 .. m : hits[i] = all[i].id /\ i \in 1 .. c
  <2>1. \A i \in 1 .. m : i \in 1 .. c
    BY <1>9, <1>12
  <2>2. hits \in [1 .. m -> M] /\ m \in Nat
    BY <1>12, <1>13, <1>14, <2>1
  <2> QED
    BY <1>13, <2>1, <2>2
<1>16. \A i, j \in 1 .. m : hits[i] = hits[j] => i = j
  BY <1>9, <1>14, <1>15
<1>17. ASSUME NEW x \in M, NEW y \in M, Score(kw, sem, y) < Score(kw, sem, x), y \in ToSet(hits)
       PROVE  x \in ToSet(hits) /\ Place(hits, x) < Place(hits, y)
  <2>1. PICK j : j = Place(hits, y)
    OBVIOUS
  <2>2. j \in 1 .. m /\ hits[j] = y
    BY <1>15, <1>17, <2>1, PlaceIs
  <2>3. all[j] = entry(y) /\ j \in 1 .. c
    BY <1>14, <1>15, <2>2
  <2>4. PICK i \in 1 .. c : all[i] = entry(x)
    BY <1>2, <1>9
  <2>5. Less(entry(x).key, entry(y).key)
    <3>1. PICK k, l : k = entry(x).key /\ l = entry(y).key
      OBVIOUS
    <3>2. k \in [1 .. 2 -> Int] /\ k[1] = -Score(kw, sem, x) /\ l[1] = -Score(kw, sem, y)
      BY <1>5, <3>1
    <3>3. Score(kw, sem, x) \in Nat /\ Score(kw, sem, y) \in Nat
      BY <1>4
    <3>4. k[1] < l[1] /\ 1 \in DOMAIN k
      BY <1>17, <3>2, <3>3
    <3>5. Less(k, l)
      BY <3>4 DEF Less
    <3> QED
      BY <3>1, <3>5
  <2>6. i < j
    BY <1>9, <2>3, <2>4, <2>5
  <2>7. i \in 1 .. m /\ hits[i] = x
    <3>1. i \in 1 .. m
      BY <1>12, <2>2, <2>6
    <3>2. hits[i] = entry(x).id
      BY <1>15, <2>4, <3>1
    <3> QED
      BY <1>5, <3>1, <3>2
  <2>8. x \in ToSet(hits)
    BY <1>15, <2>7 DEF ToSet
  <2>9. PICK k : k = Place(hits, x)
    OBVIOUS
  <2>10. k \in 1 .. m /\ hits[k] = x
    BY <1>15, <2>8, <2>9, PlaceIs
  <2>11. k = i
    BY <1>16, <2>7, <2>10
  <2> QED
    BY <2>1, <2>6, <2>8, <2>9, <2>11
<1> QED
  BY <1>1, <1>15, <1>16, <1>17

\* What SearchIsHonest says, of the ids that are seen.
Honest(ids, kw, sem, form) ==
  /\ \A i, j \in DOMAIN ids : i # j => ids[i] # ids[j]
  /\ \A i \in DOMAIN ids : Passes(ids[i], form)
  /\ \A x \in ToSet(kw) \intersect ToSet(sem),
        y \in (ToSet(kw) \union ToSet(sem)) \ (ToSet(kw) \intersect ToSet(sem)) :
       /\ (IF y \in ToSet(kw) THEN Place(kw, y) ELSE Place(sem, y)) >= Min({Place(kw, x), Place(sem, x)})
       /\ y \in ToSet(ids)
       => x \in ToSet(ids) /\ Place(ids, x) < Place(ids, y)

Shown(hits) == [i \in DOMAIN hits |-> hits[i].id]

AllWorded(ids) ==
  ToSet(ids) = {id \in DOMAIN shelf.messages : shelf.messages[id].post \in Worded /\ Passes(id, found.form)}

LEMMA HonestIs ==
  SearchIsHonest <=> (found.current => /\ Honest(Shown(found.hits), found.kw, found.sem, found.form)
                                       /\ ~found.capped /\ found.mode = "keyword" => AllWorded(Shown(found.hits)))
  BY Zenon DEF SearchIsHonest, Honest, Shown, Place, AllWorded

LEMMA Empty ==
  ASSUME NEW S, NEW limit \in Nat
  PROVE  Ranking(<<>>, S, limit) /\ ToSet(<<>>) = {}
  BY DEF Ranking, ToSet

LEMMA OneHalf ==
  ASSUME NEW S, NEW limit, NEW form, \A id \in S : Passes(id, form), NEW s, Ranking(s, S, limit)
  PROVE  Honest(s, s, <<>>, form) /\ Honest(s, <<>>, s, form)
<1>1. ToSet(<<>>) = {}
  BY DEF ToSet
<1>2. DOMAIN s = 1 .. Len(s) /\ \A i \in DOMAIN s : s[i] \in S
  BY DEF Ranking
<1>3. \A i, j \in DOMAIN s : i # j => s[i] # s[j]
  BY <1>2 DEF Ranking
<1> QED
  BY <1>1, <1>2, <1>3 DEF Honest

LEMMA Fused ==
  ASSUME NEW S, NEW form, \A id \in S : Passes(id, form),
         NEW kw, Ranking(kw, S, SearchLimit), NEW sem, Ranking(sem, S, SearchLimit),
         NEW hits, hits = fuseSearchResults(kw, sem)
  PROVE  Honest(hits, kw, sem, form)
<1>1. /\ hits \in Seq(ToSet(kw) \union ToSet(sem))
      /\ \A i, j \in 1 .. Len(hits) : hits[i] = hits[j] => i = j
      /\ \A x \in ToSet(kw) \union ToSet(sem), y \in ToSet(kw) \union ToSet(sem) :
           Score(kw, sem, y) < Score(kw, sem, x) /\ y \in ToSet(hits) =>
             x \in ToSet(hits) /\ Place(hits, x) < Place(hits, y)
  BY FuseIs
<1>2. ToSet(kw) \subseteq S /\ ToSet(sem) \subseteq S
  BY FiniteLine DEF Ranking
<1>3. DOMAIN hits = 1 .. Len(hits) /\ \A i \in DOMAIN hits : hits[i] \in S
  BY <1>1, <1>2
<1>4. ASSUME NEW x \in ToSet(kw) \intersect ToSet(sem),
             NEW y \in (ToSet(kw) \union ToSet(sem)) \ (ToSet(kw) \intersect ToSet(sem)),
             (IF y \in ToSet(kw) THEN Place(kw, y) ELSE Place(sem, y)) >= Min({Place(kw, x), Place(sem, x)}),
             y \in ToSet(hits)
      PROVE  x \in ToSet(hits) /\ Place(hits, x) < Place(hits, y)
  <2>1. Score(kw, sem, y) < Score(kw, sem, x)
    BY <1>4, BothAreWorthMore
  <2> QED
    BY <1>1, <1>4, <2>1
<1>5. \A i, j \in DOMAIN hits : i # j => hits[i] # hits[j]
  BY <1>1, <1>3
<1>6. \A i \in DOMAIN hits : Passes(hits[i], form)
  BY <1>3
<1> QED
  BY <1>4, <1>5, <1>6 DEF Honest

FoundTyped ==
  /\ found = [mode |-> found.mode, form |-> found.form, kw |-> found.kw, sem |-> found.sem,
              capped |-> found.capped, current |-> found.current, hits |-> found.hits]
  /\ \A i \in DOMAIN found.hits : found.hits[i].thread \in Thread

\* A result is honest if the ids that it shows are.
LEMMA ResultIs ==
  ASSUME ShelfOK(shelf), NEW mode, NEW form, NEW kw, NEW sem, NEW capped,
         NEW S, S \subseteq DOMAIN shelf.messages, NEW hits \in Seq(S),
         found' = Result(mode, form, kw, sem, hits, capped), UNCHANGED shelf,
         Honest(hits, kw, sem, form),
         ~capped /\ mode = "keyword" =>
           ToSet(hits) = {id \in DOMAIN shelf.messages : shelf.messages[id].post \in Worded /\ Passes(id, form)}
  PROVE  FoundTyped' /\ SearchIsHonest'
<1>1. PICK seen : seen = [i \in DOMAIN hits |-> [id |-> hits[i], thread |-> shelf.messages[hits[i]].thread]]
  OBVIOUS
<1>2. found' = [mode |-> mode, form |-> form, kw |-> kw, sem |-> sem, capped |-> capped, current |-> TRUE, hits |-> seen]
  BY <1>1 DEF Result
<1>3. /\ found'.mode = mode /\ found'.form = form /\ found'.kw = kw /\ found'.sem = sem
      /\ found'.capped = capped /\ found'.hits = seen
  BY <1>2
<1>4. DOMAIN seen = DOMAIN hits /\ \A i \in DOMAIN hits : seen[i].id = hits[i] /\ seen[i].thread \in Thread
  BY <1>1 DEF ShelfOK, Rowed
<1>5. FoundTyped'
  BY <1>2, <1>3, <1>4 DEF FoundTyped
<1>6. [i \in DOMAIN seen |-> seen[i].id] = hits
  <2>1. hits = [i \in DOMAIN hits |-> hits[i]]
    OBVIOUS
  <2> QED
    BY <1>4, <2>1
<1>7. \A id \in DOMAIN shelf.messages : Passes(id, form)' <=> Passes(id, form)
  BY DEF Passes
<1>8. \A i \in DOMAIN hits : hits[i] \in DOMAIN shelf.messages
  OBVIOUS
<1>9. SearchIsHonest'
  <2>1. Shown(found.hits)' = hits
    BY <1>3, <1>6 DEF Shown
  <2>2. Honest(hits, kw, sem, form)'
    BY DEF Honest, Passes
  <2>3. ~capped /\ mode = "keyword" => AllWorded(hits)'
    BY <1>3 DEF Passes, AllWorded
  <2>4. (found.current => /\ Honest(Shown(found.hits), found.kw, found.sem, found.form)
                          /\ ~found.capped /\ found.mode = "keyword" => AllWorded(Shown(found.hits)))'
    BY <1>3, <2>1, <2>2, <2>3
  <2> QED
    BY <2>4, HonestIs, PTL
<1> QED
  BY <1>5, <1>9

-----------------------------------------------------------------------------
(* The invariant, step by step.                                            *)

ReaderInv == ShelfOK(shelf) /\ WalkInv /\ FoundTyped /\ SearchIsHonest

LEMMA NoResultIs ==
  ASSUME found' = NoResult
  PROVE  FoundTyped' /\ SearchIsHonest'
<1>1. FoundTyped'
  BY DEF FoundTyped, NoResult
<1>2. (found.current => /\ Honest(Shown(found.hits), found.kw, found.sem, found.form)
                        /\ ~found.capped /\ found.mode = "keyword" => AllWorded(Shown(found.hits)))'
  BY DEF NoResult
<1>3. SearchIsHonest'
  BY <1>2, HonestIs, PTL
<1> QED
  BY <1>1, <1>3

LEMMA SearchStays ==
  ASSUME FoundTyped, SearchIsHonest, UNCHANGED <<shelf, found>>
  PROVE  FoundTyped' /\ SearchIsHonest'
<1>1. FoundTyped'
  BY DEF FoundTyped
<1>2. PICK ids, kw, sem, form : ids = Shown(found.hits) /\ kw = found.kw /\ sem = found.sem /\ form = found.form
  OBVIOUS
<1>3. Honest(ids, kw, sem, form)' <=> Honest(ids, kw, sem, form)
  BY DEF Honest, Passes
<1>4. AllWorded(ids)' <=> AllWorded(ids)
  BY DEF AllWorded, Passes
<1>5. Shown(found.hits)' = ids
  BY <1>2 DEF Shown
<1>6. found.current => /\ Honest(ids, kw, sem, form)
                       /\ ~found.capped /\ found.mode = "keyword" => AllWorded(ids)
  BY <1>2, HonestIs
<1>7. (found.current => /\ Honest(Shown(found.hits), found.kw, found.sem, found.form)
                        /\ ~found.capped /\ found.mode = "keyword" => AllWorded(Shown(found.hits)))'
  BY <1>2, <1>3, <1>4, <1>5, <1>6
<1>8. SearchIsHonest'
  BY <1>7, HonestIs, PTL
<1> QED
  BY <1>1, <1>8

\* A walk that starts with a page of what it promises.
LEMMA WalkStarts ==
  ASSUME ShelfOK(shelf), UNCHANGED shelf, NEW view \in View, NEW P, P \subseteq Entries(shelf, view),
         NEW rows, NEW more, Paged(rows, more, P), NEW cursor, Len(rows) > 0 => cursor = rows[Len(rows)].key,
         walk' = [view |-> view, shown |-> [i \in DOMAIN rows |-> rows[i].item], cursor |-> cursor,
                  more |-> more, seams |-> {}, promised |-> {[item |-> e.item, plain |-> e.plain] : e \in P}]
  PROVE  WalkInv'
<1>1. PICK E : E = Entries(shelf, view)
  OBVIOUS
<1>2. Listing(E, view)
  BY <1>1, EntriesListed
<1>3. PICK w : w = walk'
  OBVIOUS
<1>4. /\ w.view = view /\ w.shown = [i \in DOMAIN rows |-> rows[i].item] /\ w.cursor = cursor /\ w.more = more
      /\ w.seams = {} /\ w.promised = {Promised(e) : e \in P}
      /\ w = [view |-> w.view, shown |-> w.shown, cursor |-> w.cursor,
              more |-> w.more, promised |-> w.promised, seams |-> w.seams]
  BY <1>3 DEF Promised
<1>5. Told(w, E, Length(view))
  BY <1>1, <1>2, <1>4, Started
<1>6. Entries(shelf, view)' = E
  BY <1>1 DEF Entries, Timed, Links
<1> QED
  BY <1>3, <1>4, <1>5, <1>6 DEF WalkInv

LEMMA OpenKeeps ==
  ASSUME ReaderInv, NEW view \in View, Open(view)
  PROVE  ReaderInv'
<1>1. PICK E : E = Entries(shelf, view)
  OBVIOUS
<1>2. PICK rows, more : rows = Page(view, None).rows /\ more = Page(view, None).more
  OBVIOUS
<1>3. Listing(E, view)
  BY <1>1, EntriesListed DEF ReaderInv
<1>4. Paged(rows, more, {e \in Entries(shelf, view) : None = None \/ Less(None, e.key)})
  BY <1>1, <1>2, <1>3, PageIs DEF Listing
<1>5. Paged(rows, more, E)
  <2>1. {e \in Entries(shelf, view) : None = None \/ Less(None, e.key)} = E
    BY <1>1
  <2> QED
    BY <1>4, <2>1
<1>6. PICK cursor : cursor = IF rows = <<>> THEN None ELSE Last(rows).key
  OBVIOUS
<1>7. Len(rows) > 0 => cursor = rows[Len(rows)].key
  <2>1. rows \in Seq(E)
    BY <1>5 DEF Paged, Run
  <2> QED
    BY <1>6, <2>1 DEF Last
<1>8. walk' = [view |-> view, shown |-> [i \in DOMAIN rows |-> rows[i].item], cursor |-> cursor,
               more |-> more, seams |-> {}, promised |-> {[item |-> e.item, plain |-> e.plain] : e \in E}]
  BY <1>1, <1>2, <1>6 DEF Open
<1>9. WalkInv'
  BY <1>1, <1>5, <1>7, <1>8, WalkStarts DEF ReaderInv, Open
<1>10. FoundTyped' /\ SearchIsHonest'
  BY NoResultIs DEF Open
<1>11. ShelfOK(shelf)'
  BY DEF Open, ReaderInv, ShelfOK, Rowed
<1> QED
  BY <1>9, <1>10, <1>11 DEF ReaderInv

LEMMA MoreKeeps ==
  ASSUME ReaderInv, More
  PROVE  ReaderInv'
<1>1. PICK w : w = walk
  OBVIOUS
<1>2. w.more /\ w # NoWalk
  BY <1>1 DEF More, NoWalk
<1>3. PICK view : view = w.view
  OBVIOUS
<1>4. PICK E : E = Entries(shelf, view)
  OBVIOUS
<1>5. /\ w = [view |-> w.view, shown |-> w.shown, cursor |-> w.cursor,
              more |-> w.more, promised |-> w.promised, seams |-> w.seams]
      /\ view \in View /\ Told(w, E, Length(view))
  BY <1>1, <1>2, <1>3, <1>4 DEF ReaderInv, WalkInv
<1>6. Listing(E, view)
  BY <1>4, <1>5, EntriesListed DEF ReaderInv
<1>7. w.cursor # None
  <2>1. w.cursor \in [1 .. Length(view) -> Int]
    BY <1>2, <1>5 DEF Told
  <2> QED
    BY <2>1, NoneAssumption DEF Length
<1>8. PICK rows, more, cursor : rows = Page(view, cursor).rows /\ more = Page(view, cursor).more /\ cursor = w.cursor
  OBVIOUS
<1>9. Paged(rows, more, {e \in E : Less(w.cursor, e.key)})
  <2>1. Paged(rows, more, {e \in Entries(shelf, view) : cursor = None \/ Less(cursor, e.key)})
    <3>1. PICK n : n = Length(view)
      OBVIOUS
    <3>2. Keyed(Entries(shelf, view), n)
      BY <1>4, <1>6, <3>1 DEF Listing
    <3> QED
      BY <1>8, <3>2, PageIs
  <2>2. {e \in Entries(shelf, view) : cursor = None \/ Less(cursor, e.key)} = {e \in E : Less(w.cursor, e.key)}
    BY <1>4, <1>7, <1>8
  <2> QED
    BY <2>1, <2>2
<1>10. PICK v : v = walk'
  OBVIOUS
<1>11. v = [w EXCEPT !.shown = @ \o [i \in DOMAIN rows |-> rows[i].item],
                     !.cursor = IF rows = <<>> THEN @ ELSE Last(rows).key,
                     !.more = more]
  BY <1>1, <1>3, <1>8, <1>10 DEF More
<1>12. /\ v.shown = w.shown \o [i \in DOMAIN rows |-> rows[i].item]
       /\ v.cursor = IF rows = <<>> THEN w.cursor ELSE Last(rows).key
       /\ v.more = more /\ v.promised = w.promised /\ v.seams = w.seams /\ v.view = view
       /\ v = [view |-> v.view, shown |-> v.shown, cursor |-> v.cursor,
               more |-> v.more, promised |-> v.promised, seams |-> v.seams]
  BY <1>3, <1>5, <1>11
<1>13. v.cursor = IF rows = <<>> THEN w.cursor ELSE rows[Len(rows)].key
  BY <1>12 DEF Last
<1>14. Told(v, E, Length(view))
  BY <1>2, <1>5, <1>6, <1>9, <1>12, <1>13, Continued
<1>15. UNCHANGED <<shelf, found>>
  BY DEF More
<1>16. Entries(shelf, view)' = E
  BY <1>4, <1>15 DEF Entries, Timed, Links
<1>17. WalkInv'
  BY <1>5, <1>10, <1>12, <1>14, <1>16 DEF WalkInv
<1>18. FoundTyped' /\ SearchIsHonest'
  BY <1>15, SearchStays DEF ReaderInv
<1>19. ShelfOK(shelf)'
  BY <1>15 DEF ReaderInv, ShelfOK, Rowed
<1> QED
  BY <1>17, <1>18, <1>19 DEF ReaderInv

LEMMA AtKeeps ==
  ASSUME ReaderInv, handleConversationAt
  PROVE  ReaderInv'
<1>1. PICK i \in DOMAIN found.hits :
        LET hit == found.hits[i]
            view == [kind |-> "messages", threads |-> {hit.thread}, asc |-> TRUE]
            page == GetContext(hit.id)
        IN /\ MessageConversationID(hit.id) = hit.thread
           /\ walk' = [view |-> view, shown |-> [j \in DOMAIN page |-> page[j].item],
                       cursor |-> Last(page).key, more |-> TRUE, seams |-> {},
                       promised |-> {[item |-> e.item, plain |-> e.plain] :
                                       e \in {x \in Entries(shelf, view) : ~Less(x.key, page[1].key)}}]
           /\ found' = NoResult
           /\ UNCHANGED <<shelf, imports>>
  BY DEF handleConversationAt
<1>2. PICK id, thread : id = found.hits[i].id /\ thread = found.hits[i].thread
  OBVIOUS
<1>3. thread \in Thread
  BY <1>1, <1>2 DEF ReaderInv, FoundTyped
<1>4. id \in DOMAIN shelf.messages /\ shelf.messages[id].thread = thread
  BY <1>1, <1>2, <1>3, NoneAssumption DEF MessageConversationID
<1>5. PICK view : view = [kind |-> "messages", threads |-> {thread}, asc |-> TRUE]
  OBVIOUS
<1>6. PICK page : page = GetContext(id)
  OBVIOUS
<1>7. PICK P : P = {x \in Entries(shelf, view) : ~Less(x.key, page[1].key)}
  OBVIOUS
<1>8. /\ walk' = [view |-> view, shown |-> [j \in DOMAIN page |-> page[j].item], cursor |-> Last(page).key,
                  more |-> TRUE, seams |-> {}, promised |-> {[item |-> e.item, plain |-> e.plain] : e \in P}]
      /\ found' = NoResult /\ UNCHANGED shelf
  BY <1>1, <1>2, <1>5, <1>6, <1>7
<1>9. Len(page) > 0 /\ Paged(page, TRUE, P)
  BY <1>4, <1>5, <1>6, <1>7, ContextIs DEF ReaderInv
<1>10. view \in View /\ P \subseteq Entries(shelf, view)
  BY <1>3, <1>5, <1>7 DEF View
<1>11. PICK cursor : cursor = Last(page).key /\ cursor = page[Len(page)].key
  BY DEF Last
<1>12. WalkInv'
  BY <1>8, <1>9, <1>10, <1>11, WalkStarts DEF ReaderInv
<1>13. FoundTyped' /\ SearchIsHonest'
  BY <1>8, NoResultIs
<1>14. ShelfOK(shelf)'
  BY <1>8 DEF ReaderInv, ShelfOK, Rowed
<1> QED
  BY <1>12, <1>13, <1>14 DEF ReaderInv

LEMMA ReplaceKeeps ==
  ASSUME ReaderInv, NEW thread \in Thread, ReplaceConversationMessages(thread)
  PROVE  ReaderInv'
<1>1. PICK posts \in Content[thread] :
        LET rows == [i \in DOMAIN posts |-> [thread |-> thread, post |-> posts[i]]]
            d == [messages |-> Numbered(Others(shelf.messages, thread), rows),
                  files |-> Numbered(Others(shelf.files, thread), Attached(thread, posts))]
        IN shelf' = d /\ walk' = Promise(d)
  BY DEF ReplaceConversationMessages
<1>2. PICK rows : rows = [i \in DOMAIN posts |-> [thread |-> thread, post |-> posts[i]]]
  OBVIOUS
<1>3. PICK d : d = [messages |-> Numbered(Others(shelf.messages, thread), rows),
                    files |-> Numbered(Others(shelf.files, thread), Attached(thread, posts))]
  OBVIOUS
<1>4. shelf' = d /\ walk' = Promise(d)
  BY <1>1, <1>2, <1>3
<1>5. ShelfOK(d)
  BY <1>2, <1>3, ShelfKept DEF ReaderInv
<1>6. ShelfOK(shelf)'
  BY <1>4, <1>5
<1>7. FoundTyped' /\ SearchIsHonest'
  <2>1. found' = [found EXCEPT !.current = FALSE]
    BY DEF ReplaceConversationMessages
  <2>2. PICK f : f = found
    OBVIOUS
  <2>3. f = [mode |-> f.mode, form |-> f.form, kw |-> f.kw, sem |-> f.sem,
             capped |-> f.capped, current |-> f.current, hits |-> f.hits]
    BY <2>2 DEF ReaderInv, FoundTyped
  <2>4. PICK g : g = found' /\ g = [f EXCEPT !.current = FALSE]
    BY <2>1, <2>2
  <2>5. g.current = FALSE /\ g.hits = f.hits
        /\ g = [mode |-> g.mode, form |-> g.form, kw |-> g.kw, sem |-> g.sem,
                capped |-> g.capped, current |-> g.current, hits |-> g.hits]
    BY <2>3, <2>4
  <2>6. FoundTyped'
    BY <2>2, <2>4, <2>5 DEF ReaderInv, FoundTyped
  <2>7. (found.current => /\ Honest(Shown(found.hits), found.kw, found.sem, found.form)
                          /\ ~found.capped /\ found.mode = "keyword" => AllWorded(Shown(found.hits)))'
    BY <2>4, <2>5
  <2>8. SearchIsHonest'
    BY <2>7, HonestIs, PTL
  <2> QED
    BY <2>6, <2>8
<1>8. CASE walk = NoWalk
  <2>1. walk.view = None
    BY <1>8 DEF NoWalk
  <2>2. walk' = NoWalk
    BY <1>4, <1>8, <2>1 DEF Promise
  <2> QED
    BY <1>6, <1>7, <2>2 DEF ReaderInv, WalkInv
<1>9. CASE walk # NoWalk
  <2>1. PICK w, v : w = walk /\ v = walk'
    OBVIOUS
  <2>2. PICK view : view = w.view
    OBVIOUS
  <2>3. PICK E, F : E = Entries(shelf, view) /\ F = Entries(d, view)
    OBVIOUS
  <2>4. /\ w = [view |-> w.view, shown |-> w.shown, cursor |-> w.cursor,
                more |-> w.more, promised |-> w.promised, seams |-> w.seams]
        /\ view \in View /\ Told(w, E, Length(view))
    BY <1>9, <2>1, <2>2, <2>3 DEF ReaderInv, WalkInv
  <2>5. Listing(E, view) /\ Listing(F, view)
    BY <1>5, <2>3, <2>4, EntriesListed DEF ReaderInv
  <2>6. w.view # None
    BY <2>2, <2>4, NoneAssumption DEF View
  <2>7. v = [w EXCEPT
              !.promised = @ \intersect {[item |-> e.item, plain |-> e.plain] : e \in F},
              !.seams = IF /\ w.more /\ w.view.kind # "links"
                           /\ \E e \in E \ F : e.plain = <<w.cursor[1]>>
                        THEN @ \union {<<w.cursor[1]>>} ELSE @]
    BY <1>4, <2>1, <2>2, <2>3, <2>6 DEF Promise
  <2>8. PICK S : S = IF /\ w.more /\ view.kind # "links" /\ \E e \in E \ F : e.plain = <<w.cursor[1]>>
                     THEN w.seams \union {<<w.cursor[1]>>} ELSE w.seams
    OBVIOUS
  <2>9. v = [w EXCEPT !.promised = w.promised \intersect {Promised(e) : e \in F}, !.seams = S]
    BY <2>2, <2>4, <2>7, <2>8 DEF Promised
  <2>10. /\ v.shown = w.shown /\ v.more = w.more /\ v.cursor = w.cursor /\ v.view = view
         /\ v.promised = w.promised \intersect {Promised(e) : e \in F} /\ v.seams = S
         /\ v = [view |-> v.view, shown |-> v.shown, cursor |-> v.cursor,
                 more |-> v.more, promised |-> v.promised, seams |-> v.seams]
    BY <2>2, <2>4, <2>9
  <2>11. Told(v, F, Length(view))
    BY <2>4, <2>5, <2>8, <2>10, Imported
  <2>12. Entries(shelf, view)' = F
    BY <1>4, <2>3
  <2>13. WalkInv'
    BY <2>1, <2>4, <2>10, <2>11, <2>12 DEF WalkInv
  <2> QED
    BY <1>6, <1>7, <2>13 DEF ReaderInv
<1> QED
  BY <1>8, <1>9

LEMMA WalkStays ==
  ASSUME WalkInv, UNCHANGED <<shelf, walk>>
  PROVE  WalkInv'
<1>1. PICK E : E = Entries(shelf, walk.view)
  OBVIOUS
<1>2. Entries(shelf, walk.view)' = E
  BY <1>1 DEF Entries, Timed, Links
<1> QED
  BY <1>1, <1>2 DEF WalkInv

LEMMA SearchKeeps ==
  ASSUME ReaderInv, handleSearchResults
  PROVE  ReaderInv'
<1>1. PICK threads \in {Thread} \union {{t} : t \in Thread}, hasLink \in BOOLEAN, hasAttachment \in BOOLEAN :
        LET form == [threads |-> threads, hasLink |-> hasLink, hasAttachment |-> hasAttachment]
        IN \/ \E kw \in SearchMessages(form, KeywordLimit) :
                found' = Result("keyword", form, kw, <<>>, kw, Len(kw) >= KeywordLimit)
           \/ \E sem \in SemanticSearch(form) \union {<<>>} :
                found' = Result("semantic", form, <<>>, sem, sem, FALSE)
           \/ \E kw \in SearchMessages(form, SearchLimit), sem \in SemanticSearch(form) \union {<<>>} :
                LET hits == fuseSearchResults(kw, sem)
                IN found' = Result("hybrid", form, kw, sem, hits, Len(hits) = SearchLimit)
  BY DEF handleSearchResults
<1>2. UNCHANGED <<shelf, walk>>
  BY DEF handleSearchResults
<1>3. PICK form : form = [threads |-> threads, hasLink |-> hasLink, hasAttachment |-> hasAttachment]
  OBVIOUS
<1>4. PICK S, W, V : /\ S = {id \in DOMAIN shelf.messages : Passes(id, form)}
                     /\ W = {id \in DOMAIN shelf.messages : shelf.messages[id].post \in Worded /\ Passes(id, form)}
                     /\ V = {id \in DOMAIN shelf.messages : shelf.messages[id].post \in Indexed /\ Passes(id, form)}
  OBVIOUS
<1>5. /\ S \subseteq DOMAIN shelf.messages /\ \A id \in S : Passes(id, form)
      /\ W \subseteq S /\ V \subseteq S /\ IsFiniteSet(W) /\ IsFiniteSet(V)
  <2>1. W \in SUBSET DOMAIN shelf.messages /\ V \in SUBSET DOMAIN shelf.messages /\ IsFiniteSet(DOMAIN shelf.messages)
    BY <1>4 DEF ReaderInv, ShelfOK, Rowed
  <2>2. IsFiniteSet(W) /\ IsFiniteSet(V)
    BY <2>1, FS_Subset
  <2> QED
    BY <1>4, <2>2
<1>6. ASSUME NEW limit \in Nat, NEW kw \in SearchMessages(form, limit)
      PROVE  Ranking(kw, S, limit) /\ (Len(kw) < limit => ToSet(kw) = W)
  <2>1. kw \in Ranked(W, limit)
    BY <1>4, <1>6 DEF SearchMessages
  <2>2. Ranking(kw, W, limit) /\ (Len(kw) < limit => ToSet(kw) = W)
    BY <1>5, <2>1, RankedIs
  <2>3. kw \in Seq(S)
    BY <1>5, <2>2 DEF Ranking
  <2> QED
    BY <2>2, <2>3 DEF Ranking
<1>7. SearchLimit \in Nat /\ KeywordLimit \in Nat
  BY ReaderAssumption
<1>8. ASSUME NEW sem \in SemanticSearch(form) \union {<<>>}
      PROVE  Ranking(sem, S, SearchLimit)
  <2>1. CASE sem = <<>>
    BY <1>7, <2>1, Empty
  <2>2. CASE sem \in SemanticSearch(form)
    <3>1. sem \in Ranked(V, SearchLimit)
      BY <1>4, <2>2 DEF SemanticSearch
    <3>2. Ranking(sem, V, SearchLimit)
      BY <1>5, <1>7, <3>1, RankedIs
    <3>3. sem \in Seq(S)
      BY <1>5, <3>2 DEF Ranking
    <3> QED
      BY <3>2, <3>3 DEF Ranking
  <2> QED
    BY <2>1, <2>2
<1>9. ShelfOK(shelf)
  BY DEF ReaderInv
<1>10. ASSUME \E kw \in SearchMessages(form, KeywordLimit) :
                found' = Result("keyword", form, kw, <<>>, kw, Len(kw) >= KeywordLimit)
       PROVE  FoundTyped' /\ SearchIsHonest'
  <2>1. PICK kw \in SearchMessages(form, KeywordLimit) :
          found' = Result("keyword", form, kw, <<>>, kw, Len(kw) >= KeywordLimit)
    BY <1>10
  <2>2. Ranking(kw, S, KeywordLimit) /\ (Len(kw) < KeywordLimit => ToSet(kw) = W)
    BY <1>6, <1>7
  <2>3. Honest(kw, kw, <<>>, form)
    BY <1>5, <2>2, OneHalf
  <2>4. PICK sem, capped, mode : sem = <<>> /\ capped = (Len(kw) >= KeywordLimit) /\ mode = "keyword"
    OBVIOUS
  <2>5. kw \in Seq(S) /\ Len(kw) \in Nat
    BY <2>2 DEF Ranking
  <2>6. ~capped => ToSet(kw) = W
    <3>1. ASSUME ~capped PROVE ToSet(kw) = W
      <4>1. ~(Len(kw) >= KeywordLimit)
        BY <2>4, <3>1
      <4>2. Len(kw) < KeywordLimit
        BY <1>7, <2>5, <4>1
      <4> QED
        BY <2>2, <4>2
    <3> QED
      BY <3>1
  <2>7. FoundTyped' /\ SearchIsHonest'
    <3>1. found' = Result(mode, form, kw, sem, kw, capped) /\ Honest(kw, kw, sem, form)
      BY <2>1, <2>3, <2>4
    <3>2. ~capped /\ mode = "keyword" =>
            ToSet(kw) = {id \in DOMAIN shelf.messages : shelf.messages[id].post \in Worded /\ Passes(id, form)}
      BY <1>4, <2>6
    <3> QED
      BY <1>2, <1>5, <1>9, <2>5, <3>1, <3>2, ResultIs
  <2> QED
    BY <2>7
<1>11. ASSUME \E sem \in SemanticSearch(form) \union {<<>>} :
                found' = Result("semantic", form, <<>>, sem, sem, FALSE)
       PROVE  FoundTyped' /\ SearchIsHonest'
  <2>1. PICK sem \in SemanticSearch(form) \union {<<>>} :
          found' = Result("semantic", form, <<>>, sem, sem, FALSE)
    BY <1>11
  <2>2. Ranking(sem, S, SearchLimit)
    BY <1>8
  <2>3. Honest(sem, <<>>, sem, form)
    BY <1>5, <2>2, OneHalf
  <2>4. PICK kw, mode, capped : kw = <<>> /\ mode = "semantic" /\ capped = FALSE
    OBVIOUS
  <2>5. sem \in Seq(S)
    BY <2>2 DEF Ranking
  <2>6. FoundTyped' /\ SearchIsHonest'
    <3>1. found' = Result(mode, form, kw, sem, sem, capped) /\ Honest(sem, kw, sem, form)
      BY <2>1, <2>3, <2>4
    <3>2. ~(mode = "keyword")
      BY <2>4
    <3> QED
      BY <1>2, <1>5, <1>9, <2>5, <3>1, <3>2, ResultIs
  <2> QED
    BY <2>6
<1>12. ASSUME \E kw \in SearchMessages(form, SearchLimit), sem \in SemanticSearch(form) \union {<<>>} :
                found' = Result("hybrid", form, kw, sem, fuseSearchResults(kw, sem),
                                Len(fuseSearchResults(kw, sem)) = SearchLimit)
       PROVE  FoundTyped' /\ SearchIsHonest'
  <2>1. PICK kw \in SearchMessages(form, SearchLimit), sem \in SemanticSearch(form) \union {<<>>} :
          found' = Result("hybrid", form, kw, sem, fuseSearchResults(kw, sem),
                          Len(fuseSearchResults(kw, sem)) = SearchLimit)
    BY <1>12
  <2>2. Ranking(kw, S, SearchLimit) /\ Ranking(sem, S, SearchLimit)
    BY <1>6, <1>7, <1>8
  <2>3. PICK hits, mode, capped : /\ hits = fuseSearchResults(kw, sem) /\ mode = "hybrid"
                                  /\ capped = (Len(fuseSearchResults(kw, sem)) = SearchLimit)
    OBVIOUS
  <2>4. Honest(hits, kw, sem, form)
    BY <1>5, <2>2, <2>3, Fused
  <2>5. hits \in Seq(S)
    <3>1. hits \in Seq(ToSet(kw) \union ToSet(sem))
      BY <2>2, <2>3, FuseIs
    <3>2. ToSet(kw) \subseteq S /\ ToSet(sem) \subseteq S
      BY <2>2, FiniteLine DEF Ranking
    <3> QED
      BY <3>1, <3>2
  <2>6. FoundTyped' /\ SearchIsHonest'
    <3>1. found' = Result(mode, form, kw, sem, hits, capped)
      BY <2>1, <2>3
    <3>2. ~(mode = "keyword")
      BY <2>3
    <3> QED
      BY <1>2, <1>5, <1>9, <2>4, <2>5, <3>1, <3>2, ResultIs
  <2> QED
    BY <2>6
<1>13. FoundTyped' /\ SearchIsHonest'
  BY <1>1, <1>3, <1>10, <1>11, <1>12
<1>14. WalkInv' /\ ShelfOK(shelf)'
  <2>1. WalkInv'
    BY <1>2, WalkStays DEF ReaderInv
  <2>2. ShelfOK(shelf)'
    BY <1>2, <1>9 DEF ShelfOK, Rowed
  <2> QED
    BY <2>1, <2>2
<1> QED
  BY <1>13, <1>14 DEF ReaderInv

LEMMA ReaderInitInv == ReaderInit => ReaderInv
<1> SUFFICES ASSUME ReaderInit PROVE ReaderInv
  OBVIOUS
<1>1. ShelfOK(shelf)
  <2>1. shelf.messages = <<>> /\ shelf.files = <<>> /\ DOMAIN <<>> = {}
    BY DEF ReaderInit
  <2>2. IsFiniteSet({})
    BY FS_EmptySet
  <2> QED
    BY <2>1, <2>2 DEF ShelfOK, Rowed
<1>2. WalkInv
  BY DEF ReaderInit, WalkInv
<1>3. FoundTyped /\ SearchIsHonest
  BY DEF ReaderInit, NoResult, FoundTyped, SearchIsHonest
<1> QED
  BY <1>1, <1>2, <1>3 DEF ReaderInv

LEMMA ReaderStep == ReaderInv /\ [ReaderNext]_readerVars => ReaderInv'
<1> SUFFICES ASSUME ReaderInv, [ReaderNext]_readerVars PROVE ReaderInv'
  OBVIOUS
<1>1. ASSUME NEW thread \in Thread, ReplaceConversationMessages(thread) PROVE ReaderInv'
  BY <1>1, ReplaceKeeps
<1>2. ASSUME NEW thread \in Thread, handleConversation(thread) PROVE ReaderInv'
  <2>1. PICK asc \in BOOLEAN : Open([kind |-> "messages", threads |-> {thread}, asc |-> asc])
    BY <1>2 DEF handleConversation
  <2>2. PICK view : view = [kind |-> "messages", threads |-> {thread}, asc |-> asc]
    OBVIOUS
  <2>3. view \in View /\ Open(view)
    BY <2>1, <2>2 DEF View
  <2> QED
    BY <2>3, OpenKeeps
<1>3. ASSUME NEW kind \in {"files", "links"}, handleGallery(kind) PROVE ReaderInv'
  <2>1. PICK threads \in {Thread} \union {{t} : t \in Thread}, asc \in BOOLEAN :
          Open([kind |-> kind, threads |-> threads, asc |-> IF kind = "links" THEN TRUE ELSE asc])
    BY <1>3 DEF handleGallery
  <2>2. PICK view : view = [kind |-> kind, threads |-> threads, asc |-> IF kind = "links" THEN TRUE ELSE asc]
    OBVIOUS
  <2>3. threads \in SUBSET Thread /\ (IF kind = "links" THEN TRUE ELSE asc) \in BOOLEAN
    OBVIOUS
  <2>4. view \in View /\ Open(view)
    BY <2>1, <2>2, <2>3 DEF View
  <2> QED
    BY <2>4, OpenKeeps
<1>4. ASSUME More PROVE ReaderInv'
  BY <1>4, MoreKeeps
<1>5. ASSUME handleConversationAt PROVE ReaderInv'
  BY <1>5, AtKeeps
<1>6. ASSUME handleSearchResults PROVE ReaderInv'
  BY <1>6, SearchKeeps
<1>7. ASSUME UNCHANGED readerVars PROVE ReaderInv'
  <2>1. UNCHANGED <<shelf, walk, found>>
    BY <1>7 DEF readerVars
  <2>2. FoundTyped' /\ SearchIsHonest'
    BY <2>1, SearchStays DEF ReaderInv
  <2>3. ShelfOK(shelf)'
    BY <2>1 DEF ReaderInv, ShelfOK, Rowed
  <2>4. WalkInv'
    BY <2>1, WalkStays DEF ReaderInv
  <2> QED
    BY <2>2, <2>3, <2>4 DEF ReaderInv
<1> QED
  BY <1>1, <1>2, <1>3, <1>4, <1>5, <1>6, <1>7 DEF ReaderNext

LEMMA PagesAreShown ==
  ASSUME ReaderInv
  PROVE  PagesShowAllOnce
<1>1. CASE walk = NoWalk
  BY <1>1 DEF NoWalk, PagesShowAllOnce
<1>2. CASE walk # NoWalk
  <2>1. PICK w, view : w = walk /\ view = w.view
    OBVIOUS
  <2>2. PICK E : E = Entries(shelf, view)
    OBVIOUS
  <2>3. Told(w, E, Length(view))
    BY <1>2, <2>1, <2>2 DEF ReaderInv, WalkInv
  <2> DEFINE places(p) == {i \in DOMAIN w.shown : w.shown[i] = p.item}
  <2>4. ASSUME NEW p \in Due(w)
        PROVE  /\ Cardinality(places(p)) <= 1
               /\ ~w.more => places(p) # {}
    <3>1. PICK e \in E : p = Promised(e)
      BY <2>3 DEF Told, Due
    <3>2. p.item = e.item
      BY <3>1 DEF Promised
    <3>3. IF w.more /\ Less(w.cursor, e.key)
          THEN \A i \in DOMAIN w.shown : w.shown[i] # e.item
          ELSE \E i \in DOMAIN w.shown : \A j \in DOMAIN w.shown : w.shown[j] = e.item <=> j = i
      BY <2>3, <3>1 DEF Told
    <3>4. CASE w.more /\ Less(w.cursor, e.key)
      <4>1. places(p) = {}
        BY <3>2, <3>3, <3>4
      <4> QED
        BY <3>4, <4>1, FS_EmptySet
    <3>5. CASE ~(w.more /\ Less(w.cursor, e.key))
      <4>1. PICK i \in DOMAIN w.shown : \A j \in DOMAIN w.shown : w.shown[j] = e.item <=> j = i
        BY <3>3, <3>5
      <4>2. places(p) = {i}
        BY <3>2, <4>1
      <4>3. Cardinality({i}) = 1
        BY FS_Singleton
      <4> QED
        BY <4>2, <4>3
    <3> QED
      BY <3>4, <3>5
  <2>5. ASSUME NEW p \in Due(w), NEW q \in Due(w), NEW i \in places(p), NEW j \in places(q), i < j
        PROVE  ~Less(q.plain, p.plain)
    <3>1. PICK e \in E : p = Promised(e)
      BY <2>3 DEF Told, Due
    <3>2. PICK f \in E : q = Promised(f)
      BY <2>3 DEF Told, Due
    <3>3. p.item = e.item /\ p.plain = e.plain /\ q.item = f.item /\ q.plain = f.plain
      BY <3>1, <3>2 DEF Promised
    <3>4. w.shown[i] = e.item /\ w.shown[j] = f.item /\ i \in DOMAIN w.shown /\ j \in DOMAIN w.shown
      BY <3>3
    <3>5. ~Less(f.plain, e.plain)
      BY <2>3, <2>5, <3>1, <3>2, <3>4 DEF Told
    <3> QED
      BY <3>3, <3>5
  <2>6. Due(w) = {p \in walk.promised : p.plain \notin walk.seams}
    BY <2>1 DEF Due
  <2>7. \A p : places(p) = {i \in DOMAIN walk.shown : walk.shown[i] = p.item}
    BY <2>1
  <2>8. \A p \in Due(w) : Cardinality(places(p)) <= 1
    BY <2>4
  <2>9. ~walk.more => \A p \in Due(w) : places(p) # {}
    BY <2>1, <2>4
  <2>10. \A p, q \in Due(w) : \A i \in places(p), j \in places(q) : i < j => ~Less(q.plain, p.plain)
    BY <2>5
  <2> HIDE DEF places
  <2> QED
    BY <2>6, <2>7, <2>8, <2>9, <2>10 DEF PagesShowAllOnce
<1> QED
  BY <1>1, <1>2

\* Scrolling to the end shows what was there all the time once, in order and all
\* of it, in spite of imports; and a search shows every message once, applies
\* its filters and ranks as it says: for any archive, limits and imports.
\* (internal/store/query.go, gallery.go, search.go, internal/web/search.go)
THEOREM PagesTrue == ReaderSpec => []PagesAreHonest
<1>1. ReaderInv => PagesAreHonest
  BY PagesAreShown DEF ReaderInv, PagesAreHonest
<1> QED
  BY <1>1, ReaderInitInv, ReaderStep, PTL DEF ReaderSpec

-----------------------------------------------------------------------------
\* The journal page: Go's calendar, the order of days, the streak, the grid.

\* Within a month days are numbered one by one.
LEMMA NumberOf ==
  ASSUME NEW y \in Nat, NEW m \in 1 .. 12, NEW d \in Nat
  PROVE  /\ DayNumber(<<y, m, d>>) \in Int
         /\ DayNumber(<<y, m, d>>) = DayNumber(FirstOf(y, m)) + d - 1
  BY DEF DayNumber, FirstOf

\* The leap days up to a year, of which the next year has one more, or none.
Leaps(y) == y \div 4 - y \div 100 + y \div 400

LEMMA LeapDays ==
  ASSUME NEW y \in Nat
  PROVE  \E x \in 0 .. 1 : Leaps(y + 1) = Leaps(y) + x
  BY DEF Leaps


LEMMA January ==
  ASSUME NEW y \in Nat
  PROVE  DayNumber(FirstOf(y, 1)) = 307 + 365 * (y + 4799) + Leaps(y + 4799) - 32045
  BY DEF DayNumber, FirstOf, Leaps

LEMMA February ==
  ASSUME NEW y \in Nat
  PROVE  DayNumber(FirstOf(y, 2)) = 338 + 365 * (y + 4799) + Leaps(y + 4799) - 32045
  BY DEF DayNumber, FirstOf, Leaps

LEMMA OtherMonths ==
  ASSUME NEW y \in Nat, NEW c \in Nat, c = y + 4800, NEW d \in Int, d = 365 * c + Leaps(c) - 32045
  PROVE  /\ DayNumber(FirstOf(y, 3)) = 1 + d
         /\ DayNumber(FirstOf(y, 4)) = 32 + d
         /\ DayNumber(FirstOf(y, 5)) = 62 + d
         /\ DayNumber(FirstOf(y, 6)) = 93 + d
         /\ DayNumber(FirstOf(y, 7)) = 123 + d
         /\ DayNumber(FirstOf(y, 8)) = 154 + d
         /\ DayNumber(FirstOf(y, 9)) = 185 + d
         /\ DayNumber(FirstOf(y, 10)) = 215 + d
         /\ DayNumber(FirstOf(y, 11)) = 246 + d
         /\ DayNumber(FirstOf(y, 12)) = 276 + d
<1>1. DayNumber(FirstOf(y, 3)) = 1 + d
  BY DEF DayNumber, FirstOf, Leaps
<1>2. DayNumber(FirstOf(y, 4)) = 32 + d
  BY DEF DayNumber, FirstOf, Leaps
<1>3. DayNumber(FirstOf(y, 5)) = 62 + d
  BY DEF DayNumber, FirstOf, Leaps
<1>4. DayNumber(FirstOf(y, 6)) = 93 + d
  BY DEF DayNumber, FirstOf, Leaps
<1>5. DayNumber(FirstOf(y, 7)) = 123 + d
  BY DEF DayNumber, FirstOf, Leaps
<1>6. DayNumber(FirstOf(y, 8)) = 154 + d
  BY DEF DayNumber, FirstOf, Leaps
<1>7. DayNumber(FirstOf(y, 9)) = 185 + d
  BY DEF DayNumber, FirstOf, Leaps
<1>8. DayNumber(FirstOf(y, 10)) = 215 + d
  BY DEF DayNumber, FirstOf, Leaps
<1>9. DayNumber(FirstOf(y, 11)) = 246 + d
  BY DEF DayNumber, FirstOf, Leaps
<1>10. DayNumber(FirstOf(y, 12)) = 276 + d
  BY DEF DayNumber, FirstOf, Leaps
<1> QED
  BY <1>1, <1>2, <1>3, <1>4, <1>5, <1>6, <1>7, <1>8, <1>9, <1>10

LEMMA FirstIs ==
  ASSUME NEW y \in Nat
  PROVE  \E g \in Int, x \in 0 .. 1 :
           /\ DayNumber(FirstOf(y, 1)) = g + 306 /\ DayNumber(FirstOf(y, 2)) = g + 337
           /\ DayNumber(FirstOf(y, 3)) = g + 365 + x /\ DayNumber(FirstOf(y, 4)) = g + 396 + x
           /\ DayNumber(FirstOf(y, 5)) = g + 426 + x /\ DayNumber(FirstOf(y, 6)) = g + 457 + x
           /\ DayNumber(FirstOf(y, 7)) = g + 487 + x /\ DayNumber(FirstOf(y, 8)) = g + 518 + x
           /\ DayNumber(FirstOf(y, 9)) = g + 549 + x /\ DayNumber(FirstOf(y, 10)) = g + 579 + x
           /\ DayNumber(FirstOf(y, 11)) = g + 610 + x /\ DayNumber(FirstOf(y, 12)) = g + 640 + x
           /\ DayNumber(FirstOf(y + 1, 1)) = g + 671 + x
<1>1. PICK c \in Nat : c = y + 4800
  OBVIOUS
<1> DEFINE g == 1 + 365 * (c - 1) + Leaps(c - 1) - 32045
<1>2. PICK x \in 0 .. 1 : Leaps(c) = Leaps(c - 1) + x
  <2>1. c - 1 \in Nat /\ (c - 1) + 1 = c
    BY <1>1
  <2>2. PICK x \in 0 .. 1 : Leaps((c - 1) + 1) = Leaps(c - 1) + x
    BY <2>1, LeapDays
  <2> QED
    BY <2>1, <2>2
<1>3. g \in Int /\ Leaps(c) \in Int /\ Leaps(c - 1) \in Int /\ c \in Int
  BY DEF Leaps
<1>4. /\ DayNumber(FirstOf(y, 1)) = g + 306 /\ DayNumber(FirstOf(y, 2)) = g + 337
      /\ DayNumber(FirstOf(y + 1, 1)) = 1 + 306 + 365 * c + Leaps(c) - 32045
  <2>1. c - 1 = y + 4799 /\ (y + 1) + 4799 = c /\ y + 1 \in Nat
    BY <1>1
  <2>2. DayNumber(FirstOf(y + 1, 1)) = 307 + 365 * ((y + 1) + 4799) + Leaps((y + 1) + 4799) - 32045
    BY <2>1, January
  <2>3. Leaps(c - 1) \in Int /\ 365 * (c - 1) \in Int
    BY <1>3
  <2>4. DayNumber(FirstOf(y, 1)) = 307 + 365 * (c - 1) + Leaps(c - 1) - 32045
    BY <2>1, January
  <2>5. DayNumber(FirstOf(y, 2)) = 338 + 365 * (c - 1) + Leaps(c - 1) - 32045
    BY <2>1, February
  <2>6. DayNumber(FirstOf(y + 1, 1)) = 307 + 365 * c + Leaps(c) - 32045
    BY <2>1, <2>2
  <2> QED
    BY <2>3, <2>4, <2>5, <2>6
<1>5. 365 * c = 365 * (c - 1) + 365
  OBVIOUS
<1>6. 365 * (c - 1) + 1 + Leaps(c - 1) - 32045 = g /\ 365 * c + 1 + Leaps(c) - 32045 = g + 365 + x
  BY <1>2, <1>3, <1>5
<1>7. DayNumber(FirstOf(y + 1, 1)) = g + 671 + x
  BY <1>3, <1>4, <1>6
<1>8. /\ DayNumber(FirstOf(y, 3)) = 0 + (g + 365 + x)
      /\ DayNumber(FirstOf(y, 4)) = 31 + (g + 365 + x)
      /\ DayNumber(FirstOf(y, 5)) = 61 + (g + 365 + x)
      /\ DayNumber(FirstOf(y, 6)) = 92 + (g + 365 + x)
      /\ DayNumber(FirstOf(y, 7)) = 122 + (g + 365 + x)
      /\ DayNumber(FirstOf(y, 8)) = 153 + (g + 365 + x)
      /\ DayNumber(FirstOf(y, 9)) = 184 + (g + 365 + x)
      /\ DayNumber(FirstOf(y, 10)) = 214 + (g + 365 + x)
      /\ DayNumber(FirstOf(y, 11)) = 245 + (g + 365 + x)
      /\ DayNumber(FirstOf(y, 12)) = 275 + (g + 365 + x)
  <2>1. PICK d \in Int : d = 365 * c + Leaps(c) - 32045
    BY <1>1, <1>3
  <2>2. d + 1 = g + 365 + x
    BY <1>1, <1>3, <1>6, <2>1
  <2>3. DayNumber(FirstOf(y, 3)) = 1 + d
    BY <1>1, <2>1, OtherMonths
  <2>4. DayNumber(FirstOf(y, 4)) = 32 + d
    BY <1>1, <2>1, OtherMonths
  <2>5. DayNumber(FirstOf(y, 5)) = 62 + d
    BY <1>1, <2>1, OtherMonths
  <2>6. DayNumber(FirstOf(y, 6)) = 93 + d
    BY <1>1, <2>1, OtherMonths
  <2>7. DayNumber(FirstOf(y, 7)) = 123 + d
    BY <1>1, <2>1, OtherMonths
  <2>8. DayNumber(FirstOf(y, 8)) = 154 + d
    BY <1>1, <2>1, OtherMonths
  <2>9. DayNumber(FirstOf(y, 9)) = 185 + d
    BY <1>1, <2>1, OtherMonths
  <2>10. DayNumber(FirstOf(y, 10)) = 215 + d
    BY <1>1, <2>1, OtherMonths
  <2>11. DayNumber(FirstOf(y, 11)) = 246 + d
    BY <1>1, <2>1, OtherMonths
  <2>12. DayNumber(FirstOf(y, 12)) = 276 + d
    BY <1>1, <2>1, OtherMonths
  <2> HIDE DEF g
  <2> QED
    BY <1>3, <2>2, <2>3, <2>4, <2>5, <2>6, <2>7, <2>8, <2>9, <2>10, <2>11, <2>12
<1> HIDE DEF g
<1> QED
  BY <1>3, <1>4, <1>7, <1>8

-----------------------------------------------------------------------------
\* How long a month is.
LEMMA LengthIs ==
  ASSUME NEW y \in Nat, NEW m \in 1 .. 12
  PROVE  DaysIn(y, m) = IF m = 12 THEN DayNumber(FirstOf(y + 1, 1)) - DayNumber(FirstOf(y, 12))
                        ELSE DayNumber(FirstOf(y, m + 1)) - DayNumber(FirstOf(y, m))
<1>1. PICK n : n = y * 12 + m - 1 + 1
  OBVIOUS
<1>2. n \in Nat /\ n = 12 * y + m
  BY <1>1
<1>3. n \div 12 = (IF m = 12 THEN y + 1 ELSE y) /\ n % 12 = (IF m = 12 THEN 0 ELSE m)
  BY <1>2
<1>4. PICK next : next = <<n \div 12, (n % 12) + 1>>
  OBVIOUS
<1>5. next[1] = n \div 12 /\ next[2] = (n % 12) + 1
  BY <1>4
<1>6. next = AddMonths(y, m, 1)
  BY <1>1, <1>4 DEF AddMonths
<1>7. DaysIn(y, m) = DayNumber(FirstOf(next[1], next[2])) - DayNumber(FirstOf(y, m))
  BY <1>6 DEF DaysIn
<1>8. IF m = 12 THEN next[1] = y + 1 /\ next[2] = 1 ELSE next[1] = y /\ next[2] = m + 1
  BY <1>3, <1>5
<1> QED
  BY <1>7, <1>8

LEMMA Lengths ==
  ASSUME NEW y \in Nat, NEW m \in 1 .. 12
  PROVE  DaysIn(y, m) \in 28 .. 31
  BY LengthIs, FirstIs

\* A month ends before the next begins.
LEMMA MonthsFollow ==
  ASSUME NEW y \in Nat, NEW m \in 1 .. 12, NEW n \in 1 .. 12, m < n
  PROVE  DayNumber(FirstOf(y, m)) + DaysIn(y, m) <= DayNumber(FirstOf(y, n))
<1>1. DaysIn(y, m) = DayNumber(FirstOf(y, m + 1)) - DayNumber(FirstOf(y, m))
  <2>1. m # 12
    OBVIOUS
  <2> QED
    BY <2>1, LengthIs
<1>2. DayNumber(FirstOf(y, m)) \in Int /\ DayNumber(FirstOf(y, m + 1)) \in Int /\ DayNumber(FirstOf(y, n)) \in Int
  BY FirstIs
<1>3. DayNumber(FirstOf(y, m + 1)) <= DayNumber(FirstOf(y, n))
  BY FirstIs
<1> QED
  BY <1>1, <1>2, <1>3

\* The order of the texts is that of the days.
LEMMA Chronology ==
  ASSUME NEW a, NEW b, IsDate(a), IsDate(b), a[1] = b[1]
  PROVE  /\ DayNumber(a) \in Int /\ DayNumber(b) \in Int
         /\ Earlier(a, b) => DayNumber(a) < DayNumber(b)
<1>1. /\ a = <<a[1], a[2], a[3]>> /\ a[1] \in Nat /\ a[2] \in 1 .. 12 /\ a[3] \in Nat /\ a[3] \in 1 .. DaysIn(a[1], a[2])
      /\ b = <<b[1], b[2], b[3]>> /\ b[1] \in Nat /\ b[2] \in 1 .. 12 /\ b[3] \in Nat /\ b[3] \in 1 .. DaysIn(b[1], b[2])
  BY DEF IsDate
<1>2. /\ DayNumber(a) \in Int /\ DayNumber(a) = DayNumber(FirstOf(a[1], a[2])) + a[3] - 1
      /\ DayNumber(b) \in Int /\ DayNumber(b) = DayNumber(FirstOf(b[1], b[2])) + b[3] - 1
  BY <1>1, NumberOf
<1>3. DayNumber(FirstOf(a[1], a[2])) \in Int /\ DayNumber(FirstOf(b[1], b[2])) \in Int
  <2>1. \A y \in Nat, m \in 1 .. 12 : DayNumber(FirstOf(y, m)) \in Int
    <3> SUFFICES ASSUME NEW y \in Nat, NEW m \in 1 .. 12 PROVE DayNumber(FirstOf(y, m)) \in Int
      OBVIOUS
    <3> QED
      BY NumberOf, 1 \in Nat DEF FirstOf
  <2> QED
    BY <1>1, <2>1
<1>4. DaysIn(a[1], a[2]) \in Int
  BY <1>1, Lengths
<1>5. ASSUME a[2] < b[2]
      PROVE  DayNumber(FirstOf(a[1], a[2])) + DaysIn(a[1], a[2]) <= DayNumber(FirstOf(b[1], b[2]))
  BY <1>1, <1>5, MonthsFollow
<1>6. ASSUME a[2] < b[2] PROVE DayNumber(a) < DayNumber(b)
  BY <1>1, <1>2, <1>3, <1>4, <1>5, <1>6
<1>7. ASSUME a[2] = b[2], a[3] < b[3] PROVE DayNumber(a) < DayNumber(b)
  BY <1>1, <1>2, <1>3, <1>7
<1> QED
  BY <1>1, <1>2, <1>6, <1>7 DEF Earlier

\* From the month after one comes back to the month before.
LEMMA ThereAndBack ==
  ASSUME NEW y \in Int, NEW m \in Int
  PROVE  LET next == AddMonths(y, m, 1) IN AddMonths(next[1], next[2], -2) = AddMonths(y, m, -1)
<1>1. PICK n : n = y * 12 + m - 1
  OBVIOUS
<1>2. n \in Int
  BY <1>1
<1>3. PICK q, r : q = (n + 1) \div 12 /\ r = (n + 1) % 12
  OBVIOUS
<1>4. q \in Int /\ r \in Int /\ n + 1 = 12 * q + r
  BY <1>2, <1>3
<1>5. PICK next : next = AddMonths(y, m, 1)
  OBVIOUS
<1>6. next[1] = q /\ next[2] = r + 1
  BY <1>1, <1>3, <1>5 DEF AddMonths
<1>7. q * 12 + (r + 1) - 1 + (-2) = n - 1 /\ y * 12 + m - 1 + (-1) = n - 1
  BY <1>1, <1>2, <1>4
<1>8. AddMonths(q, r + 1, -2) = AddMonths(y, m, -1)
  BY <1>7 DEF AddMonths
<1> QED
  BY <1>5, <1>6, <1>8

Dated(E) == IsFiniteSet(E) /\ \A d \in E : IsDate(d)

\* Dates are ordered, strictly and totally.
LEMMA EarlierOrders ==
  ASSUME NEW a, NEW b, IsDate(a), IsDate(b)
  PROVE  /\ ~Earlier(a, a)
         /\ Earlier(a, b) => ~Earlier(b, a)
         /\ a # b => Earlier(a, b) \/ Earlier(b, a)
         /\ \A c : IsDate(c) /\ Earlier(a, b) /\ Earlier(b, c) => Earlier(a, c)
<1> SUFFICES ASSUME NEW c
             PROVE  /\ ~Earlier(a, a)
                    /\ Earlier(a, b) => ~Earlier(b, a)
                    /\ a # b => Earlier(a, b) \/ Earlier(b, a)
                    /\ IsDate(c) /\ Earlier(a, b) /\ Earlier(b, c) => Earlier(a, c)
  OBVIOUS
<1>1. \A d : IsDate(d) => d = <<d[1], d[2], d[3]>> /\ d[1] \in Int /\ d[2] \in Int /\ d[3] \in Int
  BY DEF IsDate
<1>2. a[1] = b[1] /\ a[2] = b[2] /\ a[3] = b[3] => a = b
  BY <1>1
<1> QED
  BY <1>1, <1>2 DEF Earlier

LEMMA DaysOrdered ==
  ASSUME NEW E, Dated(E)
  PROVE  /\ Cardinality(E) \in Nat
         /\ Chronological(E) \in [1 .. Cardinality(E) -> E]
         /\ \A e \in E : \E i \in 1 .. Cardinality(E) : Chronological(E)[i] = e
         /\ \A i, j \in 1 .. Cardinality(E) : i < j <=> Earlier(Chronological(E)[i], Chronological(E)[j])
<1>1. IsFiniteSet(E)
  BY DEF Dated
<1>2. PICK R : R = {t \in E \X E : Earlier(t[1], t[2])}
  OBVIOUS
<1>3. \A e, f \in E : <<e, f>> \in R <=> Earlier(e, f)
  BY <1>2
<1>4. Orders(R, E)
  <2>1. \A e \in E : ~Earlier(e, e)
    BY EarlierOrders DEF Dated
  <2>2. ASSUME NEW e \in E, NEW f \in E PROVE e = f \/ Earlier(e, f) \/ Earlier(f, e)
    BY EarlierOrders DEF Dated
  <2>3. ASSUME NEW e \in E, NEW f \in E, NEW g \in E, Earlier(e, f), Earlier(f, g) PROVE Earlier(e, g)
    BY <2>3, EarlierOrders DEF Dated
  <2> QED
    BY <1>3, <2>1, <2>2, <2>3 DEF Orders
<1>5. PICK s : s = Chronological(E)
  OBVIOUS
<1>6. ByRank(s, E, R)
  <2> DEFINE at(i) == CHOOSE e \in E : Cardinality({x \in E : Earlier(x, e)}) = i - 1
             by(i) == CHOOSE e \in E : Cardinality({x \in E : <<x, e>> \in R}) = i - 1
  <2>1. \A e \in E : {x \in E : <<x, e>> \in R} = {x \in E : Earlier(x, e)}
    BY <1>3
  <2>2. ASSUME NEW i PROVE at(i) = by(i)
    BY <2>1
  <2>3. s = [i \in 1 .. Cardinality(E) |-> at(i)]
    BY <1>5 DEF Chronological
  <2> HIDE DEF at, by
  <2>4. s = [i \in 1 .. Cardinality(E) |-> by(i)]
    BY <2>2, <2>3
  <2> QED
    BY <2>4 DEF ByRank, by
<1>7. /\ Cardinality(E) \in Nat /\ s \in [1 .. Cardinality(E) -> E]
      /\ \A e \in E : \E i \in 1 .. Cardinality(E) : s[i] = e
      /\ \A i, j \in 1 .. Cardinality(E) : i < j <=> <<s[i], s[j]>> \in R
  BY <1>1, <1>4, <1>6, RanksAre
<1> QED
  BY <1>3, <1>5, <1>7


-----------------------------------------------------------------------------
\* The runs that end at each day, as longestStreak counts them.
Counted(run, s, n) ==
  run = [i \in 1 .. n |-> IF i > 1 /\ DayNumber(s[i]) = DayNumber(s[i - 1]) + 1 THEN run[i - 1] + 1 ELSE 1]

LEMMA Counting ==
  ASSUME NEW s, NEW n \in Nat
  PROVE  \E run : Counted(run, s, n)
<1> DEFINE Bad == {k \in Nat : ~(\E run : Counted(run, s, k))}
<1> SUFFICES ASSUME Bad # {} PROVE FALSE
  OBVIOUS
<1>1. PICK m \in Bad : \A k \in Bad : m <= k
  BY LeastOf
<1>2. m \in Nat /\ ~(\E run : Counted(run, s, m))
  OBVIOUS
<1>3. m # 0
  <2> SUFFICES ASSUME m = 0 PROVE FALSE
    OBVIOUS
  <2>1. PICK run : run = [i \in 1 .. 0 |-> 1]
    OBVIOUS
  <2>2. Counted(run, s, 0)
    BY <2>1 DEF Counted
  <2> QED
    BY <1>2, <2>2
<1>4. m - 1 \in Nat /\ m - 1 \notin Bad
  BY <1>1, <1>2, <1>3
<1>5. PICK r : Counted(r, s, m - 1)
  BY <1>4
<1>6. PICK q : q = [i \in 1 .. m |-> IF i = m
                      THEN IF m > 1 /\ DayNumber(s[m]) = DayNumber(s[m - 1]) + 1 THEN r[m - 1] + 1 ELSE 1
                      ELSE r[i]]
  OBVIOUS
<1>7. \A i \in 1 .. m : q[i] = IF i > 1 /\ DayNumber(s[i]) = DayNumber(s[i - 1]) + 1 THEN q[i - 1] + 1 ELSE 1
  <2> SUFFICES ASSUME NEW i \in 1 .. m
               PROVE  q[i] = IF i > 1 /\ DayNumber(s[i]) = DayNumber(s[i - 1]) + 1 THEN q[i - 1] + 1 ELSE 1
    OBVIOUS
  <2>1. i > 1 => i - 1 \in 1 .. m /\ i - 1 # m /\ q[i - 1] = r[i - 1]
    BY <1>2, <1>6
  <2>2. CASE i = m
    BY <1>6, <2>1, <2>2
  <2>3. CASE i # m
    <3>1. i \in 1 .. m - 1
      BY <1>2, <2>3
    <3>2. r[i] = IF i > 1 /\ DayNumber(s[i]) = DayNumber(s[i - 1]) + 1 THEN r[i - 1] + 1 ELSE 1
      BY <1>5, <3>1 DEF Counted
    <3>3. q[i] = r[i]
      BY <1>6, <2>3
    <3> QED
      BY <2>1, <3>2, <3>3
  <2> QED
    BY <2>2, <2>3
<1>8. q = [i \in 1 .. m |-> q[i]]
  BY <1>6
<1>9. Counted(q, s, m)
  BY <1>7, <1>8 DEF Counted
<1> QED
  BY <1>2, <1>9

\* What a run counts: the days up to one, and not the day before them.
LEMMA RunIs ==
  ASSUME NEW s, NEW n \in Nat, NEW run, Counted(run, s, n), NEW N,
         \A i \in 1 .. n : DayNumber(s[i]) \in Int,
         \A i, j \in 1 .. n : i < j => DayNumber(s[i]) < DayNumber(s[j]),
         N = {DayNumber(s[i]) : i \in 1 .. n}
  PROVE  \A i \in 1 .. n :
           /\ run[i] \in Nat /\ run[i] > 0
           /\ DayNumber(s[i]) - run[i] \notin N
           /\ \A x \in Int : DayNumber(s[i]) - run[i] < x /\ x <= DayNumber(s[i]) => x \in N
<1> DEFINE Good(i) ==
             /\ run[i] \in Nat /\ run[i] > 0
             /\ DayNumber(s[i]) - run[i] \notin N
             /\ \A x \in Int : DayNumber(s[i]) - run[i] < x /\ x <= DayNumber(s[i]) => x \in N
           Bad == {i \in 1 .. n : ~Good(i)}
<1> SUFFICES ASSUME Bad # {} PROVE FALSE
  OBVIOUS
<1>1. PICK i \in Bad : \A k \in Bad : i <= k
  <2>1. Bad \subseteq Nat
    OBVIOUS
  <2> HIDE DEF Bad
  <2> QED
    BY <2>1, LeastOf
<1>2. i \in 1 .. n /\ ~Good(i)
  OBVIOUS
<1>3. \A k \in 1 .. n : k < i => Good(k)
  BY <1>1
<1>4. run[i] = IF i > 1 /\ DayNumber(s[i]) = DayNumber(s[i - 1]) + 1 THEN run[i - 1] + 1 ELSE 1
  BY <1>2 DEF Counted
<1>5. DayNumber(s[i]) \in N /\ DayNumber(s[i]) \in Int
  BY <1>2
<1>6. CASE i > 1 /\ DayNumber(s[i]) = DayNumber(s[i - 1]) + 1
  <2>1. i - 1 \in 1 .. n /\ i - 1 < i
    BY <1>2, <1>6
  <2>2. Good(i - 1)
    BY <1>3, <2>1
  <2>3. run[i] = run[i - 1] + 1 /\ DayNumber(s[i - 1]) \in Int
    BY <1>4, <1>6, <2>1
  <2>4. DayNumber(s[i]) - run[i] = DayNumber(s[i - 1]) - run[i - 1]
    BY <1>6, <2>2, <2>3
  <2>5. ASSUME NEW x \in Int, DayNumber(s[i]) - run[i] < x, x <= DayNumber(s[i]) PROVE x \in N
    <3>1. x = DayNumber(s[i]) \/ x <= DayNumber(s[i - 1])
      BY <1>6, <2>3, <2>5
    <3> QED
      BY <1>5, <2>2, <2>4, <2>5, <3>1
  <2> QED
    BY <1>2, <2>2, <2>3, <2>4, <2>5
<1>7. CASE ~(i > 1 /\ DayNumber(s[i]) = DayNumber(s[i - 1]) + 1)
  <2>1. run[i] = 1
    BY <1>4, <1>7
  <2>2. DayNumber(s[i]) - 1 \notin N
    <3> SUFFICES ASSUME NEW j \in 1 .. n, DayNumber(s[j]) = DayNumber(s[i]) - 1 PROVE FALSE
      OBVIOUS
    <3>1. ~(i < j) /\ i # j
      BY <1>2, <1>5
    <3>2. j < i
      BY <1>2, <3>1
    <3>3. i > 1 /\ i - 1 \in 1 .. n /\ DayNumber(s[i]) # DayNumber(s[i - 1]) + 1
      BY <1>2, <1>7, <3>2
    <3>4. DayNumber(s[i - 1]) < DayNumber(s[i]) /\ DayNumber(s[i - 1]) \in Int
      <4>1. i - 1 < i
        BY <1>2
      <4> QED
        BY <1>2, <3>3, <4>1
    <3>5. j # i - 1
      BY <1>5, <3>3, <3>4
    <3>6. j < i - 1
      BY <1>2, <3>2, <3>5
    <3>7. DayNumber(s[j]) < DayNumber(s[i - 1])
      BY <3>3, <3>6
    <3> QED
      BY <1>5, <3>4, <3>7
  <2>3. \A x \in Int : DayNumber(s[i]) - 1 < x /\ x <= DayNumber(s[i]) => x = DayNumber(s[i])
    BY <1>5
  <2> QED
    BY <1>2, <1>5, <2>1, <2>2, <2>3
<1> QED
  BY <1>6, <1>7

\* The streak is the longest run of days on end.
LEMMA LongestIs ==
  ASSUME NEW D, Dated(D), \A d, e \in D : d[1] = e[1], NEW N, N = {DayNumber(d) : d \in D}
  PROVE  longestStreak(Chronological(D)) =
           Max({n \in 0 .. Cardinality(N) : n = 0 \/ \E x \in N : x .. x + n - 1 \subseteq N})
<1>1. PICK s : s = Chronological(D)
  OBVIOUS
<1>2. PICK c \in Nat : c = Cardinality(D)
  BY DaysOrdered
<1>3. /\ s \in [1 .. c -> D]
      /\ \A d \in D : \E i \in 1 .. c : s[i] = d
      /\ \A i, j \in 1 .. c : i < j <=> Earlier(s[i], s[j])
  BY <1>1, <1>2, DaysOrdered
<1>4. \A i \in 1 .. c : DayNumber(s[i]) \in Int
  <2> SUFFICES ASSUME NEW i \in 1 .. c PROVE DayNumber(s[i]) \in Int
    OBVIOUS
  <2>1. s[i] \in D /\ IsDate(s[i])
    BY <1>3 DEF Dated
  <2> QED
    BY <2>1, Chronology
<1>5. \A i, j \in 1 .. c : i < j => DayNumber(s[i]) < DayNumber(s[j])
  <2> SUFFICES ASSUME NEW i \in 1 .. c, NEW j \in 1 .. c, i < j PROVE DayNumber(s[i]) < DayNumber(s[j])
    OBVIOUS
  <2>1. s[i] \in D /\ s[j] \in D /\ IsDate(s[i]) /\ IsDate(s[j])
    BY <1>3 DEF Dated
  <2>2. s[i][1] = s[j][1] /\ Earlier(s[i], s[j])
    BY <1>3, <2>1
  <2> QED
    BY <2>1, <2>2, Chronology
<1>6. N = {DayNumber(s[i]) : i \in 1 .. c}
  BY <1>3
<1>7. Len(s) = c
  BY <1>3
<1>8. PICK run : /\ Counted(run, s, c)
                 /\ longestStreak(s) = Max({run[i] : i \in 1 .. c} \union {0})
  <2>1. PICK run : run = CHOOSE r : Counted(r, s, c)
    OBVIOUS
  <2>2. Counted(run, s, c)
    BY <2>1, Counting
  <2>3. longestStreak(s) = Max({run[i] : i \in 1 .. c} \union {0})
    BY <1>7, <2>1 DEF longestStreak, Counted
  <2> QED
    BY <2>2, <2>3
<1>9. \A i \in 1 .. c :
        /\ run[i] \in Nat /\ run[i] > 0
        /\ DayNumber(s[i]) - run[i] \notin N
        /\ \A x \in Int : DayNumber(s[i]) - run[i] < x /\ x <= DayNumber(s[i]) => x \in N
  BY <1>4, <1>5, <1>6, <1>8, RunIs
<1>10. IsFiniteSet(N) /\ Cardinality(N) \in Nat
  <2>1. PICK f : f = [i \in 1 .. c |-> DayNumber(s[i])]
    OBVIOUS
  <2>2. IsFiniteSet(1 .. c)
    <3>1. 1 \in Int /\ c \in Int
      OBVIOUS
    <3> QED
      BY <3>1, FS_Interval
  <2>3. DOMAIN f = 1 .. c /\ N = {f[i] : i \in DOMAIN f}
    BY <1>6, <2>1
  <2>4. IsFiniteSet({f[i] : i \in DOMAIN f})
    BY <2>2, <2>3, Image
  <2>5. IsFiniteSet(N)
    BY <2>3, <2>4
  <2> QED
    BY <2>5, FS_CardinalityType
<1>11. PICK runs : runs = {n \in 0 .. Cardinality(N) : n = 0 \/ \E x \in N : x .. x + n - 1 \subseteq N}
  OBVIOUS
<1>12. PICK best : best = {run[i] : i \in 1 .. c} \union {0}
  OBVIOUS
<1>13. Max(runs) \in runs /\ \A n \in runs : n <= Max(runs)
  <2>1. 0 \in Int /\ Cardinality(N) \in Int
    BY <1>10
  <2>2. IsFiniteSet(0 .. Cardinality(N))
    BY <2>1, FS_Interval
  <2>3. runs \in SUBSET (0 .. Cardinality(N)) /\ 0 \in runs /\ runs \subseteq Int
    BY <1>10, <1>11
  <2>4. IsFiniteSet(runs)
    BY <2>2, <2>3, FS_Subset
  <2> QED
    BY <2>3, <2>4, GreatestInt
<1>14. Max(best) \in best /\ \A n \in best : n <= Max(best)
  <2>1. PICK f : f = [i \in 0 .. c |-> IF i = 0 THEN 0 ELSE run[i]]
    OBVIOUS
  <2>2. IsFiniteSet(0 .. c)
    <3>1. 0 \in Int /\ c \in Int
      OBVIOUS
    <3> QED
      BY <3>1, FS_Interval
  <2>3. DOMAIN f = 0 .. c /\ best = {f[i] : i \in DOMAIN f}
    <3>1. \A i \in 1 .. c : i \in 0 .. c /\ f[i] = run[i]
      BY <2>1
    <3>2. DOMAIN f = 0 .. c /\ f[0] = 0 /\ 0 \in 0 .. c
      BY <2>1
    <3>3. \A i \in 0 .. c : i = 0 \/ i \in 1 .. c
      OBVIOUS
    <3> QED
      BY <1>12, <3>1, <3>2, <3>3
  <2>4. IsFiniteSet(best)
    BY <2>2, <2>3, Image
  <2>5. best \subseteq Int /\ best # {}
    BY <1>9, <1>12
  <2> QED
    BY <2>4, <2>5, GreatestInt
<1>15. best \subseteq runs
  <2> SUFFICES ASSUME NEW i \in 1 .. c PROVE run[i] \in runs
    BY <1>10, <1>11, <1>12
  <2>1. PICK x \in Int : x = DayNumber(s[i]) - run[i] + 1
    BY <1>4, <1>9
  <2>2. x + run[i] - 1 = DayNumber(s[i]) /\ x + run[i] - 1 \in Int /\ run[i] \in Nat /\ run[i] > 0
    BY <1>4, <1>9, <2>1
  <2>3. x .. x + run[i] - 1 \subseteq N
    <3> SUFFICES ASSUME NEW y \in Int, x <= y, y <= x + run[i] - 1 PROVE y \in N
      BY <2>2
    <3>1. DayNumber(s[i]) - run[i] < y /\ y <= DayNumber(s[i])
      BY <1>4, <2>1, <2>2
    <3> QED
      BY <1>9, <3>1
  <2>4. x \in N
    <3>1. x \in x .. x + run[i] - 1
      BY <2>2
    <3> QED
      BY <2>3, <3>1
  <2>5. Cardinality(x .. x + run[i] - 1) = run[i]
    <3>1. Cardinality(x .. x + run[i] - 1) = IF x > x + run[i] - 1 THEN 0 ELSE (x + run[i] - 1) - x + 1
      BY <2>2, FS_Interval
    <3> QED
      BY <2>2, <3>1
  <2>6. Cardinality(x .. x + run[i] - 1) <= Cardinality(N)
    <3>1. x .. x + run[i] - 1 \in SUBSET N
      BY <2>3
    <3> QED
      BY <1>10, <3>1, FS_Subset
  <2>7. run[i] \in 0 .. Cardinality(N)
    BY <1>10, <2>2, <2>5, <2>6
  <2> QED
    BY <1>11, <2>3, <2>4, <2>7
<1>16. ASSUME NEW n \in runs PROVE \E m \in best : n <= m
  <2>1. n \in Nat /\ (n = 0 \/ \E x \in N : x .. x + n - 1 \subseteq N)
    BY <1>10, <1>11
  <2>2. CASE n = 0
    BY <1>12, <2>2
  <2>3. CASE n # 0
    <3>1. PICK x \in N : x .. x + n - 1 \subseteq N
      BY <2>1, <2>3
    <3>2. x \in Int
      BY <1>4, <1>6
    <3>3. x + n - 1 \in N
      <4>1. x + n - 1 \in x .. x + n - 1
        BY <2>1, <2>3, <3>2
      <4> QED
        BY <3>1, <4>1
    <3>4. PICK i \in 1 .. c : DayNumber(s[i]) = x + n - 1
      BY <1>6, <3>3
    <3>5. run[i] \in Nat /\ DayNumber(s[i]) - run[i] \notin N /\ run[i] > 0
      BY <1>9
    <3>6. ASSUME run[i] < n PROVE FALSE
      <4>1. DayNumber(s[i]) - run[i] \in x .. x + n - 1
        BY <2>1, <3>2, <3>4, <3>5, <3>6
      <4> QED
        BY <3>1, <3>5, <4>1
    <3>7. n <= run[i] /\ run[i] \in best
      BY <1>12, <2>1, <3>5, <3>6
    <3> QED
      BY <3>7
  <2> QED
    BY <2>2, <2>3
<1>17. Max(best) = Max(runs)
  <2>1. runs \subseteq Int /\ best \subseteq Int
    BY <1>10, <1>11, <1>15
  <2>2. Max(best) \in runs /\ Max(runs) \in Int /\ Max(best) \in Int
    BY <2>1, <1>13, <1>14, <1>15
  <2>3. PICK m \in best : Max(runs) <= m
    BY <1>13, <1>16
  <2>4. m <= Max(best) /\ Max(best) <= Max(runs) /\ m \in Int
    BY <1>13, <1>14, <2>1, <2>3, <2>2
  <2> QED
    BY <2>3, <2>4, <2>2
<1> QED
  BY <1>1, <1>8, <1>11, <1>12, <1>17

JournalTyped ==
  /\ IsFiniteSet(DOMAIN journalDays) /\ DOMAIN journalDays \subseteq Date
  /\ DOMAIN dayScores = ScoreModel
  /\ configured \in ScoreModel /\ lastScored \in ScoreModel \union {None}

LEMMA LatestIs ==
  ASSUME NEW S, Dated(S), S # {}
  PROVE  Latest(S) \in S
<1>1. PICK c \in Nat : c = Cardinality(S)
  BY DaysOrdered
<1>2. PICK s : s = Chronological(S)
  OBVIOUS
<1>3. /\ s \in [1 .. c -> S]
      /\ \A d \in S : \E i \in 1 .. c : s[i] = d
      /\ \A i, j \in 1 .. c : i < j <=> Earlier(s[i], s[j])
  BY <1>1, <1>2, DaysOrdered
<1>4. c \in 1 .. c
  BY <1>3
<1>5. \A e \in S : ~Earlier(s[c], e)
  <2> SUFFICES ASSUME NEW i \in 1 .. c PROVE ~Earlier(s[c], s[i])
    BY <1>3
  <2> QED
    BY <1>3, <1>4
<1> QED
  BY <1>3, <1>4, <1>5 DEF Latest

LEMMA JournalDated ==
  ASSUME JournalTyped, NEW T, T \subseteq DOMAIN journalDays
  PROVE  Dated(T)
<1>1. T \in SUBSET (DOMAIN journalDays)
  OBVIOUS
<1>2. IsFiniteSet(T)
  BY <1>1, FS_Subset DEF JournalTyped
<1> QED
  BY <1>2, DateAssumption DEF Dated, JournalTyped

LEMMA DateIs ==
  ASSUME NEW d, IsDate(d)
  PROVE  /\ d # None /\ d = <<d[1], d[2], d[3]>>
         /\ d[1] \in Nat /\ d[2] \in 1 .. 12 /\ d[3] \in Nat /\ d[3] \in 1 .. DaysIn(d[1], d[2])
<1>1. d \in Nat \X (1 .. 12) \X Nat /\ d[3] \in 1 .. DaysIn(d[1], d[2])
  BY DEF IsDate
<1>2. d \in Nat \X Nat \X Nat
  BY <1>1
<1> QED
  BY <1>1, <1>2, DateAssumption

\* The page is about a month, in which the selected day is, if there is one.
Month(day, ym) ==
  /\ ym[1] \in Nat /\ ym[2] \in 1 .. 12
  /\ day # None => IsDate(day) /\ day[1] = ym[1] /\ day[2] = ym[2]

LEMMA ContextMonth ==
  ASSUME NEW day, NEW y, NEW m, NEW latest, latest[1] \in Nat, latest[2] \in 1 .. 12,
         NEW ym, ym = journalContext(day, y, m, latest)
  PROVE  IF day # None THEN ym = <<day[1], day[2]>> ELSE ym[1] \in Nat /\ ym[2] \in 1 .. 12
<1>1. ASSUME day # None PROVE ym = <<day[1], day[2]>>
  BY <1>1 DEF journalContext
<1>2. ASSUME day = None PROVE ym[1] \in Nat /\ ym[2] \in 1 .. 12
  <2>1. ASSUME ~(y # None /\ y \in 1970 .. 9999) PROVE ym = <<latest[1], latest[2]>>
    BY <1>2, <2>1 DEF journalContext
  <2>2. PICK n : n = IF m # None /\ m \in 1 .. 12 THEN m ELSE 1
    OBVIOUS
  <2>3. n \in 1 .. 12
    BY <2>2
  <2>4. ASSUME y # None /\ y \in 1970 .. 9999 PROVE ym = <<y, n>>
    BY <1>2, <2>2, <2>4 DEF journalContext
  <2>5. ASSUME y # None /\ y \in 1970 .. 9999 PROVE ym[1] = y /\ y \in Nat /\ ym[2] = n
    BY <2>4, <2>5
  <2>6. ASSUME ~(y # None /\ y \in 1970 .. 9999) PROVE ym[1] = latest[1] /\ ym[2] = latest[2]
    BY <2>1, <2>6
  <2> QED
    BY <2>3, <2>5, <2>6
<1> QED
  BY <1>1, <1>2

LEMMA MonthIs ==
  ASSUME JournalTyped, NEW asked \in Asked, DOMAIN journalDays # {},
         NEW day, day = SelectedDay(asked),
         NEW ym, ym = journalContext(day, asked.year, asked.month, Latest(DOMAIN journalDays))
  PROVE  Month(day, ym)
<1>1. Dated(DOMAIN journalDays) /\ Latest(DOMAIN journalDays) \in DOMAIN journalDays
  BY JournalDated, LatestIs
<1>2. PICK newest : newest = Latest(DOMAIN journalDays)
  OBVIOUS
<1>3. IsDate(newest)
  BY <1>1, <1>2 DEF Dated
<1>4. ASSUME InYear(asked.year) # {} PROVE IsDate(Latest(InYear(asked.year)))
  <2>1. InYear(asked.year) \subseteq DOMAIN journalDays
    BY DEF InYear
  <2>2. Dated(InYear(asked.year)) /\ Latest(InYear(asked.year)) \in InYear(asked.year)
    BY <1>4, <2>1, JournalDated, LatestIs
  <2> QED
    BY <2>2 DEF Dated
<1>5. day = None \/ IsDate(day)
  <2>1. asked.day = None \/ IsDate(asked.day)
    BY DateAssumption
  <2> QED
    BY <1>2, <1>3, <1>4, <2>1 DEF SelectedDay
<1>6. newest[1] \in Nat /\ newest[2] \in 1 .. 12
  BY <1>3, DateIs
<1>7. IF day # None THEN ym = <<day[1], day[2]>> ELSE ym[1] \in Nat /\ ym[2] \in 1 .. 12
  BY <1>2, <1>6, ContextMonth
<1> QED
  BY <1>5, <1>7, DateIs DEF Month

\* The cells of a month's days are where they belong, and they are no others.
Placed(grid, y, m, day) ==
  LET leading == Weekday(FirstOf(y, m))
      days == DaysIn(y, m)
  IN /\ \E n \in Nat : DOMAIN grid = 1 .. n /\ Len(grid) = n /\ n % 7 = 0 /\ n >= leading + days
     /\ \A i \in DOMAIN grid : grid[i].dom = IF i \in leading + 1 .. leading + days THEN i - leading ELSE 0
     /\ \A i \in leading + 1 .. leading + days : grid[i].selected <=> <<y, m, i - leading>> = day

LEMMA ALine ==
  ASSUME NEW n \in Nat, NEW s, s = [i \in 1 .. n |-> s[i]]
  PROVE  Line(s) /\ Len(s) = n /\ DOMAIN s = 1 .. n
<1>1. PICK S : S = {s[i] : i \in 1 .. n}
  OBVIOUS
<1>2. s \in [1 .. n -> S] /\ DOMAIN s = 1 .. n
  BY <1>1
<1>3. s \in Seq(S) /\ Len(s) = n
  BY <1>2
<1> QED
  BY <1>1, <1>2, <1>3 DEF Line

\* What a cell says is what the journal has.
ShownOf(cell, day, moods) ==
  /\ cell.count = journalDays[day]
  /\ cell.tint = cellTint(DigestMood(day), Inferred(moods, day))
  /\ cell.stale = DigestStale(day)

LEMMA GridIs ==
  ASSUME NEW y \in Nat, NEW m \in 1 .. 12, NEW day, NEW moods, NEW grid, grid = buildMonthGrid(y, m, day, moods)
  PROVE  /\ Placed(grid, y, m, day)
         /\ \A d \in 1 .. DaysIn(y, m) :
              <<y, m, d>> \in DOMAIN journalDays
                => ShownOf(grid[Weekday(FirstOf(y, m)) + d], <<y, m, d>>, moods)
<1> DEFINE cell(d) ==
             LET today == <<y, m, d>>
                 has == today \in DOMAIN journalDays
             IN [dom |-> d, selected |-> today = day,
                 count |-> IF has THEN journalDays[today] ELSE 0,
                 tint |-> IF has THEN cellTint(DigestMood(today), Inferred(moods, today)) ELSE None,
                 stale |-> has /\ DigestStale(today)]
<1>1. PICK leading \in 0 .. 6 : leading = Weekday(FirstOf(y, m))
  <2>1. DayNumber(FirstOf(y, m)) \in Int
    BY NumberOf, 1 \in Nat DEF FirstOf
  <2> QED
    BY <2>1 DEF Weekday
<1>2. PICK days \in Nat : days = DaysIn(y, m)
  BY Lengths
<1>3. PICK a : a = [i \in 1 .. leading |-> BlankCell]
  OBVIOUS
<1>4. PICK b : b = [d \in 1 .. days |-> cell(d)]
  OBVIOUS
<1>5. PICK all : all = a \o b
  OBVIOUS
<1>6. /\ Line(a) /\ Len(a) = leading /\ DOMAIN a = 1 .. leading
      /\ Line(b) /\ Len(b) = days /\ DOMAIN b = 1 .. days
  <2>1. a = [i \in 1 .. leading |-> a[i]] /\ leading \in Nat
    BY <1>3
  <2>2. b = [d \in 1 .. days |-> b[d]]
    BY <1>4
  <2> HIDE DEF cell
  <2> QED
    BY <2>1, <2>2, ALine
<1>7. /\ Line(all) /\ DOMAIN all = 1 .. leading + days
      /\ \A i \in 1 .. leading : all[i] = BlankCell
      /\ \A i \in 1 .. leading + days : i > leading => all[i] = b[i - leading] /\ i - leading \in 1 .. days
  <2>1. Both(all, a, b)
    BY <1>5, <1>6, Joined
  <2>2. \A i \in 1 .. leading : a[i] = BlankCell
    BY <1>3
  <2> HIDE DEF cell
  <2> QED
    BY <1>6, <2>1, <2>2 DEF Both
<1>8. Len(all) = leading + days /\ leading + days \in Nat
  BY <1>7 DEF Line
<1>9. PICK r \in 0 .. 6 : r = (7 - (Len(all) % 7)) % 7
  BY <1>8
<1>10. PICK z : z = [i \in 1 .. r |-> BlankCell]
  OBVIOUS
<1>11. Line(z) /\ Len(z) = r /\ DOMAIN z = 1 .. r /\ \A i \in 1 .. r : z[i] = BlankCell
  <2>1. z = [i \in 1 .. r |-> z[i]] /\ r \in Nat
    BY <1>10
  <2> QED
    BY <1>10, <2>1, ALine
<1>12. grid = all \o z
  BY <1>1, <1>2, <1>3, <1>4, <1>5, <1>9, <1>10 DEF buildMonthGrid
<1>13. /\ Line(grid) /\ DOMAIN grid = 1 .. leading + days + r
       /\ \A i \in 1 .. leading + days : grid[i] = all[i]
       /\ \A i \in 1 .. leading + days + r : i > leading + days => grid[i] = BlankCell
  <2>1. Both(grid, all, z)
    BY <1>7, <1>11, <1>12, Joined
  <2> HIDE DEF cell
  <2> QED
    BY <1>7, <1>8, <1>11, <2>1 DEF Both
<1>14. Len(grid) = leading + days + r
  BY <1>13 DEF Line
<1>15. (leading + days + r) % 7 = 0
  BY <1>8, <1>9
<1>16. \A i \in leading + 1 .. leading + days : i - leading \in 1 .. days /\ grid[i] = cell(i - leading)
  <2> SUFFICES ASSUME NEW i \in leading + 1 .. leading + days
               PROVE  i - leading \in 1 .. days /\ grid[i] = cell(i - leading)
    OBVIOUS
  <2>1. i \in 1 .. leading + days /\ i > leading
    OBVIOUS
  <2>2. grid[i] = b[i - leading] /\ i - leading \in 1 .. days
    BY <1>7, <1>13, <2>1
  <2>3. \A d \in 1 .. days : b[d] = cell(d)
    BY <1>4
  <2> HIDE DEF cell
  <2> QED
    BY <2>2, <2>3
<1>17. \A i \in DOMAIN grid : i \notin leading + 1 .. leading + days => grid[i] = BlankCell
  <2> SUFFICES ASSUME NEW i \in DOMAIN grid, i \notin leading + 1 .. leading + days PROVE grid[i] = BlankCell
    OBVIOUS
  <2>1. i \in 1 .. leading \/ (i \in 1 .. leading + days + r /\ i > leading + days)
    BY <1>13
  <2> QED
    BY <1>7, <1>13, <2>1
<1>18. \A d : /\ cell(d).dom = d /\ (cell(d).selected <=> <<y, m, d>> = day)
              /\ <<y, m, d>> \in DOMAIN journalDays => ShownOf(cell(d), <<y, m, d>>, moods)
  <2> SUFFICES ASSUME NEW d
               PROVE  /\ cell(d).dom = d /\ (cell(d).selected <=> <<y, m, d>> = day)
                      /\ <<y, m, d>> \in DOMAIN journalDays => ShownOf(cell(d), <<y, m, d>>, moods)
    OBVIOUS
  <2>1. PICK today : today = <<y, m, d>>
    OBVIOUS
  <2>2. cell(d) = [dom |-> d, selected |-> today = day,
                   count |-> IF today \in DOMAIN journalDays THEN journalDays[today] ELSE 0,
                   tint |-> IF today \in DOMAIN journalDays
                            THEN cellTint(DigestMood(today), Inferred(moods, today)) ELSE None,
                   stale |-> today \in DOMAIN journalDays /\ DigestStale(today)]
    BY <2>1
  <2> HIDE DEF cell
  <2>3. /\ cell(d).dom = d /\ cell(d).selected = (today = day)
        /\ cell(d).count = IF today \in DOMAIN journalDays THEN journalDays[today] ELSE 0
        /\ cell(d).tint = IF today \in DOMAIN journalDays
                          THEN cellTint(DigestMood(today), Inferred(moods, today)) ELSE None
        /\ cell(d).stale = (today \in DOMAIN journalDays /\ DigestStale(today))
    BY <2>2
  <2>4. cell(d).selected <=> <<y, m, d>> = day
    BY <2>1, <2>3
  <2>5. <<y, m, d>> \in DOMAIN journalDays => ShownOf(cell(d), <<y, m, d>>, moods)
    BY <2>1, <2>3 DEF ShownOf, DigestStale
  <2> QED
    BY <2>3, <2>4, <2>5
<1> HIDE DEF cell
<1>19. \A i \in DOMAIN grid : grid[i].dom = IF i \in leading + 1 .. leading + days THEN i - leading ELSE 0
  BY <1>16, <1>17, <1>18 DEF BlankCell
<1>20. \A i \in leading + 1 .. leading + days : grid[i].selected <=> <<y, m, i - leading>> = day
  BY <1>16, <1>18
<1>21. Placed(grid, y, m, day)
  <2>1. leading + days + r \in Nat /\ leading + days + r >= leading + days
    OBVIOUS
  <2> QED
    BY <1>1, <1>2, <1>13, <1>15, <1>19, <1>20, <1>14, <2>1 DEF Placed
<1>22. ASSUME NEW d \in 1 .. days, <<y, m, d>> \in DOMAIN journalDays
       PROVE  ShownOf(grid[leading + d], <<y, m, d>>, moods)
  <2>1. leading + d \in leading + 1 .. leading + days /\ (leading + d) - leading = d
    OBVIOUS
  <2>2. grid[leading + d] = cell(d)
    BY <1>16, <2>1
  <2> QED
    BY <1>18, <1>22, <2>2
<1> QED
  BY <1>1, <1>2, <1>21, <1>22

\* A month's grid is whole weeks, has every day once, under its weekday, and marks
\* the selected one alone.
Marks(grid, day, ym, marked) ==
  /\ Len(grid) % 7 = 0
  /\ \A dom \in 1 .. DaysIn(ym[1], ym[2]) : \E i \in DOMAIN grid :
       {k \in DOMAIN grid : grid[k].dom = dom} = {i} /\ (i - 1) % 7 = Weekday(<<ym[1], ym[2], dom>>)
  /\ day = None => marked = {}
  /\ day # None => LET i == Weekday(FirstOf(ym[1], ym[2])) + day[3]
                   IN marked = {i} /\ grid[i].dom = day[3]

LEMMA PlacedIs ==
  ASSUME NEW day, NEW ym, Month(day, ym), NEW grid, Placed(grid, ym[1], ym[2], day),
         NEW marked, marked = {i \in DOMAIN grid : grid[i].dom # 0 /\ grid[i].selected}
  PROVE  Marks(grid, day, ym, marked)
<1>1. PICK y \in Nat, m \in 1 .. 12 : y = ym[1] /\ m = ym[2]
  BY DEF Month
<1>2. DayNumber(FirstOf(y, m)) \in Int
  BY NumberOf, 1 \in Nat DEF FirstOf
<1>3. PICK leading \in 0 .. 6 : leading = Weekday(FirstOf(y, m))
  BY <1>2 DEF Weekday
<1>4. PICK days \in Nat : days = DaysIn(y, m)
  BY Lengths
<1>5. PICK n \in Nat : DOMAIN grid = 1 .. n /\ Len(grid) = n /\ n % 7 = 0 /\ n >= leading + days
  BY <1>1, <1>3, <1>4 DEF Placed
<1>6. \A i \in 1 .. n : grid[i].dom = IF i \in leading + 1 .. leading + days THEN i - leading ELSE 0
  BY <1>1, <1>3, <1>4, <1>5 DEF Placed
<1>7. \A i \in leading + 1 .. leading + days : grid[i].selected <=> <<y, m, i - leading>> = day
  BY <1>1, <1>3, <1>4 DEF Placed
<1>8. ASSUME NEW dom \in 1 .. days
      PROVE  \E i \in DOMAIN grid :
               {k \in DOMAIN grid : grid[k].dom = dom} = {i} /\ (i - 1) % 7 = Weekday(<<y, m, dom>>)
  <2>1. PICK i \in Int : i = leading + dom
    OBVIOUS
  <2>2. i \in 1 .. n /\ i \in leading + 1 .. leading + days /\ i - leading = dom
    BY <1>5, <2>1
  <2>3. grid[i].dom = dom
    BY <1>6, <2>2
  <2>4. \A k \in 1 .. n : grid[k].dom = dom => k = i
    BY <1>6, <2>1
  <2>5. (i - 1) % 7 = Weekday(<<y, m, dom>>)
    <3>1. DayNumber(<<y, m, dom>>) = DayNumber(FirstOf(y, m)) + dom - 1 /\ DayNumber(<<y, m, dom>>) \in Int
      <4>1. dom \in Nat
        OBVIOUS
      <4> QED
        BY <4>1, NumberOf
    <3>2. PICK a \in Int : a = DayNumber(FirstOf(y, m))
      BY <1>2
    <3>3. leading = (a + 1) % 7 /\ Weekday(<<y, m, dom>>) = (a + dom - 1 + 1) % 7
      BY <1>3, <3>1, <3>2 DEF Weekday
    <3> QED
      BY <2>1, <3>3
  <2> QED
    BY <1>5, <2>2, <2>3, <2>4, <2>5
<1>9. ASSUME day = None PROVE marked = {}
  <2> SUFFICES ASSUME NEW i \in 1 .. n, grid[i].dom # 0, grid[i].selected PROVE FALSE
    BY <1>5
  <2>1. i \in leading + 1 .. leading + days
    BY <1>6
  <2>2. <<y, m, i - leading>> = None /\ i - leading \in Nat
    BY <1>7, <1>9, <2>1
  <2>3. <<y, m, i - leading>> \in Nat \X Nat \X Nat
    BY <2>2
  <2> QED
    BY <2>2, <2>3, DateAssumption
<1>10. ASSUME day # None PROVE marked = {leading + day[3]} /\ grid[leading + day[3]].dom = day[3]
  <2>1. IsDate(day) /\ day[1] = y /\ day[2] = m
    BY <1>1, <1>10 DEF Month
  <2>2. day = <<y, m, day[3]>> /\ day[3] \in 1 .. days
    BY <1>4, <2>1, DateIs
  <2>3. PICK i \in Int : i = leading + day[3]
    BY <2>2
  <2>4. i \in 1 .. n /\ i \in leading + 1 .. leading + days /\ i - leading = day[3]
    <3>1. PICK dom \in 1 .. days : dom = day[3]
      BY <2>2
    <3>2. i = leading + dom
      BY <2>3, <3>1
    <3>3. i \in 1 .. n /\ i \in leading + 1 .. leading + days /\ i - leading = dom
      BY <1>5, <3>2
    <3> QED
      BY <3>1, <3>3
  <2>5. grid[i].dom = day[3] /\ grid[i].selected /\ day[3] # 0
    BY <1>6, <1>7, <2>2, <2>4
  <2>6. ASSUME NEW k \in 1 .. n, grid[k].dom # 0, grid[k].selected PROVE k = i
    <3>1. k \in leading + 1 .. leading + days
      BY <1>6, <2>6
    <3>2. <<y, m, k - leading>> = day
      BY <1>7, <2>6, <3>1
    <3>3. k - leading = day[3]
      BY <3>2
    <3> QED
      BY <2>2, <2>3, <3>3
  <2> QED
    BY <1>5, <2>3, <2>4, <2>5, <2>6
<1> QED
  BY <1>1, <1>3, <1>4, <1>5, <1>8, <1>9, <1>10 DEF Marks

LEMMA TintsAgree ==
  ASSUME NEW digestMood, NEW inferred
  PROVE  /\ cellTint(digestMood, inferred) = cardTint(digestMood, inferred)
         /\ cardTint(digestMood, inferred).inferred => cardTint(digestMood, inferred).mood = inferred /\ inferred # None
  BY DEF cellTint, cardTint, moodClass

-----------------------------------------------------------------------------
PageFields == {"step", "torn", "asked", "day", "ym", "moods", "grid", "stats", "inYear", "prev", "next", "card", "strip"}

\* The month as it is laid out, whatever is written meanwhile.
Laid(c) ==
  /\ DOMAIN c = PageFields
  /\ Month(c.day, c.ym)
  /\ Placed(c.grid, c.ym[1], c.ym[2], c.day)
  /\ c.next = AddMonths(c.ym[1], c.ym[2], 1) /\ c.prev = AddMonths(c.ym[1], c.ym[2], -1)

\* What the month says of the selected day is what the database has.
Current(c) ==
  /\ c.moods = monthSentimentMoods(c.ym[1], c.ym[2])
  /\ c.day \in DOMAIN journalDays =>
       ShownOf(c.grid[Weekday(FirstOf(c.ym[1], c.ym[2])) + c.day[3]], c.day, c.moods)

CalendarInv ==
  /\ JournalTyped
  /\ calendar.step \in {"none", "grid", "done"}
  /\ calendar.step = "grid" => Laid(calendar) /\ (calendar.torn \/ Current(calendar))
  /\ calendar.step = "none" => DOMAIN calendar = {"step", "torn"}
  /\ CalendarAgrees
  /\ StreakIsLongest

LEMMA WrittenKeeps ==
  ASSUME CalendarInv, Written, JournalTyped'
  PROVE  CalendarInv'
<1>1. calendar.step \in {"none", "grid"} /\ calendar' = [calendar EXCEPT !.torn = calendar.step = "grid"]
  BY DEF CalendarInv, Written
<1>2. CASE calendar.step = "none"
  <2>1. DOMAIN calendar = {"step", "torn"}
    BY <1>2 DEF CalendarInv
  <2>2. DOMAIN calendar' = {"step", "torn"} /\ calendar'.step = "none"
    BY <1>1, <1>2, <2>1
  <2> QED
    BY <2>2 DEF CalendarInv, CalendarAgrees, StreakIsLongest
<1>3. CASE calendar.step = "grid"
  <2>1. Laid(calendar)
    BY <1>3 DEF CalendarInv
  <2>2. DOMAIN calendar = PageFields
    BY <2>1 DEF Laid
  <2>3. /\ DOMAIN calendar' = PageFields /\ calendar'.step = "grid" /\ calendar'.torn
        /\ calendar'.day = calendar.day /\ calendar'.ym = calendar.ym /\ calendar'.grid = calendar.grid
        /\ calendar'.next = calendar.next /\ calendar'.prev = calendar.prev
        /\ calendar'.stats = calendar.stats /\ calendar'.inYear = calendar.inYear
    BY <1>1, <1>3, <2>2 DEF PageFields
  <2>4. Laid(calendar')
    BY <2>1, <2>3 DEF Laid
  <2>5. StreakIsLongest'
    BY <1>3, <2>3 DEF CalendarInv, StreakIsLongest
  <2> QED
    BY <2>3, <2>4, <2>5 DEF CalendarInv, CalendarAgrees
<1> QED
  BY <1>1, <1>2, <1>3

LEMMA GridKeeps ==
  ASSUME CalendarInv, NEW asked \in Asked, renderJournalGrid(asked)
  PROVE  CalendarInv'
<1>1. PICK day : day = SelectedDay(asked)
  OBVIOUS
<1>2. PICK ym : ym = journalContext(day, asked.year, asked.month, Latest(DOMAIN journalDays))
  OBVIOUS
<1>3. PICK moods : moods = monthSentimentMoods(ym[1], ym[2])
  OBVIOUS
<1>4. PICK grid : grid = buildMonthGrid(ym[1], ym[2], day, moods)
  OBVIOUS
<1>5. calendar' = [step |-> "grid", torn |-> FALSE, asked |-> asked, day |-> day, ym |-> ym,
                   moods |-> moods, grid |-> grid,
                   stats |-> JournalStats(ym[1]), inYear |-> InYear(ym[1]),
                   prev |-> AddMonths(ym[1], ym[2], -1), next |-> AddMonths(ym[1], ym[2], 1),
                   card |-> None, strip |-> None]
  BY <1>1, <1>2, <1>3, <1>4 DEF renderJournalGrid, monthNavURL
<1>6. /\ DOMAIN journalDays # {} /\ journalDays' = journalDays /\ dayScores' = dayScores
      /\ lastScored' = lastScored /\ configured' = configured /\ digests' = digests
  BY DEF renderJournalGrid
<1>7. JournalTyped
  BY DEF CalendarInv
<1>8. Month(day, ym)
  BY <1>1, <1>2, <1>6, <1>7, MonthIs
<1>9. ym[1] \in Nat /\ ym[2] \in 1 .. 12
  BY <1>8 DEF Month
<1>10. /\ Placed(grid, ym[1], ym[2], day)
       /\ \A d \in 1 .. DaysIn(ym[1], ym[2]) :
            <<ym[1], ym[2], d>> \in DOMAIN journalDays
              => ShownOf(grid[Weekday(FirstOf(ym[1], ym[2])) + d], <<ym[1], ym[2], d>>, moods)
  BY <1>4, <1>9, GridIs
<1>11. Laid(calendar')
  <2>1. DOMAIN calendar' = PageFields
    BY <1>5 DEF PageFields
  <2>2. /\ calendar'.day = day /\ calendar'.ym = ym /\ calendar'.grid = grid
        /\ calendar'.next = AddMonths(ym[1], ym[2], 1) /\ calendar'.prev = AddMonths(ym[1], ym[2], -1)
    BY <1>5
  <2> QED
    BY <1>8, <1>10, <2>1, <2>2 DEF Laid
<1>12. ASSUME day \in DOMAIN journalDays
       PROVE  ShownOf(grid[Weekday(FirstOf(ym[1], ym[2])) + day[3]], day, moods)
  <2>1. IsDate(day)
    BY <1>7, <1>12, DateAssumption DEF JournalTyped
  <2>2. day # None /\ day = <<day[1], day[2], day[3]>> /\ day[3] \in 1 .. DaysIn(day[1], day[2])
    BY <2>1, DateIs
  <2>3. day[1] = ym[1] /\ day[2] = ym[2]
    BY <1>8, <2>2 DEF Month
  <2>4. day = <<ym[1], ym[2], day[3]>> /\ day[3] \in 1 .. DaysIn(ym[1], ym[2])
    BY <2>2, <2>3
  <2> QED
    BY <1>10, <1>12, <2>4
<1>13. Current(calendar)'
  <2>1. monthSentimentMoods(ym[1], ym[2])' = moods
    BY <1>3, <1>6 DEF monthSentimentMoods
  <2>2. calendar'.day = day /\ calendar'.ym = ym /\ calendar'.grid = grid /\ calendar'.moods = moods
    BY <1>5
  <2>3. day \in DOMAIN journalDays => ShownOf(grid[Weekday(FirstOf(ym[1], ym[2])) + day[3]], day, moods)'
    BY <1>6, <1>12 DEF ShownOf, DigestMood, DigestStale
  <2> QED
    BY <1>6, <2>1, <2>2, <2>3 DEF Current
<1>14. StreakIsLongest'
  <2>1. PICK D : D = InYear(ym[1])
    OBVIOUS
  <2>2. D \subseteq DOMAIN journalDays /\ \A d, e \in D : d[1] = e[1]
    BY <2>1 DEF InYear
  <2>3. Dated(D)
    BY <1>7, <2>2, JournalDated
  <2>4. PICK N : N = {DayNumber(d) : d \in D}
    OBVIOUS
  <2>5. longestStreak(Chronological(D)) =
          Max({n \in 0 .. Cardinality(N) : n = 0 \/ \E x \in N : x .. x + n - 1 \subseteq N})
    BY <2>2, <2>3, <2>4, LongestIs
  <2>6. calendar'.stats.streak = longestStreak(Chronological(D)) /\ calendar'.inYear = D
    BY <1>5, <2>1 DEF JournalStats
  <2> QED
    BY <2>4, <2>5, <2>6 DEF StreakIsLongest
<1>15. calendar'.step = "grid"
  BY <1>5
<1>16. JournalTyped'
  BY <1>6, <1>7 DEF JournalTyped
<1> QED
  BY <1>11, <1>13, <1>14, <1>15, <1>16 DEF CalendarInv, CalendarAgrees

LEMMA CardKeeps ==
  ASSUME CalendarInv, renderJournalCard
  PROVE  CalendarInv'
<1>1. /\ calendar.step = "grid" /\ journalDays' = journalDays /\ dayScores' = dayScores
      /\ lastScored' = lastScored /\ configured' = configured /\ digests' = digests
  BY DEF renderJournalCard
<1>2. JournalTyped /\ Laid(calendar) /\ (calendar.torn \/ Current(calendar)) /\ StreakIsLongest
  BY <1>1 DEF CalendarInv
<1>3. DOMAIN calendar = PageFields
  BY <1>2 DEF Laid
<1>4. PICK day, ym, grid, moods :
        day = calendar.day /\ ym = calendar.ym /\ grid = calendar.grid /\ moods = calendar.moods
  OBVIOUS
<1>5. /\ calendar'.step = "done" /\ calendar'.torn = calendar.torn
      /\ calendar'.day = day /\ calendar'.ym = ym /\ calendar'.grid = grid
      /\ calendar'.next = calendar.next /\ calendar'.prev = calendar.prev
      /\ calendar'.stats = calendar.stats /\ calendar'.inYear = calendar.inYear
      /\ calendar'.card = IF day \in DOMAIN journalDays THEN buildDayCard(day, moods) ELSE None
      /\ calendar'.strip = IF day \in DOMAIN journalDays THEN Inferred(dayScores[configured], day) ELSE None
  BY <1>3, <1>4 DEF renderJournalCard, PageFields
<1>6. Month(day, ym) /\ Placed(grid, ym[1], ym[2], day)
  BY <1>2, <1>4 DEF Laid
<1>7. PICK marked : marked = {i \in DOMAIN grid : grid[i].dom # 0 /\ grid[i].selected}
  OBVIOUS
<1>8. /\ Len(grid) % 7 = 0
      /\ \A dom \in 1 .. DaysIn(ym[1], ym[2]) : \E i \in DOMAIN grid :
           {k \in DOMAIN grid : grid[k].dom = dom} = {i} /\ (i - 1) % 7 = Weekday(<<ym[1], ym[2], dom>>)
      /\ day = None => marked = {}
      /\ day # None => LET i == Weekday(FirstOf(ym[1], ym[2])) + day[3]
                       IN marked = {i} /\ grid[i].dom = day[3]
  <2>1. Marks(grid, day, ym, marked)
    BY <1>6, <1>7, PlacedIs
  <2> QED
    BY <2>1 DEF Marks
<1>9. PICK cell : cell = grid[CHOOSE i \in marked : TRUE]
  OBVIOUS
<1>10. IF day = None THEN marked = {} ELSE Cardinality(marked) = 1 /\ cell.dom = day[3]
  <2> SUFFICES ASSUME day # None PROVE Cardinality(marked) = 1 /\ cell.dom = day[3]
    BY <1>8
  <2>1. PICK i : marked = {i} /\ grid[i].dom = day[3]
    BY <1>8
  <2>2. (CHOOSE k \in marked : TRUE) = i
    BY <2>1
  <2> QED
    BY <1>9, <2>1, <2>2, FS_Singleton
<1>11. ASSUME ~calendar.torn, calendar'.card # None
       PROVE  /\ cell.tint = calendar'.card.tint
              /\ cell.stale = calendar'.card.stale /\ cell.count = calendar'.card.count
              /\ calendar'.card.tint.inferred /\ configured = lastScored => calendar'.strip = calendar'.card.tint.mood
  <2>1. day \in DOMAIN journalDays /\ calendar'.card = buildDayCard(day, moods)
    BY <1>5, <1>11
  <2>2. IsDate(day)
    BY <1>2, <2>1, DateAssumption DEF JournalTyped
  <2>3. day # None /\ day = <<day[1], day[2], day[3]>>
    BY <2>2, DateIs
  <2>4. PICK i : i = Weekday(FirstOf(ym[1], ym[2])) + day[3]
    OBVIOUS
  <2>5. marked = {i}
    BY <1>8, <2>3, <2>4
  <2>6. cell = grid[i]
    <3>1. (CHOOSE k \in marked : TRUE) = i
      BY <2>5
    <3> QED
      BY <1>9, <3>1
  <2>7. ShownOf(cell, day, moods) /\ moods = monthSentimentMoods(ym[1], ym[2])
    BY <1>2, <1>4, <1>11, <2>1, <2>4, <2>6 DEF Current
  <2>8. /\ calendar'.card.count = journalDays[day]
        /\ calendar'.card.tint = cardTint(DigestMood(day), Inferred(moods, day))
        /\ calendar'.card.stale = DigestStale(day)
    BY <2>1 DEF buildDayCard
  <2>9. /\ cell.tint = calendar'.card.tint
        /\ cell.stale = calendar'.card.stale /\ cell.count = calendar'.card.count
    BY <2>7, <2>8, TintsAgree DEF ShownOf
  <2>10. ASSUME calendar'.card.tint.inferred, configured = lastScored
         PROVE  calendar'.strip = calendar'.card.tint.mood
    <3>1. Inferred(moods, day) # None /\ calendar'.card.tint.mood = Inferred(moods, day)
      BY <2>8, <2>10, TintsAgree
    <3>2. day \in DOMAIN moods /\ moods[day] = Inferred(moods, day)
      BY <3>1 DEF Inferred
    <3>3. lastScored # None
      <4> SUFFICES ASSUME lastScored = None PROVE FALSE
        OBVIOUS
      <4>1. moods = <<>>
        BY <2>7 DEF monthSentimentMoods
      <4> QED
        BY <3>2, <4>1
    <3>4. moods[day] = dayScores[lastScored][day] /\ day \in DOMAIN dayScores[lastScored]
      BY <2>7, <3>2, <3>3 DEF monthSentimentMoods
    <3> QED
      BY <1>5, <2>1, <2>10, <3>1, <3>2, <3>4 DEF Inferred
  <2> QED
    BY <2>9, <2>10
<1>12. AddMonths(calendar.next[1], calendar.next[2], -2) = calendar.prev
  <2>1. ym[1] \in Int /\ ym[2] \in Int
    BY <1>6 DEF Month
  <2>2. calendar.next = AddMonths(ym[1], ym[2], 1) /\ calendar.prev = AddMonths(ym[1], ym[2], -1)
    BY <1>2, <1>4 DEF Laid
  <2> QED
    BY <2>1, <2>2, ThereAndBack
<1>13. CalendarAgrees'
  BY <1>1, <1>5, <1>7, <1>8, <1>9, <1>10, <1>11, <1>12 DEF CalendarAgrees
<1>14. StreakIsLongest'
  BY <1>1, <1>2, <1>5 DEF StreakIsLongest
<1>15. JournalTyped'
  BY <1>1, <1>2 DEF JournalTyped
<1> QED
  BY <1>5, <1>13, <1>14, <1>15 DEF CalendarInv

LEMMA CalendarStep == CalendarInv /\ [CalendarNext]_calendarVars => CalendarInv'
<1> SUFFICES ASSUME CalendarInv, [CalendarNext]_calendarVars PROVE CalendarInv'
  OBVIOUS
<1>1. JournalTyped
  BY DEF CalendarInv
<1>2. ASSUME NEW day \in Date, BuildJournalDay(day) PROVE CalendarInv'
  <2>1. IsFiniteSet(DOMAIN journalDays \union {day}) /\ IsFiniteSet(DOMAIN journalDays \ {day})
    <3>1. DOMAIN journalDays \ {day} \in SUBSET (DOMAIN journalDays)
      OBVIOUS
    <3> QED
      BY <1>1, <3>1, FS_AddElement, FS_Subset DEF JournalTyped
  <2>2. DOMAIN journalDays' \in {DOMAIN journalDays \union {day}, DOMAIN journalDays \ {day}}
    BY <1>2 DEF BuildJournalDay, Put
  <2>3. JournalTyped'
    BY <1>1, <1>2, <2>1, <2>2 DEF JournalTyped, BuildJournalDay
  <2> QED
    BY <1>2, <2>3, WrittenKeeps DEF BuildJournalDay
<1>3. ASSUME NEW day \in Date, PutJournalDigest(day) PROVE CalendarInv'
  <2>1. JournalTyped'
    BY <1>1, <1>3 DEF JournalTyped, PutJournalDigest
  <2> QED
    BY <1>3, <2>1, WrittenKeeps DEF PutJournalDigest
<1>4. ASSUME NEW day \in Date, ScoreDay(day) PROVE CalendarInv'
  <2>1. JournalTyped'
    BY <1>1, <1>4 DEF JournalTyped, ScoreDay
  <2> QED
    BY <1>4, <2>1, WrittenKeeps DEF ScoreDay
<1>5. ASSUME SwitchScoreModel PROVE CalendarInv'
  <2>1. JournalTyped'
    BY <1>1, <1>5 DEF JournalTyped, SwitchScoreModel
  <2> QED
    BY <1>5, <2>1, WrittenKeeps DEF SwitchScoreModel
<1>6. ASSUME UNCHANGED calendarVars PROVE CalendarInv'
  <2>1. /\ calendar' = calendar /\ journalDays' = journalDays /\ dayScores' = dayScores
        /\ lastScored' = lastScored /\ configured' = configured /\ digests' = digests
    BY <1>6 DEF calendarVars
  <2>2. Current(calendar)' <=> Current(calendar)
    BY <2>1 DEF Current, ShownOf, DigestMood, DigestStale, monthSentimentMoods
  <2>3. CalendarAgrees' /\ StreakIsLongest'
    BY <2>1 DEF CalendarInv, CalendarAgrees, StreakIsLongest
  <2>4. JournalTyped'
    BY <1>1, <2>1 DEF JournalTyped
  <2> QED
    BY <2>1, <2>2, <2>3, <2>4 DEF CalendarInv
<1> QED
  BY <1>2, <1>3, <1>4, <1>5, <1>6, GridKeeps, CardKeeps DEF CalendarNext

\* The journal page is put together from several reads, between which others
\* write.  Its grid has every day of its month once under its weekday and marks
\* the selected one alone; the card says what its cell says, unless something was
\* written between the two; and the streak is the longest run of days of the year,
\* for every calendar.  (journal.go renderJournalPage, journal_calendar.go.)
THEOREM CalendarTrue == CalendarSpec => []CalendarHolds
<1>1. CalendarInit => CalendarInv
  <2> SUFFICES ASSUME CalendarInit PROVE CalendarInv
    OBVIOUS
  <2>1. calendar.step = "none" /\ DOMAIN calendar = {"step", "torn"}
    BY DEF CalendarInit, NoPage
  <2>2. DOMAIN journalDays = {}
    BY DEF CalendarInit
  <2>3. JournalTyped
    BY <2>2, FS_EmptySet DEF CalendarInit, JournalTyped
  <2> QED
    BY <2>1, <2>3 DEF CalendarInv, CalendarAgrees, StreakIsLongest
<1>2. CalendarInv => CalendarHolds
  BY DEF CalendarInv, CalendarHolds
<1> QED
  BY <1>1, <1>2, CalendarStep, PTL DEF CalendarSpec
-----------------------------------------------------------------------------
(* The snapshots (Backup).                                                 *)


Named    == {"mkdir", "vacuum", "vacuuming", "sum", "manifest", "cleanup",
             "swap", "open", "copy", "rollback"}
Swapping == {"swap", "open", "copy", "rollback"}

\* The locals of an operation are there when it uses them.
Locals ==
  \A p \in Proc :
    /\ IF pc[p] \in Named THEN name[p] \in Id ELSE name[p] = None
    /\ pc[p] \in Swapping => target[p] \in Id
    /\ pc[p] \in {"idle", "prune"} => target[p] = None
    /\ pc[p] = "copy" => out[p] \in Node /\ src[p] \in File

Shaped == BackupTypeOK /\ Locals

LEMMA Constants ==
  /\ Server \in Proc
  /\ MaxSec \in Nat /\ MaxSame \in Nat /\ MaxCommits \in Nat /\ MaxOps \in Nat /\ MaxFaults \in Nat
  /\ None \notin Proc /\ None \notin Node /\ None \notin Db /\ None \notin Id
  /\ Proc \intersect Db = {}
  /\ 0 \in Db /\ 1 \in Node
BY BackupAssumption DEF Db, Node

LEMMA SpareIs ==
  ASSUME Spare # {}
  PROVE  /\ Unused \in Node /\ Unused # kept /\ Unused # path
         /\ Unused \notin Range(aside) /\ Unused \notin Range(out)
BY DEF Unused, Spare

LEMMA InitiallyShaped ==
  ASSUME BackupInit
  PROVE  Shaped
<1>1. BackupTypeOK
  BY Constants DEF BackupInit, BackupTypeOK, Label, File
<1> QED
  BY <1>1 DEF Shaped, Locals, BackupInit, Named, Swapping

\* An operation that is over leaves nothing behind in its process.
LEMMA FinishShapes ==
  ASSUME Shaped, NEW p \in Proc, Finish(p)
  PROVE  /\ pc' \in [Proc -> Label] /\ name' \in [Proc -> Id \union {None}]
         /\ target' \in [Proc -> Id \union {None}] /\ took' \in [Proc -> File \union {None}]
         /\ out' \in [Proc -> Node \union {None}] /\ src' \in [Proc -> File \union {None}]
         /\ doomed' \in [Proc -> SUBSET Id]
         /\ Locals'
BY DEF Shaped, BackupTypeOK, Finish, Goto, Label, Locals, Named, Swapping

LEMMA CreateShapes ==
  ASSUME Shaped, NEW p \in Proc, StartCreate(p) \/ CreateStep(p) \/ CreateFails(p)
  PROVE  Shaped'
<1> USE DEF Goto, Label, Locals, Named, Swapping
<1>1. CASE StartCreate(p)
  BY <1>1, Constants DEF StartCreate, Acquire, Shaped, BackupTypeOK, liveVars
<1>2. CASE ChooseName(p)
  <2>1. PICK n \in 1..MaxSame : name' = [name EXCEPT ![p] = [pre |-> target[p] # None, sec |-> now, n |-> n]]
    BY <1>2 DEF ChooseName
  <2>2. [pre |-> target[p] # None, sec |-> now, n |-> n] \in Id
    BY DEF Shaped, BackupTypeOK, Id
  <2> QED
    BY <1>2, <2>1, <2>2 DEF ChooseName, Shaped, BackupTypeOK, liveVars
<1>3. CASE Mkdir(p)
  BY <1>3 DEF Mkdir, Proceed, Shaped, BackupTypeOK, liveVars, Dir, Mishaps
<1>4. CASE VacuumBegin(p)
  BY <1>4 DEF VacuumBegin, Proceed, Made, Shaped, BackupTypeOK, liveVars, Dir, File
<1>5. CASE VacuumEnd(p)
  BY <1>5 DEF VacuumEnd, Proceed, Made, Shaped, BackupTypeOK, liveVars, Dir
<1>6. CASE Checksum(p)
  BY <1>6 DEF Checksum, Proceed, Made, Shaped, BackupTypeOK, liveVars, Dir
<1>7. CASE WriteManifest(p)
  <2>1. /\ UNCHANGED <<now, node, path, aside, conn, commits, kept, ops, faults, spoilt>>
        /\ dirs' \in [Id -> Dir \union {None}]
    BY <1>7 DEF WriteManifest, liveVars, Made, Shaped, BackupTypeOK, Dir
  <2>2. CASE Finish(p)
    BY <2>1, <2>2, FinishShapes DEF Shaped, BackupTypeOK
  <2>3. CASE ~Finish(p)
    BY <1>7, <2>1, <2>3 DEF WriteManifest, Shaped, BackupTypeOK
  <2> QED
    BY <2>2, <2>3
<1>8. CASE Cleanup(p)
  BY <1>8, FinishShapes DEF Cleanup, Shaped, BackupTypeOK, liveVars
<1>9. CASE CreateFails(p)
  BY <1>9, Constants DEF CreateFails, Proceed, Shaped, BackupTypeOK, liveVars
<1> QED
  BY <1>1, <1>2, <1>3, <1>4, <1>5, <1>6, <1>7, <1>8, <1>9 DEF CreateStep

LEMMA RestoreShapes ==
  ASSUME Shaped, NEW p \in Proc,
         (\E id \in Id : StartRestore(p, id)) \/ RestoreStep(p) \/ CopyFails(p) \/ RenameFails(p)
  PROVE  Shaped'
<1> USE DEF Goto, Label, Locals, Named, Swapping
<1>1. ASSUME NEW id \in Id, StartRestore(p, id)
      PROVE  Shaped'
  BY <1>1, Constants DEF StartRestore, Acquire, Shaped, BackupTypeOK, liveVars, Mishaps
<1>2. CASE Swap(p)
  <2>1. CASE Finish(p)
    BY <1>2, <2>1, FinishShapes DEF Swap, Shaped, BackupTypeOK
  <2>2. CASE ~Finish(p)
    BY <1>2, <2>2 DEF Swap, Shaped, BackupTypeOK
  <2> QED
    BY <2>1, <2>2
<1>3. CASE OpenCopy(p)
  BY <1>3, SpareIs DEF OpenCopy, Listed, Shaped, BackupTypeOK, File, Dir
<1>4. CASE CopyDone(p)
  BY <1>4, FinishShapes DEF CopyDone, Shaped, BackupTypeOK
<1>5. CASE CopyFails(p)
  BY <1>5, Constants DEF CopyFails, Shaped, BackupTypeOK, liveVars
<1>6. CASE Rollback(p)
  BY <1>6, FinishShapes DEF Rollback, Shaped, BackupTypeOK
<1>7. CASE RenameFails(p)
  BY <1>7, FinishShapes, Constants DEF RenameFails, Shaped, BackupTypeOK, liveVars, Mishaps
<1> QED
  BY <1>1, <1>2, <1>3, <1>4, <1>5, <1>6, <1>7 DEF RestoreStep

LEMMA StepShapes ==
  ASSUME Shaped, [BackupNext]_backupVars
  PROVE  Shaped'
<1> USE DEF Goto, Label, Locals, Named, Swapping
<1>1. CASE Tick
  BY <1>1, Constants DEF Tick, Shaped, BackupTypeOK, liveVars, opVars
<1>2. CASE Commit
  BY <1>2, Constants DEF Commit, Shaped, BackupTypeOK, opVars, Db, File
<1>3. CASE Reopen
  BY <1>3, Constants, SpareIs DEF Reopen, Shaped, BackupTypeOK, opVars, File
<1>4. ASSUME NEW p \in Proc, StartPrune(p) \/ PruneNext(p)
      PROVE  Shaped'
  <2>1. CASE StartPrune(p)
    BY <2>1, Constants DEF StartPrune, Acquire, Superfluous, Listed, Shaped, BackupTypeOK, liveVars, Mishaps
  <2>2. CASE PruneNext(p) /\ doomed[p] = {}
    BY <2>2, FinishShapes DEF PruneNext, Shaped, BackupTypeOK, liveVars
  <2>3. CASE PruneNext(p) /\ doomed[p] # {}
    BY <2>3 DEF PruneNext, Shaped, BackupTypeOK, liveVars
  <2> QED
    BY <1>4, <2>1, <2>2, <2>3
<1>5. ASSUME NEW p \in Proc, Crash(p)
      PROVE  Shaped'
  BY <1>5, FinishShapes, Constants DEF Crash, Shaped, BackupTypeOK, Mishaps
<1>6. CASE UNCHANGED backupVars
  BY <1>6 DEF backupVars, liveVars, opVars, Shaped, BackupTypeOK
<1> QED
  BY <1>1, <1>2, <1>3, <1>4, <1>5, <1>6, CreateShapes, RestoreShapes DEF BackupNext

----------------------------------------------------------------------------
(* What a restore has moved aside is whole, and stays under a name.        *)

Restores(p) == target[p] # None

Holds(p) ==
  /\ pc[p] \in {"vacuuming", "sum", "manifest", "swap"} => path \in Node /\ node[path] \in Db
  /\ Away(p) => kept \in Node /\ aside[target[p]] = kept /\ path # kept
  /\ pc[p] = "copy" => out[p] = path
  /\ pc[p] = "open" /\ path # None => node[path] \in Db

Held ==
  "restores" \notin spoilt =>
    /\ \A p, q \in Proc : Restores(p) /\ Restores(q) => p = q
    /\ \A p \in Proc : Restores(p) => Holds(p)
    /\ kept # None => (kept = path \/ \E id \in Id : aside[id] = kept) /\ node[kept] \in Db

LEMMA MishapsStay ==
  ASSUME Shaped, [BackupNext]_backupVars
  PROVE  spoilt \subseteq spoilt'
BY DEF BackupNext, Tick, Commit, Reopen, StartCreate, CreateStep, ChooseName, Mkdir, VacuumBegin,
       VacuumEnd, Checksum, WriteManifest, Cleanup, CreateFails, StartRestore, RestoreStep, Swap,
       OpenCopy, CopyDone, Rollback, CopyFails, RenameFails, StartPrune, PruneNext, Crash, backupVars

\* A step of one process that leaves the files and their names alone.
LEMMA QuietHeld ==
  ASSUME Shaped, Held, NEW p \in Proc, UNCHANGED <<node, path, aside, kept>>,
         spoilt \subseteq spoilt',
         \A q \in Proc \ {p} : pc'[q] = pc[q] /\ target'[q] = target[q] /\ out'[q] = out[q],
         \/ target'[p] = None
         \/ /\ target'[p] = target[p] /\ out'[p] = out[p]
            /\ \/ pc'[p] \in {"name", "mkdir", "vacuum", "cleanup", "prune"}
               \/ pc'[p] = "vacuuming" /\ path \in Node /\ node[path] \in Db
               \/ /\ pc[p] \in {"vacuuming", "sum", "manifest"}
                  /\ pc'[p] \in {"vacuuming", "sum", "manifest", "swap"}
               \/ pc[p] \in {"open", "copy"} /\ pc'[p] = "rollback"
  PROVE  Held'
<1> SUFFICES ASSUME "restores" \notin spoilt'
             PROVE  /\ \A q, r \in Proc : Restores(q)' /\ Restores(r)' => q = r
                    /\ \A q \in Proc : Restores(q)' => Holds(q)'
                    /\ kept' # None => /\ kept' = path' \/ \E id \in Id : aside'[id] = kept'
                                      /\ node'[kept'] \in Db
  BY DEF Held
<1>1. "restores" \notin spoilt
  OBVIOUS
<1>2. \A q, r \in Proc : Restores(q)' /\ Restores(r)' => q = r
  BY <1>1 DEF Held, Restores
<1>3. \A q \in Proc \ {p} : Restores(q)' => Holds(q)'
  BY <1>1 DEF Held, Restores, Holds, Away
<1>4. Restores(p)' => Holds(p)'
  BY <1>1 DEF Held, Restores, Holds, Away
<1> QED
  BY <1>1, <1>2, <1>3, <1>4 DEF Held

LEMMA CreateHeld ==
  ASSUME Shaped, Held, NEW p \in Proc, spoilt \subseteq spoilt',
         StartCreate(p) \/ CreateStep(p) \/ CreateFails(p) \/ StartPrune(p) \/ PruneNext(p)
         \/ CopyFails(p) \/ RenameFails(p) \/ Crash(p)
  PROVE  Held'
<1>1. UNCHANGED <<node, path, aside, kept>>
  BY DEF StartCreate, CreateStep, ChooseName, Mkdir, VacuumBegin, VacuumEnd, Checksum,
         WriteManifest, Cleanup, CreateFails, Proceed, StartPrune, PruneNext, CopyFails,
         RenameFails, Crash, liveVars
<1>2. \A q \in Proc \ {p} : pc'[q] = pc[q] /\ target'[q] = target[q] /\ out'[q] = out[q]
  BY DEF StartCreate, CreateStep, ChooseName, Mkdir, VacuumBegin, VacuumEnd, Checksum,
         WriteManifest, Cleanup, CreateFails, Proceed, StartPrune, PruneNext, CopyFails,
         RenameFails, Crash, Finish, Goto, Shaped, BackupTypeOK
<1>3. CASE StartCreate(p) \/ ChooseName(p) \/ Mkdir(p) \/ CreateFails(p) \/ StartPrune(p)
  BY <1>1, <1>2, <1>3, QuietHeld
     DEF StartCreate, ChooseName, Mkdir, CreateFails, StartPrune, Proceed, Goto, Shaped, BackupTypeOK
<1>4. CASE VacuumBegin(p)
  BY <1>1, <1>2, <1>4, QuietHeld DEF VacuumBegin, Proceed, Goto, Shaped, BackupTypeOK
<1>5. CASE VacuumEnd(p) \/ Checksum(p)
  BY <1>1, <1>2, <1>5, QuietHeld DEF VacuumEnd, Checksum, Proceed, Goto, Shaped, BackupTypeOK
<1>6. CASE Finish(p)
  <2>1. target'[p] = None
    BY <1>6 DEF Finish, Shaped, BackupTypeOK
  <2> QED
    BY <1>1, <1>2, <2>1, QuietHeld
<1>7. CASE (WriteManifest(p) \/ PruneNext(p) \/ CopyFails(p)) /\ ~Finish(p)
  <2>1. CASE WriteManifest(p)
    BY <1>1, <1>2, <1>7, <2>1, QuietHeld DEF WriteManifest, Goto, Shaped, BackupTypeOK
  <2>2. CASE PruneNext(p)
    BY <1>1, <1>2, <1>7, <2>2, QuietHeld DEF PruneNext, Shaped, BackupTypeOK
  <2>3. CASE CopyFails(p)
    BY <1>1, <1>2, <1>7, <2>3, QuietHeld DEF CopyFails, Goto, Shaped, BackupTypeOK
  <2> QED
    BY <1>7, <2>1, <2>2, <2>3
<1> QED
  BY <1>3, <1>4, <1>5, <1>6, <1>7 DEF CreateStep, Cleanup, RenameFails, Crash

LEMMA StartRestoreHeld ==
  ASSUME Shaped, Held, NEW p \in Proc, NEW id \in Id, StartRestore(p, id)
  PROVE  Held'
<1>1. /\ UNCHANGED <<node, path, aside, kept, out>> /\ pc' = [pc EXCEPT ![p] = "name"]
      /\ target' = [target EXCEPT ![p] = id] /\ spoilt \subseteq spoilt'
      /\ "restores" \in spoilt' \/ \A q \in Proc : target[q] = None
  BY DEF StartRestore, Goto, liveVars
<1>2. CASE "restores" \in spoilt'
  BY <1>2 DEF Held
<1>3. CASE \A q \in Proc : target[q] = None
  BY <1>1, <1>3 DEF Held, Restores, Holds, Away, Shaped, BackupTypeOK
<1> QED
  BY <1>1, <1>2, <1>3

\* The restoring process, and what it holds; the others restore nothing.
LEMMA RestorerIs ==
  ASSUME Shaped, Held, "restores" \notin spoilt, NEW p \in Proc, pc[p] \in Swapping
  PROVE  /\ target[p] \in Id /\ Restores(p) /\ Holds(p)
         /\ \A q \in Proc \ {p} : target[q] = None
         /\ \A q \in Proc \ {p} : pc[q] \notin Swapping
BY Constants DEF Shaped, Locals, Held, Restores, Swapping

LEMMA RestoreHeld ==
  ASSUME Shaped, Held, NEW p \in Proc, RestoreStep(p), spoilt' = spoilt
  PROVE  Held'
<1> SUFFICES ASSUME "restores" \notin spoilt
             PROVE  /\ \A q, r \in Proc : Restores(q)' /\ Restores(r)' => q = r
                    /\ \A q \in Proc : Restores(q)' => Holds(q)'
                    /\ kept' # None => /\ kept' = path' \/ \E id \in Id : aside'[id] = kept'
                                      /\ node'[kept'] \in Db
  BY DEF Held
<1>1. /\ pc[p] \in Swapping /\ target[p] \in Id /\ Restores(p) /\ Holds(p)
      /\ \A q \in Proc \ {p} : target[q] = None
  BY RestorerIs DEF RestoreStep, Swap, OpenCopy, CopyDone, Rollback, Swapping
<1>2. kept # None => (kept = path \/ \E id \in Id : aside[id] = kept) /\ node[kept] \in Db
  BY DEF Held
<1>3. \A q \in Proc \ {p} : target'[q] = None
  BY <1>1 DEF RestoreStep, Swap, OpenCopy, CopyDone, Rollback, Finish, Shaped, BackupTypeOK
<1>4. CASE Swap(p)
  <2>1. path \in Node /\ node[path] \in Db
    BY <1>1, <1>4 DEF Holds, Swap
  <2>2. /\ aside' = [aside EXCEPT ![target[p]] = path] /\ path' = None /\ kept' = path
        /\ UNCHANGED <<node, target>> /\ pc' = [pc EXCEPT ![p] = "open"]
    BY <1>4, <2>1, Constants DEF Swap, Goto
  <2>3. aside'[target[p]] = path /\ pc'[p] = "open"
    BY <1>1, <2>2 DEF Shaped, BackupTypeOK
  <2> QED
    BY <1>1, <1>3, <2>1, <2>2, <2>3, Constants DEF Restores, Holds, Away
<1>5. CASE OpenCopy(p)
  <2>1. CASE pc' = [pc EXCEPT ![p] = "rollback"] /\ UNCHANGED <<node, path, out>>
    BY <1>1, <1>2, <1>3, <1>5, <2>1 DEF OpenCopy, Restores, Holds, Away, Shaped, BackupTypeOK
  <2>2. CASE pc' = [pc EXCEPT ![p] = "copy"]
    <3>1. kept \in Node /\ aside[target[p]] = kept /\ path # kept
      BY <1>1, <1>5 DEF Holds, Away, OpenCopy
    <3>2. PICK f : /\ f = IF path = None THEN Unused ELSE path
                   /\ path = None => Spare # {}
                   /\ path' = f /\ node' = [node EXCEPT ![f] = p] /\ out' = [out EXCEPT ![p] = f]
      BY <1>5, <2>2 DEF OpenCopy, Goto, Shaped, BackupTypeOK
    <3>3. f \in Node /\ f # kept
      BY <3>1, <3>2, SpareIs DEF Shaped, BackupTypeOK
    <3>4. /\ UNCHANGED <<aside, kept, target>> /\ pc'[p] = "copy" /\ out'[p] = f
          /\ node'[kept] = node[kept]
      BY <1>5, <2>2, <3>1, <3>2, <3>3 DEF OpenCopy, Shaped, BackupTypeOK
    <3> QED
      BY <1>1, <1>2, <1>3, <3>1, <3>2, <3>3, <3>4, Constants DEF Restores, Holds, Away
  <2> QED
    BY <1>5, <2>1, <2>2 DEF OpenCopy, Goto
<1>6. CASE CopyDone(p)
  <2>1. /\ kept \in Node /\ aside[target[p]] = kept /\ path # kept /\ out[p] = path
        /\ out[p] \in Node
    BY <1>1, <1>6 DEF Holds, Away, CopyDone, Shaped, Locals
  <2>2. /\ UNCHANGED <<path, aside, kept>> /\ node'[kept] = node[kept] /\ target'[p] = None
    BY <1>6, <2>1 DEF CopyDone, Finish, Shaped, BackupTypeOK
  <2> QED
    BY <1>1, <1>2, <1>3, <2>1, <2>2 DEF Restores
<1>7. CASE Rollback(p)
  <2>1. kept \in Node /\ aside[target[p]] = kept
    BY <1>1, <1>7 DEF Holds, Away, Rollback
  <2>2. path' = kept /\ UNCHANGED <<node, kept>> /\ target'[p] = None
    BY <1>7, <2>1, Constants DEF Rollback, Finish, Shaped, BackupTypeOK
  <2> QED
    BY <1>2, <1>3, <2>1, <2>2 DEF Restores
<1> QED
  BY <1>4, <1>5, <1>6, <1>7 DEF RestoreStep

LEMMA ServerHeld ==
  ASSUME Shaped, Held, Tick \/ Commit \/ Reopen \/ UNCHANGED backupVars
  PROVE  Held'
<1> SUFFICES ASSUME "restores" \notin spoilt
             PROVE  Held'
  BY DEF Held, Tick, Commit, Reopen, backupVars
<1>0. UNCHANGED <<pc, target, out, aside, kept, spoilt>>
  BY DEF Tick, Commit, Reopen, backupVars, opVars, liveVars
<1>1. CASE UNCHANGED <<node, path>>
  BY <1>0, <1>1 DEF Held, Restores, Holds, Away
<1>2. CASE Commit
  <2>1. UNCHANGED path /\ \A f \in Node : node[f] \in Db => node'[f] \in Db
    BY <1>2, Constants DEF Commit, Shaped, BackupTypeOK, Db
  <2> QED
    BY <1>0, <2>1, Constants DEF Held, Restores, Holds, Away, Shaped, BackupTypeOK
<1>3. CASE Reopen /\ path = None
  <2>1. /\ path' = Unused /\ node' = [node EXCEPT ![Unused] = 0]
        /\ Unused \in Node /\ Unused # kept
    BY <1>3, SpareIs DEF Reopen
  <2>2. node'[Unused] \in Db /\ \A f \in Node : node[f] \in Db => node'[f] \in Db
    BY <2>1, Constants DEF Shaped, BackupTypeOK
  <2>3. ASSUME NEW p \in Proc, Restores(p)
        PROVE  Holds(p)'
    <3>1. Holds(p)
      BY <2>3 DEF Held
    <3>2. pc[p] # "copy"
      BY <1>3, <3>1, Constants DEF Holds, Shaped, Locals
    <3> QED
      BY <1>0, <1>3, <2>1, <2>2, <3>1, <3>2, Constants DEF Holds, Away
  <2>4. kept # None => (\E id \in Id : aside[id] = kept) /\ kept \in Node /\ node[kept] \in Db
    BY <1>3 DEF Held, Shaped, BackupTypeOK
  <2> QED
    BY <1>0, <2>2, <2>3, <2>4 DEF Held, Restores
<1>4. CASE Reopen /\ path # None
  BY <1>1, <1>4 DEF Reopen
<1> QED
  BY <1>1, <1>2, <1>3, <1>4 DEF Tick, backupVars, liveVars

----------------------------------------------------------------------------
(* What bears a checksum is whole, and so is what is restored.             *)

Making == {"vacuum", "vacuuming", "sum", "manifest", "cleanup"}

\* Directories that are made at the same time have different names.
Alone ==
  /\ \A p \in Proc : pc[p] = "mkdir" => dirs[name[p]] = None
  /\ \A p, q \in Proc : p # q /\ name[p] # None /\ name[p] = name[q] => "mkdir" \in {pc[p], pc[q]}
  /\ \A p, q \in Proc : p # q /\ name[p] # None /\ name[p] = target[q] => pc[p] = "mkdir"

Signed(id) ==
  dirs[id] # None /\ dirs[id].sum # None => dirs[id].db = dirs[id].sum /\ dirs[id].db \in Db

\* The directory that p is making, when nobody has removed it.
Made1(p) ==
  dirs[name[p]] # None =>
    /\ pc[p] \in Making => dirs[name[p]].sum = None
    /\ pc[p] = "vacuuming" => dirs[name[p]].db = p
    /\ pc[p] = "sum" => dirs[name[p]].db \in Db
    /\ pc[p] = "manifest" => dirs[name[p]].db = took[p] /\ took[p] \in Db

\* What p restores is signed, but for a name that its own snapshot takes.
Sought(p) ==
  /\ target[p] # None /\ (target[p] = name[p] => pc[p] \in Swapping) /\ dirs[target[p]] # None
       => dirs[target[p]].sum # None
  /\ pc[p] = "vacuuming" => took[p] \in Db
  /\ pc[p] = "copy" => src[p] \in Db

Whole ==
  spoilt \intersect {"directory", "restores"} = {} =>
    /\ Alone
    /\ \A id \in Id : Signed(id)
    /\ \A p \in Proc : Made1(p) /\ Sought(p)

\* A process that takes no step.
Rests(q) ==
  /\ pc'[q] = pc[q] /\ name'[q] = name[q] /\ target'[q] = target[q]
  /\ took'[q] = took[q] /\ src'[q] = src[q]

\* Directories only go.
LEMMA RemovalWhole ==
  ASSUME Shaped, Whole, spoilt \subseteq spoilt',
         \A id \in Id : dirs'[id] \in {dirs[id], None},
         \A p \in Proc :
           \/ Rests(p)
           \/ /\ name[p] = None /\ UNCHANGED <<name[p], target[p]>>
              /\ pc'[p] \in {"idle", "name", "prune"}
           \/ pc'[p] \in {"idle", "prune"} /\ name'[p] = None /\ target'[p] = None
           \/ /\ UNCHANGED <<name[p], target[p], took[p], src[p]>>
              /\ \/ pc[p] \in Making /\ pc'[p] = "cleanup"
                 \/ pc[p] = "copy" /\ pc'[p] = "rollback"
                 \/ pc[p] = "swap" /\ pc'[p] = "open"
                 \/ pc[p] = "open" /\ pc'[p] = "rollback"
  PROVE  Whole'
<1> SUFFICES ASSUME spoilt' \intersect {"directory", "restores"} = {}
             PROVE  /\ Alone' /\ \A id \in Id : Signed(id)'
                    /\ \A p \in Proc : Made1(p)' /\ Sought(p)'
  BY DEF Whole
<1>1. Alone /\ (\A id \in Id : Signed(id)) /\ \A p \in Proc : Made1(p) /\ Sought(p)
  BY DEF Whole
<1>2. \A p \in Proc : name[p] \in Id \union {None} /\ target[p] \in Id \union {None}
  BY DEF Shaped, BackupTypeOK
<1>3. \A p \in Proc : pc[p] = "mkdir" => name[p] \in Id
  BY DEF Shaped, Locals, Named
<1>4. Alone'
  BY <1>1, <1>2, <1>3, Constants DEF Alone, Making, Rests
<1>5. \A id \in Id : Signed(id)'
  BY <1>1 DEF Signed
<1>6. ASSUME NEW p \in Proc
      PROVE  Made1(p)' /\ Sought(p)'
  <2>1. pc[p] \in Named => name[p] \in Id
    BY DEF Shaped, Locals
  <2>2. Made1(p) /\ Sought(p)
    BY <1>1
  <2>3. Made1(p)'
    BY <2>1, <2>2 DEF Made1, Making, Named, Rests
  <2>4. Sought(p)'
    BY <1>2, <2>2 DEF Sought, Making, Swapping, Rests
  <2> QED
    BY <2>3, <2>4
<1> QED
  BY <1>4, <1>5, <1>6

\* A step of p that only writes the directory it is making.
LEMMA OthersWhole ==
  ASSUME Shaped, Alone, NEW p \in Proc, pc[p] \in Making, name[p] \in Id,
         \A id \in Id \ {name[p]} : dirs'[id] = dirs[id],
         dirs'[name[p]] # None => dirs[name[p]] # None,
         NEW q \in Proc \ {p}, Rests(q),
         Made1(q), Sought(q)
  PROVE  Made1(q)' /\ Sought(q)'
<1>1. pc[q] \in Named => name[q] \in Id
  BY DEF Shaped, Locals
<1>2. target[q] \in Id \union {None}
  BY DEF Shaped, BackupTypeOK
<1>3. name[q] = name[p] => pc[q] = "mkdir"
  BY Constants DEF Alone, Making
<1>4. target[q] # name[p]
  BY Constants DEF Alone, Making
<1>5. Made1(q)'
  BY <1>1, <1>3 DEF Made1, Making, Named, Rests
<1>6. Sought(q)'
  BY <1>2, <1>4, Constants DEF Sought, Rests
<1> QED
  BY <1>5, <1>6

LEMMA AloneStays ==
  ASSUME Shaped, Alone, NEW p \in Proc, pc[p] \in Making, pc'[p] # "mkdir",
         \A id \in Id \ {name[p]} : dirs'[id] = dirs[id],
         dirs'[name[p]] # None => dirs[name[p]] # None,
         \A q \in Proc \ {p} : Rests(q),
         UNCHANGED <<name[p], target[p]>> \/ (name'[p] = None /\ target'[p] = None)
  PROVE  Alone'
<1>1. \A q \in Proc : pc[q] = "mkdir" => name[q] \in Id
  BY DEF Shaped, Locals, Named
<1>2. \A q \in Proc : pc'[q] = "mkdir" => q # p
  OBVIOUS
<1>3. \A q \in Proc : pc'[q] = "mkdir" => dirs'[name'[q]] = None
  BY <1>1, <1>2 DEF Alone, Rests
<1> QED
  BY <1>3 DEF Alone, Making, Rests

LEMMA VacuumWhole ==
  ASSUME Shaped, Whole, NEW p \in Proc, VacuumBegin(p) \/ VacuumEnd(p) \/ Checksum(p) \/ WriteManifest(p)
  PROVE  Whole'
<1> SUFFICES ASSUME spoilt \intersect {"directory", "restores"} = {}
             PROVE  /\ Alone' /\ \A id \in Id : Signed(id)'
                    /\ \A q \in Proc : Made1(q)' /\ Sought(q)'
  BY DEF Whole, VacuumBegin, VacuumEnd, Checksum, WriteManifest
<1>1. Alone /\ (\A id \in Id : Signed(id)) /\ \A q \in Proc : Made1(q) /\ Sought(q)
  BY DEF Whole
<1>2. /\ pc[p] \in {"vacuum", "vacuuming", "sum", "manifest"} /\ name[p] \in Id
      /\ target[p] \in Id \union {None}
      /\ DOMAIN dirs = Id /\ DOMAIN pc = Proc /\ DOMAIN took = Proc
      /\ \A id \in Id : dirs[id] # None => dirs[id] \in Dir
  BY DEF VacuumBegin, VacuumEnd, Checksum, WriteManifest, Shaped, BackupTypeOK, Locals, Named
<1>3. /\ \A q \in Proc \ {p} : Rests(q)
      /\ UNCHANGED <<name[p], target[p]>> \/ (name'[p] = None /\ target'[p] = None)
  <2>1. CASE UNCHANGED <<name, target, src>>
    <3>1. \A q \in Proc \ {p} : pc'[q] = pc[q]
      BY <1>2 DEF VacuumBegin, VacuumEnd, Checksum, WriteManifest, Proceed, Finish, Goto
    <3>2. \A q \in Proc \ {p} : took'[q] = took[q]
      BY <1>2 DEF VacuumBegin, VacuumEnd, Checksum, WriteManifest, Proceed, Finish
    <3> QED
      BY <2>1, <3>1, <3>2 DEF Rests
  <2>2. CASE Finish(p)
    BY <2>2 DEF Finish, Goto, Shaped, BackupTypeOK, Rests
  <2> QED
    BY <2>1, <2>2 DEF VacuumBegin, VacuumEnd, Checksum, WriteManifest, Proceed
<1>4. /\ \A id \in Id \ {name[p]} : dirs'[id] = dirs[id]
      /\ dirs'[name[p]] # None => dirs[name[p]] # None
  BY <1>2 DEF VacuumBegin, VacuumEnd, Checksum, WriteManifest, Proceed, Made
<1>5. pc[p] \in Making /\ pc'[p] # "mkdir"
  BY <1>2 DEF VacuumBegin, VacuumEnd, Checksum, WriteManifest, Proceed, Finish, Goto, Making
<1>6. Alone'
  BY <1>1, <1>2, <1>3, <1>4, <1>5, AloneStays
<1>7. \A q \in Proc \ {p} : Made1(q)' /\ Sought(q)'
  BY <1>1, <1>2, <1>3, <1>4, <1>5, OthersWhole
<1>8. CASE VacuumBegin(p)
  <2>1. CASE UNCHANGED <<dirs, took>> /\ pc' = [pc EXCEPT ![p] = "cleanup"]
    <3>1. /\ UNCHANGED <<name, target>> /\ pc[p] = "vacuum" /\ pc'[p] = "cleanup"
      BY <1>2, <1>8, <2>1 DEF VacuumBegin, Proceed
    <3>2. Made1(p)' /\ Sought(p)'
      BY <1>1, <2>1, <3>1 DEF Made1, Sought, Making, Swapping
    <3> QED
      BY <1>1, <1>6, <1>7, <2>1, <3>2 DEF Signed
  <2>2. CASE ~(UNCHANGED <<dirs, took>> /\ pc' = [pc EXCEPT ![p] = "cleanup"])
    <3>1. /\ dirs[name[p]] # None /\ node[path] \in Db
          /\ dirs' = [dirs EXCEPT ![name[p]] = [dirs[name[p]] EXCEPT !.db = p]]
          /\ took' = [took EXCEPT ![p] = node[path]] /\ pc' = [pc EXCEPT ![p] = "vacuuming"]
          /\ UNCHANGED <<name, target>> /\ pc[p] = "vacuum"
      BY <1>8, <2>2 DEF VacuumBegin, Proceed, Made, Goto
    <3>2. dirs[name[p]] \in Dir /\ dirs[name[p]].sum = None
      BY <1>1, <1>2, <3>1 DEF Made1, Making
    <3>3. dirs'[name[p]].db = p /\ dirs'[name[p]].sum = None
      BY <1>2, <3>1, <3>2 DEF Dir
    <3>4. took'[p] \in Db /\ pc'[p] = "vacuuming"
      BY <1>2, <3>1
    <3>5. Made1(p)'
      BY <3>1, <3>3, <3>4 DEF Made1, Making
    <3>6. Sought(p)'
      BY <1>1, <1>2, <1>4, <3>1, <3>4 DEF Sought, Swapping
    <3>7. \A id \in Id : Signed(id)'
      BY <1>1, <1>4, <3>3 DEF Signed
    <3> QED
      BY <1>6, <1>7, <3>5, <3>6, <3>7
  <2> QED
    BY <2>1, <2>2
<1>9. CASE VacuumEnd(p)
  <2>1. /\ pc[p] = "vacuuming" /\ took[p] \in Db /\ UNCHANGED <<name, target, took>>
        /\ dirs[name[p]] # None => dirs[name[p]].db = p /\ dirs[name[p]].sum = None
    BY <1>1, <1>2, <1>9 DEF VacuumEnd, Proceed, Made1, Sought, Making
  <2>2. CASE dirs[name[p]] # None
    <3>1. dirs' = [dirs EXCEPT ![name[p]] = [dirs[name[p]] EXCEPT !.db = took[p]]]
      BY <1>9, <2>1, <2>2 DEF VacuumEnd, Made
    <3>2. dirs'[name[p]].db = took[p] /\ dirs'[name[p]].sum = None
      BY <1>2, <2>1, <2>2, <3>1 DEF Dir
    <3>3. pc'[p] \in {"sum", "cleanup"}
      BY <1>2, <1>9 DEF VacuumEnd, Proceed, Goto
    <3>4. Made1(p)'
      BY <2>1, <3>2, <3>3 DEF Made1, Making
    <3>5. Sought(p)'
      BY <1>1, <1>2, <1>4, <2>1, <3>3 DEF Sought, Swapping
    <3>6. \A id \in Id : Signed(id)'
      BY <1>1, <1>4, <3>2 DEF Signed
    <3> QED
      BY <1>6, <1>7, <3>4, <3>5, <3>6
  <2>3. CASE dirs[name[p]] = None
    <3>1. UNCHANGED dirs /\ pc'[p] = "cleanup"
      BY <1>2, <1>9, <2>3 DEF VacuumEnd, Made, Proceed, Goto
    <3>2. Made1(p)' /\ Sought(p)'
      BY <1>1, <2>1, <2>3, <3>1 DEF Made1, Sought, Swapping
    <3> QED
      BY <1>1, <1>6, <1>7, <3>1, <3>2 DEF Signed
  <2> QED
    BY <2>2, <2>3
<1>10. CASE Checksum(p)
  <2>1. /\ pc[p] = "sum" /\ UNCHANGED <<dirs, name, target>> /\ pc'[p] \in {"manifest", "cleanup"}
        /\ pc'[p] = "manifest" => took'[p] = dirs[name[p]].db
        /\ dirs[name[p]] # None => dirs[name[p]].db \in Db /\ dirs[name[p]].sum = None
    BY <1>1, <1>2, <1>10 DEF Checksum, Proceed, Goto, Made, Made1, Making
  <2>2. Made1(p)' /\ Sought(p)'
    BY <1>1, <2>1 DEF Made1, Sought, Making, Swapping
  <2> QED
    BY <1>1, <1>6, <1>7, <2>1, <2>2 DEF Signed
<1>11. CASE WriteManifest(p)
  <2>1. CASE dirs[name[p]] = None
    <3>1. UNCHANGED <<dirs, name, target, took>> /\ pc[p] = "manifest" /\ pc'[p] = "cleanup"
      BY <1>2, <1>11, <2>1 DEF WriteManifest, Made, Goto
    <3>2. Made1(p)' /\ Sought(p)'
      BY <1>1, <2>1, <3>1 DEF Made1, Sought, Swapping
    <3> QED
      BY <1>1, <1>6, <1>7, <3>1, <3>2 DEF Signed
  <2>2. CASE dirs[name[p]] # None
    <3>1. /\ dirs' = [dirs EXCEPT ![name[p]] = [dirs[name[p]] EXCEPT !.sum = took[p]]]
          /\ dirs[name[p]].db = took[p] /\ took[p] \in Db
      BY <1>1, <1>2, <1>11, <2>2 DEF WriteManifest, Made, Made1
    <3>2. dirs'[name[p]].db = took[p] /\ dirs'[name[p]].sum = took[p]
      BY <1>2, <2>2, <3>1 DEF Dir
    <3>3. \A id \in Id : Signed(id)'
      BY <1>1, <1>4, <3>1, <3>2 DEF Signed
    <3>4. CASE Finish(p)
      <4>1. pc'[p] = "idle" /\ name'[p] = None /\ target'[p] = None
        BY <3>4 DEF Finish, Goto, Shaped, BackupTypeOK
      <4>2. Made1(p)' /\ Sought(p)'
        BY <4>1 DEF Made1, Sought, Making
      <4> QED
        BY <1>6, <1>7, <3>3, <4>2
    <3>5. CASE pc' = [pc EXCEPT ![p] = "swap"] /\ UNCHANGED <<name, target>>
      <4>1. pc[p] = "manifest" /\ pc'[p] = "swap"
        BY <1>2, <1>11, <3>5 DEF WriteManifest
      <4>2. Made1(p)'
        BY <4>1 DEF Made1, Making
      <4>3. Sought(p)'
        BY <1>1, <1>2, <1>4, <3>1, <3>2, <3>5, <4>1, Constants DEF Sought, Swapping
      <4> QED
        BY <1>6, <1>7, <3>3, <4>2, <4>3
    <3> QED
      BY <1>11, <2>2, <3>4, <3>5 DEF WriteManifest, Made, Goto
  <2> QED
    BY <2>1, <2>2
<1> QED
  BY <1>8, <1>9, <1>10, <1>11

LEMMA ChooseNameWhole ==
  ASSUME Shaped, Whole, NEW p \in Proc, ChooseName(p)
  PROVE  Whole'
<1> SUFFICES ASSUME spoilt \intersect {"directory", "restores"} = {}
             PROVE  /\ Alone' /\ \A id \in Id : Signed(id)'
                    /\ \A q \in Proc : Made1(q)' /\ Sought(q)'
  BY DEF Whole, ChooseName
<1>1. Alone /\ (\A id \in Id : Signed(id)) /\ \A q \in Proc : Made1(q) /\ Sought(q)
  BY DEF Whole
<1>2. /\ pc[p] = "name" /\ name[p] = None
      /\ \A q \in Proc : pc[q] \in Named => name[q] \in Id
      /\ \A q \in Proc : target[q] \in Id \union {None} /\ name[q] \in Id \union {None}
  BY DEF ChooseName, Shaped, BackupTypeOK, Locals, Named
<1>3. PICK id \in Id : dirs[id] = None /\ name' = [name EXCEPT ![p] = id]
  <2>1. PICK n \in 1..MaxSame :
          LET it == [pre |-> target[p] # None, sec |-> now, n |-> n]
          IN dirs[it] = None /\ name' = [name EXCEPT ![p] = it]
    BY DEF ChooseName
  <2>2. [pre |-> target[p] # None, sec |-> now, n |-> n] \in Id
    BY DEF Shaped, BackupTypeOK, Id
  <2> QED
    BY <2>1, <2>2
<1>4. /\ name'[p] = id /\ pc'[p] = "mkdir" /\ UNCHANGED <<dirs, target, took, src>>
      /\ \A q \in Proc \ {p} : Rests(q)
  BY <1>2, <1>3 DEF ChooseName, Goto, Rests, Shaped, BackupTypeOK
<1>5. Alone'
  BY <1>1, <1>3, <1>4 DEF Alone, Rests
<1>6. \A q \in Proc \ {p} : Made1(q)' /\ Sought(q)'
  BY <1>1, <1>4 DEF Made1, Sought, Rests
<1>7. Made1(p)'
  BY <1>4 DEF Made1, Making
<1>8. Sought(p)'
  BY <1>1, <1>2, <1>4, Constants DEF Sought, Swapping
<1> QED
  BY <1>1, <1>4, <1>5, <1>6, <1>7, <1>8 DEF Signed

LEMMA MkdirWhole ==
  ASSUME Shaped, Whole, NEW p \in Proc, Mkdir(p)
  PROVE  Whole'
<1> SUFFICES ASSUME spoilt' \intersect {"directory", "restores"} = {}
             PROVE  /\ Alone' /\ \A id \in Id : Signed(id)'
                    /\ \A q \in Proc : Made1(q)' /\ Sought(q)'
  BY DEF Whole
<1>1. /\ spoilt' = spoilt /\ \A q \in Proc \ {p} : name[p] # name[q] /\ name[p] # target[q]
  BY DEF Mkdir
<1>2. Alone /\ (\A id \in Id : Signed(id)) /\ \A q \in Proc : Made1(q) /\ Sought(q)
  BY <1>1 DEF Whole
<1>3. /\ pc[p] = "mkdir" /\ name[p] \in Id /\ dirs[name[p]] = None
      /\ \A q \in Proc : pc[q] \in Named => name[q] \in Id
      /\ \A q \in Proc : target[q] \in Id \union {None} /\ name[q] \in Id \union {None}
  BY <1>2 DEF Mkdir, Alone, Shaped, BackupTypeOK, Locals, Named
<1>4. /\ dirs' = [dirs EXCEPT ![name[p]] = [db |-> None, sum |-> None]]
      /\ UNCHANGED <<name, target, took, src>> /\ pc' = [pc EXCEPT ![p] = "vacuum"]
  BY <1>3 DEF Mkdir, Proceed, Goto
<1>5. /\ dirs'[name[p]] = [db |-> None, sum |-> None] /\ pc'[p] = "vacuum"
      /\ \A id \in Id \ {name[p]} : dirs'[id] = dirs[id]
      /\ \A q \in Proc \ {p} : Rests(q)
  BY <1>3, <1>4 DEF Shaped, BackupTypeOK, Rests
<1>6. Alone'
  BY <1>1, <1>2, <1>3, <1>4, <1>5, Constants DEF Alone, Rests, Named
<1>7. \A id \in Id : Signed(id)'
  BY <1>2, <1>5 DEF Signed
<1>8. ASSUME NEW q \in Proc \ {p}
      PROVE  Made1(q)' /\ Sought(q)'
  <2>1. pc[q] \in Making => dirs'[name[q]] = dirs[name[q]]
    BY <1>1, <1>3, <1>5 DEF Making, Named
  <2>2. target[q] # None => dirs'[target[q]] = dirs[target[q]]
    BY <1>1, <1>3, <1>5
  <2>3. Made1(q)'
    BY <1>2, <1>5, <2>1 DEF Made1, Making, Rests
  <2>4. Sought(q)'
    BY <1>2, <1>5, <2>2 DEF Sought, Rests
  <2> QED
    BY <2>3, <2>4
<1>9. Made1(p)'
  BY <1>4, <1>5 DEF Made1, Making
<1>10. Sought(p)'
  BY <1>2, <1>3, <1>4, <1>5, Constants DEF Sought, Swapping
<1> QED
  BY <1>6, <1>7, <1>8, <1>9, <1>10

LEMMA StartRestoreWhole ==
  ASSUME Shaped, Whole, NEW p \in Proc, NEW id \in Id, StartRestore(p, id)
  PROVE  Whole'
<1> SUFFICES ASSUME spoilt' \intersect {"directory", "restores"} = {}
             PROVE  /\ Alone' /\ \A i \in Id : Signed(i)'
                    /\ \A q \in Proc : Made1(q)' /\ Sought(q)'
  BY DEF Whole
<1>1. spoilt' = spoilt /\ \A q \in Proc : target[q] = None
  BY DEF StartRestore
<1>2. Alone /\ (\A i \in Id : Signed(i)) /\ \A q \in Proc : Made1(q) /\ Sought(q)
  BY <1>1 DEF Whole
<1>3. /\ pc[p] = "idle" /\ name[p] = None
      /\ dirs[id] # None /\ dirs[id].sum # None
      /\ \A q \in Proc : pc[q] \in Swapping => target[q] \in Id
      /\ \A q \in Proc : pc[q] \in Named <=> name[q] # None
  BY Constants DEF StartRestore, Acquire, Verifies, Listed, Shaped, BackupTypeOK, Locals, Named
<1>4. /\ UNCHANGED <<dirs, name, took, src>> /\ pc'[p] = "name" /\ target'[p] = id
      /\ \A q \in Proc \ {p} : Rests(q)
  BY DEF StartRestore, Goto, Rests, Shaped, BackupTypeOK
<1>5. \A q \in Proc : name[q] = id => pc[q] = "mkdir"
  <2>1. ASSUME NEW q \in Proc, name[q] = id
        PROVE  pc[q] \notin Making /\ pc[q] \notin Swapping /\ pc[q] \in Named
    <3>1. Made1(q)
      BY <1>2
    <3> QED
      BY <1>1, <1>3, <2>1, <3>1, Constants DEF Made1, Swapping
  <2> QED
    BY <2>1 DEF Named, Making, Swapping
<1>6. Alone'
  BY <1>1, <1>2, <1>3, <1>4, <1>5 DEF Alone, Rests
<1>7. \A q \in Proc : Made1(q)'
  BY <1>2, <1>4 DEF Made1, Making, Rests
<1>8. \A q \in Proc : Sought(q)'
  BY <1>2, <1>3, <1>4 DEF Sought, Rests
<1> QED
  BY <1>2, <1>4, <1>6, <1>7, <1>8 DEF Signed

LEMMA OpenCopyWhole ==
  ASSUME Shaped, Whole, NEW p \in Proc, OpenCopy(p), pc'[p] = "copy"
  PROVE  Whole'
<1> SUFFICES ASSUME spoilt \intersect {"directory", "restores"} = {}
             PROVE  /\ Alone' /\ \A id \in Id : Signed(id)'
                    /\ \A q \in Proc : Made1(q)' /\ Sought(q)'
  BY DEF Whole, OpenCopy
<1>1. Alone /\ (\A id \in Id : Signed(id)) /\ \A q \in Proc : Made1(q) /\ Sought(q)
  BY DEF Whole
<1>2. /\ pc[p] = "open" /\ target[p] \in Id /\ DOMAIN pc = Proc /\ DOMAIN src = Proc
      /\ dirs[target[p]] # None
  BY DEF OpenCopy, Listed, Shaped, BackupTypeOK, Locals, Swapping, Goto
<1>3. src' = [src EXCEPT ![p] = dirs[target[p]].db] /\ UNCHANGED <<dirs, name, target, took>>
  BY <1>2 DEF OpenCopy, Listed, Goto
<1>4. dirs[target[p]].sum # None /\ dirs[target[p]].db \in Db
  BY <1>1, <1>2, Constants DEF Sought, Swapping, Signed
<1>5. \A q \in Proc \ {p} : Rests(q)
  BY <1>2, <1>3 DEF OpenCopy, Goto, Rests
<1>6. Alone'
  BY <1>1, <1>2, <1>3, <1>5 DEF Alone, Rests
<1>7. \A q \in Proc \ {p} : Made1(q)' /\ Sought(q)'
  BY <1>1, <1>3, <1>5 DEF Made1, Sought, Rests
<1>8. Made1(p)' /\ Sought(p)'
  BY <1>2, <1>3, <1>4 DEF Made1, Sought, Making
<1> QED
  BY <1>1, <1>3, <1>6, <1>7, <1>8 DEF Signed

LEMMA StepWhole ==
  ASSUME Shaped, Whole, [BackupNext]_backupVars
  PROVE  Whole'
<1>0. spoilt \subseteq spoilt'
  BY MishapsStay
<1>1. CASE Tick \/ Commit \/ Reopen \/ UNCHANGED backupVars
  <2>1. UNCHANGED <<dirs, pc, name, target, took, src>>
    BY <1>1 DEF Tick, Commit, Reopen, backupVars, opVars
  <2> QED
    BY <1>0, <2>1, RemovalWhole DEF Rests
<1>2. ASSUME NEW p \in Proc, UNCHANGED dirs, Finish(p)
      PROVE  Whole'
  BY <1>0, <1>2, RemovalWhole DEF Finish, Goto, Rests, Shaped, BackupTypeOK
<1>3. ASSUME NEW p \in Proc, CreateStep(p)
      PROVE  Whole'
  <2>1. CASE Cleanup(p)
    <3>1. \A id \in Id : dirs'[id] \in {dirs[id], None}
      BY <2>1 DEF Cleanup, Shaped, BackupTypeOK
    <3> QED
      BY <1>0, <2>1, <3>1, RemovalWhole DEF Cleanup, Finish, Goto, Rests, Shaped, BackupTypeOK
  <2> QED
    BY <1>3, <2>1, ChooseNameWhole, MkdirWhole, VacuumWhole DEF CreateStep
<1>4. ASSUME NEW p \in Proc, StartCreate(p) \/ StartPrune(p)
      PROVE  Whole'
  <2>1. /\ UNCHANGED <<dirs, name, target>> /\ name[p] = None /\ pc'[p] \in {"name", "prune"}
        /\ \A q \in Proc \ {p} : Rests(q)
    BY <1>4 DEF StartCreate, StartPrune, Acquire, Goto, Rests, Shaped, BackupTypeOK, Locals, Named
  <2> QED
    BY <1>0, <2>1, RemovalWhole
<1>5. ASSUME NEW p \in Proc, CreateFails(p) \/ CopyFails(p)
      PROVE  Whole'
  <2>1. /\ UNCHANGED <<dirs, name, target, took, src>>
        /\ \/ pc[p] \in Making /\ pc'[p] = "cleanup"
           \/ pc[p] = "copy" /\ pc'[p] = "rollback"
        /\ \A q \in Proc \ {p} : Rests(q)
    BY <1>5 DEF CreateFails, CopyFails, Proceed, Goto, Rests, Making, Shaped, BackupTypeOK
  <2> QED
    BY <1>0, <2>1, RemovalWhole
<1>6. ASSUME NEW p \in Proc, RestoreStep(p) \/ RenameFails(p) \/ Crash(p)
      PROVE  Whole'
  <2>1. UNCHANGED dirs
    BY <1>6 DEF RestoreStep, Swap, OpenCopy, CopyDone, Rollback, RenameFails, Crash
  <2>2. CASE Finish(p)
    BY <1>2, <2>1, <2>2
  <2>3. CASE Swap(p) /\ ~Finish(p)
    <3>1. /\ UNCHANGED <<name, target, took, src>> /\ pc[p] = "swap" /\ pc'[p] = "open"
          /\ \A q \in Proc \ {p} : Rests(q)
      BY <2>3 DEF Swap, Goto, Rests, Shaped, BackupTypeOK
    <3> QED
      BY <1>0, <2>1, <3>1, RemovalWhole
  <2>4. CASE OpenCopy(p) /\ pc'[p] # "copy"
    <3>1. /\ UNCHANGED <<name, target, took, src>> /\ pc[p] = "open" /\ pc'[p] = "rollback"
          /\ \A q \in Proc \ {p} : Rests(q)
      BY <2>4 DEF OpenCopy, Goto, Rests, Shaped, BackupTypeOK
    <3> QED
      BY <1>0, <2>1, <3>1, RemovalWhole
  <2> QED
    BY <1>6, <2>2, <2>3, <2>4, OpenCopyWhole DEF RestoreStep, CopyDone, Rollback, RenameFails, Crash
<1>7. ASSUME NEW p \in Proc, PruneNext(p)
      PROVE  Whole'
  <2>1. CASE Finish(p) /\ UNCHANGED dirs
    BY <1>2, <2>1
  <2>2. CASE ~(Finish(p) /\ UNCHANGED dirs)
    <3>1. UNCHANGED <<pc, name, target, took, src>>
      BY <1>7, <2>2 DEF PruneNext
    <3>2. \A id \in Id : dirs'[id] \in {dirs[id], None}
      BY <1>7, <2>2 DEF PruneNext, Shaped, BackupTypeOK
    <3> QED
      BY <1>0, <3>1, <3>2, RemovalWhole DEF Rests
  <2> QED
    BY <2>1, <2>2
<1> QED
  BY <1>1, <1>3, <1>4, <1>5, <1>6, <1>7, StartRestoreWhole DEF BackupNext

----------------------------------------------------------------------------
(* The live file is away only while a restore is at work on it.            *)

Present ==
  spoilt \intersect {"directory", "restores", "away"} = {} =>
    /\ path = None => \E p \in Proc : pc[p] \in {"open", "rollback"}
    /\ path # None /\ node[path] \notin Db => \E p \in Proc : pc[p] \in {"copy", "rollback"}

LEMMA StepPresent ==
  ASSUME Shaped, Held, Whole, Present, [BackupNext]_backupVars
  PROVE  Present'
<1>0. spoilt \subseteq spoilt'
  BY MishapsStay
<1> SUFFICES ASSUME spoilt' \intersect {"directory", "restores", "away"} = {}
             PROVE  /\ path' = None => \E p \in Proc : pc'[p] \in {"open", "rollback"}
                    /\ path' # None /\ node'[path'] \notin Db =>
                         \E p \in Proc : pc'[p] \in {"copy", "rollback"}
  BY DEF Present
<1>1. /\ path = None => \E p \in Proc : pc[p] \in {"open", "rollback"}
      /\ path # None /\ node[path] \notin Db => \E p \in Proc : pc[p] \in {"copy", "rollback"}
  BY <1>0 DEF Present
<1>2. CASE Tick \/ UNCHANGED backupVars
  BY <1>1, <1>2 DEF Tick, backupVars, opVars, liveVars
<1>3. CASE Commit
  BY <1>1, <1>3, Constants DEF Commit, opVars, Shaped, BackupTypeOK, Db
<1>4. CASE Reopen
  BY <1>1, <1>4, SpareIs, Constants DEF Reopen, opVars, Shaped, BackupTypeOK
\* A step of a process that is not at work on the live file, or stays so.
<1>5. ASSUME NEW p \in Proc, UNCHANGED <<node, path>>,
             \A q \in Proc \ {p} : pc'[q] = pc[q],
             ~Away(p) \/ pc'[p] = "rollback"
      PROVE  /\ path' = None => \E q \in Proc : pc'[q] \in {"open", "rollback"}
             /\ path' # None /\ node'[path'] \notin Db =>
                  \E q \in Proc : pc'[q] \in {"copy", "rollback"}
  BY <1>1, <1>5 DEF Away
<1>6. ASSUME NEW p \in Proc, NEW l, UNCHANGED <<node, path>>,
             Goto(p, l) \/ Finish(p) \/ UNCHANGED pc, ~Away(p) \/ Goto(p, "rollback")
      PROVE  /\ path' = None => \E q \in Proc : pc'[q] \in {"open", "rollback"}
             /\ path' # None /\ node'[path'] \notin Db =>
                  \E q \in Proc : pc'[q] \in {"copy", "rollback"}
  BY <1>5, <1>6 DEF Goto, Finish, Shaped, BackupTypeOK
<1>7. ASSUME NEW p \in Proc, StartCreate(p) \/ CreateFails(p) \/ StartPrune(p) \/ PruneNext(p)
                              \/ \E id \in Id : StartRestore(p, id)
      PROVE  /\ path' = None => \E q \in Proc : pc'[q] \in {"open", "rollback"}
             /\ path' # None /\ node'[path'] \notin Db =>
                  \E q \in Proc : pc'[q] \in {"copy", "rollback"}
  <2>1. ~Away(p) /\ UNCHANGED <<node, path>>
    BY <1>7 DEF Away, StartCreate, CreateFails, StartPrune, PruneNext, StartRestore, Acquire,
                Proceed, liveVars
  <2>2. \E l : Goto(p, l) \/ Finish(p) \/ UNCHANGED pc
    BY <1>7 DEF StartCreate, CreateFails, StartPrune, PruneNext, StartRestore, Proceed
  <2> QED
    BY <1>6, <2>1, <2>2
<1>8. ASSUME NEW p \in Proc, CreateStep(p)
      PROVE  /\ path' = None => \E q \in Proc : pc'[q] \in {"open", "rollback"}
             /\ path' # None /\ node'[path'] \notin Db =>
                  \E q \in Proc : pc'[q] \in {"copy", "rollback"}
  <2>1. ~Away(p) /\ UNCHANGED <<node, path>>
    BY <1>8 DEF Away, CreateStep, ChooseName, Mkdir, VacuumBegin, VacuumEnd, Checksum,
                WriteManifest, Cleanup, Proceed, liveVars
  <2>2. \E l : Goto(p, l) \/ Finish(p)
    BY <1>8 DEF CreateStep, ChooseName, Mkdir, VacuumBegin, VacuumEnd, Checksum,
                WriteManifest, Cleanup, Proceed
  <2> QED
    BY <1>6, <2>1, <2>2
<1>9. ASSUME NEW p \in Proc, CopyFails(p) \/ RenameFails(p) \/ Crash(p)
      PROVE  /\ path' = None => \E q \in Proc : pc'[q] \in {"open", "rollback"}
             /\ path' # None /\ node'[path'] \notin Db =>
                  \E q \in Proc : pc'[q] \in {"copy", "rollback"}
  <2>1. UNCHANGED <<node, path>> /\ (~Away(p) \/ Goto(p, "rollback")) /\ (Goto(p, "rollback") \/ Finish(p))
    BY <1>9 DEF CopyFails, RenameFails, Crash, liveVars
  <2> QED
    BY <1>6, <2>1
<1>10. ASSUME NEW p \in Proc, RestoreStep(p)
       PROVE  /\ path' = None => \E q \in Proc : pc'[q] \in {"open", "rollback"}
              /\ path' # None /\ node'[path'] \notin Db =>
                   \E q \in Proc : pc'[q] \in {"copy", "rollback"}
  <2>1. "restores" \notin spoilt /\ spoilt \intersect {"directory", "restores"} = {}
    BY <1>0
  <2>2. target[p] \in Id /\ Holds(p)
    BY <1>10, <2>1, RestorerIs DEF RestoreStep, Swap, OpenCopy, CopyDone, Rollback, Swapping
  <2>3. CASE Swap(p)
    BY <2>2, <2>3, Constants DEF Swap, Holds, Goto, Shaped, BackupTypeOK
  <2>4. CASE OpenCopy(p)
    <3>1. pc'[p] \in {"copy", "rollback"} /\ \A q \in Proc \ {p} : pc'[q] = pc[q]
      BY <2>4 DEF OpenCopy, Goto, Shaped, BackupTypeOK
    <3>2. pc'[p] = "copy" => path' # None
      BY <2>4, SpareIs, Constants DEF OpenCopy, Goto, Shaped, BackupTypeOK
    <3> QED
      BY <3>1, <3>2
  <2>5. CASE CopyDone(p)
    <3>1. src[p] \in Db
      BY <2>1, <2>5 DEF Whole, Sought, CopyDone
    <3>2. out[p] = path /\ out[p] \in Node
      BY <2>2, <2>5 DEF Holds, CopyDone, Shaped, Locals
    <3> QED
      BY <2>5, <3>1, <3>2, Constants DEF CopyDone, Shaped, BackupTypeOK
  <2>6. CASE Rollback(p)
    <3>1. kept \in Node /\ aside[target[p]] = kept /\ node[kept] \in Db
      BY <2>1, <2>2, <2>6, Constants DEF Holds, Away, Held, Rollback
    <3> QED
      BY <2>6, <3>1, Constants DEF Rollback
  <2> QED
    BY <1>10, <2>3, <2>4, <2>5, <2>6 DEF RestoreStep
<1> QED
  BY <1>2, <1>3, <1>4, <1>7, <1>8, <1>9, <1>10 DEF BackupNext

----------------------------------------------------------------------------

IInv == Shaped /\ Held /\ Whole /\ Present

LEMMA Initially ==
  ASSUME BackupInit
  PROVE  IInv
<1>1. Shaped
  BY InitiallyShaped
<1>2. Held
  BY Constants DEF BackupInit, Held, Restores
<1>3. Whole
  <2>1. \A p \in Proc : pc[p] = "idle" /\ name[p] = None /\ target[p] = None
    BY DEF BackupInit
  <2>2. Alone
    BY <2>1 DEF Alone
  <2>3. ASSUME NEW id \in Id
        PROVE  Signed(id)
    BY DEF BackupInit, Signed
  <2>4. ASSUME NEW p \in Proc
        PROVE  Made1(p) /\ Sought(p)
    BY <2>1 DEF Made1, Making, Sought
  <2> QED
    BY <2>2, <2>3, <2>4 DEF Whole
<1>4. Present
  BY Constants DEF BackupInit, Present
<1> QED
  BY <1>1, <1>2, <1>3, <1>4 DEF IInv

LEMMA IInvInductive ==
  ASSUME IInv, [BackupNext]_backupVars
  PROVE  IInv'
<1>1. Shaped' /\ Whole' /\ Present' /\ spoilt \subseteq spoilt'
  BY StepShapes, StepWhole, StepPresent, MishapsStay DEF IInv
<1>2. ASSUME NEW p \in Proc, RestoreStep(p)
      PROVE  Held'
  BY <1>2, RestoreHeld DEF IInv, RestoreStep, Swap, OpenCopy, CopyDone, Rollback
<1>3. Held'
  BY <1>1, <1>2, CreateHeld, StartRestoreHeld, ServerHeld DEF IInv, BackupNext
<1> QED
  BY <1>1, <1>3 DEF IInv

\* Unless two restores met, the database that was live at the last swap is whole
\* and under a name; and unless a directory was shared or a restore died in its
\* swap, there is a whole live database whenever no restore is at work.
\* (internal/backup/manager.go Restore.)
THEOREM RestoreLosesNothing == BackupSpec => []BackupKeepsLive
<1>1. BackupInit => IInv
  BY Initially
<1>2. IInv /\ [BackupNext]_backupVars => IInv'
  BY IInvInductive
<1>3. IInv => BackupKeepsLive
  <2>1. ASSUME IInv PROVE LiveWhole
    BY <2>1 DEF IInv, Present, LiveWhole, Away
  <2>2. ASSUME IInv PROVE LiveOrAside
    BY <2>2 DEF IInv, Held, LiveOrAside, Range, Shaped, BackupTypeOK
  <2> QED
    BY <2>1, <2>2 DEF BackupKeepsLive
<1> QED
  BY <1>1, <1>2, <1>3, PTL DEF BackupSpec

\* A restore that fails after its swap, and rolls back, leaves what was live
\* before it, with the commits made meanwhile.  (manager.go Restore's deferred
\* rename; RollsBack is a part of BackupsHold.)
THEOREM FailedRestoreRollsBack == BackupSpec => RollsBack
<1>1. BackupInit => IInv
  BY Initially
<1>2. IInv /\ [BackupNext]_backupVars => IInv'
  BY IInvInductive
<1>3. ASSUME IInv, [BackupNext]_backupVars, NEW p \in Proc, pc[p] = "rollback", pc'[p] = "idle",
             spoilt' \intersect {"restores", "away"} = {}
      PROVE  path' = kept /\ node'[kept] \in Db
  <2>1. "restores" \notin spoilt
    BY <1>3, MishapsStay DEF IInv
  <2>2. /\ target[p] \in Id /\ aside[target[p]] = kept /\ kept \in Node /\ node[kept] \in Db
    BY <1>3, <2>1, RestorerIs, Constants DEF IInv, Swapping, Holds, Away, Held
  <2>3. Rollback(p)
    <3>1. ASSUME NEW q \in Proc, q # p,
                 StartCreate(q) \/ CreateStep(q) \/ CreateFails(q) \/ RestoreStep(q) \/ CopyFails(q)
                 \/ RenameFails(q) \/ StartPrune(q) \/ PruneNext(q) \/ Crash(q)
                 \/ \E id \in Id : StartRestore(q, id)
          PROVE  pc'[p] = pc[p]
      BY <1>3, <3>1 DEF StartCreate, CreateStep, ChooseName, Mkdir, VacuumBegin, VacuumEnd, Checksum,
                 WriteManifest, Cleanup, CreateFails, Proceed, StartRestore, RestoreStep, Swap,
                 OpenCopy, CopyDone, Rollback, CopyFails, RenameFails, StartPrune, PruneNext, Crash,
                 Finish, Goto, IInv, Shaped, BackupTypeOK
    <3>2. ~(Tick \/ Commit \/ Reopen \/ UNCHANGED backupVars)
      BY <1>3 DEF Tick, Commit, Reopen, backupVars, opVars
    <3>3. ~(StartCreate(p) \/ CreateStep(p) \/ CreateFails(p) \/ CopyFails(p) \/ StartPrune(p)
            \/ PruneNext(p) \/ \E id \in Id : StartRestore(p, id))
      BY <1>3 DEF StartCreate, CreateStep, ChooseName, Mkdir, VacuumBegin, VacuumEnd, Checksum,
                 WriteManifest, Cleanup, CreateFails, StartRestore, CopyFails, StartPrune, PruneNext,
                 Acquire
    <3>4. ~(RenameFails(p) \/ Crash(p) \/ Swap(p) \/ OpenCopy(p) \/ CopyDone(p))
      BY <1>3 DEF RenameFails, Crash, Swap, OpenCopy, CopyDone, Away
    <3> QED
      BY <1>3, <3>1, <3>2, <3>3, <3>4 DEF BackupNext, RestoreStep
  <2> QED
    BY <2>2, <2>3, Constants DEF Rollback
<1>4. IInv /\ [BackupNext]_backupVars =>
        [\A p \in Proc : pc[p] = "rollback" /\ pc'[p] = "idle"
                         /\ spoilt' \intersect {"restores", "away"} = {} =>
           path' = kept /\ node'[kept] \in Db]_backupVars
  BY <1>3
<1> QED
  BY <1>1, <1>2, <1>4, PTL DEF BackupSpec, RollsBack

----------------------------------------------------------------------------
(* The last snapshot that can be restored.                                 *)

\* A directory is made where there was none, by one process, and has no manifest
\* before it is complete.
Solitary ==
  "directory" \notin spoilt =>
    /\ \A p \in Proc : pc[p] = "mkdir" => dirs[name[p]] = None
    /\ \A p, q \in Proc : p # q /\ name[p] # None /\ name[p] = name[q] => "mkdir" \in {pc[p], pc[q]}
    /\ \A p \in Proc : pc[p] \in Making /\ dirs[name[p]] # None => dirs[name[p]].sum = None

\* For every snapshot that is to be pruned there is a newer one that can be
\* restored.
Outlived ==
  spoilt \intersect {"directory", "listing"} = {} =>
    \A p \in Proc : \A id \in doomed[p] : \E id2 \in Id : Verifies(id2) /\ Newer(id2, id)

\* A step of p that neither chooses nor makes a directory: directories go, and
\* the one that p is making may be written.
Edits(p) ==
  /\ \A q \in Proc \ {p} : pc'[q] = pc[q] /\ name'[q] = name[q] /\ doomed'[q] = doomed[q]
  /\ pc'[p] # "mkdir"
  /\ name'[p] = None \/ (name'[p] = name[p] /\ pc[p] # "mkdir")
  /\ pc'[p] \in Making => pc[p] \in Making /\ name'[p] = name[p]
  /\ \A id \in Id : \/ dirs'[id] = None
                    \/ dirs'[id] = dirs[id]
                    \/ /\ id = name[p] /\ pc[p] \in Making /\ dirs[id] # None
                       /\ pc'[p] \in Making => dirs'[id].sum = dirs[id].sum

\* Of the directories, p writes the one that it is making.
Spares(p) == \A id \in Id : (id = name[p] /\ pc[p] \in Making) \/ dirs'[id] = dirs[id]

LEMMA EditsSolitary ==
  ASSUME Shaped, Solitary, spoilt \subseteq spoilt', NEW p \in Proc, Edits(p)
  PROVE  Solitary'
<1> SUFFICES ASSUME "directory" \notin spoilt
             PROVE  /\ \A q \in Proc : pc'[q] = "mkdir" => dirs'[name'[q]] = None
                    /\ \A q, r \in Proc : q # r /\ name'[q] # None /\ name'[q] = name'[r]
                                          => "mkdir" \in {pc'[q], pc'[r]}
                    /\ \A q \in Proc : pc'[q] \in Making /\ dirs'[name'[q]] # None
                                       => dirs'[name'[q]].sum = None
  BY DEF Solitary
<1>1. /\ \A q \in Proc : pc[q] = "mkdir" => dirs[name[q]] = None
      /\ \A q, r \in Proc : q # r /\ name[q] # None /\ name[q] = name[r] => "mkdir" \in {pc[q], pc[r]}
      /\ \A q \in Proc : pc[q] \in Making /\ dirs[name[q]] # None => dirs[name[q]].sum = None
  BY DEF Solitary
<1>2. \A q \in Proc : pc[q] = "mkdir" \/ pc[q] \in Making => name[q] \in Id /\ name[q] # None
  BY Constants DEF Shaped, Locals, Named, Making
<1>3. ASSUME NEW q \in Proc, pc'[q] = "mkdir"
      PROVE  dirs'[name'[q]] = None
  BY <1>1, <1>2, <1>3 DEF Edits
<1>4. ASSUME NEW q \in Proc, NEW r \in Proc, q # r, name'[q] # None, name'[q] = name'[r]
      PROVE  "mkdir" \in {pc'[q], pc'[r]}
  BY <1>1, <1>4 DEF Edits
<1>5. ASSUME NEW q \in Proc, pc'[q] \in Making, dirs'[name'[q]] # None
      PROVE  dirs'[name'[q]].sum = None
  <2>1. name'[q] = name[q] /\ pc[q] \in Making /\ name[q] \in Id
    BY <1>2, <1>5 DEF Edits
  <2>2. CASE dirs'[name[q]] = dirs[name[q]]
    BY <1>1, <1>5, <2>1, <2>2
  <2>3. CASE dirs'[name[q]] # dirs[name[q]]
    <3>1. name[q] = name[p] /\ pc[p] \in Making /\ dirs[name[q]] # None
      BY <1>5, <2>1, <2>3 DEF Edits
    <3>2. q = p
      BY <1>1, <1>2, <2>1, <3>1 DEF Making
    <3> QED
      BY <1>1, <1>5, <2>1, <2>3, <3>1, <3>2 DEF Edits
  <2> QED
    BY <2>2, <2>3
<1> QED
  BY <1>3, <1>4, <1>5

\* A snapshot that can be restored is none that somebody is making.
LEMMA SparesVerified ==
  ASSUME Shaped, Solitary, "directory" \notin spoilt, NEW p \in Proc, Spares(p),
         NEW id \in Id, Verifies(id)
  PROVE  Verifies(id)'
<1>1. dirs[id] # None /\ dirs[id].db # None /\ dirs[id].sum = dirs[id].db
  BY DEF Verifies, Listed
<1>2. dirs'[id] = dirs[id]
  BY <1>1 DEF Spares, Solitary
<1> QED
  BY <1>1, <1>2 DEF Verifies, Listed

\* Everybody but a prune.
LEMMA CreateEdits ==
  ASSUME Shaped, NEW p \in Proc,
         VacuumBegin(p) \/ VacuumEnd(p) \/ Checksum(p) \/ WriteManifest(p) \/ Cleanup(p) \/ CreateFails(p)
  PROVE  /\ Edits(p) /\ Spares(p) /\ doomed'[p] \subseteq doomed[p] /\ spoilt' = spoilt
<1>1. /\ pc[p] \in Making /\ name[p] \in Id /\ DOMAIN dirs = Id /\ pc \in [Proc -> Label]
      /\ \A id \in Id : dirs[id] # None => dirs[id] \in Dir
  BY DEF VacuumBegin, VacuumEnd, Checksum, WriteManifest, Cleanup, CreateFails,
         Shaped, BackupTypeOK, Locals, Named, Making
<1>2. \/ /\ UNCHANGED <<name, doomed>> /\ \A q \in Proc \ {p} : pc'[q] = pc[q]
         /\ pc'[p] \in Making \union {"swap"}
      \/ Finish(p)
  BY <1>1 DEF VacuumBegin, VacuumEnd, Checksum, WriteManifest, Cleanup, CreateFails, Proceed, Goto, Making
<1>3. /\ \A q \in Proc \ {p} : pc'[q] = pc[q] /\ name'[q] = name[q] /\ doomed'[q] = doomed[q]
      /\ pc'[p] \in Making \union {"swap", "idle"} /\ doomed'[p] \subseteq doomed[p]
      /\ (name'[p] = None /\ pc'[p] = "idle") \/ name'[p] = name[p]
  BY <1>2 DEF Finish, Goto, Shaped, BackupTypeOK
<1>4. \A id \in Id \ {name[p]} : dirs'[id] = dirs[id]
  BY <1>1 DEF VacuumBegin, VacuumEnd, Checksum, WriteManifest, Cleanup, CreateFails, Proceed
<1>5. \/ dirs'[name[p]] = None
      \/ dirs'[name[p]] = dirs[name[p]]
      \/ dirs[name[p]] # None /\ (pc'[p] \in Making => dirs'[name[p]].sum = dirs[name[p]].sum)
  <2>1. CASE VacuumBegin(p) \/ VacuumEnd(p)
    <3>1. \/ dirs' = dirs
          \/ /\ dirs[name[p]] # None
             /\ \E d \in File \union {None} : dirs' = [dirs EXCEPT ![name[p]] = [dirs[name[p]] EXCEPT !.db = d]]
      BY <2>1 DEF VacuumBegin, VacuumEnd, Made, Shaped, BackupTypeOK, File
    <3> QED
      BY <1>1, <3>1 DEF Dir
  <2>2. CASE WriteManifest(p)
    <3>1. \/ dirs' = dirs
          \/ dirs[name[p]] # None /\ pc'[p] \in {"swap", "idle"}
      BY <1>1, <2>2 DEF WriteManifest, Made, Finish, Goto
    <3> QED
      BY <3>1 DEF Making
  <2>3. CASE Cleanup(p)
    BY <1>1, <2>3 DEF Cleanup
  <2>4. CASE Checksum(p) \/ CreateFails(p)
    BY <2>4 DEF Checksum, CreateFails
  <2> QED
    BY <2>1, <2>2, <2>3, <2>4
<1>6. Edits(p)
  BY <1>1, <1>3, <1>4, <1>5 DEF Edits, Making
<1>7. Spares(p)
  BY <1>1, <1>4 DEF Spares
<1>8. spoilt' = spoilt
  BY DEF VacuumBegin, VacuumEnd, Checksum, WriteManifest, Cleanup, CreateFails
<1> QED
  BY <1>3, <1>6, <1>7, <1>8

LEMMA ServeEdits ==
  ASSUME Shaped, NEW p \in Proc,
         StartCreate(p) \/ (\E id \in Id : StartRestore(p, id)) \/ RestoreStep(p) \/ CopyFails(p)
         \/ RenameFails(p) \/ Crash(p)
  PROVE  Edits(p) /\ Spares(p) /\ doomed'[p] \subseteq doomed[p] /\ spoilt \subseteq spoilt'
<1>1. UNCHANGED dirs /\ spoilt \subseteq spoilt'
  BY DEF StartCreate, StartRestore, RestoreStep, Swap, OpenCopy, CopyDone, Rollback, CopyFails,
         RenameFails, Crash
<1>2. \/ /\ UNCHANGED <<name, doomed>> /\ \A q \in Proc \ {p} : pc'[q] = pc[q]
         /\ pc'[p] \in {"name", "open", "copy", "rollback"} /\ pc[p] # "mkdir"
      \/ Finish(p)
  BY DEF StartCreate, StartRestore, Acquire, RestoreStep, Swap, OpenCopy, CopyDone, Rollback, CopyFails,
         RenameFails, Crash, Goto, Shaped, BackupTypeOK
<1>3. /\ \A q \in Proc \ {p} : pc'[q] = pc[q] /\ name'[q] = name[q] /\ doomed'[q] = doomed[q]
      /\ pc'[p] \in {"name", "open", "copy", "rollback", "idle"} /\ doomed'[p] \subseteq doomed[p]
      /\ name'[p] = None \/ (name'[p] = name[p] /\ pc[p] # "mkdir")
  <2>1. CASE Finish(p)
    <3>1. pc'[p] = "idle" /\ name'[p] = None /\ doomed'[p] = {}
      BY <2>1 DEF Finish, Goto, Shaped, BackupTypeOK
    <3>2. \A q \in Proc \ {p} : pc'[q] = pc[q] /\ name'[q] = name[q] /\ doomed'[q] = doomed[q]
      BY <2>1 DEF Finish, Goto, Shaped, BackupTypeOK
    <3> QED
      BY <3>1, <3>2
  <2>2. CASE ~Finish(p)
    BY <1>2, <2>2
  <2> QED
    BY <2>1, <2>2
<1>4. Edits(p)
  BY <1>1, <1>3 DEF Edits, Making
<1>5. Spares(p)
  BY <1>1 DEF Spares
<1> QED
  BY <1>1, <1>3, <1>4, <1>5

LEMMA PruneEdits ==
  ASSUME Shaped, NEW p \in Proc, StartPrune(p) \/ PruneNext(p)
  PROVE  Edits(p) /\ spoilt \subseteq spoilt'
<1>1. /\ spoilt \subseteq spoilt'
      /\ \A id \in Id : dirs'[id] = None \/ dirs'[id] = dirs[id]
  BY DEF StartPrune, PruneNext, Shaped, BackupTypeOK
<1>2. /\ \A q \in Proc \ {p} : pc'[q] = pc[q] /\ name'[q] = name[q] /\ doomed'[q] = doomed[q]
      /\ pc'[p] \in {"prune", "idle"}
      /\ name'[p] = None \/ (name'[p] = name[p] /\ pc[p] # "mkdir")
  BY DEF StartPrune, PruneNext, Acquire, Finish, Goto, Shaped, BackupTypeOK
<1> QED
  BY <1>1, <1>2 DEF Edits, Making

\* Choosing and making keep what is there.
LEMMA ChooseNameSolitary ==
  ASSUME Shaped, Solitary, NEW p \in Proc, ChooseName(p)
  PROVE  Solitary'
<1>1. PICK id \in Id : /\ dirs[id] = None
                       /\ name' = [name EXCEPT ![p] = id] /\ pc' = [pc EXCEPT ![p] = "mkdir"]
                       /\ UNCHANGED <<dirs, spoilt>>
  <2>1. PICK n \in 1..MaxSame :
          /\ dirs[[pre |-> target[p] # None, sec |-> now, n |-> n]] = None
          /\ name' = [name EXCEPT ![p] = [pre |-> target[p] # None, sec |-> now, n |-> n]]
    BY DEF ChooseName
  <2>2. [pre |-> target[p] # None, sec |-> now, n |-> n] \in Id
    BY DEF Id, Shaped, BackupTypeOK
  <2> QED
    BY <2>1, <2>2 DEF ChooseName, Goto
<1>2. /\ name'[p] = id /\ pc'[p] = "mkdir"
      /\ \A q \in Proc \ {p} : name'[q] = name[q] /\ pc'[q] = pc[q]
  BY <1>1 DEF Shaped, BackupTypeOK
<1> QED
  BY <1>1, <1>2 DEF Solitary, Making

LEMMA MkdirSolitary ==
  ASSUME Shaped, Solitary, NEW p \in Proc, Mkdir(p)
  PROVE  /\ Solitary' /\ spoilt \subseteq spoilt'
         /\ \A id \in Id : dirs[id] # None => dirs'[id] = dirs[id]
<1>1. /\ name[p] \in Id /\ name[p] # None /\ pc[p] = "mkdir"
      /\ \A id \in Id \ {name[p]} : dirs'[id] = dirs[id]
      /\ dirs'[name[p]] = IF dirs[name[p]] = None THEN [db |-> None, sum |-> None] ELSE dirs[name[p]]
      /\ pc'[p] = "vacuum" /\ name' = name
      /\ \A q \in Proc \ {p} : pc'[q] = pc[q]
  BY Constants DEF Mkdir, Proceed, Goto, Shaped, BackupTypeOK, Locals, Named
<1>2. /\ spoilt \subseteq spoilt'
      /\ "directory" \notin spoilt' => \A q \in Proc \ {p} : name[q] # name[p]
  BY DEF Mkdir
<1>3. \A q \in Proc : pc[q] = "mkdir" \/ pc[q] \in Making => name[q] \in Id
  BY DEF Shaped, Locals, Named, Making
<1>4. Solitary'
  <2> SUFFICES ASSUME "directory" \notin spoilt'
               PROVE  /\ \A q \in Proc : pc'[q] = "mkdir" => dirs'[name'[q]] = None
                      /\ \A q, r \in Proc : q # r /\ name'[q] # None /\ name'[q] = name'[r]
                                            => "mkdir" \in {pc'[q], pc'[r]}
                      /\ \A q \in Proc : pc'[q] \in Making /\ dirs'[name'[q]] # None
                                         => dirs'[name'[q]].sum = None
    BY DEF Solitary
  <2>1. /\ \A q \in Proc : pc[q] = "mkdir" => dirs[name[q]] = None
        /\ \A q, r \in Proc : q # r /\ name[q] # None /\ name[q] = name[r] => "mkdir" \in {pc[q], pc[r]}
        /\ \A q \in Proc : pc[q] \in Making /\ dirs[name[q]] # None => dirs[name[q]].sum = None
    BY <1>2 DEF Solitary
  <2>2. ASSUME NEW q \in Proc, pc'[q] = "mkdir"
        PROVE  dirs'[name'[q]] = None
    BY <1>1, <1>2, <1>3, <2>1, <2>2
  <2>3. ASSUME NEW q \in Proc, NEW r \in Proc, q # r, name'[q] # None, name'[q] = name'[r]
        PROVE  "mkdir" \in {pc'[q], pc'[r]}
    BY <1>1, <1>2, <2>1, <2>3
  <2>4. ASSUME NEW q \in Proc, pc'[q] \in Making, dirs'[name'[q]] # None
        PROVE  dirs'[name'[q]].sum = None
    <3>1. CASE q = p
      BY <1>1, <2>1, <3>1
    <3>2. CASE q # p
      BY <1>1, <1>2, <1>3, <2>1, <2>4, <3>2
    <3> QED
      BY <3>1, <3>2
  <2> QED
    BY <2>2, <2>3, <2>4
<1> QED
  BY <1>1, <1>2, <1>4

\* What the clock and the server do is nothing to a snapshot.
LEMMA ServerStays ==
  ASSUME Tick \/ Commit \/ Reopen \/ UNCHANGED backupVars
  PROVE  UNCHANGED <<dirs, name, pc, doomed, spoilt>>
BY DEF Tick, Commit, Reopen, backupVars, opVars

LEMMA StepSolitary ==
  ASSUME Shaped, Solitary, [BackupNext]_backupVars
  PROVE  Solitary' /\ spoilt \subseteq spoilt'
<1>1. CASE Tick \/ Commit \/ Reopen \/ UNCHANGED backupVars
  BY <1>1, ServerStays DEF Solitary
<1>2. ASSUME NEW p \in Proc,
             VacuumBegin(p) \/ VacuumEnd(p) \/ Checksum(p) \/ WriteManifest(p) \/ Cleanup(p) \/ CreateFails(p)
      PROVE  Solitary' /\ spoilt \subseteq spoilt'
  BY <1>2, CreateEdits, EditsSolitary
<1>3. ASSUME NEW p \in Proc,
             StartCreate(p) \/ (\E id \in Id : StartRestore(p, id)) \/ RestoreStep(p) \/ CopyFails(p)
             \/ RenameFails(p) \/ Crash(p)
      PROVE  Solitary' /\ spoilt \subseteq spoilt'
  BY <1>3, ServeEdits, EditsSolitary
<1>4. ASSUME NEW p \in Proc, StartPrune(p) \/ PruneNext(p)
      PROVE  Solitary' /\ spoilt \subseteq spoilt'
  BY <1>4, PruneEdits, EditsSolitary
<1>5. ASSUME NEW p \in Proc, ChooseName(p)
      PROVE  Solitary' /\ spoilt \subseteq spoilt'
  BY <1>5, ChooseNameSolitary DEF ChooseName
<1>6. ASSUME NEW p \in Proc, Mkdir(p)
      PROVE  Solitary' /\ spoilt \subseteq spoilt'
  BY <1>6, MkdirSolitary
<1> QED
  BY <1>1, <1>2, <1>3, <1>4, <1>5, <1>6 DEF BackupNext, CreateStep

LEMMA NewerIs ==
  /\ \A a, b, c \in Id : Newer(a, b) /\ Newer(b, c) => Newer(a, c)
  /\ \A a \in Id : ~Newer(a, a)
BY DEF Newer, Id, BackupAssumption

\* Who is to be pruned stays outlived when what can be restored stays.
LEMMA OutlivedStays ==
  ASSUME Shaped, Outlived, spoilt \subseteq spoilt',
         \A p \in Proc : doomed'[p] \subseteq doomed[p],
         spoilt' \intersect {"directory", "listing"} = {} =>
           \A id \in Id : Verifies(id) => Verifies(id)'
  PROVE  Outlived'
<1> SUFFICES ASSUME spoilt' \intersect {"directory", "listing"} = {},
                    NEW p \in Proc, NEW id \in doomed'[p]
             PROVE  \E id2 \in Id : Verifies(id2)' /\ Newer(id2, id)
  BY DEF Outlived, Newer
<1>1. id \in doomed[p]
  OBVIOUS
<1>2. PICK id2 \in Id : Verifies(id2) /\ Newer(id2, id)
  BY <1>1 DEF Outlived
<1> QED
  BY <1>2

\* Once every listed snapshot can be restored, what a prune takes has a newer one.
LEMMA StartPruneOutlived ==
  ASSUME Shaped, Outlived, NEW p \in Proc, StartPrune(p)
  PROVE  Outlived'
<1> SUFFICES ASSUME spoilt' \intersect {"directory", "listing"} = {},
                    NEW q \in Proc, NEW id \in doomed'[q]
             PROVE  \E id2 \in Id : Verifies(id2)' /\ Newer(id2, id)
  BY DEF Outlived, Newer
<1>1. /\ UNCHANGED dirs /\ spoilt \subseteq spoilt' /\ \A x \in Listed : Verifies(x)
      /\ doomed'[p] = Superfluous(Listed) /\ \A r \in Proc \ {p} : doomed'[r] = doomed[r]
  BY DEF StartPrune, Shaped, BackupTypeOK
<1>2. \A x \in Id : Verifies(x) => Verifies(x)'
  BY <1>1 DEF Verifies, Listed
<1>3. CASE q = p
  <2>1. PICK x \in Listed : Newer(x, id)
    BY <1>1, <1>3 DEF Superfluous
  <2> QED
    BY <1>1, <1>2, <2>1 DEF Listed
<1>4. CASE q # p
  BY <1>1, <1>2, <1>4 DEF Outlived
<1> QED
  BY <1>3, <1>4

\* And when that one is pruned, it has a newer one too.
LEMMA PruneNextOutlived ==
  ASSUME Shaped, Outlived, NEW p \in Proc, PruneNext(p), spoilt' \intersect {"directory", "listing"} = {}
  PROVE  /\ Outlived'
         /\ (\E id \in Id : Verifies(id)) => \E id \in Id : Verifies(id)'
<1>1. UNCHANGED spoilt /\ \A q \in Proc : doomed'[q] \subseteq doomed[q]
  BY DEF PruneNext, Finish, Shaped, BackupTypeOK
<1>2. CASE doomed[p] = {}
  <2>1. UNCHANGED dirs
    BY <1>2 DEF PruneNext
  <2>2. \A id \in Id : Verifies(id) => Verifies(id)'
    BY <2>1 DEF Verifies, Listed
  <2> QED
    BY <1>1, <2>2, OutlivedStays
<1>3. CASE doomed[p] # {}
  <2>1. PICK gone \in doomed[p] : dirs' = [dirs EXCEPT ![gone] = None]
    BY <1>3 DEF PruneNext
  <2>2. gone \in Id
    BY <2>1 DEF Shaped, BackupTypeOK
  <2>3. \A id \in Id \ {gone} : Verifies(id) => Verifies(id)'
    BY <2>1, <2>2 DEF Verifies, Listed, Shaped, BackupTypeOK
  <2>4. PICK heir \in Id : Verifies(heir) /\ Newer(heir, gone)
    BY <1>1, <2>1 DEF Outlived
  <2>5. Verifies(heir)'
    BY <2>2, <2>3, <2>4, NewerIs
  <2>6. Outlived'
    <3> SUFFICES ASSUME NEW q \in Proc, NEW id \in doomed'[q]
                 PROVE  \E id2 \in Id : Verifies(id2)' /\ Newer(id2, id)
      BY DEF Outlived, Newer
    <3>1. id \in doomed[q] /\ id \in Id
      BY <1>1 DEF Shaped, BackupTypeOK
    <3>2. PICK id2 \in Id : Verifies(id2) /\ Newer(id2, id)
      BY <1>1, <3>1 DEF Outlived
    <3>3. CASE id2 = gone
      BY <2>2, <2>4, <2>5, <3>1, <3>2, <3>3, NewerIs
    <3>4. CASE id2 # gone
      BY <2>3, <3>2, <3>4
    <3> QED
      BY <3>3, <3>4
  <2> QED
    BY <2>5, <2>6
<1> QED
  BY <1>2, <1>3

LEMMA StepOutlived ==
  ASSUME Shaped, Solitary, Outlived, [BackupNext]_backupVars
  PROVE  /\ Outlived'
         /\ spoilt' \intersect {"directory", "listing"} = {} /\ (\E id \in Id : Verifies(id))
              => \E id \in Id : Verifies(id)'
<1>1. spoilt \subseteq spoilt'
  BY StepSolitary
<1>2. CASE Tick \/ Commit \/ Reopen \/ UNCHANGED backupVars
  <2>1. UNCHANGED <<dirs, doomed>>
    BY <1>2, ServerStays
  <2>2. \A id \in Id : Verifies(id) => Verifies(id)'
    BY <2>1 DEF Verifies, Listed
  <2> QED
    BY <1>1, <2>1, <2>2, OutlivedStays
<1>3. ASSUME NEW p \in Proc,
             \A id \in Id : dirs[id] # None => dirs'[id] = dirs[id],
             \A q \in Proc : doomed'[q] = doomed[q]
      PROVE  /\ Outlived'
             /\ (\E id \in Id : Verifies(id)) => \E id \in Id : Verifies(id)'
  <2>1. \A id \in Id : Verifies(id) => Verifies(id)'
    BY <1>3 DEF Verifies, Listed
  <2> QED
    BY <1>1, <1>3, <2>1, OutlivedStays
<1>4. ASSUME NEW p \in Proc, Edits(p), Spares(p), doomed'[p] \subseteq doomed[p]
      PROVE  /\ Outlived'
             /\ spoilt' \intersect {"directory", "listing"} = {} /\ (\E id \in Id : Verifies(id))
                  => \E id \in Id : Verifies(id)'
  <2>1. spoilt' \intersect {"directory", "listing"} = {} => \A id \in Id : Verifies(id) => Verifies(id)'
    BY <1>1, <1>4, SparesVerified
  <2>2. \A q \in Proc : doomed'[q] \subseteq doomed[q]
    BY <1>4 DEF Edits
  <2> QED
    BY <1>1, <2>1, <2>2, OutlivedStays
<1>5. ASSUME NEW p \in Proc,
             VacuumBegin(p) \/ VacuumEnd(p) \/ Checksum(p) \/ WriteManifest(p) \/ Cleanup(p) \/ CreateFails(p)
             \/ StartCreate(p) \/ (\E id \in Id : StartRestore(p, id)) \/ RestoreStep(p) \/ CopyFails(p)
             \/ RenameFails(p) \/ Crash(p)
      PROVE  Edits(p) /\ Spares(p) /\ doomed'[p] \subseteq doomed[p]
  BY <1>5, CreateEdits, ServeEdits
<1>6. ASSUME NEW p \in Proc, ChooseName(p) \/ Mkdir(p)
      PROVE  /\ \A id \in Id : dirs[id] # None => dirs'[id] = dirs[id]
             /\ \A q \in Proc : doomed'[q] = doomed[q]
  BY <1>6, MkdirSolitary DEF ChooseName, Mkdir, Proceed
<1>7. ASSUME NEW p \in Proc, StartPrune(p)
      PROVE  Outlived' /\ \A id \in Id : Verifies(id) => Verifies(id)'
  <2>1. \A id \in Id : Verifies(id) => Verifies(id)'
    BY <1>7 DEF StartPrune, Verifies, Listed
  <2> QED
    BY <1>7, <2>1, StartPruneOutlived
<1>8. ASSUME NEW p \in Proc, PruneNext(p)
      PROVE  /\ Outlived'
             /\ spoilt' \intersect {"directory", "listing"} = {} /\ (\E id \in Id : Verifies(id))
                  => \E id \in Id : Verifies(id)'
  <2>1. CASE spoilt' \intersect {"directory", "listing"} = {}
    BY <1>8, <2>1, PruneNextOutlived
  <2>2. CASE spoilt' \intersect {"directory", "listing"} # {}
    BY <2>2 DEF Outlived
  <2> QED
    BY <2>1, <2>2
<1> QED
  BY <1>2, <1>3, <1>4, <1>5, <1>6, <1>7, <1>8 DEF BackupNext, CreateStep

\* Neither a failed restore nor a failed create nor a prune costs what was there:
\* a restore that fails gives the live database back, and as long as there is a
\* snapshot that can be restored one stays, under the exceptions that the two
\* properties name.  (manager.go Restore, create and applyRetention.)
THEOREM FailuresCostNothing == BackupSpec => BackupsHold
<1> DEFINE QInv == Shaped /\ Solitary /\ Outlived
<1>1. BackupInit => QInv
  <2> SUFFICES ASSUME BackupInit PROVE QInv
    OBVIOUS
  <2>1. \A p \in Proc : pc[p] = "idle" /\ name[p] = None /\ doomed[p] = {}
    BY DEF BackupInit
  <2> QED
    BY <2>1, InitiallyShaped DEF Solitary, Outlived, Making
<1>2. QInv /\ [BackupNext]_backupVars => QInv'
  BY StepShapes, StepSolitary, StepOutlived
<1>3. QInv /\ [BackupNext]_backupVars =>
        [spoilt' \intersect {"directory", "listing"} = {} /\ (\E id \in Id : Verifies(id)) =>
           (\E id \in Id : Verifies(id))']_backupVars
  BY StepOutlived
<1>4. BackupSpec => RestorePointStays
  BY <1>1, <1>2, <1>3, PTL DEF BackupSpec, RestorePointStays
<1> QED
  BY <1>4, FailedRestoreRollsBack, PTL DEF BackupsHold
=============================================================================
