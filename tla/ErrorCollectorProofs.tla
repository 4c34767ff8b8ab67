------------------------ MODULE ErrorCollectorProofs ------------------------
(***************************************************************************)
(* What ValidationErrorCollector computes, for files of any length cut in  *)
(* any way: the counts, the verdict and the rows are those of the file.    *)
(***************************************************************************)
EXTENDS ErrorCollector, FiniteSetTheorems, TLAPS

-----------------------------------------------------------------------------
(* checkThresholdExceeded.                                                 *)

\* Multiplying by a positive number keeps an order.
LEMMA Times ==
  ASSUME NEW c \in Nat, NEW a \in Int, NEW b \in Int, a <= b
  PROVE  c * a <= c * b
OBVIOUS

\* A quotient is beyond a limit exactly when the dividend has room for one more.
LEMMA Quotient ==
  ASSUME NEW a \in Nat, NEW d \in Nat \ {0}, NEW k \in Nat
  PROVE  a \div d > k <=> a >= d * (k + 1)
<1>. DEFINE q == a \div d
<1>1. q \in Nat /\ d * q <= a /\ a < d * (q + 1)
  OBVIOUS
<1>. HIDE DEF q
<1>2. ASSUME q > k PROVE a >= d * (k + 1)
  <2>1. d * (k + 1) <= d * q
    BY <1>1, <1>2, Times
  <2>. QED
    BY <1>1, <2>1
<1>3. ASSUME q <= k PROVE a < d * (k + 1)
  <2>1. d * (q + 1) <= d * (k + 1)
    BY <1>1, <1>3, Times
  <2>. QED
    BY <1>1, <2>1
<1>4. a \div d > k <=> q > k
  BY DEF q
<1>. QED
  BY <1>1, <1>2, <1>3, <1>4

\* At a tie the quotient is exact, and its limit is the hundredth below or above.
LEMMA AtTie ==
  ASSUME NEW n \in Nat, NEW total \in Nat \ {0}, NEW k \in Nat, Tie(n, total),
         (20000 * n + total) \div (2 * total) = k + 1
  PROVE  20000 * n = total * (2 * k + 1)
<1>. DEFINE a == 20000 * n + total
            d == 2 * total
<1>1. a \in Nat /\ d \in Nat \ {0}
  OBVIOUS
<1>2. a = d * (a \div d) + (a % d)
  <2>. HIDE DEF a, d
  <2>. QED
    BY <1>1
<1>3. a = d * (k + 1)
  BY <1>2 DEF Tie
<1>4. d * (k + 1) = total * (2 * k + 1) + total
  OBVIOUS
<1>. QED
  BY <1>3, <1>4

\* The middle of a hundredth and the next is a tie.
LEMMA TieAt ==
  ASSUME NEW n \in Nat, NEW total \in Nat \ {0}, NEW k \in Nat,
         20000 * n = total * (2 * k + 1)
  PROVE  Tie(n, total) /\ (20000 * n + total) \div (2 * total) = k + 1
<1>. DEFINE a == 20000 * n + total
            d == 2 * total
<1>1. a \in Nat /\ d \in Nat \ {0}
  OBVIOUS
<1>2. a = d * (k + 1)
  <2>1. d * (k + 1) = total * (2 * k + 1) + total
    OBVIOUS
  <2>. QED
    BY <2>1
<1>3. a \div d = k + 1 /\ a % d = 0
  <2>. HIDE DEF a, d
  <2>1. a % d \in 0 .. d - 1 /\ a \div d \in Nat /\ a = d * (a \div d) + (a % d)
    BY <1>1
  <2>2. ~ (a \div d > k + 1) /\ a \div d > k
    <3>1. d * (k + 1) >= d * (k + 1) /\ ~ (d * (k + 1) >= d * ((k + 1) + 1))
      BY <1>1
    <3>. QED
      BY <1>1, <1>2, <3>1, Quotient
  <2>3. a \div d = k + 1
    BY <2>1, <2>2
  <2>4. a = d * (k + 1) + (a % d)
    BY <2>1, <2>3
  <2>5. d * (k + 1) \in Nat
    BY <1>1
  <2>. QED
    BY <1>2, <2>1, <2>3, <2>4, <2>5
<1>. QED
  BY <1>3 DEF Tie

\* For every count, number of features and limit, rounding the percentage to hundredths
\* before it is compared (l.387-390) lets an excess pass when it is less than half a
\* hundredth of a percent, and does not when it is more; one of exactly that passes or
\* not as its double has it.
LEMMA ExceededIsBeyond ==
  ASSUME NEW n \in Nat, NEW total \in Nat \ {0}, NEW limit \in Nat
  PROVE  Exceeded(n, total, limit) <=> Beyond(n, total, limit)
<1>. DEFINE q == (20000 * n + total) \div (2 * total)
            x == total * (2 * limit + 1)
<1>1. q \in Nat /\ x \in Nat /\ 20000 * n \in Nat
  OBVIOUS
<1>2. q > limit <=> 20000 * n >= x
  <2>1. q > limit <=> 20000 * n + total >= (2 * total) * (limit + 1)
    BY Quotient
  <2>2. (2 * total) * (limit + 1) = x + total
    OBVIOUS
  <2>. QED
    BY <1>1, <2>1, <2>2
<1>3. CASE 20000 * n = x
  <2>1. Tie(n, total) /\ q = limit + 1
    BY <1>3, TieAt
  <2>2. Hundredths(n, total) > limit <=> <<n, total>> \in TiesUp
    BY <2>1 DEF Hundredths
  <2>. QED
    BY <1>3, <2>2 DEF Exceeded, Beyond
<1>4. CASE 20000 * n < x
  <2>1. q <= limit
    BY <1>1, <1>2, <1>4
  <2>2. Hundredths(n, total) <= q
    BY <1>1 DEF Hundredths
  <2>3. Hundredths(n, total) \in Int
    BY <1>1 DEF Hundredths
  <2>. HIDE DEF q, x
  <2>4. ~ (Hundredths(n, total) > limit)
    BY <1>1, <2>1, <2>2, <2>3
  <2>. QED
    BY <1>1, <1>4, <2>4 DEF Exceeded, Beyond, x
<1>5. CASE 20000 * n > x
  <2>1. q > limit
    BY <1>1, <1>2, <1>5
  <2>2. q = limit + 1 => ~ Tie(n, total)
    BY <1>1, <1>5, AtTie
  <2>3. Hundredths(n, total) >= q - 1 /\ (~ Tie(n, total) => Hundredths(n, total) = q)
    BY <1>1 DEF Hundredths
  <2>4. Hundredths(n, total) \in Int
    BY <1>1 DEF Hundredths
  <2>5. Hundredths(n, total) > limit
    <3>. HIDE DEF q
    <3>. QED
      BY <1>1, <2>1, <2>2, <2>3, <2>4
  <2>. QED
    BY <1>5, <2>5 DEF Exceeded, Beyond
<1>. QED
  BY <1>1, <1>3, <1>4, <1>5

\* A count beyond its limit stays beyond it while more features are counted, as the
\* total is that of the whole file, whichever way ties are rounded: no later chunk takes
\* a verdict back.
THEOREM ExceededGrows ==
  ASSUME NEW n \in Nat, NEW m \in Nat, NEW total \in Nat, NEW limit \in Nat,
         n <= m, Exceeded(n, total, limit)
  PROVE  Exceeded(m, total, limit)
<1>1. total # 0 /\ total \in Nat \ {0}
  BY DEF Exceeded
<1>2. Beyond(n, total, limit)
  BY <1>1, ExceededIsBeyond
<1>3. total * (2 * limit + 1) \in Int
  OBVIOUS
<1>4. Beyond(m, total, limit)
  <2>1. CASE n = m
    BY <1>2, <2>1
  <2>2. CASE n < m
    BY <1>2, <1>3, <2>2 DEF Beyond
  <2>. QED
    BY <2>1, <2>2
<1>. QED
  BY <1>1, <1>4, ExceededIsBeyond

-----------------------------------------------------------------------------
(* Natural numbers: what the loops and the sets of positions rest on.      *)

\* A set of natural numbers has a least one.
LEMMA Least ==
  ASSUME NEW S \in SUBSET Nat, S # {}
  PROVE  \E m \in S : \A n \in S : m <= n
<1>1. PICK m \in S : \A n \in S : ~ (<<n, m>> \in OpToRel(<, Nat))
  BY NatLessThanWellFounded, WFMin
<1>2. \A n \in S : ~ (n < m)
  BY <1>1 DEF OpToRel
<1>. QED
  BY <1>2

\* Induction, about a set of numbers.
LEMMA Induction ==
  ASSUME NEW P, 0 \in P, \A n \in Nat : n \in P => n + 1 \in P
  PROVE  \A n \in Nat : n \in P
<1> SUFFICES ASSUME Nat \ P # {} PROVE FALSE
  OBVIOUS
<1>1. PICK m \in Nat \ P : \A n \in Nat \ P : m <= n
  BY Least
<1>2. m # 0 /\ m - 1 \in Nat /\ m - 1 \notin Nat \ P
  BY <1>1
<1>3. m - 1 + 1 \in P
  BY <1>2
<1>. QED
  BY <1>1, <1>3

\* A set of positions has a last one.
LEMMA Last ==
  ASSUME NEW N \in Nat, NEW S \in SUBSET (1 .. N), S # {}
  PROVE  \E m \in S : \A n \in S : n <= m
<1> DEFINE T == {N - i : i \in S}
<1>1. T \in SUBSET Nat /\ T # {}
  <2>1. \A i \in S : i \in Nat /\ i <= N /\ N - i \in Nat
    OBVIOUS
  <2>. QED
    BY <2>1
<1>2. PICK d \in T : \A n \in T : d <= n
  BY <1>1, Least
<1>3. PICK m \in S : d = N - m
  BY <1>2
<1>4. \A n \in S : N - m <= N - n
  BY <1>2, <1>3
<1>5. m \in Nat /\ \A n \in S : n \in Nat
  OBVIOUS
<1>6. ASSUME NEW n \in S PROVE n <= m
  <2>1. N - m <= N - n /\ m \in Nat /\ n \in Nat
    BY <1>4, <1>5
  <2>. QED
    BY <2>1
<1>. QED
  BY <1>6

-----------------------------------------------------------------------------
(* The loops over errors.                                                  *)

\* Each error is one of its own, by its part and its number.
IsErrors(E) ==
  /\ IsFiniteSet(E)
  /\ \A e \in E :
       /\ e = Error(e.part, e.nr, e.id, e.at, e.type, e.over)
       /\ e.part \in Nat /\ e.nr \in Nat /\ e.type \in Types /\ e.over \in BOOLEAN
  /\ \A d, e \in E : d.part = e.part /\ d.nr = e.nr => d = e

\* The earliest of some errors is one of them.
LEMMA EarliestIsOne ==
  ASSUME NEW E, IsErrors(E), NEW S \in SUBSET E, S # {}
  PROVE  Earliest(S) \in S
<1> DEFINE Parts == {e.part : e \in S}
<1>1. PICK i \in Parts : \A j \in Parts : i <= j
  <2>1. Parts \in SUBSET Nat /\ Parts # {}
    BY DEF IsErrors
  <2> HIDE DEF Parts
  <2>. QED
    BY <2>1, Least
<1> DEFINE Nrs == {e.nr : e \in {d \in S : d.part = i}}
<1>2. PICK k \in Nrs : \A j \in Nrs : k <= j
  <2>1. Nrs \in SUBSET Nat /\ Nrs # {}
    BY <1>1 DEF IsErrors
  <2> HIDE DEF Nrs
  <2>. QED
    BY <2>1, Least
<1>3. PICK e \in S : e.part = i /\ e.nr = k
  BY <1>2
<1>4. \A d \in S : e.part < d.part \/ (e.part = d.part /\ e.nr <= d.nr)
  BY <1>1, <1>2, <1>3 DEF IsErrors
<1>. QED
  BY <1>4 DEF Earliest

\* The recursive definition of the loop defines a function.
LEMMA CollectingUnfolds ==
  ASSUME NEW c, NEW E, IsFiniteSet(E)
  PROVE  /\ Collecting(c, E)[0].left = E /\ Collecting(c, E)[0].col = c
         /\ \A n \in 1 .. Cardinality(E) :
              /\ Collecting(c, E)[n].left =
                   Collecting(c, E)[n - 1].left \ {Earliest(Collecting(c, E)[n - 1].left)}
              /\ Collecting(c, E)[n].col =
                   AddError(Collecting(c, E)[n - 1].col, Earliest(Collecting(c, E)[n - 1].left))
<1> DEFINE First == [left |-> E, col |-> c]
           Then(r) == [left |-> r.left \ {Earliest(r.left)},
                       col |-> AddError(r.col, Earliest(r.left))]
           Loop(f, N) == f = [n \in 0 .. N |-> IF n = 0 THEN First ELSE Then(f[n - 1])]
           P == {N \in Nat : \E f : Loop(f, N)}
<1> HIDE DEF First, Then
<1>1. 0 \in P
  <2>1. Loop([n \in 0 .. 0 |-> First], 0)
    OBVIOUS
  <2>. QED
    BY <2>1
<1>2. ASSUME NEW N \in Nat, N \in P PROVE N + 1 \in P
  <2>1. PICK f : Loop(f, N)
    BY <1>2
  <2> DEFINE g == [n \in 0 .. N + 1 |-> IF n <= N THEN f[n] ELSE Then(f[N])]
  <2>2. Loop(g, N + 1)
    <3>1. ASSUME NEW n \in 0 .. N + 1
          PROVE  g[n] = IF n = 0 THEN First ELSE Then(g[n - 1])
      <4>1. CASE n = 0
        BY <2>1, <4>1
      <4>2. CASE n # 0 /\ n <= N
        <5>1. f[n] = Then(f[n - 1])
          BY <2>1, <4>2
        <5>. QED
          BY <4>2, <5>1
      <4>3. CASE n = N + 1
        BY <4>3
      <4>. QED
        BY <4>1, <4>2, <4>3
    <3>. QED
      BY <3>1
  <2>3. \E h : Loop(h, N + 1)
    <3> HIDE DEF g
    <3>. QED
      BY <2>2
  <2>. QED
    BY <2>3
<1>3. Cardinality(E) \in P
  <2> HIDE DEF P
  <2>. QED
    BY <1>1, <1>2, Induction, FS_CardinalityType
<1>4. PICK f : Loop(f, Cardinality(E))
  BY <1>3
<1>5. Loop(Collecting(c, E), Cardinality(E))
  BY <1>4 DEF Collecting, First, Then
<1>6. 0 \in 0 .. Cardinality(E)
  BY FS_CardinalityType
<1>7. Collecting(c, E)[0] = First
  BY <1>5, <1>6
<1>8. ASSUME NEW n \in 1 .. Cardinality(E)
      PROVE  Collecting(c, E)[n] = Then(Collecting(c, E)[n - 1])
  <2>1. n \in 0 .. Cardinality(E) /\ n # 0
    BY FS_CardinalityType
  <2>. QED
    BY <1>5, <2>1
<1>9. First.left = E /\ First.col = c
  BY DEF First
<1>10. ASSUME NEW r
       PROVE  /\ Then(r).left = r.left \ {Earliest(r.left)}
              /\ Then(r).col = AddError(r.col, Earliest(r.left))
  BY DEF Then
<1>. QED
  BY <1>7, <1>8, <1>9, <1>10

\* A collector, with an entry under each id it has errors for.
IsCollector(c) ==
  /\ c = [invalid |-> c.invalid, total |-> c.total, counts |-> c.counts,
          geometriesOver |-> c.geometriesOver, holesOver |-> c.holesOver,
          holes |-> c.holes, resolutionOver |-> c.resolutionOver]
  /\ c.counts \in [Types -> Nat] /\ c.total \in Nat /\ c.holes \in Nat
  /\ c.geometriesOver \in BOOLEAN /\ c.holesOver \in BOOLEAN /\ c.resolutionOver \in BOOLEAN
  /\ \A id \in DOMAIN c.invalid :
       c.invalid[id] = [id |-> id, feature |-> c.invalid[id].feature,
                        errors |-> c.invalid[id].errors]

Keys(E, t) == {<<e.part, e.nr>> : e \in {d \in E : d.type = t}}

Under(E, id) == {e \in E : e.id = id}

ErrorsBefore(c, id) == IF id \in DOMAIN c.invalid THEN c.invalid[id].errors ELSE {}

\* The collector d is c with the errors E counted, the ones of type t beside those in
\* F[t], and put on one entry for each id, whose feature is that of an error.
Adds(c, d, E, F) ==
  /\ IsCollector(d)
  /\ \A t \in Types : IsFiniteSet(F[t] \cup Keys(E, t))
                      /\ d.counts[t] = Cardinality(F[t] \cup Keys(E, t))
  /\ d.resolutionOver <=> c.resolutionOver \/ \E e \in E : e.over
  /\ DOMAIN d.invalid = DOMAIN c.invalid \cup {e.id : e \in E}
  /\ \A id \in DOMAIN d.invalid :
       /\ d.invalid[id].errors = ErrorsBefore(c, id) \cup {e.type : e \in Under(E, id)}
       /\ \/ id \in DOMAIN c.invalid /\ d.invalid[id].feature = c.invalid[id].feature
          \/ \E e \in Under(E, id) : d.invalid[id].feature = e.at
  /\ d.total = c.total /\ d.holes = c.holes
  /\ d.geometriesOver = c.geometriesOver /\ d.holesOver = c.holesOver

\* What addOrUpdateInvalidFeature does to a collector.
LEMMA AddErrorFields ==
  ASSUME NEW d, IsCollector(d), NEW e, e.type \in Types, e.over \in BOOLEAN
  PROVE  LET r == AddError(d, e) IN
         /\ IsCollector(r)
         /\ r.counts = [d.counts EXCEPT ![e.type] = @ + 1]
         /\ r.resolutionOver <=> d.resolutionOver \/ e.over
         /\ DOMAIN r.invalid = DOMAIN d.invalid \cup {e.id}
         /\ \A id \in DOMAIN d.invalid \ {e.id} : r.invalid[id] = d.invalid[id]
         /\ r.invalid[e.id].errors = ErrorsBefore(d, e.id) \cup {e.type}
         /\ r.invalid[e.id].feature =
              IF e.id \in DOMAIN d.invalid THEN d.invalid[e.id].feature ELSE e.at
         /\ r.total = d.total /\ r.holes = d.holes
         /\ r.geometriesOver = d.geometriesOver /\ r.holesOver = d.holesOver
<1> DEFINE r == AddError(d, e)
           entry == [Entry(d, e) EXCEPT !.errors = @ \cup {e.type}]
<1>1. /\ Entry(d, e) = [id |-> e.id, feature |-> Entry(d, e).feature,
                        errors |-> ErrorsBefore(d, e.id)]
      /\ Entry(d, e).feature =
           IF e.id \in DOMAIN d.invalid THEN d.invalid[e.id].feature ELSE e.at
  BY DEF Entry, IsCollector, ErrorsBefore
<1>2. entry = [id |-> e.id, feature |-> Entry(d, e).feature,
               errors |-> ErrorsBefore(d, e.id) \cup {e.type}]
  BY <1>1
<1>3. r = [invalid |-> SetEntry(d, entry), total |-> d.total,
           counts |-> [d.counts EXCEPT ![e.type] = @ + 1],
           geometriesOver |-> d.geometriesOver, holesOver |-> d.holesOver,
           holes |-> d.holes, resolutionOver |-> IF e.over THEN TRUE ELSE d.resolutionOver]
  <2>1. PICK i, t, k, g, h, m, o :
          d = [invalid |-> i, total |-> t, counts |-> k, geometriesOver |-> g, holesOver |-> h,
               holes |-> m, resolutionOver |-> o]
    BY DEF IsCollector
  <2>2. r = [d EXCEPT !.counts = [d.counts EXCEPT ![e.type] = d.counts[e.type] + 1],
                      !.resolutionOver = IF e.over THEN TRUE ELSE @, !.invalid = SetEntry(d, entry)]
    BY <2>1 DEF AddError
  <2> HIDE DEF r, entry
  <2>. QED
    BY <2>1, <2>2
<1> HIDE DEF r, entry
<1>4. /\ DOMAIN SetEntry(d, entry) = DOMAIN d.invalid \cup {e.id}
      /\ SetEntry(d, entry)[e.id] = entry
      /\ \A id \in DOMAIN d.invalid \ {e.id} : SetEntry(d, entry)[id] = d.invalid[id]
  BY <1>2 DEF SetEntry
<1>5. \A id \in DOMAIN r.invalid :
        r.invalid[id] = [id |-> id, feature |-> r.invalid[id].feature,
                         errors |-> r.invalid[id].errors]
  <2> SUFFICES ASSUME NEW id \in DOMAIN r.invalid
               PROVE  r.invalid[id] = [id |-> id, feature |-> r.invalid[id].feature,
                                       errors |-> r.invalid[id].errors]
    OBVIOUS
  <2>1. CASE id = e.id
    BY <1>2, <1>3, <1>4, <2>1
  <2>2. CASE id # e.id
    <3>1. id \in DOMAIN d.invalid \ {e.id} /\ r.invalid[id] = d.invalid[id]
      BY <1>3, <1>4, <2>2
    <3>. QED
      BY <3>1 DEF IsCollector
  <2>. QED
    BY <2>1, <2>2
<1>6. /\ [d.counts EXCEPT ![e.type] = @ + 1] \in [Types -> Nat]
      /\ (IF e.over THEN TRUE ELSE d.resolutionOver) \in BOOLEAN
  <2>1. d.counts \in [Types -> Nat] /\ d.resolutionOver \in BOOLEAN
    BY DEF IsCollector
  <2>2. d.counts[e.type] + 1 \in Nat
    BY <2>1
  <2>3. [d.counts EXCEPT ![e.type] = @ + 1] \in [Types -> Nat]
    BY <2>1, <2>2
  <2>4. (IF e.over THEN TRUE ELSE d.resolutionOver) \in BOOLEAN
    BY <2>1
  <2>. QED
    BY <2>3, <2>4
<1>7. /\ r.invalid = SetEntry(d, entry) /\ r.total = d.total /\ r.holes = d.holes
      /\ r.counts = [d.counts EXCEPT ![e.type] = @ + 1]
      /\ r.geometriesOver = d.geometriesOver /\ r.holesOver = d.holesOver
      /\ r.resolutionOver = IF e.over THEN TRUE ELSE d.resolutionOver
  BY <1>3
<1>8. IsCollector(r)
  <2>1. r = [invalid |-> r.invalid, total |-> r.total, counts |-> r.counts,
             geometriesOver |-> r.geometriesOver, holesOver |-> r.holesOver,
             holes |-> r.holes, resolutionOver |-> r.resolutionOver]
    BY <1>3, <1>7
  <2>2. /\ r.counts \in [Types -> Nat] /\ r.total \in Nat /\ r.holes \in Nat
        /\ r.geometriesOver \in BOOLEAN /\ r.holesOver \in BOOLEAN
        /\ r.resolutionOver \in BOOLEAN
    BY <1>6, <1>7 DEF IsCollector
  <2>. QED
    BY <1>5, <2>1, <2>2 DEF IsCollector
<1>9. /\ DOMAIN r.invalid = DOMAIN d.invalid \cup {e.id}
      /\ \A id \in DOMAIN d.invalid \ {e.id} : r.invalid[id] = d.invalid[id]
      /\ r.invalid[e.id].errors = ErrorsBefore(d, e.id) \cup {e.type}
      /\ r.invalid[e.id].feature =
           IF e.id \in DOMAIN d.invalid THEN d.invalid[e.id].feature ELSE e.at
  <2>1. r.invalid[e.id] = entry
    BY <1>4, <1>7
  <2>2. /\ entry.errors = ErrorsBefore(d, e.id) \cup {e.type}
        /\ entry.feature = Entry(d, e).feature
    BY <1>2
  <2>. QED
    BY <1>1, <1>4, <1>7, <2>1, <2>2
<1>. QED
  BY <1>7, <1>8, <1>9 DEF r

\* One more error.
LEMMA AddOne ==
  ASSUME NEW c, IsCollector(c), NEW d, NEW S, NEW F, Adds(c, d, S, F), NEW e,
         e.type \in Types, e.over \in BOOLEAN,
         <<e.part, e.nr>> \notin F[e.type] \cup Keys(S, e.type)
  PROVE  Adds(c, AddError(d, e), S \cup {e}, F)
<1> DEFINE r == AddError(d, e)
           T == S \cup {e}
<1>1. /\ IsCollector(r)
      /\ r.counts = [d.counts EXCEPT ![e.type] = @ + 1]
      /\ r.resolutionOver <=> d.resolutionOver \/ e.over
      /\ DOMAIN r.invalid = DOMAIN d.invalid \cup {e.id}
      /\ \A id \in DOMAIN d.invalid \ {e.id} : r.invalid[id] = d.invalid[id]
      /\ r.invalid[e.id].errors = ErrorsBefore(d, e.id) \cup {e.type}
      /\ r.invalid[e.id].feature =
           IF e.id \in DOMAIN d.invalid THEN d.invalid[e.id].feature ELSE e.at
      /\ r.total = d.total /\ r.holes = d.holes
      /\ r.geometriesOver = d.geometriesOver /\ r.holesOver = d.holesOver
  BY AddErrorFields DEF Adds
<1> HIDE DEF r
<1>2. ASSUME NEW t \in Types
      PROVE  /\ IsFiniteSet(F[t] \cup Keys(T, t))
             /\ r.counts[t] = Cardinality(F[t] \cup Keys(T, t))
  <2> DEFINE K == F[t] \cup Keys(S, t)
  <2>1. /\ IsFiniteSet(K) /\ d.counts[t] = Cardinality(K) /\ d.counts \in [Types -> Nat]
    BY DEF Adds, IsCollector
  <2>2. CASE t # e.type
    <3>1. F[t] \cup Keys(T, t) = K /\ r.counts[t] = d.counts[t]
      BY <1>1, <2>1, <2>2 DEF Keys
    <3>. QED
      BY <2>1, <3>1
  <2>3. CASE t = e.type
    <3>1. F[t] \cup Keys(T, t) = K \cup {<<e.part, e.nr>>}
      BY <2>3 DEF Keys
    <3>2. <<e.part, e.nr>> \notin K /\ r.counts[t] = d.counts[t] + 1
      BY <1>1, <2>1, <2>3
    <3> HIDE DEF K
    <3>. QED
      BY <2>1, <3>1, <3>2, FS_AddElement
  <2>. QED
    BY <2>2, <2>3
<1>3. /\ DOMAIN r.invalid = DOMAIN c.invalid \cup {f.id : f \in T}
      /\ r.resolutionOver <=> c.resolutionOver \/ \E f \in T : f.over
  BY <1>1 DEF Adds
<1>4. ASSUME NEW id \in DOMAIN r.invalid
      PROVE  /\ r.invalid[id].errors = ErrorsBefore(c, id) \cup {f.type : f \in Under(T, id)}
             /\ \/ id \in DOMAIN c.invalid /\ r.invalid[id].feature = c.invalid[id].feature
                \/ \E f \in Under(T, id) : r.invalid[id].feature = f.at
  <2>1. CASE id # e.id
    <3>1. id \in DOMAIN d.invalid /\ r.invalid[id] = d.invalid[id] /\ Under(T, id) = Under(S, id)
      BY <1>1, <1>4, <2>1 DEF Under
    <3>. QED
      BY <3>1 DEF Adds
  <2>2. CASE id = e.id /\ id \in DOMAIN d.invalid
    <3>1. Under(T, id) = Under(S, id) \cup {e}
      BY <2>2 DEF Under
    <3>2. /\ r.invalid[id].errors = d.invalid[id].errors \cup {e.type}
          /\ r.invalid[id].feature = d.invalid[id].feature
      BY <1>1, <2>2 DEF ErrorsBefore
    <3>3. d.invalid[id].errors = ErrorsBefore(c, id) \cup {f.type : f \in Under(S, id)}
      BY <2>2 DEF Adds
    <3>4. \/ id \in DOMAIN c.invalid /\ d.invalid[id].feature = c.invalid[id].feature
          \/ \E f \in Under(S, id) : d.invalid[id].feature = f.at
      BY <2>2 DEF Adds
    <3>5. r.invalid[id].errors = ErrorsBefore(c, id) \cup {f.type : f \in Under(T, id)}
      BY <3>1, <3>2, <3>3
    <3>. QED
      BY <3>1, <3>2, <3>4, <3>5
  <2>3. CASE id = e.id /\ id \notin DOMAIN d.invalid
    <3>1. id \notin DOMAIN c.invalid /\ Under(S, id) = {}
      BY <2>3 DEF Adds, Under
    <3>2. Under(T, id) = {e}
      BY <2>3, <3>1 DEF Under
    <3>3. r.invalid[id].errors = {e.type} /\ r.invalid[id].feature = e.at
      BY <1>1, <2>3 DEF ErrorsBefore
    <3>. QED
      BY <3>1, <3>2, <3>3 DEF ErrorsBefore
  <2>. QED
    BY <2>1, <2>2, <2>3
<1>5. /\ r.total = c.total /\ r.holes = c.holes
      /\ r.geometriesOver = c.geometriesOver /\ r.holesOver = c.holesOver
  BY <1>1 DEF Adds
<1>6. Adds(c, r, T, F)
  BY <1>1, <1>2, <1>3, <1>4, <1>5 DEF Adds
<1>. QED
  BY <1>6 DEF r

\* The loop adds all errors, whatever their order.
LEMMA AddErrorsAdds ==
  ASSUME NEW c, IsCollector(c), NEW E, IsErrors(E), NEW F,
         \A t \in Types : IsFiniteSet(F[t]) /\ c.counts[t] = Cardinality(F[t]),
         \A e \in E : <<e.part, e.nr>> \notin F[e.type]
  PROVE  Adds(c, AddErrors(c, E), E, F)
<1> DEFINE N == Cardinality(E)
           L(n) == Collecting(c, E)[n].left
           C(n) == Collecting(c, E)[n].col
           P == {n \in Nat : n <= N =>
                   /\ L(n) \subseteq E /\ Cardinality(L(n)) = N - n
                   /\ Adds(c, C(n), E \ L(n), F)}
<1>1. N \in Nat /\ IsFiniteSet(E)
  BY FS_CardinalityType DEF IsErrors
<1>2. L(0) = E /\ C(0) = c
  BY <1>1, CollectingUnfolds
<1>3. ASSUME NEW n \in 1 .. N
      PROVE  /\ L(n) = L(n - 1) \ {Earliest(L(n - 1))}
             /\ C(n) = AddError(C(n - 1), Earliest(L(n - 1)))
  BY <1>1, CollectingUnfolds
<1> HIDE DEF L, C
<1>4. 0 \in P
  <2>1. Adds(c, c, {}, F)
    BY DEF Adds, Keys, Under, ErrorsBefore
  <2>2. E \ E = {} /\ N - 0 = N
    BY <1>1
  <2>3. L(0) \subseteq E /\ Cardinality(L(0)) = N - 0 /\ Adds(c, C(0), E \ L(0), F)
    BY <1>2, <2>1, <2>2
  <2>. QED
    BY <2>3
<1>5. ASSUME NEW n \in Nat, n \in P PROVE n + 1 \in P
  <2> SUFFICES ASSUME n + 1 <= N
               PROVE  /\ L(n + 1) \subseteq E /\ Cardinality(L(n + 1)) = N - (n + 1)
                      /\ Adds(c, C(n + 1), E \ L(n + 1), F)
    OBVIOUS
  <2>1. /\ L(n) \subseteq E /\ Cardinality(L(n)) = N - n
        /\ Adds(c, C(n), E \ L(n), F)
    BY <1>1, <1>5
  <2>2. L(n) # {}
    <3>1. N - n # 0
      BY <1>1, <1>5
    <3>. QED
      BY <2>1, <3>1, FS_EmptySet
  <2> DEFINE e == Earliest(L(n))
  <2>3. e \in L(n) /\ e \in E
    BY <2>1, <2>2, EarliestIsOne
  <2> HIDE DEF e
  <2>4. IsFiniteSet(L(n)) /\ Cardinality(L(n) \ {e}) = N - (n + 1)
    BY <1>1, <2>1, <2>3, FS_Subset, FS_RemoveElement
  <2>5. E \ (L(n) \ {e}) = (E \ L(n)) \cup {e}
    BY <2>3
  <2>6. <<e.part, e.nr>> \notin F[e.type] \cup Keys(E \ L(n), e.type)
    BY <2>3 DEF Keys, IsErrors
  <2>7. Adds(c, AddError(C(n), e), (E \ L(n)) \cup {e}, F)
    BY <2>1, <2>3, <2>6, AddOne DEF IsErrors
  <2>. QED
    <3>1. n + 1 \in 1 .. N /\ (n + 1) - 1 = n
      BY <1>1, <1>5
    <3>2. L(n + 1) = L(n) \ {e} /\ C(n + 1) = AddError(C(n), e)
      BY <1>3, <3>1 DEF e
    <3>. QED
      BY <2>1, <2>4, <2>5, <2>7, <3>2
<1>6. N \in P
  <2> HIDE DEF P
  <2>. QED
    BY <1>1, <1>4, <1>5, Induction
<1>7. Cardinality(L(N)) = 0 /\ L(N) \subseteq E /\ Adds(c, C(N), E \ L(N), F)
  BY <1>1, <1>6
<1>8. L(N) = {}
  BY <1>1, <1>7, FS_Subset, FS_EmptySet
<1>. QED
  BY <1>7, <1>8 DEF AddErrors, C

-----------------------------------------------------------------------------
(* The errors of the features at some positions, and the collector that has *)
(* been given them.                                                         *)

FileOK == file \in [1 .. NumFeatures -> Features]

\* ErrorsOf gives each feature finitely many errors, of the types that are counted.
LEMMA ErrorsOfTypes ==
  ASSUME FileOK, NEW i \in 1 .. NumFeatures
  PROVE  /\ DOMAIN ErrorsOf(file[i]) \subseteq Nat /\ IsFiniteSet(DOMAIN ErrorsOf(file[i]))
         /\ \A k \in DOMAIN ErrorsOf(file[i]) : ErrorsOf(file[i])[k] \in Types
<1> DEFINE f == file[i]
<1>1. f \in Features /\ f.codes \in Seq(STRING)
  BY FeaturesOK DEF FileOK
<1>2. \E n \in Nat : DOMAIN ErrorsOf(f) = 1 .. n
  <2>1. DOMAIN f.codes = 1 .. Len(f.codes) /\ Len(f.codes) \in Nat
    BY <1>1
  <2>2. CASE f.big /\ f.bad
    BY <2>2 DEF ErrorsOf
  <2>3. CASE f.big /\ ~ f.bad
    <3>1. ErrorsOf(f) = <<"vertices">>
      BY <2>3 DEF ErrorsOf
    <3>. QED
      BY <3>1
  <2>5. CASE ~ f.big /\ f.bad
    <3>1. ErrorsOf(f) = <<"metadata">>
      BY <2>5 DEF ErrorsOf
    <3>. QED
      BY <3>1
  <2>4. CASE ~ f.big /\ ~ f.bad
    BY <2>1, <2>4 DEF ErrorsOf
  <2>. QED
    BY <2>2, <2>3, <2>4, <2>5
<1>3. \A k \in DOMAIN ErrorsOf(f) : ErrorsOf(f)[k] \in Types
  BY DEF ErrorsOf, Resolved, Types
<1>4. PICK n \in Nat : DOMAIN ErrorsOf(f) = 1 .. n
  BY <1>2
<1>5. IsFiniteSet(1 .. n)
  BY <1>4, FS_Interval
<1>. QED
  BY <1>3, <1>4, <1>5

Pairs(places) == UNION {{i} \X DOMAIN ErrorsOf(file[i]) : i \in places}

\* A file has finitely many errors.
LEMMA PairsFinite == ASSUME FileOK PROVE IsFiniteSet(Pairs(1 .. NumFeatures))
<1> DEFINE P == {n \in Nat : n <= NumFeatures => IsFiniteSet(Pairs(1 .. n))}
<1>1. 0 \in P
  <2>1. Pairs(1 .. 0) = {}
    BY DEF Pairs
  <2>. QED
    BY <2>1, FS_EmptySet
<1>2. ASSUME NEW n \in Nat, n \in P PROVE n + 1 \in P
  <2> SUFFICES ASSUME n + 1 <= NumFeatures PROVE IsFiniteSet(Pairs(1 .. n + 1))
    OBVIOUS
  <2>1. n + 1 \in 1 .. NumFeatures /\ n <= NumFeatures
    BY LimitsOK
  <2> DEFINE K == DOMAIN ErrorsOf(file[n + 1])
  <2>2. IsFiniteSet({n + 1} \X K)
    <3>1. IsFiniteSet(K) /\ IsFiniteSet({n + 1})
      BY <2>1, ErrorsOfTypes, FS_Singleton
    <3>. QED
      BY <3>1, FS_Product
  <2>3. 1 .. n + 1 = 1 .. n \cup {n + 1}
    OBVIOUS
  <2>4. Pairs(1 .. n + 1) = Pairs(1 .. n) \cup ({n + 1} \X K)
    <3> HIDE DEF K
    <3>1. Pairs(1 .. n \cup {n + 1}) = Pairs(1 .. n) \cup ({n + 1} \X K)
      BY DEF Pairs, K
    <3>. QED
      BY <2>3, <3>1
  <2>5. IsFiniteSet(Pairs(1 .. n))
    BY <1>2, <2>1
  <2> HIDE DEF K
  <2>6. IsFiniteSet(Pairs(1 .. n) \cup ({n + 1} \X K))
    BY <2>2, <2>5, FS_Union
  <2>. QED
    BY <2>4, <2>6
<1>3. NumFeatures \in P
  <2> HIDE DEF P
  <2>. QED
    BY <1>1, <1>2, Induction, LimitsOK
<1>. QED
  BY <1>3, LimitsOK

\* The errors E are those of the features at the positions S: these errors, of these
\* types, under these ids, each given with a feature of the chunk.
Represents(E, S, chunk) ==
  /\ IsErrors(E)
  /\ \A t \in Types : Keys(E, t) = ErrorsAt(t, S)
  /\ \A id : {e.type : e \in Under(E, id)} = TypesOf(id, S)
  /\ (\E e \in E : e.over)
       <=> \E i \in S : file[i].over /\ "resolution" \in Range(file[i].codes)
  /\ \A e \in E : e.at \in chunk /\ file[e.at].id = e.id

\* The collector c has the errors of the features seen, and on its entries those of
\* the features of the chunk at hand.
Describes(c, seen, now, chunk) ==
  /\ IsCollector(c)
  /\ \A t \in Types : /\ IsFiniteSet(ErrorsAt(t, seen))
                      /\ c.counts[t] = Cardinality(ErrorsAt(t, seen))
  /\ c.resolutionOver
       <=> \E i \in seen : file[i].over /\ "resolution" \in Range(file[i].codes)
  /\ \A id : id \in DOMAIN c.invalid <=> TypesOf(id, now) # {}
  /\ \A id \in DOMAIN c.invalid :
       /\ c.invalid[id].errors = TypesOf(id, now)
       /\ c.invalid[id].feature \in chunk /\ file[c.invalid[id].feature].id = id

\* Errors and types of more features.
LEMMA MoreErrors ==
  ASSUME NEW S, NEW T, NEW t
  PROVE  ErrorsAt(t, S \cup T) = ErrorsAt(t, S) \cup ErrorsAt(t, T)
BY DEF ErrorsAt

LEMMA MoreTypes ==
  ASSUME NEW S, NEW T, NEW id
  PROVE  TypesOf(id, S \cup T) = TypesOf(id, S) \cup TypesOf(id, T)
<1>1. {j \in S \cup T : file[j].id = id} =
        {j \in S : file[j].id = id} \cup {j \in T : file[j].id = id}
  OBVIOUS
<1>. QED
  BY <1>1 DEF TypesOf

\* A collector that is given the errors of more features describes those as well.
LEMMA DescribesMore ==
  ASSUME NEW c, NEW seen, NEW now, NEW chunk, Describes(c, seen, now, chunk),
         NEW E, NEW S, Represents(E, S, chunk), S \cap seen = {}
  PROVE  LET d == AddErrors(c, E) IN
         /\ Describes(d, seen \cup S, now \cup S, chunk)
         /\ d.total = c.total /\ d.holes = c.holes
         /\ d.geometriesOver = c.geometriesOver /\ d.holesOver = c.holesOver
<1> DEFINE d == AddErrors(c, E)
           F == [t \in Types |-> ErrorsAt(t, seen)]
<1>1. Adds(c, d, E, F)
  <2>1. \A t \in Types : IsFiniteSet(F[t]) /\ c.counts[t] = Cardinality(F[t])
    BY DEF Describes
  <2>2. ASSUME NEW e \in E PROVE <<e.part, e.nr>> \notin F[e.type]
    <3>1. e.type \in Types
      BY DEF Represents, IsErrors
    <3>2. <<e.part, e.nr>> \in Keys(E, e.type)
      BY DEF Keys
    <3>3. <<e.part, e.nr>> \in ErrorsAt(e.type, S)
      BY <3>1, <3>2 DEF Represents
    <3>4. \A x \in ErrorsAt(e.type, S) : x \notin ErrorsAt(e.type, seen)
      BY DEF ErrorsAt
    <3>. QED
      BY <3>1, <3>3, <3>4
  <2> HIDE DEF F
  <2>. QED
    BY <2>1, <2>2, AddErrorsAdds DEF Describes, Represents
<1> HIDE DEF d
<1>2. \A t \in Types : F[t] \cup Keys(E, t) = ErrorsAt(t, seen \cup S)
  BY MoreErrors DEF Represents
<1>3. \A t \in Types : /\ IsFiniteSet(ErrorsAt(t, seen \cup S))
                       /\ d.counts[t] = Cardinality(ErrorsAt(t, seen \cup S))
  BY <1>1, <1>2 DEF Adds
<1>4. \A id : id \in DOMAIN d.invalid <=> TypesOf(id, now \cup S) # {}
  <2> SUFFICES ASSUME NEW id PROVE id \in DOMAIN d.invalid <=> TypesOf(id, now \cup S) # {}
    OBVIOUS
  <2>1. id \in DOMAIN d.invalid <=> id \in DOMAIN c.invalid \/ Under(E, id) # {}
    <3>1. DOMAIN d.invalid = DOMAIN c.invalid \cup {e.id : e \in E}
      BY <1>1 DEF Adds
    <3>2. id \in {e.id : e \in E} <=> Under(E, id) # {}
      BY DEF Under
    <3>. QED
      BY <3>1, <3>2
  <2>2. Under(E, id) # {} <=> TypesOf(id, S) # {}
    <3>1. {e.type : e \in Under(E, id)} = TypesOf(id, S)
      BY DEF Represents
    <3> DEFINE U == Under(E, id)
    <3>2. {e.type : e \in U} # {} <=> U # {}
      <4> HIDE DEF U
      <4>. QED
        OBVIOUS
    <3>. QED
      BY <3>1, <3>2
  <2>3. TypesOf(id, now \cup S) = TypesOf(id, now) \cup TypesOf(id, S)
    BY MoreTypes
  <2>4. id \in DOMAIN c.invalid <=> TypesOf(id, now) # {}
    BY DEF Describes
  <2>. QED
    BY <2>1, <2>2, <2>3, <2>4
<1>5. ASSUME NEW id \in DOMAIN d.invalid
      PROVE  /\ d.invalid[id].errors = TypesOf(id, now \cup S)
             /\ d.invalid[id].feature \in chunk /\ file[d.invalid[id].feature].id = id
  <2>1. d.invalid[id].errors = ErrorsBefore(c, id) \cup {e.type : e \in Under(E, id)}
    BY <1>1 DEF Adds
  <2>2. ErrorsBefore(c, id) = TypesOf(id, now)
    BY DEF ErrorsBefore, Describes
  <2>3. {e.type : e \in Under(E, id)} = TypesOf(id, S)
    BY DEF Represents
  <2>4. TypesOf(id, now \cup S) = TypesOf(id, now) \cup TypesOf(id, S)
    BY MoreTypes
  <2>5. \/ id \in DOMAIN c.invalid /\ d.invalid[id].feature = c.invalid[id].feature
        \/ \E e \in Under(E, id) : d.invalid[id].feature = e.at
    BY <1>1 DEF Adds
  <2>6. d.invalid[id].feature \in chunk /\ file[d.invalid[id].feature].id = id
    BY <2>5 DEF Describes, Represents, Under
  <2>. QED
    BY <2>1, <2>2, <2>3, <2>4, <2>6
<1>6. d.resolutionOver
        <=> \E i \in seen \cup S : file[i].over /\ "resolution" \in Range(file[i].codes)
  BY <1>1 DEF Adds, Describes, Represents
<1>7. Describes(d, seen \cup S, now \cup S, chunk)
  BY <1>1, <1>3, <1>4, <1>5, <1>6 DEF Adds, Describes
<1>. QED
  BY <1>1, <1>7 DEF Adds, d

\* Features without errors make no difference.
LEMMA DescribesQuiet ==
  ASSUME NEW c, NEW seen, NEW now, NEW chunk, Describes(c, seen, now, chunk), NEW S,
         \A i \in S : DOMAIN ErrorsOf(file[i]) = {} /\ Range(file[i].codes) = {}
  PROVE  Describes(c, seen \cup S, now \cup S, chunk)
<1>1. /\ \A t : ErrorsAt(t, S) = {}
      /\ \A id : TypesOf(id, S) = {}
  BY DEF ErrorsAt, TypesOf, Range
<1>2. /\ \A t : ErrorsAt(t, seen \cup S) = ErrorsAt(t, seen)
      /\ \A id : TypesOf(id, now \cup S) = TypesOf(id, now)
  <2>1. ASSUME NEW t PROVE ErrorsAt(t, seen \cup S) = ErrorsAt(t, seen)
    <3>1. ErrorsAt(t, seen \cup S) = ErrorsAt(t, seen) \cup ErrorsAt(t, S)
      BY MoreErrors
    <3>. QED
      BY <1>1, <3>1
  <2>2. ASSUME NEW id PROVE TypesOf(id, now \cup S) = TypesOf(id, now)
    <3>1. TypesOf(id, now \cup S) = TypesOf(id, now) \cup TypesOf(id, S)
      BY MoreTypes
    <3>. QED
      BY <1>1, <3>1
  <2>. QED
    BY <2>1, <2>2
<1>. QED
  BY <1>2 DEF Describes

-----------------------------------------------------------------------------
(* The errors the chunk processor gives the collector.                     *)

\* The errors of these features are those ErrorsOf numbers, each on a feature of the chunk
\* with the id of its own, and beyond the limit if it is a conflict that is.
AreErrorsOf(E, S, chunk) ==
  /\ \A e \in E :
       /\ e = Error(e.part, e.nr, e.id, e.at, e.type, e.over) /\ e.over \in BOOLEAN
       /\ e.part \in S /\ e.nr \in DOMAIN ErrorsOf(file[e.part])
       /\ e.id = file[e.part].id /\ e.type = ErrorsOf(file[e.part])[e.nr]
       /\ e.at \in chunk /\ file[e.at].id = e.id
       /\ e.over <=> /\ file[e.part].over
                     /\ e.nr \in DOMAIN file[e.part].codes
                     /\ file[e.part].codes[e.nr] = "resolution"
  /\ \A d, e \in E : d.part = e.part /\ d.nr = e.nr => d = e
  /\ \A i \in S : \A k \in DOMAIN ErrorsOf(file[i]) : \E e \in E : e.part = i /\ e.nr = k

\* The errors of a feature that is valid but for its codes.
LEMMA CodesAreErrors ==
  ASSUME FileOK, NEW i \in 1 .. NumFeatures
  PROVE  /\ file[i].codes \in Seq(STRING) /\ DOMAIN file[i].codes \subseteq DOMAIN ErrorsOf(file[i])
         /\ file[i].big \/ file[i].bad => DOMAIN file[i].codes = {}
<1> DEFINE f == file[i]
<1>1. f \in Features /\ f.codes \in Seq(STRING)
  BY FeaturesOK DEF FileOK
<1>2. f.big \/ f.bad => DOMAIN f.codes = {}
  BY <1>1, FeaturesOK
<1>3. ~ (f.big \/ f.bad) => DOMAIN ErrorsOf(f) = DOMAIN f.codes
  BY DEF ErrorsOf
<1>. QED
  BY <1>1, <1>2, <1>3

\* Such errors represent the features.
LEMMA ErrorsRepresent ==
  ASSUME FileOK, NEW S \in SUBSET (1 .. NumFeatures), NEW E, NEW chunk, AreErrorsOf(E, S, chunk)
  PROVE  Represents(E, S, chunk)
<1>1. IsFiniteSet(E)
  <2> DEFINE P == Pairs(1 .. NumFeatures)
             f == [e \in E |-> <<e.part, e.nr>>]
  <2>1. ASSUME NEW e \in E PROVE <<e.part, e.nr>> \in P
    <3>1. e.part \in 1 .. NumFeatures /\ e.nr \in DOMAIN ErrorsOf(file[e.part])
      BY DEF AreErrorsOf
    <3>. QED
      BY <3>1 DEF Pairs
  <2>2. f \in [E -> P]
    BY <2>1
  <2>3. \A d, e \in E : f[d] = f[e] => d = e
    BY DEF AreErrorsOf
  <2>4. f \in Injection(E, P)
    BY <2>2, <2>3 DEF Injection, IsInjective
  <2> HIDE DEF f, P
  <2>. QED
    BY <2>4, FS_Injection, PairsFinite DEF P
<1>2. ASSUME NEW e \in E
      PROVE  /\ e = Error(e.part, e.nr, e.id, e.at, e.type, e.over)
             /\ e.part \in Nat /\ e.nr \in Nat /\ e.type \in Types /\ e.over \in BOOLEAN
  <2>1. e.part \in 1 .. NumFeatures
    BY DEF AreErrorsOf
  <2>. QED
    BY <2>1, ErrorsOfTypes, LimitsOK DEF AreErrorsOf
<1>3. IsErrors(E)
  BY <1>1, <1>2 DEF IsErrors, AreErrorsOf
<1>4. ASSUME NEW t \in Types PROVE Keys(E, t) = ErrorsAt(t, S)
  <2>1. ASSUME NEW x \in Keys(E, t) PROVE x \in ErrorsAt(t, S)
    <3>1. PICK e \in E : x = <<e.part, e.nr>> /\ e.type = t
      BY DEF Keys
    <3>2. e.part \in S /\ e.nr \in DOMAIN ErrorsOf(file[e.part]) /\ ErrorsOf(file[e.part])[e.nr] = t
      BY <3>1 DEF AreErrorsOf
    <3> DEFINE i == e.part
    <3>3. x \in {i} \X {k \in DOMAIN ErrorsOf(file[i]) : ErrorsOf(file[i])[k] = t} /\ i \in S
      BY <3>1, <3>2
    <3> HIDE DEF i
    <3>. QED
      BY <3>3 DEF ErrorsAt
  <2>2. ASSUME NEW x \in ErrorsAt(t, S) PROVE x \in Keys(E, t)
    <3>1. PICK i \in S : x \in {i} \X {k \in DOMAIN ErrorsOf(file[i]) : ErrorsOf(file[i])[k] = t}
      BY DEF ErrorsAt
    <3>2. PICK k \in DOMAIN ErrorsOf(file[i]) : x = <<i, k>> /\ ErrorsOf(file[i])[k] = t
      BY <3>1
    <3>3. PICK e \in E : e.part = i /\ e.nr = k
      BY DEF AreErrorsOf
    <3>4. e.type = t
      BY <3>2, <3>3 DEF AreErrorsOf
    <3>. QED
      BY <3>2, <3>3, <3>4 DEF Keys
  <2>. QED
    BY <2>1, <2>2
<1>5. ASSUME NEW id PROVE {e.type : e \in Under(E, id)} = TypesOf(id, S)
  <2>1. ASSUME NEW e \in Under(E, id) PROVE e.type \in TypesOf(id, S)
    <3>1. e \in E /\ e.part \in {j \in S : file[j].id = id}
      BY DEF Under, AreErrorsOf
    <3>2. e.type \in Range(ErrorsOf(file[e.part]))
      BY <3>1 DEF AreErrorsOf, Range
    <3>. QED
      BY <3>1, <3>2 DEF TypesOf
  <2>2. ASSUME NEW t \in TypesOf(id, S) PROVE \E e \in Under(E, id) : e.type = t
    <3>1. PICK i \in S : file[i].id = id /\ t \in Range(ErrorsOf(file[i]))
      BY DEF TypesOf
    <3>2. PICK k \in DOMAIN ErrorsOf(file[i]) : ErrorsOf(file[i])[k] = t
      BY <3>1 DEF Range
    <3>3. PICK e \in E : e.part = i /\ e.nr = k
      BY DEF AreErrorsOf
    <3>. QED
      BY <3>1, <3>2, <3>3 DEF AreErrorsOf, Under
  <2>. QED
    BY <2>1, <2>2
<1>6. (\E e \in E : e.over)
        <=> \E i \in S : file[i].over /\ "resolution" \in Range(file[i].codes)
  <2>1. ASSUME NEW e \in E, e.over
        PROVE  \E i \in S : file[i].over /\ "resolution" \in Range(file[i].codes)
    <3>1. /\ e.part \in S /\ file[e.part].over
          /\ e.nr \in DOMAIN file[e.part].codes /\ file[e.part].codes[e.nr] = "resolution"
      BY <2>1 DEF AreErrorsOf
    <3>. QED
      BY <3>1 DEF Range
  <2>2. ASSUME NEW i \in S, file[i].over, "resolution" \in Range(file[i].codes)
        PROVE  \E e \in E : e.over
    <3>1. PICK k \in DOMAIN file[i].codes : file[i].codes[k] = "resolution"
      BY <2>2 DEF Range
    <3>2. k \in DOMAIN ErrorsOf(file[i])
      BY CodesAreErrors
    <3>3. PICK e \in E : e.part = i /\ e.nr = k
      BY <3>2 DEF AreErrorsOf
    <3>. QED
      BY <2>2, <3>1, <3>3 DEF AreErrorsOf
  <2>. QED
    BY <2>1, <2>2
<1>7. \A e \in E : e.at \in chunk /\ file[e.at].id = e.id
  BY DEF AreErrorsOf
<1>. QED
  BY <1>3, <1>4, <1>5, <1>6, <1>7 DEF Represents

\* addMetadataError, of the features that parseChunk refuses.
LEMMA MetadataRepresents ==
  ASSUME FileOK, NEW chunk \in SUBSET (1 .. NumFeatures), NEW R \in SUBSET chunk,
         \A i \in R : ~ file[i].big /\ file[i].bad
  PROVE  Represents(MetadataErrors(R), R, chunk)
<1> DEFINE E == MetadataErrors(R)
<1>1. ASSUME NEW i \in R
      PROVE  ErrorsOf(file[i]) = <<"metadata">> /\ DOMAIN file[i].codes = {}
  BY CodesAreErrors DEF ErrorsOf
<1>2. E = {Error(i, 1, file[i].id, i, "metadata", FALSE) : i \in R}
  BY DEF MetadataErrors
<1>3. ASSUME NEW e \in E
      PROVE  \E i \in R : e = Error(i, 1, file[i].id, i, "metadata", FALSE)
  BY <1>2
<1> HIDE DEF E
<1>4. ASSUME NEW e \in E
      PROVE  /\ e = Error(e.part, 1, file[e.part].id, e.part, "metadata", FALSE)
             /\ e = Error(e.part, e.nr, e.id, e.at, e.type, e.over)
             /\ e.over \in BOOLEAN /\ ~ e.over
             /\ e.part \in R /\ e.nr = 1 /\ e.id = file[e.part].id /\ e.at = e.part
             /\ e.type = "metadata"
  <2>1. PICK i \in R : e = Error(i, 1, file[i].id, i, "metadata", FALSE)
    BY <1>3
  <2>2. e.part = i /\ e.nr = 1 /\ e.id = file[i].id /\ e.at = i /\ e.type = "metadata"
    BY <2>1 DEF Error
  <2>3. e.over = FALSE
    BY <2>1 DEF Error
  <2>4. e = Error(e.part, 1, file[e.part].id, e.part, "metadata", FALSE)
    BY <2>1, <2>2
  <2>5. e = Error(e.part, e.nr, e.id, e.at, e.type, e.over)
    BY <2>1, <2>2, <2>3
  <2>. QED
    BY <2>2, <2>3, <2>4, <2>5
<1>5. ASSUME NEW d \in E, NEW e \in E, d.part = e.part, d.nr = e.nr PROVE d = e
  <2>1. e = Error(d.part, 1, file[d.part].id, d.part, "metadata", FALSE)
    BY <1>4, <1>5
  <2>2. d = Error(d.part, 1, file[d.part].id, d.part, "metadata", FALSE)
    BY <1>4
  <2>. QED
    BY <2>1, <2>2
<1>6. ASSUME NEW i \in R, NEW k \in DOMAIN ErrorsOf(file[i])
      PROVE  \E e \in E : e.part = i /\ e.nr = k
  <2>1. k = 1
    BY <1>1
  <2>2. Error(i, 1, file[i].id, i, "metadata", FALSE) \in E
    BY <1>2 DEF E
  <2>. QED
    BY <2>1, <2>2 DEF Error
<1>7. AreErrorsOf(E, R, chunk)
  <2>1. ASSUME NEW e \in E
        PROVE  /\ e.nr \in DOMAIN ErrorsOf(file[e.part])
               /\ e.type = ErrorsOf(file[e.part])[e.nr]
               /\ e.nr \notin DOMAIN file[e.part].codes
    <3>1. e.part \in R /\ e.nr = 1 /\ e.type = "metadata"
      BY <1>4
    <3>2. ErrorsOf(file[e.part]) = <<"metadata">> /\ DOMAIN file[e.part].codes = {}
      BY <1>1, <3>1
    <3>. QED
      BY <3>1, <3>2
  <2>2. ASSUME NEW e \in E
        PROVE  /\ e = Error(e.part, e.nr, e.id, e.at, e.type, e.over) /\ e.over \in BOOLEAN
               /\ e.part \in R /\ e.id = file[e.part].id /\ ~ e.over
               /\ e.at \in chunk /\ file[e.at].id = e.id
    BY <1>4
  <2>. QED
    BY <1>5, <1>6, <2>1, <2>2 DEF AreErrorsOf
<1>. QED
  BY <1>7, ErrorsRepresent DEF E

\* addVerticesError, of the features that the reader skips.
LEMMA VerticesRepresents ==
  ASSUME FileOK, NEW chunk \in SUBSET (1 .. NumFeatures), NEW S \in SUBSET chunk,
         \A i \in S : file[i].big
  PROVE  Represents(VerticesErrors(S), S, chunk)
<1> DEFINE E == VerticesErrors(S)
<1>1. ASSUME NEW i \in S
      PROVE  /\ ErrorsOf(file[i]) =
                  IF file[i].bad THEN <<"metadata", "vertices">> ELSE <<"vertices">>
             /\ DOMAIN file[i].codes = {}
  BY CodesAreErrors DEF ErrorsOf
<1>2. ASSUME NEW e
      PROVE  e \in E <=>
               \/ \E i \in S : file[i].bad /\ e = Error(i, 1, file[i].id, i, "metadata", FALSE)
               \/ \E i \in S : e = Error(i, IF file[i].bad THEN 2 ELSE 1, file[i].id, i,
                                         "vertices", FALSE)
  BY DEF VerticesErrors, MetadataErrors
<1> HIDE DEF E
<1>3. ASSUME NEW e \in E
      PROVE  /\ e = Error(e.part, e.nr, file[e.part].id, e.part, e.type, FALSE)
             /\ e = Error(e.part, e.nr, e.id, e.at, e.type, e.over)
             /\ e.over \in BOOLEAN /\ ~ e.over
             /\ e.part \in S /\ e.id = file[e.part].id /\ e.at = e.part
             /\ \/ file[e.part].bad /\ e.nr = 1 /\ e.type = "metadata"
                \/ file[e.part].bad /\ e.nr = 2 /\ e.type = "vertices"
                \/ ~ file[e.part].bad /\ e.nr = 1 /\ e.type = "vertices"
  <2>1. CASE \E i \in S : file[i].bad /\ e = Error(i, 1, file[i].id, i, "metadata", FALSE)
    BY <2>1 DEF Error
  <2>2. CASE \E i \in S : e = Error(i, IF file[i].bad THEN 2 ELSE 1, file[i].id, i,
                                    "vertices", FALSE)
    BY <2>2 DEF Error
  <2>. QED
    BY <1>2, <2>1, <2>2
<1>4. ASSUME NEW d \in E, NEW e \in E, d.part = e.part, d.nr = e.nr PROVE d = e
  <2>1. d.type = e.type
    <3> DEFINE b == file[d.part].bad
    <3>1. \/ b /\ d.nr = 1 /\ d.type = "metadata"
          \/ b /\ d.nr = 2 /\ d.type = "vertices"
          \/ ~ b /\ d.nr = 1 /\ d.type = "vertices"
      BY <1>3
    <3>2. \/ b /\ e.nr = 1 /\ e.type = "metadata"
          \/ b /\ e.nr = 2 /\ e.type = "vertices"
          \/ ~ b /\ e.nr = 1 /\ e.type = "vertices"
      BY <1>3, <1>4
    <3> HIDE DEF b
    <3>. QED
      BY <1>4, <3>1, <3>2
  <2>2. d = Error(d.part, d.nr, file[d.part].id, d.part, d.type, FALSE)
    BY <1>3
  <2>3. e = Error(d.part, d.nr, file[d.part].id, d.part, d.type, FALSE)
    BY <1>3, <1>4, <2>1
  <2>. QED
    BY <2>2, <2>3
<1>5. ASSUME NEW i \in S, NEW k \in DOMAIN ErrorsOf(file[i])
      PROVE  \E e \in E : e.part = i /\ e.nr = k
  <2>1. CASE file[i].bad /\ k = 1
    <3>1. Error(i, 1, file[i].id, i, "metadata", FALSE) \in E
      BY <1>2, <2>1
    <3>. QED
      BY <2>1, <3>1 DEF Error
  <2>2. CASE k = IF file[i].bad THEN 2 ELSE 1
    <3>1. Error(i, k, file[i].id, i, "vertices", FALSE) \in E
      BY <1>2, <2>2
    <3>. QED
      BY <3>1 DEF Error
  <2>3. k \in IF file[i].bad THEN {1, 2} ELSE {1}
    BY <1>1
  <2>. QED
    BY <2>1, <2>2, <2>3
<1>6. AreErrorsOf(E, S, chunk)
  <2>1. ASSUME NEW e \in E
        PROVE  /\ e.nr \in DOMAIN ErrorsOf(file[e.part])
               /\ e.type = ErrorsOf(file[e.part])[e.nr]
               /\ e.nr \notin DOMAIN file[e.part].codes
    <3>1. /\ e.part \in S
          /\ \/ file[e.part].bad /\ e.nr = 1 /\ e.type = "metadata"
             \/ file[e.part].bad /\ e.nr = 2 /\ e.type = "vertices"
             \/ ~ file[e.part].bad /\ e.nr = 1 /\ e.type = "vertices"
      BY <1>3
    <3>2. /\ ErrorsOf(file[e.part]) =
               IF file[e.part].bad THEN <<"metadata", "vertices">> ELSE <<"vertices">>
          /\ DOMAIN file[e.part].codes = {}
      BY <1>1, <3>1
    <3>. QED
      BY <3>1, <3>2
  <2>2. ASSUME NEW e \in E
        PROVE  /\ e = Error(e.part, e.nr, e.id, e.at, e.type, e.over) /\ e.over \in BOOLEAN
               /\ e.part \in S /\ e.id = file[e.part].id /\ ~ e.over
               /\ e.at \in chunk /\ file[e.at].id = e.id
    BY <1>3
  <2>. QED
    BY <1>4, <1>5, <2>1, <2>2 DEF AreErrorsOf
<1>. QED
  BY <1>6, ErrorsRepresent DEF E

\* The features sent to polygon parts manager have the errors it finds in them, only.
LEMMA SentFeatures ==
  ASSUME FileOK, NEW chunk \in SUBSET (1 .. NumFeatures), NEW i \in Sent(chunk)
  PROVE  /\ i \in chunk \ Skipped(chunk) /\ i \in 1 .. NumFeatures
         /\ file[i].codes \in Seq(STRING) /\ file[i].over \in BOOLEAN
         /\ ErrorsOf(file[i]) = [k \in DOMAIN file[i].codes |-> Resolved(file[i].codes[k])]
         /\ i \notin Faulty(chunk) => DOMAIN file[i].codes = {}
<1>1. /\ i \in chunk /\ i \in 1 .. NumFeatures /\ i \notin Skipped(chunk)
      /\ ~ file[i].big /\ ~ file[i].bad
  BY DEF Sent, Skipped, Refused
<1>2. file[i] \in Features /\ file[i].codes \in Seq(STRING) /\ file[i].over \in BOOLEAN
  BY <1>1, FeaturesOK DEF FileOK
<1>3. ErrorsOf(file[i]) = [k \in DOMAIN file[i].codes |-> Resolved(file[i].codes[k])]
  BY <1>1 DEF ErrorsOf
<1>4. i \notin Faulty(chunk) => DOMAIN file[i].codes = {}
  BY DEF Faulty
<1>. QED
  BY <1>1, <1>2, <1>3, <1>4

\* buildFeatureIdMap has a feature for the id of each feature, that has that id.
LEMMA FeatureOfBears ==
  ASSUME NEW places \in SUBSET (1 .. NumFeatures), NEW id, Bearers(id, places) # {}
  PROVE  FeatureOf(id, places) \in places /\ file[FeatureOf(id, places)].id = id
<1>1. Bearers(id, places) \in SUBSET (1 .. NumFeatures)
  BY DEF Bearers
<1>2. \E i \in Bearers(id, places) : \A j \in Bearers(id, places) : j <= i
  BY <1>1, Last, LimitsOK
<1>3. FeatureOf(id, places) \in Bearers(id, places)
  BY <1>2 DEF FeatureOf
<1>. QED
  BY <1>3 DEF Bearers

\* processPartValidationErrors, of the parts of an answer.
LEMMA AnswerRepresents ==
  ASSUME FileOK, NEW chunk \in SUBSET (1 .. NumFeatures), NEW parts \in Answers(chunk)
  PROVE  Represents(PartErrors(parts, chunk \ Skipped(chunk)), Sent(chunk), chunk)
<1> DEFINE B == chunk \ Skipped(chunk)
           E == PartErrors(parts, B)
           Over(i, k) == file[i].codes[k] = "resolution" /\ file[i].over
           The(i, k) == Error(i, k, file[i].id, FeatureOf(file[i].id, B),
                              Resolved(file[i].codes[k]), Over(i, k))
<1>1. Faulty(chunk) \subseteq Sent(chunk)
  BY DEF Faulty
<1>2. B \in SUBSET (1 .. NumFeatures)
  OBVIOUS
<1>3. ASSUME NEW i \in DOMAIN parts, Bearers(parts[i].id, B) # {}
      PROVE  i \in Faulty(chunk) /\ parts[i] = PartOf(i)
  <2>1. (i \in Faulty(chunk) /\ parts[i] = PartOf(i)) \/ parts[i] = Stray
    BY DEF Answers
  <2>2. Bearers("stray", B) = {}
    BY <1>2, FeaturesOK DEF Bearers, FileOK
  <2>. QED
    BY <1>3, <2>1, <2>2 DEF Stray
<1>4. ASSUME NEW i \in Faulty(chunk)
      PROVE  /\ i \in DOMAIN parts /\ parts[i] = PartOf(i)
             /\ Bearers(file[i].id, B) # {}
             /\ FeatureOf(file[i].id, B) \in chunk
             /\ file[FeatureOf(file[i].id, B)].id = file[i].id
  <2>1. i \in B
    BY <1>1, SentFeatures
  <2>2. i \in DOMAIN parts /\ parts[i] = PartOf(i)
    BY DEF Answers
  <2>3. Bearers(file[i].id, B) # {}
    BY <2>1 DEF Bearers
  <2>. QED
    BY <1>2, <2>2, <2>3, FeatureOfBears
<1>5. ASSUME NEW i \in Faulty(chunk)
      PROVE  /\ PartOf(i).id = file[i].id /\ PartOf(i).codes = file[i].codes
             /\ PartOf(i).over = file[i].over
  BY DEF PartOf
<1>6. ASSUME NEW e \in E
      PROVE  \E i \in Faulty(chunk) : \E k \in DOMAIN file[i].codes : e = The(i, k)
  <2>1. PICK i \in DOMAIN parts : /\ Bearers(parts[i].id, B) # {}
                                  /\ \E k \in DOMAIN parts[i].codes :
                                       e = Error(i, k, parts[i].id, FeatureOf(parts[i].id, B),
                                             Resolved(parts[i].codes[k]),
                                             parts[i].codes[k] = "resolution" /\ parts[i].over)
    <3> HIDE DEF B
    <3>. QED
      BY DEF PartErrors
  <2>2. i \in Faulty(chunk) /\ parts[i] = PartOf(i)
    BY <1>3, <2>1
  <2>3. parts[i].id = file[i].id /\ parts[i].codes = file[i].codes /\ parts[i].over = file[i].over
    BY <1>5, <2>2
  <2> HIDE DEF B
  <2>. QED
    BY <2>1, <2>2, <2>3
<1>7. ASSUME NEW i \in Faulty(chunk), NEW k \in DOMAIN file[i].codes PROVE The(i, k) \in E
  <2>1. i \in DOMAIN parts /\ parts[i] = PartOf(i) /\ Bearers(file[i].id, B) # {}
    BY <1>4
  <2>2. parts[i].id = file[i].id /\ parts[i].codes = file[i].codes /\ parts[i].over = file[i].over
    BY <1>5, <2>1
  <2>3. The(i, k) = Error(i, k, parts[i].id, FeatureOf(parts[i].id, B),
                          Resolved(parts[i].codes[k]),
                          parts[i].codes[k] = "resolution" /\ parts[i].over)
    BY <2>2
  <2> HIDE DEF B, The
  <2>4. i \in {j \in DOMAIN parts : Bearers(parts[j].id, B) # {}}
    BY <2>1, <2>2
  <2>5. k \in DOMAIN parts[i].codes
    BY <2>2
  <2>. QED
    BY <2>3, <2>4, <2>5 DEF PartErrors
<1>8. ASSUME NEW i \in Faulty(chunk), NEW k \in DOMAIN file[i].codes
      PROVE  /\ The(i, k).part = i /\ The(i, k).nr = k /\ The(i, k).id = file[i].id
             /\ The(i, k).at = FeatureOf(file[i].id, B)
             /\ The(i, k).type = Resolved(file[i].codes[k])
             /\ The(i, k).over \in BOOLEAN
             /\ The(i, k).over <=> Over(i, k)
             /\ The(i, k) = Error(The(i, k).part, The(i, k).nr, The(i, k).id, The(i, k).at,
                                  The(i, k).type, The(i, k).over)
  BY DEF Error
<1> HIDE DEF B, E, The
<1>9. ASSUME NEW d \in E, NEW e \in E, d.part = e.part, d.nr = e.nr PROVE d = e
  <2>1. PICK i \in Faulty(chunk) : \E k \in DOMAIN file[i].codes : d = The(i, k)
    BY <1>6
  <2>2. PICK k \in DOMAIN file[i].codes : d = The(i, k)
    BY <2>1
  <2>3. PICK j \in Faulty(chunk) : \E l \in DOMAIN file[j].codes : e = The(j, l)
    BY <1>6
  <2>4. PICK l \in DOMAIN file[j].codes : e = The(j, l)
    BY <2>3
  <2>5. i = j /\ k = l
    BY <1>8, <1>9, <2>2, <2>4
  <2>. QED
    BY <2>2, <2>4, <2>5
<1>10. ASSUME NEW i \in Sent(chunk), NEW k \in DOMAIN ErrorsOf(file[i])
       PROVE  \E e \in E : e.part = i /\ e.nr = k
  <2>1. i \in Faulty(chunk) /\ k \in DOMAIN file[i].codes
    <3>1. /\ ErrorsOf(file[i]) = [m \in DOMAIN file[i].codes |-> Resolved(file[i].codes[m])]
          /\ i \notin Faulty(chunk) => DOMAIN file[i].codes = {}
      BY SentFeatures
    <3>2. DOMAIN ErrorsOf(file[i]) = DOMAIN file[i].codes
      BY <3>1
    <3>. QED
      BY <3>1, <3>2
  <2>. QED
    BY <1>7, <1>8, <2>1
<1>11. ASSUME NEW e \in E
       PROVE  /\ e = Error(e.part, e.nr, e.id, e.at, e.type, e.over) /\ e.over \in BOOLEAN
              /\ e.part \in Sent(chunk) /\ e.nr \in DOMAIN ErrorsOf(file[e.part])
              /\ e.id = file[e.part].id /\ e.type = ErrorsOf(file[e.part])[e.nr]
              /\ e.at \in chunk /\ file[e.at].id = e.id
              /\ e.over <=> /\ file[e.part].over
                            /\ e.nr \in DOMAIN file[e.part].codes
                            /\ file[e.part].codes[e.nr] = "resolution"
  <2>1. PICK i \in Faulty(chunk) : \E k \in DOMAIN file[i].codes : e = The(i, k)
    BY <1>6
  <2>2. PICK k \in DOMAIN file[i].codes : e = The(i, k)
    BY <2>1
  <2>3. /\ e.part = i /\ e.nr = k /\ e.id = file[i].id /\ e.at = FeatureOf(file[i].id, B)
        /\ e.type = Resolved(file[i].codes[k])
    BY <1>8, <2>2
  <2>4. e.over \in BOOLEAN /\ e = Error(e.part, e.nr, e.id, e.at, e.type, e.over)
    <3> DEFINE g == The(i, k)
    <3>1. g.over \in BOOLEAN /\ g = Error(g.part, g.nr, g.id, g.at, g.type, g.over)
      BY <1>8
    <3>2. e = g
      BY <2>2
    <3> HIDE DEF g
    <3>. QED
      BY <3>1, <3>2
  <2>5. e.over <=> file[i].codes[k] = "resolution" /\ file[i].over
    BY <1>8, <2>2
  <2>6. i \in Sent(chunk)
    BY <1>1
  <2>7. ErrorsOf(file[i]) = [m \in DOMAIN file[i].codes |-> Resolved(file[i].codes[m])]
    BY <2>6, SentFeatures
  <2>8. k \in DOMAIN ErrorsOf(file[i]) /\ ErrorsOf(file[i])[k] = Resolved(file[i].codes[k])
    BY <2>7
  <2>9. e.nr \in DOMAIN ErrorsOf(file[e.part]) /\ e.type = ErrorsOf(file[e.part])[e.nr]
    BY <2>3, <2>8
  <2>10. e.at \in chunk /\ file[e.at].id = e.id
    BY <1>4, <2>3
  <2>11. e.over <=> /\ file[e.part].over
                    /\ e.nr \in DOMAIN file[e.part].codes
                    /\ file[e.part].codes[e.nr] = "resolution"
    BY <2>3, <2>5
  <2>12. e.part \in Sent(chunk) /\ e.id = file[e.part].id
    BY <2>3, <2>6
  <2>. QED
    BY <2>4, <2>9, <2>10, <2>11, <2>12
<1>12. AreErrorsOf(E, Sent(chunk), chunk)
  BY <1>9, <1>10, <1>11 DEF AreErrorsOf
<1>13. Sent(chunk) \in SUBSET (1 .. NumFeatures)
  BY DEF Sent
<1>. QED
  BY <1>12, <1>13, ErrorsRepresent DEF E, B

-----------------------------------------------------------------------------
(* The inductive invariant.                                                *)

\* The features whose errors the collector has been given, and those of them that are
\* in the chunk whose rows are to be written.
Seen == IF pc = "validate" THEN (1 .. pos) \ Sent(Chunk) ELSE 1 .. pos
Now == IF pc = "validate" THEN Chunk \ Sent(Chunk) ELSE IF pc = "write" THEN Chunk ELSE {}

\* A chunk has been cut that has no rows yet.
Pending == IF pc \in {"validate", "write"} THEN 1 ELSE 0

ShapeInv ==
  /\ FileOK
  /\ pos \in 0 .. NumFeatures
  /\ cuts \in Seq(SUBSET (1 .. NumFeatures))
  /\ pc \in {"stats", "read", "validate", "write", "done"}
  /\ rows \in Seq(SUBSET Rows) /\ Len(cuts) = Len(rows) + Pending
  /\ pc \in {"validate", "write"} => Chunk \subseteq 1 .. pos
  /\ pc = "stats" => pos = 0
  /\ verdict \in [critical : BOOLEAN, counts : [Types -> Nat], resolutionOver : BOOLEAN]

CountsInv ==
  /\ pc # "done" => Describes(col, Seen, Now, Chunk)
  /\ pc \in {"stats", "done"} => col = Cleared

OverInv ==
  pc \notin {"stats", "done"} =>
    /\ col.total = NumFeatures
    /\ col.geometriesOver <=>
         Exceeded(col.counts["smallGeometries"], NumFeatures, GeometriesLimit)
    /\ col.holesOver <=> Exceeded(col.counts["smallHoles"], NumFeatures, HolesLimit)

CollectorInv ==
  /\ ShapeInv
  /\ CountsInv
  /\ OverInv
  /\ RowsFaithful
  /\ VerdictExact

\* The file stays, and so does what is said of its features.
LEMMA FileStays ==
  ASSUME file' = file
  PROVE  /\ FileOK' <=> FileOK
         /\ \A t, S : ErrorsAt(t, S)' = ErrorsAt(t, S)
         /\ \A t, n : Total(t, n)' = Total(t, n)
         /\ \A id, S : TypesOf(id, S)' = TypesOf(id, S)
         /\ \A S : Sent(S)' = Sent(S)
<1>1. \A t, S : ErrorsAt(t, S)' = ErrorsAt(t, S)
  BY DEF ErrorsAt
<1>2. \A t, n : Total(t, n)' = Total(t, n)
  BY <1>1 DEF Total
<1>3. \A id, S : TypesOf(id, S)' = TypesOf(id, S)
  BY DEF TypesOf
<1>4. \A S : Sent(S)' = Sent(S)
  BY DEF Sent, Skipped, Refused
<1>5. FileOK' <=> FileOK
  BY DEF FileOK
<1>. QED
  BY <1>1, <1>2, <1>3, <1>4, <1>5

LEMMA DescribesStill ==
  ASSUME file' = file, NEW c, NEW seen, NEW now, NEW chunk
  PROVE  Describes(c, seen, now, chunk)' <=> Describes(c, seen, now, chunk)
BY FileStays DEF Describes, IsCollector

\* The file is a sequence.
LEMMA Length == ASSUME FileOK PROVE Len(file) = NumFeatures /\ DOMAIN file = 1 .. NumFeatures
BY LimitsOK DEF FileOK

\* No features, no errors.
LEMMA Nothing ==
  /\ \A t : ErrorsAt(t, {}) = {}
  /\ \A id : TypesOf(id, {}) = {}
<1>1. ASSUME NEW t PROVE ErrorsAt(t, {}) = {}
  BY DEF ErrorsAt
<1>2. ASSUME NEW id PROVE TypesOf(id, {}) = {}
  BY DEF TypesOf
<1>. QED
  BY <1>1, <1>2

\* Between two chunks the map of invalid features is empty: any chunk may come next.
LEMMA AnyChunk ==
  ASSUME NEW c, NEW seen, NEW chunk, Describes(c, seen, {}, chunk)
  PROVE  /\ \A id : id \notin DOMAIN c.invalid
         /\ \A other : Describes(c, seen, {}, other)
<1>1. \A id : id \notin DOMAIN c.invalid
  BY Nothing DEF Describes
<1>. QED
  BY <1>1 DEF Describes

\* A cleared collector describes no features, of a file of any length.
LEMMA ClearedDescribes ==
  ASSUME NEW n \in Nat, NEW chunk
  PROVE  Describes([Cleared EXCEPT !.total = n], {}, {}, chunk)
<1> DEFINE c == [Cleared EXCEPT !.total = n]
           none == <<>>
           no == FALSE
<1>1. c = [invalid |-> none, total |-> n, counts |-> NoErrors, geometriesOver |-> no,
           holesOver |-> no, holes |-> 0, resolutionOver |-> no]
  <2>1. Cleared = [invalid |-> none, total |-> 0, counts |-> NoErrors, geometriesOver |-> no,
                   holesOver |-> no, holes |-> 0, resolutionOver |-> no]
    BY DEF Cleared
  <2> HIDE DEF none, no
  <2>. QED
    BY <2>1
<1>2. NoErrors \in [Types -> Nat] /\ \A t \in Types : NoErrors[t] = 0
  BY DEF NoErrors
<1> HIDE DEF c
<1>3. DOMAIN c.invalid = {}
  BY <1>1
<1>4. IsCollector(c)
  BY <1>1, <1>2, <1>3 DEF IsCollector
<1>5. ASSUME NEW t \in Types
      PROVE  IsFiniteSet(ErrorsAt(t, {})) /\ c.counts[t] = Cardinality(ErrorsAt(t, {}))
  BY <1>1, <1>2, Nothing, FS_EmptySet
<1>6. ~ c.resolutionOver
  BY <1>1
<1>. QED
  BY <1>3, <1>4, <1>5, <1>6, Nothing DEF Describes, c

\* clearInvalidFeatures leaves the counts of a collector.
LEMMA WithoutFeaturesDescribes ==
  ASSUME NEW c, NEW seen, NEW now, NEW chunk, Describes(c, seen, now, chunk)
  PROVE  LET d == WithoutFeatures(c) IN
         /\ Describes(d, seen, {}, chunk)
         /\ d.counts = c.counts /\ d.total = c.total
         /\ d.geometriesOver = c.geometriesOver /\ d.holesOver = c.holesOver
<1> DEFINE d == WithoutFeatures(c)
<1>1. d = [invalid |-> <<>>, total |-> c.total, counts |-> c.counts,
           geometriesOver |-> c.geometriesOver, holesOver |-> c.holesOver,
           holes |-> c.holes, resolutionOver |-> c.resolutionOver]
  <2>1. PICK i, t, k, g, h, m, o :
          c = [invalid |-> i, total |-> t, counts |-> k, geometriesOver |-> g, holesOver |-> h,
               holes |-> m, resolutionOver |-> o]
    BY DEF Describes, IsCollector
  <2>. QED
    BY <2>1 DEF WithoutFeatures
<1> HIDE DEF d
<1>2. DOMAIN d.invalid = {}
  BY <1>1
<1>3. IsCollector(d)
  BY <1>1, <1>2 DEF Describes, IsCollector
<1>4. d.counts = c.counts /\ d.resolutionOver = c.resolutionOver
  BY <1>1
<1>5. Describes(d, seen, {}, chunk)
  BY <1>2, <1>3, <1>4, Nothing DEF Describes
<1>. QED
  BY <1>1, <1>5 DEF d

\* updateThresholdsTracking leaves the errors of a collector.
LEMMA TrackDescribes ==
  ASSUME NEW c, NEW seen, NEW now, NEW chunk, Describes(c, seen, now, chunk), NEW holes \in Nat
  PROVE  LET d == Track(c, holes) IN
         /\ Describes(d, seen, now, chunk)
         /\ d.counts = c.counts /\ d.total = c.total
         /\ d.geometriesOver <=> Exceeded(c.counts["smallGeometries"], c.total, GeometriesLimit)
         /\ d.holesOver <=> IF holes > 0 THEN Exceeded(c.counts["smallHoles"], c.total, HolesLimit)
                            ELSE c.holesOver
<1> DEFINE d == Track(c, holes)
           geometries == Exceeded(c.counts["smallGeometries"], c.total, GeometriesLimit)
           over == IF holes > 0 THEN Exceeded(c.counts["smallHoles"], c.total, HolesLimit)
                   ELSE c.holesOver
<1>1. d = [invalid |-> c.invalid, total |-> c.total, counts |-> c.counts,
           geometriesOver |-> geometries, holesOver |-> over,
           holes |-> c.holes + holes, resolutionOver |-> c.resolutionOver]
  <2>1. PICK i, t, k, g, h, m, o :
          c = [invalid |-> i, total |-> t, counts |-> k, geometriesOver |-> g, holesOver |-> h,
               holes |-> m, resolutionOver |-> o]
    BY DEF Describes, IsCollector
  <2>2. d = [c EXCEPT !.holes = c.holes + holes, !.holesOver = over,
                      !.geometriesOver = geometries]
    BY DEF Track
  <2> HIDE DEF d, geometries, over
  <2>. QED
    BY <2>1, <2>2
<1>2. geometries \in BOOLEAN /\ over \in BOOLEAN
  BY DEF Exceeded, Describes, IsCollector
<1> HIDE DEF d, geometries, over
<1>3. /\ d.invalid = c.invalid /\ d.counts = c.counts /\ d.total = c.total
      /\ d.resolutionOver = c.resolutionOver /\ d.holes = c.holes + holes
      /\ d.geometriesOver = geometries /\ d.holesOver = over
  BY <1>1
<1>4. IsCollector(d)
  BY <1>1, <1>2, <1>3 DEF Describes, IsCollector
<1>5. Describes(d, seen, now, chunk)
  BY <1>3, <1>4 DEF Describes
<1>. QED
  BY <1>3, <1>5 DEF d, geometries, over

\* Features without errors of a type leave their count.
LEMMA SameCount ==
  ASSUME NEW c, NEW d, NEW seen, NEW now, NEW here, NEW S, NEW now2, NEW chunk2,
         Describes(c, seen, now, here), Describes(d, seen \cup S, now2, chunk2),
         NEW t \in Types
  PROVE  /\ c.counts[t] \in Nat /\ d.counts[t] \in Nat /\ c.counts[t] <= d.counts[t]
         /\ ErrorsAt(t, S) = {} => d.counts[t] = c.counts[t]
<1>1. ErrorsAt(t, seen \cup S) = ErrorsAt(t, seen) \cup ErrorsAt(t, S)
  BY MoreErrors
<1>2. ErrorsAt(t, seen) \in SUBSET ErrorsAt(t, seen \cup S)
  BY <1>1
<1>3. /\ IsFiniteSet(ErrorsAt(t, seen \cup S))
      /\ d.counts[t] = Cardinality(ErrorsAt(t, seen \cup S))
      /\ c.counts[t] = Cardinality(ErrorsAt(t, seen))
  BY DEF Describes
<1>4. Cardinality(ErrorsAt(t, seen)) <= Cardinality(ErrorsAt(t, seen \cup S))
  BY <1>2, <1>3, FS_Subset
<1>5. c.counts[t] \in Nat /\ d.counts[t] \in Nat
  BY DEF Describes, IsCollector
<1>. QED
  BY <1>1, <1>3, <1>4, <1>5

\* The entries are rows of features of the chunk.
LEMMA EntriesAreRows ==
  ASSUME FileOK, NEW c, NEW seen, NEW now \in SUBSET (1 .. NumFeatures),
         NEW chunk \in SUBSET (1 .. NumFeatures), Describes(c, seen, now, chunk),
         NEW id \in DOMAIN c.invalid
  PROVE  /\ id \in Ids /\ c.invalid[id] \in Rows
         /\ c.invalid[id].id = id /\ c.invalid[id].feature \in chunk
<1>1. c.invalid[id] = [id |-> id, feature |-> c.invalid[id].feature,
                       errors |-> c.invalid[id].errors]
  BY DEF Describes, IsCollector
<1>2. c.invalid[id].feature \in chunk /\ c.invalid[id].errors = TypesOf(id, now)
  BY DEF Describes
<1>3. TypesOf(id, now) # {}
  BY DEF Describes
<1>4. TypesOf(id, now) \subseteq Types
  <2>1. ASSUME NEW t \in TypesOf(id, now) PROVE t \in Types
    <3>1. PICK i \in now : t \in Range(ErrorsOf(file[i]))
      BY DEF TypesOf
    <3>2. PICK k \in DOMAIN ErrorsOf(file[i]) : t = ErrorsOf(file[i])[k]
      BY <3>1 DEF Range
    <3>. QED
      BY <3>2, ErrorsOfTypes
  <2>. QED
    BY <2>1
<1>5. id \in Ids
  <2>1. file[c.invalid[id].feature].id = id
    BY DEF Describes
  <2>2. file[c.invalid[id].feature] \in Features
    BY <1>2 DEF FileOK
  <2>. QED
    BY <2>1, <2>2 DEF Ids
<1>6. c.invalid[id].feature \in 1 .. NumFeatures
  BY <1>2
<1>7. c.invalid[id] \in Rows
  <2> DEFINE a == c.invalid[id].feature
             b == TypesOf(id, now)
  <2>1. b \subseteq Types
    BY <1>4
  <2>3. b # {} /\ a \in 1 .. NumFeatures
    BY <1>3, <1>6
  <2>2. c.invalid[id] = [id |-> id, feature |-> a, errors |-> b]
    BY <1>1, <1>2
  <2> HIDE DEF a, b
  <2>. QED
    BY <1>5, <2>1, <2>2, <2>3 DEF Rows
<1>8. c.invalid[id].id = id
  BY <1>1
<1>. QED
  BY <1>2, <1>5, <1>7, <1>8

\* The rows R are those of a chunk.
RowsOK(R, S) ==
  /\ \A row \in R : row.feature \in S /\ file[row.feature].id = row.id
  /\ \A id \in {file[i].id : i \in S} :
       IF TypesOf(id, S) = {}
         THEN ~ \E row \in R : row.id = id
         ELSE \E feature \in S :
                {row \in R : row.id = id} =
                  {[id |-> id, feature |-> feature, errors |-> TypesOf(id, S)]}

LEMMA RowsOKStill ==
  ASSUME file' = file, NEW R, NEW S
  PROVE  RowsOK(R, S)' <=> RowsOK(R, S)
BY FileStays DEF RowsOK

\* The rows of a collector that describes a chunk are those of the chunk.
LEMMA RowsOfChunk ==
  ASSUME FileOK, NEW c, NEW seen, NEW chunk \in SUBSET (1 .. NumFeatures),
         Describes(c, seen, chunk, chunk)
  PROVE  RowsOf(c) \in SUBSET Rows /\ RowsOK(RowsOf(c), chunk)
<1>1. ASSUME NEW id \in DOMAIN c.invalid
      PROVE  /\ c.invalid[id] \in Rows /\ c.invalid[id].id = id
             /\ c.invalid[id].feature \in chunk /\ file[c.invalid[id].feature].id = id
  <2>1. c.invalid[id] \in Rows /\ c.invalid[id].id = id /\ c.invalid[id].feature \in chunk
    BY EntriesAreRows
  <2>2. file[c.invalid[id].feature].id = id
    BY DEF Describes
  <2>. QED
    BY <2>1, <2>2
<1>2. ASSUME NEW row \in RowsOf(c)
      PROVE  row.id \in DOMAIN c.invalid /\ row = c.invalid[row.id]
  <2>1. PICK id \in DOMAIN c.invalid : row = c.invalid[id]
    BY DEF RowsOf
  <2>. QED
    BY <1>1, <2>1
<1>3. /\ RowsOf(c) \in SUBSET Rows
      /\ \A row \in RowsOf(c) : row.feature \in chunk /\ file[row.feature].id = row.id
  BY <1>1, <1>2
<1>4. ASSUME NEW id, TypesOf(id, chunk) = {} PROVE ~ \E row \in RowsOf(c) : row.id = id
  <2>1. id \notin DOMAIN c.invalid
    BY <1>4 DEF Describes
  <2>. QED
    BY <1>2, <2>1
<1>5. ASSUME NEW id, TypesOf(id, chunk) # {}
      PROVE  \E feature \in chunk :
               {row \in RowsOf(c) : row.id = id} =
                 {[id |-> id, feature |-> feature, errors |-> TypesOf(id, chunk)]}
  <2>1. id \in DOMAIN c.invalid
    BY <1>5 DEF Describes
  <2>2. c.invalid[id] \in RowsOf(c) /\ c.invalid[id].id = id
    BY <1>1, <2>1 DEF RowsOf
  <2>3. {row \in RowsOf(c) : row.id = id} = {c.invalid[id]}
    BY <1>2, <2>2
  <2>4. /\ c.invalid[id] = [id |-> id, feature |-> c.invalid[id].feature,
                             errors |-> c.invalid[id].errors]
        /\ c.invalid[id].errors = TypesOf(id, chunk)
    BY <2>1 DEF Describes, IsCollector
  <2>. QED
    BY <1>1, <2>1, <2>3, <2>4
<1>. QED
  BY <1>3, <1>4, <1>5 DEF RowsOK

\* What holds of the chunk at hand.
LEMMA PendingChunk ==
  ASSUME ShapeInv, pc \in {"validate", "write"}
  PROVE  /\ Len(cuts) \in 1 .. Len(cuts) /\ Len(cuts) = Len(rows) + 1
         /\ Chunk \in SUBSET (1 .. NumFeatures) /\ Chunk \subseteq 1 .. pos
<1>1. Len(rows) \in Nat /\ Len(cuts) \in Nat /\ Len(cuts) = Len(rows) + 1
  BY DEF ShapeInv, Pending
<1>2. Len(cuts) \in DOMAIN cuts
  BY <1>1 DEF ShapeInv
<1>. QED
  BY <1>1, <1>2 DEF ShapeInv, Chunk

LEMMA InitCollectorInv == Init => CollectorInv
<1> SUFFICES ASSUME Init PROVE CollectorInv
  OBVIOUS
<1>1. pc = "stats" /\ pos = 0 /\ cuts = <<>> /\ rows = <<>> /\ col = Cleared
  BY DEF Init
<1>2. ShapeInv
  <2>1. verdict \in [critical : BOOLEAN, counts : [Types -> Nat], resolutionOver : BOOLEAN]
    BY DEF Init, Undecided, NoErrors
  <2>2. FileOK
    BY DEF Init, FileOK
  <2>3. Len(cuts) = Len(rows) + Pending
    BY <1>1 DEF Pending
  <2>. QED
    BY <1>1, <2>1, <2>2, <2>3, LimitsOK DEF ShapeInv
<1>3. CountsInv
  <2>1. Seen = {} /\ Now = {}
    BY <1>1 DEF Seen, Now
  <2>2. [Cleared EXCEPT !.total = 0] = Cleared
    <3> DEFINE none == <<>>
               no == FALSE
    <3>1. Cleared = [invalid |-> none, total |-> 0, counts |-> NoErrors, geometriesOver |-> no,
                     holesOver |-> no, holes |-> 0, resolutionOver |-> no]
      BY DEF Cleared
    <3> HIDE DEF none, no
    <3>. QED
      BY <3>1
  <2>3. Describes(col, {}, {}, Chunk)
    BY <1>1, <2>2, ClearedDescribes
  <2>. QED
    BY <1>1, <2>1, <2>3 DEF CountsInv
<1>4. OverInv /\ RowsFaithful /\ VerdictExact
  BY <1>1 DEF OverInv, RowsFaithful, VerdictExact
<1>. QED
  BY <1>2, <1>3, <1>4 DEF CollectorInv

\* The rows are faithful chunk by chunk, and what is faithful stays so.
LEMMA RowsFaithfulStays ==
  ASSUME CollectorInv, file' = file, rows' = rows,
         \A k \in DOMAIN rows : cuts'[k] = cuts[k]
  PROVE  RowsFaithful'
<1>1. \A k \in DOMAIN rows : RowsOK(rows[k], cuts[k])
  BY DEF CollectorInv, RowsFaithful, RowsOK
<1>2. \A k \in DOMAIN rows' : RowsOK(rows'[k], cuts'[k])
  BY <1>1
<1>3. (\A k \in DOMAIN rows : RowsOK(rows[k], cuts[k]))'
  BY <1>2, RowsOKStill
<1>. QED
  BY <1>3 DEF RowsFaithful, RowsOK

\* No count is beyond a threshold before there is one.
LEMMA NoneExceeded ==
  ASSUME NEW n \in Nat \ {0}, NEW limit \in Nat
  PROVE  ~ Exceeded(0, n, limit)
<1>1. ~ Beyond(0, n, limit)
  <2>1. n * (2 * limit + 1) > 0
    BY Times
  <2>. QED
    BY <2>1 DEF Beyond
<1>. QED
  BY <1>1, ExceededIsBeyond

LEMMA SetStatsStep == CollectorInv /\ SetStats => CollectorInv'
<1> SUFFICES ASSUME CollectorInv, SetStats PROVE CollectorInv'
  OBVIOUS
<1>1. /\ pc = "stats" /\ pc' = "read" /\ file' = file /\ pos' = pos /\ cuts' = cuts
      /\ rows' = rows /\ verdict' = verdict /\ pos = 0 /\ col = Cleared
  BY DEF SetStats, CollectorInv, ShapeInv, CountsInv
<1>2. col' = [Cleared EXCEPT !.total = NumFeatures]
  BY <1>1, Length DEF SetStats, CollectorInv, ShapeInv
<1>3. ShapeInv'
  <2>1. Pending' = Pending
    BY <1>1 DEF Pending
  <2>. QED
    BY <1>1, <2>1, FileStays DEF CollectorInv, ShapeInv
<1>4. CountsInv'
  <2>1. Seen' = {} /\ Now' = {}
    BY <1>1 DEF Seen, Now
  <2>2. Describes(col', {}, {}, Chunk')
    BY <1>2, ClearedDescribes, LimitsOK
  <2>3. Describes(col', Seen', Now', Chunk')
    BY <2>1, <2>2
  <2>4. Describes(col, Seen, Now, Chunk)'
    BY <1>1, <2>3, DescribesStill
  <2>. QED
    BY <1>1, <2>4 DEF CountsInv
<1>5. OverInv'
  <2>1. /\ col'.total = NumFeatures /\ ~ col'.geometriesOver /\ ~ col'.holesOver
        /\ col'.counts = NoErrors
    BY <1>2 DEF Cleared
  <2>2. col'.counts["smallGeometries"] = 0 /\ col'.counts["smallHoles"] = 0
    BY <2>1 DEF NoErrors, Types
  <2>. QED
    BY <1>1, <2>1, <2>2, NoneExceeded, LimitsOK DEF OverInv
<1>6. RowsFaithful' /\ VerdictExact'
  BY <1>1, RowsFaithfulStays DEF VerdictExact
<1>. QED
  BY <1>3, <1>4, <1>5, <1>6 DEF CollectorInv

\* The errors of the reader and of parseChunk are neither small geometries nor small holes.
LEMMA NoSmallErrors ==
  ASSUME FileOK, NEW chunk \in SUBSET (1 .. NumFeatures),
         NEW t \in {"smallGeometries", "smallHoles"}
  PROVE  /\ ErrorsAt(t, Skipped(chunk)) = {} /\ ErrorsAt(t, Refused(chunk)) = {}
<1>1. ASSUME NEW i \in Skipped(chunk), NEW k \in DOMAIN ErrorsOf(file[i])
      PROVE  ErrorsOf(file[i])[k] # t
  BY DEF Skipped, ErrorsOf
<1>2. ASSUME NEW i \in Refused(chunk), NEW k \in DOMAIN ErrorsOf(file[i])
      PROVE  ErrorsOf(file[i])[k] # t
  BY DEF Refused, Skipped, ErrorsOf
<1>3. ErrorsAt(t, Skipped(chunk)) = {}
  BY <1>1 DEF ErrorsAt
<1>4. ErrorsAt(t, Refused(chunk)) = {}
  BY <1>2 DEF ErrorsAt
<1>. QED
  BY <1>3, <1>4

\* What the collector is given of a new chunk before polygon parts manager is called.
LEMMA ReadDescribes ==
  ASSUME FileOK, NEW c, NEW n \in Nat, NEW chunk \in SUBSET (1 .. NumFeatures),
         chunk \cap (1 .. n) = {}, NEW here, Describes(c, 1 .. n, {}, here)
  PROVE  LET d == AddErrors(AddErrors(c, VerticesErrors(Skipped(chunk))),
                            MetadataErrors(Refused(chunk))) IN
         /\ Describes(d, (1 .. n) \cup (chunk \ Sent(chunk)), chunk \ Sent(chunk), chunk)
         /\ d.total = c.total
         /\ d.geometriesOver = c.geometriesOver /\ d.holesOver = c.holesOver
         /\ \A t \in {"smallGeometries", "smallHoles"} : d.counts[t] = c.counts[t]
<1> DEFINE S == Skipped(chunk)
           R == Refused(chunk)
           b == AddErrors(c, VerticesErrors(S))
           d == AddErrors(b, MetadataErrors(R))
<1>1. /\ S \in SUBSET chunk /\ R \in SUBSET chunk /\ R \cap S = {}
      /\ chunk \ Sent(chunk) = S \cup R
      /\ \A i \in S : file[i].big
      /\ \A i \in R : ~ file[i].big /\ file[i].bad
  BY DEF Sent, Skipped, Refused
<1>2. Represents(VerticesErrors(S), S, chunk) /\ Represents(MetadataErrors(R), R, chunk)
  BY <1>1, VerticesRepresents, MetadataRepresents
<1>3. Describes(c, 1 .. n, {}, chunk)
  BY AnyChunk
<1>4. /\ \A t \in {"smallGeometries", "smallHoles"} :
           ErrorsAt(t, S) = {} /\ ErrorsAt(t, R) = {}
      /\ {"smallGeometries", "smallHoles"} \subseteq Types
  BY NoSmallErrors DEF Types
<1> HIDE DEF S, R
<1>5. /\ Describes(b, (1 .. n) \cup S, {} \cup S, chunk)
      /\ b.total = c.total
      /\ b.geometriesOver = c.geometriesOver /\ b.holesOver = c.holesOver
  <2>1. S \cap (1 .. n) = {}
    BY <1>1
  <2> DEFINE seen == 1 .. n
             E == VerticesErrors(S)
  <2>2. Describes(c, seen, {}, chunk) /\ Represents(E, S, chunk) /\ S \cap seen = {}
    BY <1>2, <1>3, <2>1
  <2> HIDE DEF seen, E
  <2>3. /\ Describes(AddErrors(c, E), seen \cup S, {} \cup S, chunk)
        /\ AddErrors(c, E).total = c.total
        /\ AddErrors(c, E).geometriesOver = c.geometriesOver
        /\ AddErrors(c, E).holesOver = c.holesOver
    BY <2>2, DescribesMore
  <2>. QED
    BY <2>3 DEF seen, E
<1> HIDE DEF b
<1>6. /\ Describes(d, ((1 .. n) \cup S) \cup R, ({} \cup S) \cup R, chunk)
      /\ d.total = b.total
      /\ d.geometriesOver = b.geometriesOver /\ d.holesOver = b.holesOver
  <2>1. R \cap ((1 .. n) \cup S) = {}
    BY <1>1
  <2>. QED
    BY <1>2, <1>5, <2>1, DescribesMore
<1> HIDE DEF d
<1>7. ASSUME NEW t \in {"smallGeometries", "smallHoles"} PROVE d.counts[t] = c.counts[t]
  <2>1. b.counts[t] = c.counts[t]
    BY <1>3, <1>4, <1>5, SameCount
  <2>2. d.counts[t] = b.counts[t]
    BY <1>4, <1>5, <1>6, SameCount
  <2>. QED
    BY <2>1, <2>2
<1>8. Describes(d, (1 .. n) \cup (chunk \ Sent(chunk)), chunk \ Sent(chunk), chunk)
  <2>1. /\ ((1 .. n) \cup S) \cup R = (1 .. n) \cup (chunk \ Sent(chunk))
        /\ ({} \cup S) \cup R = chunk \ Sent(chunk)
    BY <1>1
  <2>. QED
    BY <1>6, <2>1
<1>. QED
  BY <1>5, <1>6, <1>7, <1>8 DEF S, R, b, d

LEMMA ReadChunkStep == CollectorInv /\ ReadChunk => CollectorInv'
<1> SUFFICES ASSUME CollectorInv, ReadChunk PROVE CollectorInv'
  OBVIOUS
<1>1. /\ pc = "read" /\ file' = file /\ rows' = rows /\ verdict' = verdict
      /\ pos \in 0 .. NumFeatures /\ FileOK /\ Len(file) = NumFeatures
      /\ cuts \in Seq(SUBSET (1 .. NumFeatures))
      /\ rows \in Seq(SUBSET Rows) /\ Len(cuts) = Len(rows)
      /\ Describes(col, 1 .. pos, {}, Chunk)
  BY Length DEF ReadChunk, CollectorInv, ShapeInv, CountsInv, Seen, Now, Pending
<1>2. PICK n \in 1 .. MaxChunk :
        /\ pos + n <= Len(file) /\ pos' = pos + n
        /\ cuts' = Append(cuts, pos + 1 .. pos + n)
        /\ col' = AddErrors(AddErrors(col, VerticesErrors(Skipped(pos + 1 .. pos + n))),
                            MetadataErrors(Refused(pos + 1 .. pos + n)))
        /\ pc' = IF Sent(pos + 1 .. pos + n) = {} THEN "write" ELSE "validate"
  BY DEF ReadChunk
<1> DEFINE chunk == pos + 1 .. pos + n
<1>3. /\ n \in Nat \ {0} /\ pos \in Nat /\ pos' \in 0 .. NumFeatures
      /\ chunk \in SUBSET (1 .. NumFeatures) /\ chunk \cap (1 .. pos) = {}
      /\ 1 .. pos' = (1 .. pos) \cup chunk
  BY <1>1, <1>2, LimitsOK
<1>4. /\ col' = AddErrors(AddErrors(col, VerticesErrors(Skipped(chunk))),
                          MetadataErrors(Refused(chunk)))
      /\ pc' = IF Sent(chunk) = {} THEN "write" ELSE "validate"
      /\ cuts' = Append(cuts, chunk)
  BY <1>2
<1> HIDE DEF chunk
<1>5. /\ cuts' \in Seq(SUBSET (1 .. NumFeatures)) /\ Len(cuts') = Len(cuts) + 1
      /\ Chunk' = chunk
      /\ \A k \in DOMAIN rows : cuts'[k] = cuts[k]
  BY <1>1, <1>3, <1>4 DEF Chunk
<1>6. Sent(chunk) \subseteq chunk
  BY DEF Sent
<1>7. ShapeInv'
  <2>1. Pending' = 1
    BY <1>4 DEF Pending
  <2>2. Chunk' \subseteq 1 .. pos'
    BY <1>3, <1>5
  <2>3. pc' \in {"validate", "write"}
    BY <1>4
  <2>. QED
    BY <1>1, <1>3, <1>5, <2>1, <2>2, <2>3, FileStays DEF CollectorInv, ShapeInv
<1>8. /\ Describes(col', (1 .. pos) \cup (chunk \ Sent(chunk)), chunk \ Sent(chunk), chunk)
      /\ col'.total = col.total
      /\ col'.geometriesOver = col.geometriesOver /\ col'.holesOver = col.holesOver
      /\ \A t \in {"smallGeometries", "smallHoles"} : col'.counts[t] = col.counts[t]
  BY <1>1, <1>3, <1>4, ReadDescribes
<1>9. CountsInv'
  <2>1. Sent(Chunk)' = Sent(chunk)
    BY <1>1, <1>5 DEF Sent, Skipped, Refused
  <2>2. /\ Seen' = (1 .. pos) \cup (chunk \ Sent(chunk))
        /\ Now' = chunk \ Sent(chunk)
    <3>1. CASE Sent(chunk) = {}
      BY <1>3, <1>4, <1>5, <3>1 DEF Seen, Now
    <3>2. CASE Sent(chunk) # {}
      <4>1. pc' = "validate"
        BY <1>4, <3>2
      <4>2. Seen' = (1 .. pos') \ Sent(chunk) /\ Now' = chunk \ Sent(chunk)
        BY <1>5, <2>1, <4>1 DEF Seen, Now
      <4>. QED
        BY <1>3, <1>6, <4>2
    <3>. QED
      BY <3>1, <3>2
  <2>3. Describes(col', Seen', Now', Chunk')
    BY <1>5, <1>8, <2>2
  <2>4. Describes(col, Seen, Now, Chunk)'
    BY <1>1, <2>3, DescribesStill
  <2>5. pc' \notin {"stats", "done"}
    BY <1>4
  <2>. QED
    BY <2>4, <2>5 DEF CountsInv
<1>10. OverInv'
  BY <1>1, <1>8 DEF CollectorInv, OverInv
<1>11. RowsFaithful'
  BY <1>1, <1>5, RowsFaithfulStays
<1>12. VerdictExact'
  BY <1>4 DEF VerdictExact
<1>. QED
  BY <1>7, <1>9, <1>10, <1>11, <1>12 DEF CollectorInv

\* An answer without small holes brings no error of that type.
LEMMA NoHoles ==
  ASSUME FileOK, NEW chunk \in SUBSET (1 .. NumFeatures), NEW parts \in Answers(chunk),
         Holed(parts) = {}
  PROVE  ErrorsAt("smallHoles", Sent(chunk)) = {}
<1>1. ASSUME NEW i \in Sent(chunk), NEW k \in DOMAIN ErrorsOf(file[i]),
             ErrorsOf(file[i])[k] = "smallHoles"
      PROVE  FALSE
  <2>1. /\ ErrorsOf(file[i]) = [m \in DOMAIN file[i].codes |-> Resolved(file[i].codes[m])]
        /\ i \notin Faulty(chunk) => DOMAIN file[i].codes = {}
    BY SentFeatures
  <2>2. k \in DOMAIN file[i].codes /\ Resolved(file[i].codes[k]) = "smallHoles"
    BY <1>1, <2>1
  <2>3. file[i].codes[k] = "smallHoles"
    BY <2>2 DEF Resolved
  <2>4. i \in Faulty(chunk)
    BY <2>1, <2>2
  <2>5. i \in DOMAIN parts /\ parts[i] = PartOf(i)
    BY <2>4 DEF Answers
  <2>6. parts[i].codes = file[i].codes
    BY <2>5 DEF PartOf
  <2>7. "smallHoles" \in Range(parts[i].codes)
    BY <2>2, <2>3, <2>6 DEF Range
  <2>. QED
    BY <1>1, <2>5, <2>7 DEF Holed
<1>. QED
  BY <1>1 DEF ErrorsAt

\* What becomes of the collector once polygon parts manager has answered.
AfterAnswer(c, parts, chunk) ==
  IF DOMAIN parts = {} THEN c
  ELSE Track(AddErrors(c, PartErrors(parts, chunk \ Skipped(chunk))), Cardinality(Holed(parts)))

LEMMA ValidatedDescribes ==
  ASSUME FileOK, NEW c, NEW seen, NEW chunk \in SUBSET (1 .. NumFeatures),
         NEW parts \in Answers(chunk), seen \cap Sent(chunk) = {},
         Describes(c, seen, chunk \ Sent(chunk), chunk),
         NEW r,
         r = AfterAnswer(c, parts, chunk)
  PROVE  /\ Describes(r, seen \cup Sent(chunk), chunk, chunk)
         /\ r.total = c.total
         /\ \/ r = c
            \/ /\ r.geometriesOver <=>
                    Exceeded(r.counts["smallGeometries"], c.total, GeometriesLimit)
               /\ \/ r.holesOver <=>
                       Exceeded(r.counts["smallHoles"], c.total, HolesLimit)
                  \/ /\ r.holesOver = c.holesOver
                     /\ r.counts["smallHoles"] = c.counts["smallHoles"]
<1> DEFINE S == Sent(chunk)
           E == PartErrors(parts, chunk \ Skipped(chunk))
           b == AddErrors(c, E)
           holes == Cardinality(Holed(parts))
<1>1. (chunk \ S) \cup S = chunk
  BY DEF Sent
<1>2. ASSUME DOMAIN parts = {} PROVE Describes(c, seen \cup S, chunk, chunk)
  <2>1. Faulty(chunk) = {}
    BY <1>2 DEF Answers
  <2>2. ASSUME NEW i \in S PROVE DOMAIN ErrorsOf(file[i]) = {} /\ Range(file[i].codes) = {}
    <3>1. /\ DOMAIN file[i].codes = {}
          /\ ErrorsOf(file[i]) = [k \in DOMAIN file[i].codes |-> Resolved(file[i].codes[k])]
      BY <2>1, SentFeatures
    <3>. QED
      BY <3>1 DEF Range
  <2> HIDE DEF S
  <2>3. Describes(c, seen \cup S, (chunk \ S) \cup S, chunk)
    BY <2>2, DescribesQuiet DEF S
  <2>. QED
    BY <1>1, <2>3
<1>3. Represents(E, S, chunk)
  BY AnswerRepresents
<1>4. holes \in Nat /\ (holes > 0 \/ Holed(parts) = {})
  <2>1. IsFiniteSet(Holed(parts))
    <3>1. Holed(parts) \subseteq 1 .. NumFeatures + 1
      <4>1. \A i \in DOMAIN parts : i \in 1 .. NumFeatures + 1
        <5>1. \A i \in DOMAIN parts : i \in Faulty(chunk) \/ i = NumFeatures + 1
          BY DEF Answers
        <5>2. \A i \in Faulty(chunk) : i \in chunk
          BY DEF Faulty, Sent
        <5>3. NumFeatures \in Nat /\ 1 .. NumFeatures \subseteq 1 .. NumFeatures + 1
          BY LimitsOK
        <5>4. NumFeatures + 1 \in 1 .. NumFeatures + 1
          BY <5>3
        <5>5. \A i \in chunk : i \in 1 .. NumFeatures + 1
          BY <5>3
        <5>. QED
          BY <5>1, <5>2, <5>4, <5>5
      <4>. QED
        BY <4>1 DEF Holed
    <3>2. IsFiniteSet(1 .. NumFeatures + 1)
      BY FS_Interval, LimitsOK
    <3>. QED
      BY <3>1, <3>2, FS_Subset
  <2>. QED
    BY <2>1, FS_CardinalityType, FS_EmptySet
<1> HIDE DEF S, E
<1>5. /\ Describes(b, seen \cup S, (chunk \ S) \cup S, chunk)
      /\ b.total = c.total
      /\ b.geometriesOver = c.geometriesOver /\ b.holesOver = c.holesOver
  <2>1. Describes(c, seen, chunk \ S, chunk) /\ S \cap seen = {}
    BY DEF S
  <2>. QED
    BY <1>3, <2>1, DescribesMore
<1> DEFINE d == Track(b, holes)
<1> HIDE DEF b, holes
<1>6. /\ Describes(d, seen \cup S, chunk, chunk)
      /\ d.counts = b.counts /\ d.total = b.total
      /\ d.geometriesOver <=> Exceeded(b.counts["smallGeometries"], b.total, GeometriesLimit)
      /\ d.holesOver <=> IF holes > 0 THEN Exceeded(b.counts["smallHoles"], b.total, HolesLimit)
                         ELSE b.holesOver
  <2>1. Describes(b, seen \cup S, chunk, chunk)
    BY <1>1, <1>5
  <2>. QED
    BY <1>4, <2>1, TrackDescribes
<1>7. ASSUME Holed(parts) = {} PROVE b.counts["smallHoles"] = c.counts["smallHoles"]
  <2>1. ErrorsAt("smallHoles", S) = {} /\ "smallHoles" \in Types
    BY <1>7, NoHoles DEF S, Types
  <2>2. Describes(c, seen, chunk \ S, chunk)
    BY DEF S
  <2>. QED
    BY <1>5, <2>1, <2>2, SameCount
<1> HIDE DEF d
<1>8. /\ d.holesOver \in BOOLEAN /\ b.holesOver \in BOOLEAN
  BY <1>5, <1>6 DEF Describes, IsCollector
<1>9. /\ d.total = c.total
      /\ d.geometriesOver <=>
           Exceeded(d.counts["smallGeometries"], c.total, GeometriesLimit)
      /\ \/ d.holesOver <=> Exceeded(d.counts["smallHoles"], c.total, HolesLimit)
         \/ /\ d.holesOver = c.holesOver
            /\ d.counts["smallHoles"] = c.counts["smallHoles"]
  <2>1. CASE holes > 0
    BY <1>5, <1>6, <2>1
  <2>2. CASE ~ (holes > 0)
    <3>1. d.holesOver = b.holesOver
      BY <1>6, <1>8, <2>2
    <3>2. d.counts["smallHoles"] = c.counts["smallHoles"]
      BY <1>4, <1>6, <1>7, <2>2
    <3>. QED
      BY <1>5, <1>6, <3>1, <3>2
  <2>. QED
    BY <2>1, <2>2
<1>10. CASE DOMAIN parts = {}
  BY <1>2, <1>10 DEF S, AfterAnswer
<1>11. CASE DOMAIN parts # {}
  <2>1. r = d
    BY <1>11 DEF E, b, holes, d, AfterAnswer
  <2>. QED
    BY <1>6, <1>9, <2>1 DEF S
<1>. QED
  BY <1>10, <1>11

LEMMA ChunkValidatedStep == CollectorInv /\ ChunkValidated => CollectorInv'
<1> SUFFICES ASSUME CollectorInv, ChunkValidated PROVE CollectorInv'
  OBVIOUS
<1>1. /\ pc = "validate" /\ pc' = "write" /\ file' = file /\ rows' = rows /\ verdict' = verdict
      /\ pos' = pos /\ cuts' = cuts /\ FileOK /\ Chunk' = Chunk
      /\ Chunk \in SUBSET (1 .. NumFeatures) /\ Chunk \subseteq 1 .. pos
      /\ Describes(col, (1 .. pos) \ Sent(Chunk), Chunk \ Sent(Chunk), Chunk)
  BY PendingChunk DEF ChunkValidated, CollectorInv, ShapeInv, CountsInv, Seen, Now, Chunk
<1>2. PICK parts \in Answers(Chunk) :
        col' = IF DOMAIN parts = {} THEN col
               ELSE Track(AddErrors(col, PartErrors(parts, Chunk \ Skipped(Chunk))),
                          Cardinality(Holed(parts)))
  BY DEF ChunkValidated
<1>3. Sent(Chunk) \subseteq Chunk
  BY DEF Sent
<1>4. /\ Describes(col', ((1 .. pos) \ Sent(Chunk)) \cup Sent(Chunk), Chunk, Chunk)
      /\ col'.total = col.total
      /\ \/ col' = col
         \/ /\ col'.geometriesOver <=>
                 Exceeded(col'.counts["smallGeometries"], col.total, GeometriesLimit)
            /\ \/ col'.holesOver <=>
                    Exceeded(col'.counts["smallHoles"], col.total, HolesLimit)
               \/ /\ col'.holesOver = col.holesOver
                  /\ col'.counts["smallHoles"] = col.counts["smallHoles"]
  <2> DEFINE seen == (1 .. pos) \ Sent(Chunk)
             chunk == Chunk
             c == col
             r == col'
  <2>1. seen \cap Sent(chunk) = {}
    OBVIOUS
  <2>2. /\ Describes(c, seen, chunk \ Sent(chunk), chunk)
        /\ chunk \in SUBSET (1 .. NumFeatures) /\ FileOK /\ parts \in Answers(chunk)
    BY <1>1
  <2>4. r = AfterAnswer(c, parts, chunk)
    BY <1>2 DEF AfterAnswer
  <2> HIDE DEF seen, chunk, c, r
  <2>3. /\ Describes(r, seen \cup Sent(chunk), chunk, chunk)
        /\ r.total = c.total
        /\ \/ r = c
           \/ /\ r.geometriesOver <=>
                   Exceeded(r.counts["smallGeometries"], c.total, GeometriesLimit)
              /\ \/ r.holesOver <=>
                      Exceeded(r.counts["smallHoles"], c.total, HolesLimit)
                 \/ /\ r.holesOver = c.holesOver
                    /\ r.counts["smallHoles"] = c.counts["smallHoles"]
    BY <2>1, <2>2, <2>4, ValidatedDescribes
  <2>. QED
    BY <2>3 DEF seen, chunk, c, r
<1>5. ShapeInv'
  <2>1. Pending' = Pending
    BY <1>1 DEF Pending
  <2>. QED
    BY <1>1, <2>1, FileStays DEF CollectorInv, ShapeInv
<1>6. CountsInv'
  <2>1. Seen' = ((1 .. pos) \ Sent(Chunk)) \cup Sent(Chunk)
    BY <1>1, <1>3 DEF Seen
  <2>2. Now' = Chunk
    BY <1>1 DEF Now
  <2>3. Describes(col', Seen', Now', Chunk')
    BY <1>1, <1>4, <2>1, <2>2
  <2>4. Describes(col, Seen, Now, Chunk)'
    BY <1>1, <2>3, DescribesStill
  <2>. QED
    BY <1>1, <2>4 DEF CountsInv
<1>7. OverInv'
  <2>1. /\ col.total = NumFeatures
        /\ col.geometriesOver <=>
             Exceeded(col.counts["smallGeometries"], NumFeatures, GeometriesLimit)
        /\ col.holesOver <=> Exceeded(col.counts["smallHoles"], NumFeatures, HolesLimit)
    BY <1>1 DEF CollectorInv, OverInv
  <2>2. /\ col'.total = NumFeatures
        /\ col'.geometriesOver <=>
             Exceeded(col'.counts["smallGeometries"], NumFeatures, GeometriesLimit)
    BY <1>4, <2>1
  <2>3. col'.holesOver <=> Exceeded(col'.counts["smallHoles"], NumFeatures, HolesLimit)
    BY <1>4, <2>1
  <2>. QED
    BY <2>2, <2>3 DEF OverInv
<1>8. RowsFaithful' /\ VerdictExact'
  BY <1>1, RowsFaithfulStays DEF VerdictExact
<1>. QED
  BY <1>5, <1>6, <1>7, <1>8 DEF CollectorInv

LEMMA ChunkWrittenStep == CollectorInv /\ ChunkWritten => CollectorInv'
<1> SUFFICES ASSUME CollectorInv, ChunkWritten PROVE CollectorInv'
  OBVIOUS
<1>1. /\ pc = "write" /\ pc' = "read" /\ file' = file /\ verdict' = verdict
      /\ pos' = pos /\ cuts' = cuts /\ FileOK /\ Chunk' = Chunk
      /\ rows' = Append(rows, RowsOf(col)) /\ col' = WithoutFeatures(col)
      /\ Chunk \in SUBSET (1 .. NumFeatures)
      /\ rows \in Seq(SUBSET Rows) /\ Len(cuts) = Len(rows) + 1
      /\ Describes(col, 1 .. pos, Chunk, Chunk)
  BY PendingChunk DEF ChunkWritten, CollectorInv, ShapeInv, CountsInv, Seen, Now, Chunk
<1>2. RowsOf(col) \in SUBSET Rows /\ RowsOK(RowsOf(col), Chunk)
  BY <1>1, RowsOfChunk
<1>3. /\ Describes(col', 1 .. pos, {}, Chunk)
      /\ col'.counts = col.counts /\ col'.total = col.total
      /\ col'.geometriesOver = col.geometriesOver /\ col'.holesOver = col.holesOver
  BY <1>1, WithoutFeaturesDescribes
<1>4. ShapeInv'
  <2>1. rows' \in Seq(SUBSET Rows) /\ Len(rows') = Len(rows) + 1 /\ Pending' = 0
    BY <1>1, <1>2 DEF Pending
  <2>. QED
    BY <1>1, <2>1, FileStays DEF CollectorInv, ShapeInv
<1>5. CountsInv'
  <2>1. Seen' = 1 .. pos /\ Now' = {}
    BY <1>1 DEF Seen, Now
  <2>2. Describes(col', Seen', Now', Chunk')
    BY <1>1, <1>3, <2>1
  <2>3. Describes(col, Seen, Now, Chunk)'
    BY <1>1, <2>2, DescribesStill
  <2>. QED
    BY <1>1, <2>3 DEF CountsInv
<1>6. OverInv'
  BY <1>1, <1>3 DEF CollectorInv, OverInv
<1>7. RowsFaithful'
  <2>1. \A k \in DOMAIN rows : RowsOK(rows[k], cuts[k])
    BY DEF CollectorInv, RowsFaithful, RowsOK
  <2>2. ASSUME NEW k \in DOMAIN rows' PROVE RowsOK(rows'[k], cuts'[k])
    <3>1. CASE k = Len(rows) + 1
      <4>1. rows'[k] = RowsOf(col) /\ cuts'[k] = Chunk
        BY <1>1, <3>1 DEF Chunk
      <4>. QED
        BY <1>2, <4>1
    <3>2. CASE k # Len(rows) + 1
      <4>1. k \in DOMAIN rows /\ rows'[k] = rows[k] /\ cuts'[k] = cuts[k]
        BY <1>1, <3>2
      <4>. QED
        BY <2>1, <4>1
    <3>. QED
      BY <3>1, <3>2
  <2>3. (\A k \in DOMAIN rows : RowsOK(rows[k], cuts[k]))'
    BY <1>1, <2>2, RowsOKStill
  <2>. QED
    BY <2>3 DEF RowsFaithful, RowsOK
<1>8. VerdictExact'
  BY <1>1 DEF VerdictExact
<1>. QED
  BY <1>4, <1>5, <1>6, <1>7, <1>8 DEF CollectorInv

\* The verdict after the last chunk is that of the whole file.
LEMMA WholeFile ==
  ASSUME CollectorInv, Judge
  PROVE  /\ \A t \in Types : col.counts[t] = Total(t, Len(file)) /\ Total(t, Len(file)) \in Nat
         /\ col.resolutionOver <=>
              \E i \in DOMAIN file : file[i].over /\ "resolution" \in Range(file[i].codes)
         /\ HasCritical(col) <=>
              \/ \E t \in Types \ {"smallGeometries", "smallHoles"} : Total(t, Len(file)) > 0
              \/ Beyond(Total("smallGeometries", Len(file)), Len(file), GeometriesLimit)
              \/ Beyond(Total("smallHoles", Len(file)), Len(file), HolesLimit)
<1>1. /\ pc = "read" /\ pos = Len(file) /\ Len(file) = NumFeatures
      /\ DOMAIN file = 1 .. NumFeatures
      /\ Describes(col, 1 .. pos, {}, Chunk)
  BY Length DEF Judge, CollectorInv, ShapeInv, CountsInv, Seen, Now
<1>2. ASSUME NEW t \in Types
      PROVE  col.counts[t] = Total(t, Len(file)) /\ Total(t, Len(file)) \in Nat
  <2>1. col.counts[t] = Cardinality(ErrorsAt(t, 1 .. pos)) /\ col.counts[t] \in Nat
    BY <1>1 DEF Describes, IsCollector
  <2>. QED
    BY <1>1, <2>1 DEF Total
<1>3. col.resolutionOver <=>
        \E i \in DOMAIN file : file[i].over /\ "resolution" \in Range(file[i].codes)
  BY <1>1 DEF Describes
<1>4. /\ "smallGeometries" \in Types /\ "smallHoles" \in Types
      /\ Len(file) \in Nat \ {0}
  BY <1>1, LimitsOK DEF Types
<1>5. /\ col.geometriesOver <=>
           Beyond(Total("smallGeometries", Len(file)), Len(file), GeometriesLimit)
      /\ col.holesOver <=> Beyond(Total("smallHoles", Len(file)), Len(file), HolesLimit)
  <2>1. /\ col.geometriesOver <=>
             Exceeded(Total("smallGeometries", Len(file)), Len(file), GeometriesLimit)
        /\ col.holesOver <=> Exceeded(Total("smallHoles", Len(file)), Len(file), HolesLimit)
    BY <1>1, <1>2, <1>4 DEF CollectorInv, OverInv
  <2>. QED
    BY <1>2, <1>4, <2>1, ExceededIsBeyond, LimitsOK
<1>6. HasCritical(col) <=>
        \/ \E t \in Types \ {"smallGeometries", "smallHoles"} : Total(t, Len(file)) > 0
        \/ Beyond(Total("smallGeometries", Len(file)), Len(file), GeometriesLimit)
        \/ Beyond(Total("smallHoles", Len(file)), Len(file), HolesLimit)
  BY <1>2, <1>5 DEF HasCritical
<1>. QED
  BY <1>2, <1>3, <1>6

LEMMA JudgeStep == CollectorInv /\ Judge => CollectorInv'
<1> SUFFICES ASSUME CollectorInv, Judge PROVE CollectorInv'
  OBVIOUS
<1>1. /\ pc = "read" /\ pc' = "done" /\ file' = file /\ rows' = rows
      /\ pos' = pos /\ cuts' = cuts /\ col' = Cleared
      /\ verdict' = [critical |-> HasCritical(col), counts |-> col.counts,
                     resolutionOver |-> col.resolutionOver]
      /\ Describes(col, 1 .. pos, {}, Chunk)
  BY DEF Judge, CollectorInv, CountsInv, Seen, Now
<1>2. ShapeInv'
  <2>1. HasCritical(col) \in BOOLEAN
    BY <1>1 DEF HasCritical, Describes, IsCollector
  <2>2. /\ verdict' \in [critical : BOOLEAN, counts : [Types -> Nat], resolutionOver : BOOLEAN]
        /\ Pending' = Pending
    BY <1>1, <2>1 DEF Describes, IsCollector, Pending
  <2>. QED
    BY <1>1, <2>2, FileStays DEF CollectorInv, ShapeInv
<1>3. CountsInv' /\ OverInv'
  BY <1>1 DEF CountsInv, OverInv
<1>4. RowsFaithful'
  BY <1>1, RowsFaithfulStays
<1>5. VerdictExact'
  <2>1. /\ Len(file)' = Len(file) /\ \A t, n : Total(t, n)' = Total(t, n)
    BY <1>1, FileStays
  <2>2. /\ verdict'.critical <=> HasCritical(col)
        /\ verdict'.counts = col.counts
        /\ verdict'.resolutionOver <=> col.resolutionOver
    BY <1>1
  <2>. QED
    BY <1>1, <2>1, <2>2, WholeFile DEF VerdictExact
<1>. QED
  BY <1>2, <1>3, <1>4, <1>5 DEF CollectorInv

LEMMA StutterStep == CollectorInv /\ UNCHANGED vars => CollectorInv'
<1> SUFFICES ASSUME CollectorInv, UNCHANGED vars PROVE CollectorInv'
  OBVIOUS
<1>1. /\ file' = file /\ pos' = pos /\ cuts' = cuts /\ pc' = pc /\ col' = col
      /\ rows' = rows /\ verdict' = verdict
  BY DEF vars
<1>2. Seen' = Seen /\ Now' = Now /\ Chunk' = Chunk /\ Pending' = Pending
  BY <1>1 DEF Seen, Now, Chunk, Pending, Sent, Skipped, Refused
<1>3. ShapeInv'
  BY <1>1, <1>2, FileStays DEF CollectorInv, ShapeInv
<1>4. CountsInv'
  <2>1. pc # "done" => Describes(col', Seen', Now', Chunk')
    BY <1>1, <1>2 DEF CollectorInv, CountsInv
  <2>2. pc # "done" => Describes(col, Seen, Now, Chunk)'
    BY <1>1, <2>1, DescribesStill
  <2>. QED
    BY <1>1, <2>2 DEF CollectorInv, CountsInv
<1>5. OverInv' /\ RowsFaithful'
  BY <1>1, RowsFaithfulStays DEF CollectorInv, OverInv
<1>6. VerdictExact'
  BY <1>1, FileStays DEF CollectorInv, VerdictExact
<1>. QED
  BY <1>3, <1>4, <1>5, <1>6 DEF CollectorInv

-----------------------------------------------------------------------------
(* The theorems.                                                           *)

\* The counts, the verdict and the rows follow the file in every reachable state.
LEMMA CollectorInvariant == Spec => []CollectorInv
<1>1. CollectorInv /\ [Next]_vars => CollectorInv'
  BY SetStatsStep, ReadChunkStep, ChunkValidatedStep, ChunkWrittenStep, JudgeStep, StutterStep
     DEF Next
<1>. QED
  BY InitCollectorInv, <1>1, PTL DEF Spec

\* The collector and what is written from it are what their types say, with an entry in
\* the map of invalid features only under an id of the file and on a feature of the chunk.
THEOREM TypesHold == Spec => []TypeOK
<1>1. CollectorInv => TypeOK
  <2> SUFFICES ASSUME CollectorInv PROVE TypeOK
    OBVIOUS
  <2>1. ShapeInv /\ FileOK
    BY DEF CollectorInv, ShapeInv
  <2>2. ASSUME NEW id \in DOMAIN col.invalid
        PROVE  /\ id \in Ids /\ col.invalid[id] \in Rows
               /\ col.invalid[id].id = id /\ col.invalid[id].feature \in Chunk
    <3>1. CASE pc \in {"validate", "write"}
      <4>1. Chunk \in SUBSET (1 .. NumFeatures)
        BY <2>1, <3>1, PendingChunk
      <4>2. Now \in SUBSET (1 .. NumFeatures)
        BY <3>1, <4>1 DEF Now
      <4>3. Describes(col, Seen, Now, Chunk)
        BY <3>1 DEF CollectorInv, CountsInv
      <4>. QED
        BY <2>1, <4>1, <4>2, <4>3, EntriesAreRows
    <3>2. CASE pc = "read"
      <4>1. Describes(col, 1 .. pos, {}, Chunk)
        BY <3>2 DEF CollectorInv, CountsInv, Seen, Now
      <4>. QED
        BY <4>1, AnyChunk
    <3>3. CASE pc \in {"stats", "done"}
      BY <3>3 DEF CollectorInv, CountsInv, Cleared
    <3>. QED
      BY <2>1, <3>1, <3>2, <3>3 DEF ShapeInv
  <2>3. /\ col.total \in Nat /\ col.holes \in Nat /\ col.counts \in [Types -> Nat]
        /\ col.geometriesOver \in BOOLEAN /\ col.holesOver \in BOOLEAN
        /\ col.resolutionOver \in BOOLEAN
    <3>1. CASE pc # "done"
      BY <3>1 DEF CollectorInv, CountsInv, Describes, IsCollector
    <3>2. CASE pc = "done"
      <4>1. col = Cleared
        BY <3>2 DEF CollectorInv, CountsInv
      <4>2. /\ Cleared.total = 0 /\ Cleared.holes = 0 /\ Cleared.counts = NoErrors
            /\ Cleared.geometriesOver \in BOOLEAN /\ Cleared.holesOver \in BOOLEAN
            /\ Cleared.resolutionOver \in BOOLEAN
        BY DEF Cleared
      <4>3. NoErrors \in [Types -> Nat]
        BY DEF NoErrors
      <4>. QED
        BY <4>1, <4>2, <4>3
    <3>. QED
      BY <3>1, <3>2
  <2>4. Len(rows) <= Len(cuts)
    BY <2>1 DEF ShapeInv, Pending
  <2>5. DOMAIN col.invalid \subseteq Ids
    BY <2>2
  <2>. QED
    BY <2>1, <2>2, <2>3, <2>4, <2>5 DEF TypeOK, ShapeInv, FileOK
<1>. QED
  BY CollectorInvariant, <1>1, PTL

\* Between two chunks the counts are those of the features read, however the file is cut
\* and whatever ids and errors they have.
THEOREM CountsAreExact == Spec => []CountsExact
<1>1. CollectorInv => CountsExact
  BY DEF CollectorInv, CountsInv, Seen, Now, Describes, CountsExact, Total
<1>. QED
  BY CollectorInvariant, <1>1, PTL

\* The verdict and the summary are those of the whole file, for every limit.
THEOREM VerdictIsExact == Spec => []VerdictExact
BY CollectorInvariant, PTL DEF CollectorInv

\* The rows of each chunk are those of its invalid features.
THEOREM RowsAreFaithful == Spec => []RowsFaithful
BY CollectorInvariant, PTL DEF CollectorInv

\* The features whose errors have been collected stay collected.
LEMMA SeenGrows ==
  ASSUME CollectorInv, ReadChunk \/ ChunkValidated \/ ChunkWritten
  PROVE  Seen \subseteq Seen'
<1>1. CASE ReadChunk
  <2>1. PICK n \in 1 .. MaxChunk : /\ pos' = pos + n
                                   /\ cuts' = Append(cuts, pos + 1 .. pos + n)
    BY <1>1 DEF ReadChunk
  <2>2. /\ pc = "read" /\ pos \in Nat /\ n \in Nat /\ cuts \in Seq(SUBSET (1 .. NumFeatures))
    BY <1>1, LimitsOK DEF ReadChunk, CollectorInv, ShapeInv
  <2>3. Chunk' = pos + 1 .. pos + n
    BY <2>1, <2>2 DEF Chunk
  <2>4. Sent(Chunk)' \subseteq pos + 1 .. pos + n
    BY <2>3 DEF Sent
  <2>5. Seen = 1 .. pos /\ 1 .. pos \subseteq 1 .. pos'
    BY <2>1, <2>2 DEF Seen
  <2>6. (1 .. pos) \cap (pos + 1 .. pos + n) = {}
    BY <2>2
  <2>7. Seen' = 1 .. pos' \/ Seen' = (1 .. pos') \ Sent(Chunk)'
    BY DEF Seen
  <2>. QED
    BY <2>4, <2>5, <2>6, <2>7
<1>2. CASE ChunkValidated \/ ChunkWritten
  BY <1>2 DEF ChunkValidated, ChunkWritten, Seen
<1>. QED
  BY <1>1, <1>2

\* An error once counted is in every later summary, so that the errors collected stay
\* critical until the verdict, for every limit.
LEMMA CriticalStays ==
  ASSUME CollectorInv, CollectorInv', Next, HasCritical(col)
  PROVE  HasCritical(col') \/ (pc' = "done" /\ verdict'.critical)
<1>1. CASE SetStats
  <2>1. col = Cleared
    BY <1>1 DEF SetStats, CollectorInv, CountsInv
  <2>2. /\ \A t \in Types : col.counts[t] = 0
        /\ ~ col.geometriesOver /\ ~ col.holesOver
    BY <2>1 DEF Cleared, NoErrors
  <2>. QED
    BY <2>2 DEF HasCritical
<1>2. CASE Judge
  BY <1>2 DEF Judge
<1>3. CASE ReadChunk \/ ChunkValidated \/ ChunkWritten
  <2>1. /\ file' = file /\ pc \in {"read", "validate", "write"}
        /\ pc' \in {"read", "validate", "write"}
    BY <1>3 DEF ReadChunk, ChunkValidated, ChunkWritten
  <2>2. Describes(col, Seen, Now, Chunk) /\ Describes(col', Seen', Now', Chunk')
    <3>1. Describes(col, Seen, Now, Chunk) /\ Describes(col, Seen, Now, Chunk)'
      BY <2>1 DEF CollectorInv, CountsInv
    <3>. QED
      BY <2>1, <3>1, DescribesStill
  <2>3. Seen' = Seen \cup Seen'
    BY <1>3, SeenGrows
  <2>4. ASSUME NEW t \in Types
        PROVE  /\ col.counts[t] \in Nat /\ col'.counts[t] \in Nat
               /\ col.counts[t] <= col'.counts[t]
    <3> DEFINE old == Seen
               new == Seen'
               c == col
               d == col'
               now == Now
               then == Now'
               here == Chunk
               there == Chunk'
    <3>1. Describes(c, old, now, here) /\ Describes(d, old \cup new, then, there)
      BY <2>2, <2>3
    <3> HIDE DEF old, new, c, d, now, then, here, there
    <3>2. c.counts[t] \in Nat /\ d.counts[t] \in Nat /\ c.counts[t] <= d.counts[t]
      BY <3>1, SameCount
    <3>. QED
      BY <3>2 DEF c, d
  <2>5. "smallGeometries" \in Types /\ "smallHoles" \in Types
    BY DEF Types
  <2>6. /\ col.geometriesOver => col'.geometriesOver
        /\ col.holesOver => col'.holesOver
    <3>1. /\ col.geometriesOver <=>
               Exceeded(col.counts["smallGeometries"], NumFeatures, GeometriesLimit)
          /\ col.holesOver <=> Exceeded(col.counts["smallHoles"], NumFeatures, HolesLimit)
      BY <2>1 DEF CollectorInv, OverInv
    <3>2. /\ col'.geometriesOver <=>
               Exceeded(col'.counts["smallGeometries"], NumFeatures, GeometriesLimit)
          /\ col'.holesOver <=> Exceeded(col'.counts["smallHoles"], NumFeatures, HolesLimit)
      BY <2>1 DEF CollectorInv, OverInv
    <3>. QED
      BY <2>4, <2>5, <3>1, <3>2, ExceededGrows, LimitsOK
  <2>. QED
    BY <2>4, <2>6 DEF HasCritical
<1>. QED
  BY <1>1, <1>2, <1>3 DEF Next

\* No later chunk takes critical errors back.
THEOREM CriticalErrorsStick == Spec => CriticalSticks
<1>1. /\ CollectorInv /\ CollectorInv' /\ [Next]_vars
      => [HasCritical(col) => HasCritical(col') \/ (pc' = "done" /\ verdict'.critical)]_vars
  BY CriticalStays DEF vars
<1>. QED
  BY CollectorInvariant, <1>1, PTL DEF Spec, CriticalSticks

=============================================================================
