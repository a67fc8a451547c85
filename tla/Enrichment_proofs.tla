-------------------------- MODULE Enrichment_proofs --------------------------
(***************************************************************************)
(* What the rules of an enrichment say of any data, and the types of its   *)
(* rows, for any number of cases and tasks.                                *)
(*                                                                         *)
(* The sums are recursive functions over sets.  That one computes what it  *)
(* should for every set is shown with a set of counterexamples, which has  *)
(* a least element: the least number, or the smallest set.                 *)
(***************************************************************************)
EXTENDS Enrichment, FiniteSetTheorems, WellFoundedInduction, TLAPS

-----------------------------------------------------------------------------
(*                           Least elements                                *)

LEMMA LeastNumber ==
  ASSUME NEW T, T \subseteq Nat, T # {}
  PROVE  \E x \in T : \A y \in T : x <= y
<1>1. PICK x \in T : \A y \in T : ~(<<y, x>> \in OpToRel(<, Nat))
  BY Zenon, NatLessThanWellFounded, WFMin
<1>2. \A y \in T : ~(y < x)
  BY <1>1 DEF OpToRel
<1> QED
  BY <1>2

LEMMA SmallestSet ==
  ASSUME NEW S, IsFiniteSet(S), NEW T, T \subseteq SUBSET S, T # {}
  PROVE  \E s \in T : \A x \in s : s \ {x} \notin T
<1>1. T \subseteq FiniteSubsetsOf(S)
  BY FS_FiniteSubsetsOfFinite
<1>2. PICK s \in T : \A r \in T : ~(<<r, s>> \in StrictSubsetOrdering(S))
  BY Zenon, <1>1, FS_StrictSubsetOrderingWellFounded, WFMin
<1>3. ASSUME NEW x \in s, s \ {x} \in T
      PROVE  FALSE
  <2>1. <<s \ {x}, s>> \in StrictSubsetOrdering(S)
    BY DEF StrictSubsetOrdering
  <2> QED
    BY <1>2, <1>3, <2>1
<1> QED
  BY <1>3

-----------------------------------------------------------------------------
(*                          Sums that are counts                           *)

\* One pair for every unit of the weights of s.
Heap(w, s) == UNION {{r} \X (1..w[r]) : r \in s}

LEMMA HeapOfOne ==
  ASSUME NEW r, NEW n \in Nat
  PROVE  IsFiniteSet({r} \X (1..n)) /\ Cardinality({r} \X (1..n)) = n
<1> DEFINE f == [i \in 1..n |-> <<r, i>>]
<1>1. f \in Bijection(1..n, {r} \X (1..n))
  <2>1. f \in [1..n -> {r} \X (1..n)]
    OBVIOUS
  <2>2. \A i, j \in 1..n : f[i] = f[j] => i = j
    OBVIOUS
  <2>3. \A p \in {r} \X (1..n) : \E i \in 1..n : f[i] = p
    OBVIOUS
  <2> HIDE DEF f
  <2> QED
    BY <2>1, <2>2, <2>3 DEF Bijection, Injection, Surjection, IsInjective
<1>2. ExistsBijection(1..n, {r} \X (1..n))
  BY <1>1 DEF ExistsBijection
<1>3. IsFiniteSet(1..n) /\ Cardinality(1..n) = n
  BY FS_Interval
<1> QED
  BY <1>2, <1>3, FS_Bijection

\* An element's units are apart from those of the others.
LEMMA HeapSplits ==
  ASSUME NEW S, NEW w \in [S -> Nat], NEW s \in SUBSET S, NEW x \in s,
         IsFiniteSet(Heap(w, s \ {x}))
  PROVE  /\ IsFiniteSet(Heap(w, s))
         /\ Cardinality(Heap(w, s)) = w[x] + Cardinality(Heap(w, s \ {x}))
<1> DEFINE one == {x} \X (1..w[x])
           rest == Heap(w, s \ {x})
<1>1. Heap(w, s) = one \cup rest
  BY DEF Heap
<1>2. one \cap rest = {}
  BY DEF Heap
<1>3. w[x] \in Nat
  OBVIOUS
<1>4. IsFiniteSet(one) /\ Cardinality(one) = w[x]
  BY <1>3, HeapOfOne
<1> HIDE DEF one, rest
<1>5. Cardinality(one \cap rest) = 0
  BY <1>2, FS_EmptySet
<1>6. Cardinality(rest) \in Nat
  BY FS_CardinalityType DEF rest
<1>7. /\ IsFiniteSet(one \cup rest)
      /\ Cardinality(one \cup rest) = Cardinality(one) + Cardinality(rest) - Cardinality(one \cap rest)
  BY <1>4, FS_Union DEF rest
<1> QED
  BY <1>1, <1>3, <1>4, <1>5, <1>6, <1>7 DEF rest

LEMMA HeapIsFinite ==
  ASSUME NEW S, IsFiniteSet(S), NEW w \in [S -> Nat]
  PROVE  \A s \in SUBSET S : IsFiniteSet(Heap(w, s))
<1> DEFINE T == {s \in SUBSET S : ~IsFiniteSet(Heap(w, s))}
<1>1. SUFFICES ASSUME T # {} PROVE FALSE
  OBVIOUS
<1>2. PICK s \in T : \A x \in s : s \ {x} \notin T
  BY <1>1, SmallestSet
<1>3. CASE s = {}
  BY <1>2, <1>3, FS_EmptySet DEF Heap
<1>4. CASE s # {}
  <2>1. PICK x \in s : TRUE
    BY <1>4
  <2>2. IsFiniteSet(Heap(w, s \ {x}))
    BY <1>2
  <2> QED
    BY <1>2, <2>1, <2>2, HeapSplits
<1> QED
  BY <1>3, <1>4

\* The recursion that MapThenSumSet is made of.
IsSum(f, w, S) ==
  f = [s \in SUBSET S |-> IF s = {} THEN 0
                          ELSE LET x == CHOOSE x \in s : TRUE IN w[x] + f[s \ {x}]]

LEMMA CountIsSum ==
  ASSUME NEW S, IsFiniteSet(S), NEW w \in [S -> Nat]
  PROVE  IsSum([s \in SUBSET S |-> Cardinality(Heap(w, s))], w, S)
<1> DEFINE f == [s \in SUBSET S |-> Cardinality(Heap(w, s))]
<1>1. ASSUME NEW s \in SUBSET S
      PROVE  f[s] = IF s = {} THEN 0
                    ELSE LET x == CHOOSE x \in s : TRUE IN w[x] + f[s \ {x}]
  <2>1. CASE s = {}
    BY <2>1, FS_EmptySet DEF Heap
  <2>2. CASE s # {}
    <3>1. PICK x \in s : x = CHOOSE y \in s : TRUE
      BY <2>2
    <3>2. s \ {x} \in SUBSET S /\ IsFiniteSet(Heap(w, s \ {x}))
      BY HeapIsFinite
    <3>3. f[s] = w[x] + f[s \ {x}]
      BY <3>2, HeapSplits
    <3> HIDE DEF f
    <3> QED
      BY <2>2, <3>1, <3>3
  <2> QED
    BY <2>1, <2>2
<1> QED
  BY <1>1, Zenon DEF IsSum

LEMMA SumIsCount ==
  ASSUME NEW S, IsFiniteSet(S), NEW w \in [S -> Nat], NEW f, IsSum(f, w, S)
  PROVE  \A s \in SUBSET S : f[s] = Cardinality(Heap(w, s))
<1> DEFINE g == [s \in SUBSET S |-> Cardinality(Heap(w, s))]
           T == {s \in SUBSET S : f[s] # g[s]}
<1>1. SUFFICES ASSUME T # {} PROVE FALSE
  OBVIOUS
<1>2. PICK s \in T : \A x \in s : s \ {x} \notin T
  BY <1>1, SmallestSet
<1>3. IsSum(g, w, S)
  BY CountIsSum
<1> HIDE DEF g
<1>4. s \in SUBSET S /\ f[s] # g[s] /\ \A x \in s : f[s \ {x}] = g[s \ {x}]
  BY <1>2
<1>5. CASE s = {}
  BY <1>3, <1>4, <1>5 DEF IsSum
<1>6. CASE s # {}
  <2>1. PICK x \in s : x = CHOOSE y \in s : TRUE
    BY <1>6
  <2>2. f[s] = w[x] + f[s \ {x}]
    BY <1>4, <1>6, <2>1, Zenon DEF IsSum
  <2>3. g[s] = w[x] + g[s \ {x}]
    BY <1>3, <1>4, <1>6, <2>1, Zenon DEF IsSum
  <2> QED
    BY <1>4, <2>2, <2>3
<1> QED
  BY <1>5, <1>6

-----------------------------------------------------------------------------
(*                       Refunds and completeness                          *)

AmountRec(f, refunds) ==
  f = [s \in SUBSET refunds |-> IF s = {} THEN 0
                                ELSE LET r == CHOOSE r \in s : TRUE IN r.amount + f[s \ {r}]]

\* The refunds of a dispute add up to the number of their units, in whatever
\* order the sum takes them.
LEMMA RefundsAreCounted ==
  ASSUME NEW refunds, IsFiniteSet(refunds), \A r \in refunds : r.amount \in Nat
  PROVE  /\ Cardinality(Units(refunds)) \in Nat
         /\ TotalRefunded(refunds) = Cardinality(Units(refunds))
<1> DEFINE w == [r \in refunds |-> r.amount]
           count == [s \in SUBSET refunds |-> Cardinality(Heap(w, s))]
           g == CHOOSE f : AmountRec(f, refunds)
<1>1. w \in [refunds -> Nat]
  OBVIOUS
<1>2. ASSUME NEW f
      PROVE  AmountRec(f, refunds) <=> IsSum(f, w, refunds)
  <2>1. ASSUME NEW s \in SUBSET refunds, s # {}
        PROVE  (CHOOSE r \in s : TRUE).amount = w[CHOOSE r \in s : TRUE]
    BY <2>1
  <2> HIDE DEF w
  <2>2. [s \in SUBSET refunds |-> IF s = {} THEN 0
           ELSE LET r == CHOOSE r \in s : TRUE IN r.amount + f[s \ {r}]]
        = [s \in SUBSET refunds |-> IF s = {} THEN 0
           ELSE LET r == CHOOSE r \in s : TRUE IN w[r] + f[s \ {r}]]
    BY <2>1
  <2> QED
    BY <2>2, Zenon DEF AmountRec, IsSum
<1>3. Heap(w, refunds) = Units(refunds)
  BY DEF Heap, Units
<1> HIDE DEF w
<1>4. IsSum(count, w, refunds)
  BY <1>1, CountIsSum
<1> HIDE DEF count
<1>5. AmountRec(g, refunds)
  BY <1>2, <1>4
<1>6. TotalRefunded(refunds) = g[refunds]
  BY Zenon DEF TotalRefunded, MapThenSumSet, MapThenFoldSet, AmountRec
<1> HIDE DEF g
<1>7. g[refunds] = Cardinality(Heap(w, refunds))
  BY <1>1, <1>2, <1>5, SumIsCount
<1>8. IsFiniteSet(Heap(w, refunds))
  BY <1>1, HeapIsFinite
<1> QED
  BY <1>3, <1>6, <1>7, <1>8, FS_CardinalityType

ShareRec(f, filled, S) ==
  f = [s \in SUBSET S |-> IF s = {} THEN 0
                          ELSE LET k == CHOOSE k \in s : TRUE
                               IN Weight[k] * filled[k] + f[s \ {k}]]

\* What the kind k adds to the completeness.
Share(data, found, k) == IF k \in found THEN Weight[k] * data.filled[k] ELSE 0

LEMMA CompletenessIsSum ==
  ASSUME NEW data, data.filled \in [DOMAIN Weight -> 0..100], NEW found \in SUBSET DOMAIN Weight
  PROVE  Completeness(data, found) =
           Share(data, found, "payment") + Share(data, found, "order") + Share(data, found, "shipment")
           + Share(data, found, "refund") + Share(data, found, "customer")
<1> DEFINE all == {"payment", "order", "shipment", "refund", "customer"}
           w == [k \in found |-> Weight[k] * data.filled[k]]
           count == [s \in SUBSET found |-> Cardinality(Heap(w, s))]
           g == CHOOSE f : ShareRec(f, data.filled, found)
<1>1. DOMAIN Weight = all
  BY DEF Weight
<1>2. \A k \in all : Weight[k] * data.filled[k] \in Nat
  BY DEF Weight
<1>3. w \in [found -> Nat]
  BY <1>1, <1>2
<1>4. IsFiniteSet(found)
  <2>1. all = ({"payment"} \cup {"order"} \cup {"shipment"} \cup {"refund"}) \cup {"customer"}
    OBVIOUS
  <2>2. IsFiniteSet({"payment"} \cup {"order"})
    BY FS_Singleton, FS_Union
  <2>3. IsFiniteSet({"payment"} \cup {"order"} \cup {"shipment"})
    BY <2>2, FS_AddElement
  <2>4. IsFiniteSet({"payment"} \cup {"order"} \cup {"shipment"} \cup {"refund"})
    BY <2>3, FS_AddElement
  <2>5. IsFiniteSet(all)
    BY <2>1, <2>4, FS_AddElement
  <2> QED
    BY <1>1, <2>5, FS_Subset
<1>5. ASSUME NEW f
      PROVE  ShareRec(f, data.filled, found) <=> IsSum(f, w, found)
  <2>1. ASSUME NEW s \in SUBSET found, s # {}, NEW k, k = CHOOSE j \in s : TRUE
        PROVE  Weight[k] * data.filled[k] = w[k]
    BY <2>1
  <2> HIDE DEF w
  <2>2. [s \in SUBSET found |-> IF s = {} THEN 0
           ELSE LET k == CHOOSE k \in s : TRUE IN Weight[k] * data.filled[k] + f[s \ {k}]]
        = [s \in SUBSET found |-> IF s = {} THEN 0
           ELSE LET k == CHOOSE k \in s : TRUE IN w[k] + f[s \ {k}]]
    BY <2>1
  <2> QED
    BY <2>2, Zenon DEF ShareRec, IsSum
<1>6. \A k \in found : w[k] = Weight[k] * data.filled[k]
  OBVIOUS
<1> HIDE DEF w
<1>7. IsSum(count, w, found)
  BY <1>3, <1>4, CountIsSum
<1> HIDE DEF count
<1>8. ShareRec(g, data.filled, found)
  BY <1>5, <1>7
<1>9. Completeness(data, found) = g[found]
  BY Zenon DEF Completeness, MapThenSumSet, MapThenFoldSet, ShareRec
<1> HIDE DEF g
<1>10. \A s \in SUBSET found : g[s] = Cardinality(Heap(w, s)) /\ IsFiniteSet(Heap(w, s))
  BY <1>3, <1>4, <1>5, <1>8, SumIsCount, HeapIsFinite
<1>11. g[{}] = 0
  <2>1. Heap(w, {}) = {}
    BY DEF Heap
  <2> QED
    BY <1>10, <2>1, FS_EmptySet
<1>12. ASSUME NEW s \in SUBSET found, NEW k
       PROVE  /\ s \ {k} \in SUBSET found
              /\ g[s \ {k}] \in Nat
              /\ g[s] = (IF k \in s THEN Weight[k] * data.filled[k] ELSE 0) + g[s \ {k}]
  <2>1. s \ {k} \in SUBSET found /\ g[s \ {k}] \in Nat
    BY <1>10, FS_CardinalityType
  <2>2. CASE k \in s
    <3>1. IsFiniteSet(Heap(w, s \ {k}))
      BY <1>10, <2>1
    <3>2. Cardinality(Heap(w, s)) = w[k] + Cardinality(Heap(w, s \ {k}))
      BY <1>3, <2>2, <3>1, HeapSplits
    <3>3. w[k] = Weight[k] * data.filled[k]
      BY <1>6, <2>2
    <3>4. g[s] = Weight[k] * data.filled[k] + g[s \ {k}]
      BY <1>10, <2>1, <3>2, <3>3
    <3> QED
      BY <2>1, <2>2, <3>4
  <2>3. CASE k \notin s
    <3>1. s \ {k} = s
      BY <2>3
    <3> QED
      BY <2>1, <2>3, <3>1
  <2> QED
    BY <2>1, <2>2, <2>3
<1> DEFINE s1 == found \ {"payment"}
           s2 == s1 \ {"order"}
           s3 == s2 \ {"shipment"}
           s4 == s3 \ {"refund"}
           s5 == s4 \ {"customer"}
<1>13. s5 = {}
  BY <1>1
<1>14. /\ "order" \in s1 <=> "order" \in found
       /\ "shipment" \in s2 <=> "shipment" \in found
       /\ "refund" \in s3 <=> "refund" \in found
       /\ "customer" \in s4 <=> "customer" \in found
  OBVIOUS
<1>15. g[found] = Share(data, found, "payment") + g[s1] /\ g[s1] \in Nat /\ s1 \in SUBSET found
  BY <1>12 DEF Share
<1> HIDE DEF s1
<1>16. g[s1] = Share(data, found, "order") + g[s2] /\ g[s2] \in Nat /\ s2 \in SUBSET found
  BY <1>12, <1>14, <1>15 DEF Share
<1> HIDE DEF s2
<1>17. g[s2] = Share(data, found, "shipment") + g[s3] /\ g[s3] \in Nat /\ s3 \in SUBSET found
  BY <1>12, <1>14, <1>16 DEF Share
<1> HIDE DEF s3
<1>18. g[s3] = Share(data, found, "refund") + g[s4] /\ g[s4] \in Nat /\ s4 \in SUBSET found
  BY <1>12, <1>14, <1>17 DEF Share
<1> HIDE DEF s4
<1>19. g[s4] = Share(data, found, "customer") + g[s5]
  BY <1>12, <1>14, <1>18 DEF Share
<1>20. \A k \in all : Share(data, found, k) \in Nat
  BY <1>2 DEF Share
<1> HIDE DEF s5
<1> QED
  BY <1>9, <1>11, <1>13, <1>15, <1>16, <1>17, <1>18, <1>19, <1>20

\* 100 percent are reached only with every kind of row and all its fields.
LEMMA CompletenessIsFair ==
  ASSUME NEW data, data.filled \in [DOMAIN Weight -> 0..100], NEW found \in SUBSET DOMAIN Weight
  PROVE  /\ Completeness(data, found) \in 0..Whole
         /\ Completeness(data, found) = Whole
              <=> \A k \in DOMAIN Weight : k \in found /\ data.filled[k] = 100
<1>1. DOMAIN Weight = {"payment", "order", "shipment", "refund", "customer"}
  BY DEF Weight
<1>2. /\ Weight["payment"] = 30 /\ Weight["order"] = 20 /\ Weight["shipment"] = 15
      /\ Weight["refund"] = 15 /\ Weight["customer"] = 20
  BY DEF Weight
<1>3. PICK p : /\ p = Share(data, found, "payment") /\ p \in Nat /\ p <= 30 * 100
               /\ p = 30 * 100 <=> "payment" \in found /\ data.filled["payment"] = 100
  <2>1. PICK n \in 0..100 : n = data.filled["payment"]
    BY <1>1
  <2>2. Share(data, found, "payment") = IF "payment" \in found THEN 30 * n ELSE 0
    BY <1>2, <2>1 DEF Share
  <2> QED
    BY <2>1, <2>2
<1>4. PICK o : /\ o = Share(data, found, "order") /\ o \in Nat /\ o <= 20 * 100
               /\ o = 20 * 100 <=> "order" \in found /\ data.filled["order"] = 100
  <2>1. PICK n \in 0..100 : n = data.filled["order"]
    BY <1>1
  <2>2. Share(data, found, "order") = IF "order" \in found THEN 20 * n ELSE 0
    BY <1>2, <2>1 DEF Share
  <2> QED
    BY <2>1, <2>2
<1>5. PICK s : /\ s = Share(data, found, "shipment") /\ s \in Nat /\ s <= 15 * 100
               /\ s = 15 * 100 <=> "shipment" \in found /\ data.filled["shipment"] = 100
  <2>1. PICK n \in 0..100 : n = data.filled["shipment"]
    BY <1>1
  <2>2. Share(data, found, "shipment") = IF "shipment" \in found THEN 15 * n ELSE 0
    BY <1>2, <2>1 DEF Share
  <2> QED
    BY <2>1, <2>2
<1>6. PICK r : /\ r = Share(data, found, "refund") /\ r \in Nat /\ r <= 15 * 100
               /\ r = 15 * 100 <=> "refund" \in found /\ data.filled["refund"] = 100
  <2>1. PICK n \in 0..100 : n = data.filled["refund"]
    BY <1>1
  <2>2. Share(data, found, "refund") = IF "refund" \in found THEN 15 * n ELSE 0
    BY <1>2, <2>1 DEF Share
  <2> QED
    BY <2>1, <2>2
<1>7. PICK c : /\ c = Share(data, found, "customer") /\ c \in Nat /\ c <= 20 * 100
               /\ c = 20 * 100 <=> "customer" \in found /\ data.filled["customer"] = 100
  <2>1. PICK n \in 0..100 : n = data.filled["customer"]
    BY <1>1
  <2>2. Share(data, found, "customer") = IF "customer" \in found THEN 20 * n ELSE 0
    BY <1>2, <2>1 DEF Share
  <2> QED
    BY <2>1, <2>2
<1>8. Completeness(data, found) = p + o + s + r + c
  <2>1. /\ Share(data, found, "payment") = p /\ Share(data, found, "order") = o
        /\ Share(data, found, "shipment") = s /\ Share(data, found, "refund") = r
        /\ Share(data, found, "customer") = c
    BY <1>3, <1>4, <1>5, <1>6, <1>7
  <2> QED
    BY <2>1, CompletenessIsSum, Zenon
<1>9. /\ p + o + s + r + c \in 0..Whole
      /\ p + o + s + r + c = Whole
           <=> p = 30 * 100 /\ o = 20 * 100 /\ s = 15 * 100 /\ r = 15 * 100 /\ c = 20 * 100
  <2>1. /\ p \in Nat /\ o \in Nat /\ s \in Nat /\ r \in Nat /\ c \in Nat
        /\ p <= 30 * 100 /\ o <= 20 * 100 /\ s <= 15 * 100 /\ r <= 15 * 100 /\ c <= 20 * 100
    BY <1>3, <1>4, <1>5, <1>6, <1>7
  <2>2. PICK m, n, i, j, k : m = 30 * 100 /\ n = 20 * 100 /\ i = 15 * 100 /\ j = 15 * 100 /\ k = 20 * 100
    OBVIOUS
  <2>3. /\ m \in Nat /\ n \in Nat /\ i \in Nat /\ j \in Nat /\ k \in Nat
        /\ Whole = m + n + i + j + k
    BY <2>2 DEF Whole
  <2>4. p <= m /\ o <= n /\ s <= i /\ r <= j /\ c <= k
    BY <2>1, <2>2
  <2>5. /\ p + o + s + r + c \in 0..Whole
        /\ p + o + s + r + c = Whole <=> p = m /\ o = n /\ s = i /\ r = j /\ c = k
    BY <2>1, <2>3, <2>4
  <2> QED
    BY <2>2, <2>5
<1>10. (\A k \in DOMAIN Weight : k \in found /\ data.filled[k] = 100)
         <=> /\ "payment" \in found /\ data.filled["payment"] = 100
             /\ "order" \in found /\ data.filled["order"] = 100
             /\ "shipment" \in found /\ data.filled["shipment"] = 100
             /\ "refund" \in found /\ data.filled["refund"] = 100
             /\ "customer" \in found /\ data.filled["customer"] = 100
  BY <1>1
<1>11. (\A k \in DOMAIN Weight : k \in found /\ data.filled[k] = 100)
         <=> p = 30 * 100 /\ o = 20 * 100 /\ s = 15 * 100 /\ r = 15 * 100 /\ c = 20 * 100
  BY <1>3, <1>4, <1>5, <1>6, <1>7, <1>10
<1> QED
  BY <1>8, <1>9, <1>11

-----------------------------------------------------------------------------
(*                         The flags and the doubts                        *)

\* Comparing each time with the next one that is known compares them all: of two
\* that are in the wrong order and have the least distance, none lies between.
LEMMA OrderedIsOrder ==
  ASSUME NEW n \in Nat, NEW times \in [1..n -> Nat]
  PROVE  Ordered(times) <=>
           \A i, j \in 1..n : i < j /\ times[i] # None /\ times[j] # None => times[i] <= times[j]
<1> DEFINE Wrong(i, j) == i < j /\ times[i] # None /\ times[j] # None /\ ~(times[i] <= times[j])
<1>1. DOMAIN times = 1..n
  OBVIOUS
<1>2. ASSUME \A i, j \in 1..n : ~Wrong(i, j)
      PROVE  Ordered(times)
  BY <1>1, <1>2 DEF Ordered
<1>3. ASSUME Ordered(times), NEW a \in 1..n, NEW b \in 1..n, Wrong(a, b)
      PROVE  FALSE
  <2> DEFINE D == {d \in Nat : \E i, j \in 1..n : Wrong(i, j) /\ d = j - i}
  <2>1. b - a \in D
    BY <1>3
  <2>2. PICK d \in D : \A e \in D : d <= e
    BY <2>1, LeastNumber
  <2>3. PICK i \in 1..n, j \in 1..n : Wrong(i, j) /\ d = j - i
    BY <2>2
  <2>4. ASSUME NEW k \in (i + 1)..(j - 1), times[k] # None
        PROVE  FALSE
    <3>1. k \in 1..n /\ i < k /\ k < j
      OBVIOUS
    <3>2. ~Wrong(i, k)
      <4>1. SUFFICES ASSUME Wrong(i, k) PROVE FALSE
        OBVIOUS
      <4>2. k - i \in D
        BY <3>1, <4>1
      <4>3. d <= k - i
        BY <2>2, <4>2
      <4> QED
        BY <2>3, <3>1, <4>3
    <3>3. ~Wrong(k, j)
      <4>1. SUFFICES ASSUME Wrong(k, j) PROVE FALSE
        OBVIOUS
      <4>2. j - k \in D
        BY <3>1, <4>1
      <4>3. d <= j - k
        BY <2>2, <4>2
      <4> QED
        BY <2>3, <3>1, <4>3
    <3>4. times[i] \in Nat /\ times[j] \in Nat /\ times[k] \in Nat
      BY <3>1
    <3> QED
      BY <2>3, <2>4, <3>1, <3>2, <3>3, <3>4
  <2>5. times[i] <= times[j]
    BY <1>1, <1>3, <2>3, <2>4 DEF Ordered
  <2> QED
    BY <2>3, <2>5
<1> QED
  BY <1>2, <1>3

\* There is no flag if and only if there is no doubt, for whatever the sources
\* say and whatever was found of it.
LEMMA NoFlagNoDoubt ==
  ASSUME NEW found \in Findings, source \in Sources
  PROVE  Flags(source, found) = {} <=> Doubtless(source, found)
<1> DEFINE refunds == IF "refund" \in found THEN source.refunds ELSE {}
           times == Timeline(source, found)
           back == Cardinality(Units(refunds))
<1>1. /\ source.disputedAmount \in Int /\ source.paid \in Int
      /\ IsFiniteSet(source.refunds) /\ \A r \in source.refunds : r.amount \in Nat
      /\ source.times \in [1..5 -> Nat]
  BY SourcesAssumption
<1>2. back \in Nat /\ (IF "refund" \in found THEN TotalRefunded(source.refunds) ELSE 0) = back
  <2>1. CASE "refund" \in found
    BY <1>1, <2>1, RefundsAreCounted
  <2>2. CASE "refund" \notin found
    <3>1. refunds = {} /\ Units({}) = {}
      BY <2>2 DEF Units
    <3> QED
      BY <2>2, <3>1, FS_EmptySet
  <2> QED
    BY <2>1, <2>2
<1>3. Ordered(times) <=>
        \A i, j \in 1..5 : i < j /\ times[i] # None /\ times[j] # None => times[i] <= times[j]
  <2>1. times \in [1..5 -> Nat]
    BY <1>1 DEF Timeline, None
  <2> QED
    BY <2>1, OrderedIsOrder
<1>4. /\ "order" \in found => source.paymentOrder # None
      /\ "shipment" \in found => "order" \in found
  BY DEF Findings
<1> HIDE DEF times
<1>5. Doubtless(source, found) <=>
        /\ {source.disputed} \cup {r.payment : r \in refunds} = {source.payment}
        /\ "order" \in found => source.order = source.paymentOrder
        /\ "shipment" \in found => source.shipmentOrder = source.paymentOrder
        /\ source.disputedAmount + back <= source.paid
        /\ Ordered(times)
  BY <1>3 DEF Doubtless, times
<1>6. Flags(source, found) = {} <=> Mismatches(source, found) = {} /\ Ordered(times)
  BY DEF Flags, times
<1> HIDE DEF back
<1>7. "AMOUNT_INCONSISTENT" \in Mismatches(source, found) <=>
        source.disputedAmount > source.paid - back
  BY <1>2 DEF Mismatches
<1>8. source.disputedAmount > source.paid - back <=> ~(source.disputedAmount + back <= source.paid)
  BY <1>1, <1>2
<1>9. /\ "PAYMENT_MISMATCH" \in Mismatches(source, found) <=> source.disputed # source.payment
      /\ "ORDER_MISMATCH" \in Mismatches(source, found) <=>
           "order" \in found /\ source.paymentOrder # source.order
      /\ "SHIPMENT_MISMATCH" \in Mismatches(source, found) <=>
           "order" \in found /\ "shipment" \in found /\ source.shipmentOrder # source.order
      /\ "REFUND_MISMATCH" \in Mismatches(source, found) <=>
           "refund" \in found /\ \E r \in source.refunds : r.payment # source.payment
  BY DEF Mismatches
<1>10. Mismatches(source, found) \subseteq
         {"PAYMENT_MISMATCH", "ORDER_MISMATCH", "SHIPMENT_MISMATCH", "REFUND_MISMATCH",
          "AMOUNT_INCONSISTENT"}
  BY DEF Mismatches
<1>11. {source.disputed} \cup {r.payment : r \in refunds} = {source.payment} <=>
         source.disputed = source.payment /\ \A r \in refunds : r.payment = source.payment
  OBVIOUS
<1>12. (\E r \in refunds : r.payment # source.payment) <=>
         "refund" \in found /\ \E r \in source.refunds : r.payment # source.payment
  OBVIOUS
<1> HIDE DEF refunds
<1>13. Mismatches(source, found) = {} <=>
         /\ source.disputed = source.payment
         /\ ~("order" \in found /\ source.paymentOrder # source.order)
         /\ ~("order" \in found /\ "shipment" \in found /\ source.shipmentOrder # source.order)
         /\ ~(\E r \in refunds : r.payment # source.payment)
         /\ source.disputedAmount + back <= source.paid
  BY <1>7, <1>8, <1>9, <1>10, <1>12
<1> QED
  BY <1>4, <1>5, <1>6, <1>11, <1>13

-----------------------------------------------------------------------------
(*                 The invariant of the enrichments                        *)

\* What the proof needs of the types of the enrichment.
EnrichType ==
  /\ enrich \in [Tasks -> EnrichState]
  /\ \A t \in Tasks : enrich[t].pc = "absent" \/ enrich[t].case \in Cases
  /\ enrichments \in [Cases -> SUBSET [version : Nat, by : Tasks, flags : SUBSET FlagNames]]
  /\ entities \in [Cases -> [Kinds -> SUBSET Nat]]

Inside(t) == enrich[t].pc \in {"fetching", "storing"}

\* One task holds the lock of a case.
OneInside ==
  \A s, t \in Tasks : Inside(s) /\ Inside(t) /\ enrich[s].case = enrich[t].case => s = t

\* There is a newest enrichment, and a task that stores one comes after it.
SomeNewest ==
  \A c \in Cases : enrichments[c] # {} =>
    \E x \in enrichments[c] : \A y \in enrichments[c] : y.version <= x.version

Ahead ==
  \A t \in Tasks : enrich[t].pc = "storing" =>
    \A x \in enrichments[enrich[t].case] : x.version < enrich[t].version

\* The part that is about enrichments.
EnrichInv == EnrichType /\ OneInside /\ SomeNewest /\ Ahead /\ EnrichmentIsWhole

-----------------------------------------------------------------------------
(*                    Enrichments: one lemma per action                    *)

LEMMA EnrichInit == EnrichmentInit => EnrichInv
BY EnrichmentAssumption
   DEF EnrichmentInit, EnrichInv, EnrichType, EnrichState, NoTask, OneInside, Inside,
       SomeNewest, Ahead, EnrichmentIsWhole

\* A task that moves outside the stretch in which the case is locked.
LEMMA EnrichMoves ==
  ASSUME EnrichInv, NEW t \in Tasks, UNCHANGED stored, NEW e \in EnrichState,
         enrich' = [enrich EXCEPT ![t] = e],
         e.pc = "absent" \/ e.case \in Cases,
         e.pc \notin {"fetching", "storing"}
  PROVE  EnrichInv'
<1>1. \A u \in Tasks : u # t => enrich'[u] = enrich[u]
  BY DEF EnrichInv, EnrichType
<1>2. enrich'[t] = e
  BY DEF EnrichInv, EnrichType
<1>3. EnrichType'
  BY <1>1, <1>2 DEF EnrichInv, EnrichType, stored
<1>4. OneInside' /\ Ahead'
  BY <1>1, <1>2 DEF EnrichInv, OneInside, Inside, Ahead, stored
<1> QED
  BY <1>3, <1>4 DEF EnrichInv, SomeNewest, EnrichmentIsWhole, stored

LEMMA EnrichUnchanged ==
  ASSUME EnrichInv, UNCHANGED <<enrich, stored>>
  PROVE  EnrichInv'
BY DEF EnrichInv, EnrichType, OneInside, Inside, Ahead, SomeNewest, EnrichmentIsWhole, stored

LEMMA EnrichEnqueue ==
  ASSUME EnrichInv, NEW t \in Tasks, NEW c \in Cases, Enqueue(t, c), UNCHANGED stored
  PROVE  EnrichInv'
<1> DEFINE e == [pc |-> "queued", case |-> c, retries |-> 0, version |-> 0]
<1>1. e \in EnrichState /\ e.case \in Cases /\ e.pc \notin {"fetching", "storing"}
  BY EnrichmentAssumption DEF EnrichState
<1>2. enrich' = [enrich EXCEPT ![t] = e]
  BY DEF Enqueue
<1> HIDE DEF e
<1> QED
  BY <1>1, <1>2, EnrichMoves

\* Load, ProviderUnavailable and EnrichmentFails leave the stretch or stay out.
LEMMA EnrichOut ==
  ASSUME EnrichInv, NEW t \in Tasks,
         Load(t) \/ ProviderUnavailable(t) \/ EnrichmentFails(t)
  PROVE  EnrichInv'
<1>1. enrich[t] \in EnrichState /\ (enrich[t].pc = "absent" \/ enrich[t].case \in Cases)
  BY DEF EnrichInv, EnrichType
<1>2. PICK e \in EnrichState :
        /\ enrich' = [enrich EXCEPT ![t] = e]
        /\ e.pc \in {"loaded", "queued", "done"}
        /\ e.case \in Cases
  <2>1. CASE Load(t) \/ EnrichmentFails(t)
    <3>1. PICK pc \in {"loaded", "done"} : Move(t, pc)
      BY <2>1 DEF Load, EnrichmentFails
    <3> DEFINE q == [enrich[t] EXCEPT !.pc = pc]
    <3>2. q \in EnrichState /\ q.pc = pc /\ q.case = enrich[t].case
      BY <1>1, <3>1 DEF EnrichState
    <3>3. enrich' = [enrich EXCEPT ![t] = q]
      BY <3>1 DEF Move
    <3>4. enrich[t].case \in Cases
      BY <1>1, <2>1 DEF Load, EnrichmentFails
    <3> HIDE DEF q
    <3> QED
      BY <3>1, <3>2, <3>3, <3>4
  <2>2. CASE ProviderUnavailable(t)
    <3> DEFINE q == Retried(enrich[t])
    <3>1. enrich[t].retries < MaxRetries => enrich[t].retries + 1 \in 0..MaxRetries
      BY <1>1, EnrichmentAssumption DEF EnrichState
    <3>2. \/ q = [enrich[t] EXCEPT !.pc = "queued", !.retries = enrich[t].retries + 1]
             /\ enrich[t].retries < MaxRetries
          \/ q = [enrich[t] EXCEPT !.pc = "done"]
      BY DEF Retried
    <3> HIDE DEF q
    <3>3. /\ q \in EnrichState /\ q.pc \in {"queued", "done"}
          /\ q.case = enrich[t].case
      <4>1. CASE q = [enrich[t] EXCEPT !.pc = "done"]
        BY <1>1, <4>1 DEF EnrichState
      <4>2. CASE q = [enrich[t] EXCEPT !.pc = "queued", !.retries = enrich[t].retries + 1]
                 /\ enrich[t].retries < MaxRetries
        BY <1>1, <3>1, <4>2 DEF EnrichState
      <4> QED
        BY <3>2, <4>1, <4>2
    <3>4. enrich' = [enrich EXCEPT ![t] = q] /\ enrich[t].case \in Cases
      BY <1>1, <2>2 DEF ProviderUnavailable, q
    <3> QED
      BY <3>4, <3>3
  <2> QED
    BY <2>1, <2>2
<1>3. UNCHANGED stored
  BY DEF Load, ProviderUnavailable, EnrichmentFails
<1> QED
  BY <1>2, <1>3, EnrichMoves

LEMMA EnrichPaymentMissing ==
  ASSUME EnrichInv, NEW t \in Tasks, PaymentMissing(t)
  PROVE  EnrichInv'
<1> DEFINE q == [enrich[t] EXCEPT !.pc = "done"]
<1>1. q \in EnrichState /\ q.pc = "done" /\ q.case \in Cases
  BY DEF EnrichInv, EnrichType, EnrichState, PaymentMissing
<1>2. enrich' = [enrich EXCEPT ![t] = q]
  BY DEF PaymentMissing, Move
<1> HIDE DEF q
<1>3. \A u \in Tasks : u # t => enrich'[u] = enrich[u]
  BY <1>2 DEF EnrichInv, EnrichType
<1>4. enrich'[t] = q
  BY <1>2 DEF EnrichInv, EnrichType
<1>5. UNCHANGED <<enrichments, entities>>
  BY DEF PaymentMissing
<1>6. EnrichType'
  BY <1>1, <1>2, <1>3, <1>4, <1>5 DEF EnrichInv, EnrichType
<1>7. OneInside' /\ Ahead'
  BY <1>1, <1>3, <1>4, <1>5 DEF EnrichInv, OneInside, Inside, Ahead
<1> QED
  BY <1>5, <1>6, <1>7 DEF EnrichInv, SomeNewest, EnrichmentIsWhole

\* The UPDATE of the case row waits for the lock: a task enters alone.
LEMMA EnrichMark ==
  ASSUME EnrichInv, NEW t \in Tasks, MarkEnriching(t)
  PROVE  EnrichInv'
<1> DEFINE q == [enrich[t] EXCEPT !.pc = "fetching"]
<1>1. q \in EnrichState /\ q.pc = "fetching" /\ q.case = enrich[t].case /\ q.case \in Cases
  BY DEF EnrichInv, EnrichType, EnrichState, MarkEnriching
<1>2. enrich' = [enrich EXCEPT ![t] = q]
  BY DEF MarkEnriching, Move
<1>3. \A u \in Tasks : Inside(u) => enrich[u].case # enrich[t].case
  BY DEF MarkEnriching, CaseLocked, Inside
<1> HIDE DEF q
<1>4. \A u \in Tasks : u # t => enrich'[u] = enrich[u]
  BY <1>2 DEF EnrichInv, EnrichType
<1>5. enrich'[t] = q
  BY <1>2 DEF EnrichInv, EnrichType
<1>6. UNCHANGED stored
  BY DEF MarkEnriching
<1>7. EnrichType'
  BY <1>1, <1>2, <1>4, <1>5, <1>6 DEF EnrichInv, EnrichType, stored
<1>8. OneInside'
  BY <1>1, <1>3, <1>4, <1>5 DEF EnrichInv, OneInside, Inside
<1>9. Ahead'
  BY <1>1, <1>4, <1>5, <1>6 DEF EnrichInv, Ahead, stored
<1> QED
  BY <1>6, <1>7, <1>8, <1>9 DEF EnrichInv, SomeNewest, EnrichmentIsWhole, stored

\* The version that is read is above all that are stored.
LEMMA VersionIsNew ==
  ASSUME EnrichInv, NEW c \in Cases
  PROVE  /\ NextVersion(enrichments[c]) \in Nat
         /\ \A x \in enrichments[c] : x.version < NextVersion(enrichments[c])
<1> DEFINE rows == enrichments[c]
<1>1. \A x \in rows : x.version \in Nat
  BY DEF EnrichInv, EnrichType
<1>2. CASE rows = {}
  BY <1>2 DEF NextVersion
<1>3. CASE rows # {}
  <2> DEFINE IsHighest(v) == \A r \in rows : r.version <= v
             vs == {r.version : r \in rows}
  <2>1. \E v \in vs : IsHighest(v)
    BY <1>3 DEF EnrichInv, SomeNewest
  <2> DEFINE w == CHOOSE v \in vs : IsHighest(v)
  <2>2. w \in vs /\ IsHighest(w)
    BY <2>1
  <2>3. w \in Nat
    BY <1>1, <2>2
  <2>4. NextVersion(rows) = 1 + w
    BY <1>3 DEF NextVersion
  <2> HIDE DEF w
  <2> QED
    BY <1>1, <2>2, <2>3, <2>4
<1> QED
  BY <1>2, <1>3

LEMMA EnrichPaymentFound ==
  ASSUME EnrichInv, NEW t \in Tasks, PaymentFound(t)
  PROVE  EnrichInv'
<1> DEFINE v == NextVersion(enrichments[enrich[t].case])
           q == [enrich[t] EXCEPT !.pc = "storing", !.version = v]
<1>1. enrich[t] \in EnrichState /\ enrich[t].case \in Cases /\ Inside(t)
  BY DEF EnrichInv, EnrichType, PaymentFound, Inside
<1>2. v \in Nat /\ \A x \in enrichments[enrich[t].case] : x.version < v
  BY <1>1, VersionIsNew
<1>3. enrich' = [enrich EXCEPT ![t] = q]
  BY DEF PaymentFound
<1> HIDE DEF v
<1>4. /\ q \in EnrichState /\ q.pc = "storing" /\ q.version = v
      /\ q.case = enrich[t].case
  BY <1>1, <1>2 DEF EnrichState
<1> HIDE DEF q
<1>5. \A u \in Tasks : u # t => enrich'[u] = enrich[u]
  BY <1>3 DEF EnrichInv, EnrichType
<1>6. enrich'[t] = q
  BY <1>3 DEF EnrichInv, EnrichType
<1>7. UNCHANGED stored
  BY DEF PaymentFound
<1>8. EnrichType'
  BY <1>1, <1>3, <1>4, <1>5, <1>6, <1>7 DEF EnrichInv, EnrichType, stored
<1>9. OneInside'
  BY <1>1, <1>4, <1>5, <1>6 DEF EnrichInv, OneInside, Inside
<1>10. Ahead'
  BY <1>2, <1>4, <1>5, <1>6, <1>7 DEF EnrichInv, Ahead, stored
<1> QED
  BY <1>7, <1>8, <1>9, <1>10 DEF EnrichInv, SomeNewest, EnrichmentIsWhole, stored

\* The flags are among those that have a name.
LEMMA FlagsAreNamed ==
  ASSUME NEW data, NEW found
  PROVE  Flags(data, found) \subseteq FlagNames
BY DEF Flags, Mismatches, FlagNames

\* The rows of all kinds are replaced by the newest in one commit.
LEMMA EnrichStore ==
  ASSUME EnrichInv, NEW t \in Tasks, NEW found \in Findings, Store(t, found)
  PROVE  EnrichInv'
<1> DEFINE q == [enrich[t] EXCEPT !.pc = "done"]
<1>1. PICK c \in Cases : c = enrich[t].case
  BY DEF EnrichInv, EnrichType, Store
<1>2. PICK v \in Nat : v = enrich[t].version
  BY DEF EnrichInv, EnrichType, EnrichState
<1>3. q \in EnrichState /\ q.pc = "done" /\ q.case = c
  BY <1>1 DEF EnrichInv, EnrichType, EnrichState
<1>4. enrich' = [enrich EXCEPT ![t] = q]
  BY DEF Store, Move
<1> HIDE DEF q
<1>5. \A u \in Tasks : u # t => enrich'[u] = enrich[u]
  BY <1>4 DEF EnrichInv, EnrichType
<1>6. enrich'[t] = q
  BY <1>4 DEF EnrichInv, EnrichType
<1>7. PICK row \in [version : Nat, by : Tasks, flags : SUBSET FlagNames] :
        /\ row.version = v
        /\ enrichments' = [enrichments EXCEPT ![c] = enrichments[c] \cup {row}]
  <2> DEFINE r == [version |-> v, by |-> t, flags |-> Flags(source, found)]
  <2>1. r \in [version : Nat, by : Tasks, flags : SUBSET FlagNames] /\ r.version = v
    BY <1>2, FlagsAreNamed
  <2>2. enrichments' = [enrichments EXCEPT ![c] = enrichments[c] \cup {r}]
    BY <1>1, <1>2 DEF Store
  <2> HIDE DEF r
  <2> QED
    BY <2>1, <2>2
<1>8. /\ enrichments'[c] = enrichments[c] \cup {row}
      /\ \A b \in Cases : b # c => enrichments'[b] = enrichments[b]
  BY <1>7 DEF EnrichInv, EnrichType
<1>9. PICK new \in [Kinds -> SUBSET Nat] :
        /\ entities' = [entities EXCEPT ![c] = new]
        /\ new["payment"] = {v}
        /\ \A k \in Kinds : new[k] \subseteq {v}
  <2> DEFINE n == ReplacedRows(entities[c], found, v)
  <2>1. "payment" \in found
    BY DEF Findings
  <2>2. /\ n \in [Kinds -> SUBSET Nat]
        /\ n["payment"] = {v}
        /\ \A k \in Kinds : n[k] \subseteq {v}
    BY <2>1, EnrichmentAssumption DEF ReplacedRows
  <2>3. entities' = [entities EXCEPT ![c] = n]
    BY <1>1, <1>2 DEF Store
  <2> HIDE DEF n
  <2> QED
    BY <2>2, <2>3
<1>10. entities'[c] = new /\ \A b \in Cases : b # c => entities'[b] = entities[b]
  BY <1>9 DEF EnrichInv, EnrichType
<1>11. \A x \in enrichments[c] : x.version \in Nat /\ x.version < v
  BY <1>1, <1>2 DEF EnrichInv, EnrichType, Ahead, Store
<1>12. EnrichType'
  <2>1. enrich' \in [Tasks -> EnrichState]
    BY <1>3, <1>4 DEF EnrichInv, EnrichType
  <2>2. enrichments' \in [Cases -> SUBSET [version : Nat, by : Tasks, flags : SUBSET FlagNames]]
    <3> DEFINE R == [version : Nat, by : Tasks, flags : SUBSET FlagNames]
    <3>1. enrichments \in [Cases -> SUBSET R] /\ row \in R
      BY <1>7 DEF EnrichInv, EnrichType
    <3> HIDE DEF R
    <3>2. enrichments' \in [Cases -> SUBSET R]
      BY <1>7, <3>1
    <3> QED
      BY <3>2 DEF R
  <2>3. entities' \in [Cases -> [Kinds -> SUBSET Nat]]
    BY <1>9 DEF EnrichInv, EnrichType
  <2>4. \A u \in Tasks : enrich'[u].pc = "absent" \/ enrich'[u].case \in Cases
    BY <1>3, <1>5, <1>6 DEF EnrichInv, EnrichType
  <2> QED
    BY <2>1, <2>2, <2>3, <2>4 DEF EnrichType
<1>13. OneInside'
  BY <1>3, <1>5, <1>6 DEF EnrichInv, OneInside, Inside
<1>14. Ahead'
  <2> SUFFICES ASSUME NEW u \in Tasks, enrich'[u].pc = "storing"
               PROVE  \A x \in enrichments'[enrich'[u].case] : x.version < enrich'[u].version
    BY DEF Ahead
  <2>1. u # t /\ enrich'[u] = enrich[u]
    BY <1>3, <1>5, <1>6
  <2>2. enrich[u].case # c /\ enrich[u].case \in Cases
    BY <1>1, <2>1 DEF EnrichInv, EnrichType, OneInside, Inside, Store
  <2> QED
    BY <1>8, <2>1, <2>2 DEF EnrichInv, Ahead
<1>15. SomeNewest'
  <2> SUFFICES ASSUME NEW b \in Cases, enrichments'[b] # {}
               PROVE  \E x \in enrichments'[b] : \A y \in enrichments'[b] : y.version <= x.version
    BY DEF SomeNewest
  <2>1. CASE b = c
    BY <1>2, <1>7, <1>8, <1>11, <2>1
  <2>2. CASE b # c
    BY <1>8, <2>2 DEF EnrichInv, SomeNewest
  <2> QED
    BY <2>1, <2>2
<1>16. EnrichmentIsWhole'
  <2> SUFFICES ASSUME NEW b \in Cases
               PROVE  /\ \A x, y \in enrichments'[b] : x.version = y.version => x = y
                      /\ \A k \in Kinds : \A w \in entities'[b][k] :
                           /\ entities'[b]["payment"] = {w}
                           /\ \E x \in enrichments'[b] : x.version = w
                           /\ \A x \in enrichments'[b] : x.version <= w
    BY DEF EnrichmentIsWhole
  <2>1. CASE b # c
    BY <1>8, <1>10, <2>1 DEF EnrichInv, EnrichmentIsWhole
  <2>2. CASE b = c
    <3>1. \A x, y \in enrichments'[b] : x.version = y.version => x = y
      BY <1>2, <1>7, <1>8, <1>11, <2>2 DEF EnrichInv, EnrichmentIsWhole
    <3>2. \A k \in Kinds : \A w \in entities'[b][k] : w = v
      BY <1>9, <1>10, <2>2
    <3>3. \A x \in enrichments'[b] : x.version <= v
      BY <1>2, <1>7, <1>8, <1>11, <2>2
    <3> QED
      BY <1>7, <1>8, <1>9, <1>10, <2>2, <3>1, <3>2, <3>3
  <2> QED
    BY <2>1, <2>2
<1> QED
  BY <1>12, <1>13, <1>14, <1>15, <1>16 DEF EnrichInv

-----------------------------------------------------------------------------
(*                What the enrichments report of their rows                *)

RestType ==
  /\ completeness \in [Cases -> 0..Whole]
  /\ source \in Sources
  /\ errors \subseteq Cases

\* What an enrichment says was computed from what is stored of it.
Reported ==
  \A c \in Cases : \A x \in enrichments[c] : FoundBy(c, x) # {} =>
    /\ FoundBy(c, x) \in Findings
    /\ x.flags = Flags(source, FoundBy(c, x))
    /\ completeness[c] = Completeness(source, FoundBy(c, x))

ReportInv == RestType /\ Reported

LEMMA ReportInit == EnrichmentInit => ReportInv
<1>1. 0 \in 0..Whole
  BY DEF Whole
<1>2. EnrichmentInit => RestType
  BY <1>1 DEF EnrichmentInit, RestType
<1>3. EnrichmentInit => Reported
  BY DEF EnrichmentInit, Reported
<1> QED
  BY <1>2, <1>3 DEF ReportInv

LEMMA ReportUnchanged ==
  ASSUME ReportInv, UNCHANGED <<enrichments, entities, completeness, source>>,
         errors' \subseteq Cases
  PROVE  ReportInv'
<1>1. RestType'
  BY DEF ReportInv, RestType
<1>2. Findings' = Findings /\ \A c, x : FoundBy(c, x)' = FoundBy(c, x)
  BY DEF Findings, FoundBy
<1>3. Reported'
  BY <1>2 DEF ReportInv, Reported
<1> QED
  BY <1>1, <1>3 DEF ReportInv

\* An older enrichment has no row left; the new one has what it found.
LEMMA ReportStore ==
  ASSUME EnrichInv, ReportInv, NEW t \in Tasks, NEW found \in Findings, Store(t, found)
  PROVE  ReportInv'
<1>1. PICK c \in Cases : c = enrich[t].case
  BY DEF EnrichInv, EnrichType, Store
<1>2. PICK v \in Nat : v = enrich[t].version
  BY DEF EnrichInv, EnrichType, EnrichState
<1>3. found \in SUBSET Kinds /\ found \in SUBSET DOMAIN Weight
  BY EnrichmentAssumption DEF Findings, Weight
<1>4. source \in Sources /\ source.filled \in [DOMAIN Weight -> 0..100]
  BY SourcesAssumption DEF ReportInv, RestType
<1>5. UNCHANGED <<source, errors>>
  BY DEF Store
<1>6. Completeness(source, found) \in 0..Whole
  BY <1>3, <1>4, CompletenessIsFair
<1>7. /\ completeness'[c] = Completeness(source, found)
      /\ completeness' \in [Cases -> 0..Whole]
      /\ \A b \in Cases : b # c => completeness'[b] = completeness[b]
  <2>1. PICK n \in 0..Whole : n = Completeness(source, found)
    BY <1>6
  <2>2. completeness' = [completeness EXCEPT ![c] = n]
    BY <1>1, <2>1 DEF Store
  <2>3. completeness \in [Cases -> 0..Whole]
    BY DEF ReportInv, RestType
  <2> QED
    BY <2>1, <2>2, <2>3
<1>8. RestType'
  BY <1>4, <1>5, <1>7 DEF ReportInv, RestType
<1>9. PICK row : /\ row.version = v /\ row.flags = Flags(source, found)
                 /\ enrichments'[c] = enrichments[c] \cup {row}
  <2> DEFINE r == [version |-> v, by |-> t, flags |-> Flags(source, found)]
  <2>1. r.version = v /\ r.flags = Flags(source, found)
    OBVIOUS
  <2>2. enrichments' = [enrichments EXCEPT ![c] = enrichments[c] \cup {r}]
    BY <1>1, <1>2 DEF Store
  <2> HIDE DEF r
  <2>3. enrichments'[c] = enrichments[c] \cup {r}
    BY <2>2 DEF EnrichInv, EnrichType
  <2> QED
    BY <2>1, <2>3
<1>10. \A b \in Cases : b # c => enrichments'[b] = enrichments[b] /\ entities'[b] = entities[b]
  BY <1>1 DEF Store, EnrichInv, EnrichType
<1>11. \A k \in Kinds : entities'[c][k] = IF k \in found THEN {v} ELSE {}
  BY <1>1, <1>2 DEF Store, ReplacedRows, EnrichInv, EnrichType
<1>12. \A x \in enrichments[c] : x.version \in Nat /\ x.version < v
  BY <1>1, <1>2 DEF EnrichInv, EnrichType, Ahead, Store
<1>13. Findings' = Findings
  BY <1>5 DEF Findings
<1>14. FoundBy(c, row)' = found
  BY <1>3, <1>9, <1>11 DEF FoundBy
<1>15. \A x \in enrichments[c] : FoundBy(c, x)' = {}
  BY <1>2, <1>11, <1>12 DEF FoundBy
<1>16. \A b \in Cases : b # c => \A x : FoundBy(b, x)' = FoundBy(b, x)
  BY <1>10 DEF FoundBy
<1>17. Reported'
  <2> SUFFICES ASSUME NEW b \in Cases, NEW x \in enrichments'[b], FoundBy(b, x)' # {}
               PROVE  /\ FoundBy(b, x)' \in Findings
                      /\ x.flags = Flags(source, FoundBy(b, x)')
                      /\ completeness'[b] = Completeness(source, FoundBy(b, x)')
    BY <1>5, <1>13 DEF Reported
  <2>1. CASE b # c
    BY <1>7, <1>10, <1>16, <2>1 DEF ReportInv, Reported
  <2>2. CASE b = c
    <3>1. x = row
      BY <1>9, <1>15, <2>2
    <3> QED
      BY <1>7, <1>9, <1>14, <2>2, <3>1
  <2> QED
    BY <2>1, <2>2
<1> QED
  BY <1>8, <1>17 DEF ReportInv

\* Every step of an enrichment keeps the invariant, whoever else runs.
LEMMA EnrichmentKeepsInv ==
  ASSUME EnrichInv, ReportInv, NEW t \in Tasks, EnrichmentStep(t) \/ EnrichmentFails(t)
  PROVE  EnrichInv' /\ ReportInv'
<1>1. errors \subseteq Cases
  BY DEF ReportInv, RestType
<1>2. CASE Load(t) \/ ProviderUnavailable(t) \/ EnrichmentFails(t)
  <2>1. UNCHANGED stored
    BY <1>2 DEF Load, ProviderUnavailable, EnrichmentFails
  <2> QED
    BY <1>1, <1>2, <2>1, EnrichOut, ReportUnchanged DEF stored
<1>3. CASE MarkEnriching(t) \/ PaymentFound(t)
  <2>1. UNCHANGED stored
    BY <1>3 DEF MarkEnriching, PaymentFound
  <2> QED
    BY <1>1, <1>3, <2>1, EnrichMark, EnrichPaymentFound, ReportUnchanged DEF stored
<1>4. CASE PaymentMissing(t)
  <2>1. enrich[t].case \in Cases
    BY <1>4 DEF PaymentMissing, EnrichInv, EnrichType
  <2>2. errors' \subseteq Cases /\ UNCHANGED <<enrichments, entities, completeness, source>>
    BY <1>1, <1>4, <2>1 DEF PaymentMissing
  <2> QED
    BY <1>4, <2>2, EnrichPaymentMissing, ReportUnchanged
<1>5. ASSUME NEW found \in Findings, Store(t, found)
      PROVE  EnrichInv' /\ ReportInv'
  BY <1>5, EnrichStore, ReportStore
<1> QED
  BY <1>2, <1>3, <1>4, <1>5 DEF EnrichmentStep

LEMMA EnrichmentTyped == EnrichInv /\ ReportInv => EnrichmentTypeOK
BY DEF EnrichInv, EnrichType, ReportInv, RestType, EnrichmentTypeOK

\* Flags computed from the stored rows say whether there is a doubt.
LEMMA ReportIsTrue == ReportInv => FlagsAreTrue
<1> SUFFICES ASSUME ReportInv, NEW c \in Cases, NEW x \in enrichments[c], FoundBy(c, x) # {}
             PROVE  /\ x.flags = {} <=> Doubtless(source, FoundBy(c, x))
                    /\ completeness[c] = Whole <=>
                         \A k \in DOMAIN Weight : k \in FoundBy(c, x) /\ source.filled[k] = 100
  BY DEF FlagsAreTrue
<1>1. PICK found \in Findings : found = FoundBy(c, x)
  BY DEF ReportInv, Reported
<1>2. x.flags = Flags(source, found) /\ completeness[c] = Completeness(source, found)
  BY <1>1 DEF ReportInv, Reported
<1>3. source \in Sources /\ source.filled \in [DOMAIN Weight -> 0..100]
  BY SourcesAssumption DEF ReportInv, RestType
<1>4. found \in SUBSET DOMAIN Weight
  BY EnrichmentAssumption DEF Findings, Weight
<1>5. x.flags = {} <=> Doubtless(source, found)
  BY <1>2, <1>3, NoFlagNoDoubt
<1>6. completeness[c] = Whole <=> \A k \in DOMAIN Weight : k \in found /\ source.filled[k] = 100
  BY <1>2, <1>3, <1>4, CompletenessIsFair
<1> QED
  BY <1>1, <1>5, <1>6
=============================================================================
