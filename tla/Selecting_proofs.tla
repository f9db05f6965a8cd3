--------------------------- MODULE Selecting_proofs ---------------------------
(* That Kept keeps what it should and no other: the k-th of a finite set of *)
(* places exists and is the only one, by induction in the form of sets (the *)
(* least element of a set of numbers).  And that Sorted exists, and lists   *)
(* all that there is in the order.                                          *)
EXTENDS Selecting, SequenceTheorems, FiniteSetTheorems, WellFoundedInduction, TLAPS

-----------------------------------------------------------------------------
(* Natural numbers: a set of them has a least one, and induction in the    *)
(* form of sets.                                                           *)

LEMMA Least == ASSUME NEW T, T \subseteq Nat, T # {} PROVE \E x \in T : \A y \in T : x <= y
<1> DEFINE R == {ss \in Nat \X Nat : ss[1] < ss[2]}
<1>1. IsWellFoundedOn(OpToRel(<, Nat), Nat)
  BY NatLessThanWellFounded
<1>2. OpToRel(<, Nat) = R
  BY DEF OpToRel
<1>3. IsWellFoundedOn(R, Nat)
  BY <1>1, <1>2
<1>4. PICK x \in T : \A y \in T : ~ (<<y, x>> \in R)
  <2> HIDE DEF R
  <2> QED BY <1>3, WFMin
<1>5. ASSUME NEW y \in T PROVE x <= y
  <2>1. <<y, x>> \notin R  BY <1>4
  <2>2. x \in Nat /\ y \in Nat  OBVIOUS
  <2>3. ~(y < x)  BY <2>1, <2>2
  <2> QED BY <2>2, <2>3
<1> QED BY <1>5

LEMMA Induct ==
    ASSUME NEW T, T \subseteq Nat, 0 \in T, \A n \in T : n + 1 \in T
    PROVE  T = Nat
<1>1. SUFFICES ASSUME Nat \ T # {} PROVE FALSE
  OBVIOUS
<1>2. PICK x \in Nat \ T : \A y \in Nat \ T : x <= y
  BY <1>1, Least
<1>3. x # 0 /\ x - 1 \in Nat
  BY <1>2
<1>4. x - 1 \in T
  BY <1>2, <1>3
<1>5. (x - 1) + 1 \in T
  BY <1>4
<1> QED BY <1>5, <1>3, <1>2

-----------------------------------------------------------------------------
(* Kept: the k-th of a finite set of places exists, and is the only one.   *)

Below(S, i) == {j \in S : j < i}

LEMMA BelowFinite ==
    ASSUME NEW S, S \subseteq Nat, IsFiniteSet(S)
    PROVE  /\ Cardinality(S) \in Nat
           /\ \A i : IsFiniteSet(Below(S, i)) /\ Cardinality(Below(S, i)) \in Nat
           /\ \A i \in S : Cardinality(Below(S, i)) + 1 \in 1..Cardinality(S)
<1>1. \A i : Below(S, i) \in SUBSET S  BY DEF Below
<1>2. \A i : IsFiniteSet(Below(S, i)) /\ Cardinality(Below(S, i)) \in Nat
  BY <1>1, FS_Subset, FS_CardinalityType
<1>3. Cardinality(S) \in Nat  BY FS_CardinalityType
<1>4. ASSUME NEW i \in S PROVE Cardinality(Below(S, i)) + 1 \in 1..Cardinality(S)
  <2>1. i \notin Below(S, i)  BY DEF Below
  <2>2. Below(S, i) \cup {i} \in SUBSET S  BY <1>1
  <2>3. Cardinality(Below(S, i) \cup {i}) = Cardinality(Below(S, i)) + 1
    BY <1>2, <2>1, FS_AddElement
  <2>4. Cardinality(Below(S, i) \cup {i}) <= Cardinality(S)  BY <2>2, FS_Subset
  <2> QED BY <2>3, <2>4, <1>2, <1>3
<1> QED BY <1>2, <1>3, <1>4

LEMMA KthExists ==
    ASSUME NEW S, S \subseteq Nat, IsFiniteSet(S)
    PROVE  \A k \in 1..Cardinality(S) : \E i \in S : Cardinality(Below(S, i)) = k - 1
<1> DEFINE T == {k \in Nat : k + 1 <= Cardinality(S) => \E i \in S : Cardinality(Below(S, i)) = k}
<1>0. Cardinality(S) \in Nat  BY BelowFinite
<1>1. 0 \in T
  <2>1. SUFFICES ASSUME 0 + 1 <= Cardinality(S) PROVE \E i \in S : Cardinality(Below(S, i)) = 0
    OBVIOUS
  <2>2. S # {}  BY <2>1, FS_EmptySet
  <2>3. PICK i \in S : \A j \in S : i <= j  BY <2>2, Least
  <2>4. \A j \in S : ~(j < i)  BY <2>3
  <2>5. Below(S, i) = {}  BY <2>4 DEF Below
  <2> QED BY <2>5, FS_EmptySet
<1>2. ASSUME NEW k \in T PROVE k + 1 \in T
  <2>1. SUFFICES ASSUME (k + 1) + 1 <= Cardinality(S)
                 PROVE  \E i \in S : Cardinality(Below(S, i)) = k + 1
    OBVIOUS
  <2>2. k \in Nat /\ k + 1 <= Cardinality(S)  BY <1>0, <2>1
  <2>3. PICK i \in S : Cardinality(Below(S, i)) = k  BY <2>2
  <2> DEFINE A == Below(S, i) \cup {i}
  <2>4. i \notin Below(S, i) /\ i \in Nat  BY DEF Below
  <2>5. IsFiniteSet(A) /\ Cardinality(A) = k + 1
    BY <2>3, <2>4, BelowFinite, FS_AddElement
  <2>6. S \ A # {}
    <3>1. SUFFICES ASSUME S \subseteq A PROVE FALSE
      OBVIOUS
    <3>2. Cardinality(S) <= Cardinality(A)  BY <2>5, <3>1, FS_Subset
    <3> QED BY <2>1, <2>2, <2>5, <3>2, <1>0
  <2>7. PICK x \in S \ A : \A y \in S \ A : x <= y
    <3> HIDE DEF A
    <3> QED BY <2>6, Least
  <2>8. Below(S, x) = A
    <3>1. ASSUME NEW j \in S, j < x PROVE j \in A  BY <2>7, <3>1
    <3>2. i < x  BY <2>4, <2>7 DEF Below
    <3>3. ASSUME NEW j \in Below(S, i) PROVE j < x  BY <2>4, <3>2 DEF Below
    <3> QED BY <3>1, <3>2, <3>3 DEF Below
  <2> QED BY <2>5, <2>7, <2>8
<1>3. T = Nat
  <2> HIDE DEF T
  <2>1. T \subseteq Nat  BY DEF T
  <2> QED BY <1>1, <1>2, <2>1, Induct
<1>4. ASSUME NEW k \in 1..Cardinality(S) PROVE \E i \in S : Cardinality(Below(S, i)) = k - 1
  <2>1. k - 1 \in T /\ (k - 1) + 1 <= Cardinality(S)  BY <1>0, <1>3
  <2> QED BY <2>1
<1> QED BY <1>4

LEMMA KthUnique ==
    ASSUME NEW S, S \subseteq Nat, IsFiniteSet(S), NEW i \in S, NEW j \in S,
           Cardinality(Below(S, i)) = Cardinality(Below(S, j))
    PROVE  i = j
<1>1. ASSUME NEW a \in S, NEW b \in S, a < b
      PROVE  Cardinality(Below(S, a)) # Cardinality(Below(S, b))
  <2>1. a \in Nat /\ b \in Nat  OBVIOUS
  <2>2. a \notin Below(S, a) /\ Below(S, a) \cup {a} \in SUBSET Below(S, b)
    <3>1. ASSUME NEW c \in S, c < a PROVE c < b
      <4>1. c \in Nat  OBVIOUS
      <4> QED BY <4>1, <2>1, <1>1, <3>1
    <3>2. ~(a < a)  BY <2>1
    <3>3. a \notin Below(S, a)  BY <3>2 DEF Below
    <3>4. \A c \in Below(S, a) : c \in S /\ c < a  BY DEF Below
    <3>5. \A c \in Below(S, a) \cup {a} : c \in S /\ c < b  BY <1>1, <3>1, <3>4
    <3>6. \A c \in Below(S, a) \cup {a} : c \in Below(S, b)
      <4> TAKE c \in Below(S, a) \cup {a}
      <4>1. c \in S /\ c < b  BY <3>5
      <4> QED BY <4>1 DEF Below
    <3> QED BY <3>3, <3>6
  <2>3. Cardinality(Below(S, a) \cup {a}) = Cardinality(Below(S, a)) + 1
    BY <2>2, BelowFinite, FS_AddElement
  <2>4. Cardinality(Below(S, a) \cup {a}) <= Cardinality(Below(S, b))
    BY <2>2, BelowFinite, FS_Subset
  <2>5. Cardinality(Below(S, a)) \in Nat /\ Cardinality(Below(S, b)) \in Nat  BY BelowFinite
  <2> QED BY <2>3, <2>4, <2>5
<1>2. i \in Nat /\ j \in Nat  OBVIOUS
<1>3. ~(i < j) /\ ~(j < i)  BY <1>1
<1> QED BY <1>2, <1>3

\* Kept keeps the members of keep, and only them.
LEMMA KeptOf ==
    ASSUME NEW S, NEW ns \in Seq(S), NEW keep
    PROVE  /\ Kept(ns, keep) \in Seq(S \cap keep)
           /\ \A i \in DOMAIN ns : ns[i] \in keep => \E k \in DOMAIN Kept(ns, keep) : Kept(ns, keep)[k] = ns[i]
<1> DEFINE places == {i \in DOMAIN ns : ns[i] \in keep}
           kth(k) == CHOOSE i \in places : Cardinality({j \in places : j < i}) = k - 1
<1>1. DOMAIN ns = 1..Len(ns) /\ Len(ns) \in Nat  BY LenProperties
<1>2. places \subseteq Nat /\ IsFiniteSet(places)
  <2>1. IsFiniteSet(1..Len(ns))  BY <1>1, FS_Interval
  <2>2. places \in SUBSET (1..Len(ns))  BY <1>1
  <2> QED BY <2>1, <2>2, FS_Subset
<1>3. Kept(ns, keep) = [k \in 1..Cardinality(places) |-> ns[kth(k)]]
  BY DEF Kept
<1>4. Cardinality(places) \in Nat  BY <1>2, FS_CardinalityType
<1>5. ASSUME NEW k \in 1..Cardinality(places)
      PROVE  kth(k) \in places /\ Cardinality(Below(places, kth(k))) = k - 1
  <2>1. \E i \in places : Cardinality(Below(places, i)) = k - 1
    <3> HIDE DEF places
    <3> QED BY <1>2, KthExists
  <2> QED BY <2>1 DEF Below
<1>6. \A k \in 1..Cardinality(places) : ns[kth(k)] \in S \cap keep
  <2> HIDE DEF kth
  <2> QED BY <1>1, <1>5, ElementOfSeq
<1>7. ASSUME NEW i \in places PROVE \E k \in 1..Cardinality(places) : ns[kth(k)] = ns[i]
  <2> DEFINE k == Cardinality(Below(places, i)) + 1
  <2> HIDE DEF places, kth
  <2>0. k \in 1..Cardinality(places) /\ Cardinality(Below(places, i)) \in Nat  BY <1>2, BelowFinite
  <2>1. k \in 1..Cardinality(places) /\ k - 1 = Cardinality(Below(places, i))
    BY <2>0
  <2>2. kth(k) = i
    BY <2>1, <1>2, <1>5, KthUnique
  <2> QED BY <2>1, <2>2
<1> HIDE DEF places, kth
<1>8. Kept(ns, keep) \in Seq(S \cap keep) /\ DOMAIN Kept(ns, keep) = 1..Cardinality(places)
  BY <1>3, <1>4, <1>6
<1>9. ASSUME NEW i \in DOMAIN ns, ns[i] \in keep
      PROVE  \E k \in DOMAIN Kept(ns, keep) : Kept(ns, keep)[k] = ns[i]
  <2>1. i \in places  BY <1>9 DEF places
  <2>2. PICK k \in 1..Cardinality(places) : ns[kth(k)] = ns[i]  BY <2>1, <1>7
  <2> QED BY <2>2, <1>3, <1>8
<1> QED BY <1>8, <1>9

\* and in their order: the k-th that is kept is from a place after that of those before it, and
\* every place that should be kept is one of these.
LEMMA KeptInOrder ==
    ASSUME NEW S, NEW ns \in Seq(S), NEW keep
    PROVE  \E at \in [DOMAIN Kept(ns, keep) -> DOMAIN ns] :
               /\ \A k \in DOMAIN Kept(ns, keep) : Kept(ns, keep)[k] = ns[at[k]] /\ ns[at[k]] \in keep
               /\ \A k, m \in DOMAIN Kept(ns, keep) : at[k] < at[m] => k < m
               /\ \A i \in DOMAIN ns : ns[i] \in keep => \E k \in DOMAIN Kept(ns, keep) : at[k] = i
<1> DEFINE places == {i \in DOMAIN ns : ns[i] \in keep}
           n == Cardinality(places)
           kth(k) == CHOOSE i \in places : Cardinality({j \in places : j < i}) = k - 1
           at == [k \in 1..n |-> kth(k)]
<1>1. DOMAIN ns = 1..Len(ns) /\ Len(ns) \in Nat  BY LenProperties
<1>2. places \subseteq Nat /\ IsFiniteSet(places)
  <2>1. IsFiniteSet(1..Len(ns))  BY <1>1, FS_Interval
  <2>2. places \in SUBSET (1..Len(ns))  BY <1>1
  <2> QED BY <2>1, <2>2, FS_Subset
<1>3. Kept(ns, keep) = [k \in 1..n |-> ns[kth(k)]]
  BY DEF Kept
<1>4. n \in Nat  BY <1>2, FS_CardinalityType
<1>5. ASSUME NEW k \in 1..n
      PROVE  kth(k) \in places /\ Cardinality(Below(places, kth(k))) = k - 1
  <2>1. \E i \in places : Cardinality(Below(places, i)) = k - 1
    <3> HIDE DEF places
    <3> QED BY <1>2, KthExists
  <2> QED BY <2>1 DEF Below
<1>6. \A i \in places : ns[i] \in keep /\ i \in DOMAIN ns
  OBVIOUS
<1>7. \A i \in DOMAIN ns : ns[i] \in keep => i \in places
  OBVIOUS
<1> HIDE DEF places, kth, n
<1>8. at \in [DOMAIN Kept(ns, keep) -> DOMAIN ns] /\ DOMAIN Kept(ns, keep) = 1..n
  BY <1>3, <1>5, <1>6
<1>9. \A k \in 1..n : Kept(ns, keep)[k] = ns[at[k]] /\ ns[at[k]] \in keep
  BY <1>3, <1>5, <1>6
<1>10. ASSUME NEW k \in 1..n, NEW m \in 1..n, at[k] < at[m] PROVE k < m
  <2>1. Below(places, at[k]) \cup {at[k]} \in SUBSET Below(places, at[m])
    <3>1. at[k] \in places /\ at[m] \in places  BY <1>5
    <3>2. at[k] \in Nat /\ at[m] \in Nat  BY <3>1, <1>2
    <3>3. \A j \in places : j < at[k] => j < at[m]  BY <3>2, <1>2, <1>10
    <3> QED BY <3>1, <3>3, <1>10 DEF Below
  <2>2. Cardinality(Below(places, at[k]) \cup {at[k]}) <= Cardinality(Below(places, at[m]))
    BY <2>1, <1>2, BelowFinite, FS_Subset
  <2>3. at[k] \notin Below(places, at[k])
    <3>1. at[k] \in Nat  BY <1>5, <1>2
    <3> QED BY <3>1 DEF Below
  <2>4. Cardinality(Below(places, at[k]) \cup {at[k]}) = Cardinality(Below(places, at[k])) + 1
    BY <2>3, <1>2, BelowFinite, FS_AddElement
  <2>5. (k - 1) + 1 <= m - 1
    BY <2>2, <2>4, <1>5
  <2> QED BY <2>5, <1>4
<1>11. ASSUME NEW i \in places PROVE \E k \in 1..n : at[k] = i
  <2> DEFINE k == Cardinality(Below(places, i)) + 1
  <2>0. k \in 1..n /\ Cardinality(Below(places, i)) \in Nat  BY <1>2, BelowFinite DEF n
  <2>1. k \in 1..n /\ k - 1 = Cardinality(Below(places, i))  BY <2>0
  <2>2. kth(k) = i  BY <2>1, <1>2, <1>5, KthUnique
  <2> QED BY <2>1, <2>2
<1> HIDE DEF at
<1>12. \A i \in DOMAIN ns : ns[i] \in keep => \E k \in DOMAIN Kept(ns, keep) : at[k] = i
  BY <1>7, <1>8, <1>11
<1>13. \A k, m \in DOMAIN Kept(ns, keep) : at[k] < at[m] => k < m
  BY <1>8, <1>10
<1>14. \A k \in DOMAIN Kept(ns, keep) : Kept(ns, keep)[k] = ns[at[k]] /\ ns[at[k]] \in keep
  BY <1>8, <1>9
<1> QED BY <1>8, <1>12, <1>13, <1>14

-----------------------------------------------------------------------------
(* Sorted: how many come before a member is its place, so that there is a  *)
(* listing in the order; and whatever is one has them all.                 *)

Prior(S, R, f) == {g \in S : <<g, f>> \in R}

StrictOrder(S, R) ==
    /\ \A f \in S : <<f, f>> \notin R
    /\ \A f, g, h \in S : <<f, g>> \in R /\ <<g, h>> \in R => <<f, h>> \in R
    /\ \A f, g \in S : f # g => <<f, g>> \in R \/ <<g, f>> \in R

LEMMA PriorCounts ==
    ASSUME NEW S, IsFiniteSet(S), NEW R, StrictOrder(S, R)
    PROVE  /\ \A f \in S : Cardinality(Prior(S, R, f)) + 1 \in 1..Cardinality(S)
           /\ \A f, g \in S : <<f, g>> \in R => Cardinality(Prior(S, R, f)) < Cardinality(Prior(S, R, g))
<1>1. Cardinality(S) \in Nat  BY FS_CardinalityType
<1>2. ASSUME NEW f \in S
      PROVE  /\ Cardinality(Prior(S, R, f)) \in Nat
             /\ Cardinality(Prior(S, R, f) \cup {f}) = Cardinality(Prior(S, R, f)) + 1
             /\ IsFiniteSet(Prior(S, R, f))
  <2>1. Prior(S, R, f) \in SUBSET S  BY DEF Prior
  <2>2. IsFiniteSet(Prior(S, R, f))  BY <2>1, FS_Subset
  <2>3. f \notin Prior(S, R, f)  BY DEF Prior, StrictOrder
  <2> QED BY <2>2, <2>3, FS_AddElement, FS_CardinalityType
<1>3. ASSUME NEW f \in S PROVE Cardinality(Prior(S, R, f)) + 1 \in 1..Cardinality(S)
  <2>1. Prior(S, R, f) \cup {f} \in SUBSET S  BY DEF Prior
  <2>2. Cardinality(Prior(S, R, f) \cup {f}) <= Cardinality(S)  BY <2>1, FS_Subset
  <2> QED BY <1>1, <1>2, <2>2
<1>4. ASSUME NEW f \in S, NEW g \in S, <<f, g>> \in R
      PROVE  Cardinality(Prior(S, R, f)) < Cardinality(Prior(S, R, g))
  <2>1. Prior(S, R, f) \cup {f} \in SUBSET Prior(S, R, g)  BY <1>4 DEF Prior, StrictOrder
  <2>2. Cardinality(Prior(S, R, f) \cup {f}) <= Cardinality(Prior(S, R, g))  BY <1>2, <2>1, FS_Subset
  <2>3. /\ Cardinality(Prior(S, R, f)) \in Nat /\ Cardinality(Prior(S, R, g)) \in Nat
        /\ Cardinality(Prior(S, R, f)) + 1 <= Cardinality(Prior(S, R, g))
    BY <1>2, <2>2
  <2> QED BY <2>3
<1> QED BY <1>3, <1>4

LEMMA ListingExists ==
    ASSUME NEW S, IsFiniteSet(S), NEW R, StrictOrder(S, R)
    PROVE  \E s \in [1..Cardinality(S) -> S] :
               \A i, j \in 1..Cardinality(S) : i < j => <<s[i], s[j]>> \in R
<1> DEFINE n == Cardinality(S)
           q == [f \in S |-> Cardinality(Prior(S, R, f)) + 1]
           s == [k \in 1..n |-> CHOOSE f \in S : q[f] = k]
<1>1. n \in Nat  BY FS_CardinalityType
<1>2. IsFiniteSet(1..n) /\ Cardinality(1..n) = n
  <2> HIDE DEF n
  <2> QED BY <1>1, FS_Interval
<1>3. q \in [S -> 1..n]  BY PriorCounts
<1>4. \A f, g \in S : <<f, g>> \in R => q[f] < q[g]
  <2> TAKE f, g \in S
  <2>1. Cardinality(Prior(S, R, f)) + 1 \in 1..n /\ Cardinality(Prior(S, R, g)) + 1 \in 1..n
    BY PriorCounts
  <2> HIDE DEF n
  <2>2. Cardinality(Prior(S, R, f)) \in Nat /\ Cardinality(Prior(S, R, g)) \in Nat
    <3>1. IsFiniteSet(Prior(S, R, f)) /\ IsFiniteSet(Prior(S, R, g))
      <4>1. Prior(S, R, f) \in SUBSET S /\ Prior(S, R, g) \in SUBSET S  BY DEF Prior
      <4> QED BY <4>1, FS_Subset
    <3> QED BY <3>1, FS_CardinalityType
  <2> QED BY <2>2, PriorCounts
<1> HIDE DEF n, q
<1>5. \A f, g \in S : q[f] = q[g] => f = g
  <2> TAKE f, g \in S
  <2>1. q[f] \in Nat /\ q[g] \in Nat  BY <1>3
  <2>2. SUFFICES ASSUME q[f] = q[g], f # g PROVE FALSE  OBVIOUS
  <2>3. <<f, g>> \in R \/ <<g, f>> \in R  BY <2>2 DEF StrictOrder
  <2>4. q[f] < q[g] \/ q[g] < q[f]  BY <1>4, <2>3
  <2> QED BY <2>1, <2>2, <2>4
<1>6. q \in Injection(S, 1..n)  BY <1>3, <1>5 DEF Injection, IsInjective
<1>7. q \in Surjection(S, 1..n)  BY <1>2, <1>6, FS_Injection DEF n
<1>8. \A k \in 1..n : \E f \in S : q[f] = k  BY <1>7 DEF Surjection
<1>9. \A k \in 1..n : s[k] \in S /\ q[s[k]] = k  BY <1>8
<1>10. s \in [1..n -> S]
  <2>1. \A k \in 1..n : s[k] \in S  BY <1>9
  <2> QED BY <2>1
<1> HIDE DEF s
<1>11. ASSUME NEW i \in 1..n, NEW j \in 1..n, i < j PROVE <<s[i], s[j]>> \in R
  <2>1. s[i] \in S /\ s[j] \in S /\ q[s[i]] = i /\ q[s[j]] = j  BY <1>9
  <2>2. i \in Nat /\ j \in Nat  BY <1>1
  <2>3. s[i] # s[j]  BY <2>1, <2>2, <1>11
  <2>4. ~(<<s[j], s[i]>> \in R)  BY <2>1, <2>2, <1>4, <1>11
  <2> QED BY <2>1, <2>3, <2>4 DEF StrictOrder
<1> QED BY <1>10, <1>11 DEF n

\* Sorted lists the members of S, all of them, each before those it should be before.
LEMMA SortedOf ==
    ASSUME NEW S, IsFiniteSet(S), NEW R, StrictOrder(S, R)
    PROVE  /\ Sorted(S, R) \in Seq(S)
           /\ \A f \in S : \E i \in DOMAIN Sorted(S, R) : Sorted(S, R)[i] = f
           /\ \A i, j \in DOMAIN Sorted(S, R) : i < j => <<Sorted(S, R)[i], Sorted(S, R)[j]>> \in R
<1> DEFINE n == Cardinality(S)
           s == Sorted(S, R)
<1>1. s \in [1..n -> S] /\ \A i, j \in 1..n : i < j => <<s[i], s[j]>> \in R
  BY ListingExists DEF Sorted
<1>2. n \in Nat  BY FS_CardinalityType
<1> HIDE DEF s
<1>3. ASSUME NEW i \in 1..n, NEW j \in 1..n, s[i] = s[j] PROVE i = j
  <2>1. i \in Nat /\ j \in Nat  BY <1>2
  <2>2. s[i] \in S /\ s[j] \in S  BY <1>1
  <2>3. ~(i < j) /\ ~(j < i)  BY <1>1, <1>3, <2>2 DEF StrictOrder
  <2> QED BY <2>1, <2>3
<1>4. s \in Injection(1..n, S)  BY <1>1, <1>3 DEF Injection, IsInjective
<1>5. Cardinality(1..n) = n
  <2> HIDE DEF n
  <2> QED BY <1>2, FS_Interval
<1>6. s \in Surjection(1..n, S)  BY <1>4, <1>5, FS_Injection
<1>7. \A f \in S : \E i \in 1..n : s[i] = f  BY <1>6 DEF Surjection
<1>8. s \in Seq(S) /\ DOMAIN s = 1..n
  <2> HIDE DEF n
  <2> QED BY <1>1, <1>2
<1> QED BY <1>1, <1>7, <1>8 DEF s
===============================================================================
