-------------------------- MODULE SystemStateProofs --------------------------
(***************************************************************************)
(* Proofs about the storage accounting, storage pools and the subsidies,   *)
(* for rings of any length, any sizes, prices and rates and any number of  *)
(* objects: the ring buffer keeps the account of every epoch in the right  *)
(* slot, the cached used capacity is never stale, capacity is only         *)
(* exceeded by event blobs, the ring implements the ledger of module       *)
(* FutureLedger, no WAL appears or disappears, neither an epoch change nor *)
(* a subsidy can abort, no object claims capacity that is not booked,      *)
(* blobs stay backed, a pool's counters are exact and permanent blobs stay *)
(* in their pools.                                                         *)
(*                                                                         *)
(* The inductive invariant of the accounts is AccountingInv, the           *)
(* conjunction of the facts about them with type correctness.              *)
(* SlotsMatchEpochs is needed for the epoch change (the popped account is  *)
(* the one of the ending epoch), and the other two for each other:         *)
(* WithinTotalCapacity speaks about the cached field, the capacity check   *)
(* about the ring.                                                         *)
(*                                                                         *)
(* The inductive invariant of resources, blobs and pools is PoolInv:       *)
(* AccountingInv, an invariant of each object alone (ObjectOK), and        *)
(* ClaimsAreBooked.  Every operation replaces one or two objects; what it  *)
(* does to the sum of all claims follows from what it does to these, and   *)
(* what it books from the accounts by epoch.                               *)
(*                                                                         *)
(* The module begins with facts about SumFunctionOnSet of module           *)
(* Functions, for natural numbers over finite sets: what it adds up to     *)
(* when an element is added, when a value changes, and when the summands   *)
(* are ordered or split.  Sums are folds, and a fold is a recursive        *)
(* function on the subsets of its index set.  That this function exists,   *)
(* and that the order in which it picks the elements does not matter, is   *)
(* proved by induction on the number of elements.  Induction is used in    *)
(* the form of NatSetInduction and FiniteSetInduction, about sets of       *)
(* numbers or sets of sets instead of predicates, so that it applies to    *)
(* any formula in a set constructor.                                       *)
(***************************************************************************)
EXTENDS UsageSubsidies, StoragePool, Functions, FiniteSetTheorems, WellFoundedInduction, TLAPS

(* A set with 0 that is closed under successors has all natural numbers.   *)
LEMMA NatSetInduction ==
  ASSUME NEW N \in SUBSET Nat, 0 \in N, \A n \in N : n + 1 \in N
  PROVE  N = Nat
<1> DEFINE Less == {p \in Nat \X Nat : p[1] < p[2]}
<1>1. SUFFICES ASSUME Nat \ N # {} PROVE FALSE
  OBVIOUS
<1>2. IsWellFoundedOn(Less, Nat)
  BY NatLessThanWellFounded DEF OpToRel
<1>3. PICK m \in Nat \ N : \A n \in Nat \ N : <<n, m>> \notin Less
  <2>1. Nat \ N \subseteq Nat
    OBVIOUS
  <2> HIDE DEF Less
  <2> QED BY <1>1, <1>2, <2>1, WFMin
<1>4. m # 0 /\ m - 1 \in Nat /\ <<m - 1, m>> \in Less
  OBVIOUS
<1>5. m - 1 \in N
  BY <1>3, <1>4
<1> QED BY <1>4, <1>5

(* One element less.                                                       *)
LEMMA RemoveOne ==
  ASSUME NEW s, IsFiniteSet(s), NEW x \in s
  PROVE  /\ IsFiniteSet(s \ {x})
         /\ Cardinality(s \ {x}) \in Nat
         /\ Cardinality(s) = Cardinality(s \ {x}) + 1
<1>1. IsFiniteSet(s \ {x}) /\ Cardinality(s \ {x}) = Cardinality(s) - 1
  BY FS_RemoveElement
<1>2. Cardinality(s) \in Nat /\ Cardinality(s \ {x}) \in Nat
  BY <1>1, FS_CardinalityType
<1> QED BY <1>1, <1>2

(* A set of subsets of S that has the empty set, and with a set also every *)
(* set with one more element, has every finite subset of S.                *)
LEMMA FiniteSetInduction ==
  ASSUME NEW S, NEW G \in SUBSET (SUBSET S), {} \in G,
         \A s \in G : \A x \in S \ s : s \cup {x} \in G
  PROVE  \A s \in SUBSET S : IsFiniteSet(s) => s \in G
<1> DEFINE N == {n \in Nat : \A s \in SUBSET S : IsFiniteSet(s) /\ Cardinality(s) = n => s \in G}
<1>1. 0 \in N
  BY FS_EmptySet
<1>2. ASSUME NEW n \in Nat, n \in N
      PROVE  n + 1 \in N
  <2>1. SUFFICES ASSUME NEW s \in SUBSET S, IsFiniteSet(s), Cardinality(s) = n + 1
                 PROVE  s \in G
    OBVIOUS
  <2>2. PICK x \in s : TRUE
    BY <2>1, FS_EmptySet
  <2>3. IsFiniteSet(s \ {x}) /\ Cardinality(s \ {x}) = n
    BY <2>1, RemoveOne
  <2>4. s \ {x} \in G
    BY <1>2, <2>3
  <2>5. (s \ {x}) \cup {x} = s
    OBVIOUS
  <2> QED BY <2>4, <2>5
<1>3. N = Nat
  <2> HIDE DEF N
  <2>1. N \in SUBSET Nat
    BY DEF N
  <2> QED BY <1>1, <1>2, <2>1, NatSetInduction
<1>4. TAKE s \in SUBSET S
<1>5. HAVE IsFiniteSet(s)
<1>6. Cardinality(s) \in N
  BY <1>3, <1>5, FS_CardinalityType
<1> QED BY <1>5, <1>6

-----------------------------------------------------------------------------
(* The recursive function of a sum.                                        *)

SumPick(s) == CHOOSE x \in s : TRUE

SumStep(f, g, s) == IF s = {} THEN 0 ELSE f[SumPick(s)] + g[s \ {SumPick(s)}]

SumIter(f, S) == CHOOSE g : g = [s \in SUBSET S |-> SumStep(f, g, s)]

(* SumFunctionOnSet is the last value of that function.                    *)
LEMMA SumUnfold == \A f, S : SumFunctionOnSet(f, S) = SumIter(f, S)[S]
BY Zenon DEF SumFunctionOnSet, FoldFunctionOnSet, MapThenFoldSet, SumIter, SumStep, SumPick

(* The function exists: it is extended by one number of elements at a time. *)
LEMMA SumIterExists ==
  ASSUME NEW f, NEW S, IsFiniteSet(S)
  PROVE  \A s \in SUBSET S : SumIter(f, S)[s] = SumStep(f, SumIter(f, S), s)
<1> DEFINE Upto(n) == {s \in SUBSET S : Cardinality(s) <= n}
           N == {n \in Nat : \E g : g = [s \in Upto(n) |-> SumStep(f, g, s)]}
<1>1. \A s \in SUBSET S : IsFiniteSet(s) /\ Cardinality(s) \in Nat
  BY FS_Subset, FS_CardinalityType
<1>2. \A s \in SUBSET S : s # {} =>
        SumPick(s) \in s /\ Cardinality(s) = Cardinality(s \ {SumPick(s)}) + 1
  BY <1>1, RemoveOne DEF SumPick
<1>3. 0 \in N
  <2>1. \A s \in Upto(0) : s = {}
    BY <1>1, FS_EmptySet
  <2>2. [s \in Upto(0) |-> SumStep(f, [t \in Upto(0) |-> 0], s)] = [t \in Upto(0) |-> 0]
    BY <2>1 DEF SumStep
  <2> QED BY <2>2
<1>4. ASSUME NEW n \in Nat, n \in N
      PROVE  n + 1 \in N
  <2>1. PICK g : g = [s \in Upto(n) |-> SumStep(f, g, s)]
    BY <1>4
  <2> DEFINE h == [s \in Upto(n + 1) |-> SumStep(f, g, s)]
  <2>2. \A s \in Upto(n) : h[s] = g[s]
    BY <1>1, <2>1
  <2>3. \A s \in Upto(n + 1) : s # {} => s \ {SumPick(s)} \in Upto(n)
    BY <1>1, <1>2
  <2>4. \A s \in Upto(n + 1) : SumStep(f, g, s) = SumStep(f, h, s)
    BY <2>2, <2>3 DEF SumStep
  <2>5. h = [s \in Upto(n + 1) |-> SumStep(f, h, s)]
    BY <2>4
  <2>6. n + 1 \in Nat
    OBVIOUS
  <2> HIDE DEF h, Upto
  <2> QED BY <2>5, <2>6
<1>5. N = Nat
  <2> HIDE DEF N
  <2>1. N \in SUBSET Nat
    BY DEF N
  <2> QED BY <1>3, <1>4, <2>1, NatSetInduction
<1>6. Cardinality(S) \in N
  BY <1>1, <1>5
<1>7. Upto(Cardinality(S)) = SUBSET S
  BY FS_Subset
<1>8. \E g : g = [s \in SUBSET S |-> SumStep(f, g, s)]
  BY <1>6, <1>7
<1>9. SumIter(f, S) = [s \in SUBSET S |-> SumStep(f, SumIter(f, S), s)]
  BY <1>8 DEF SumIter
<1> QED BY <1>9

(* What the function is for the empty set and for others, and that it has  *)
(* natural numbers as values if f has.                                     *)
LEMMA SumIterFacts ==
  ASSUME NEW S, IsFiniteSet(S), NEW f, \A x \in S : f[x] \in Nat
  PROVE  /\ SumIter(f, S)[{}] = 0
         /\ \A s \in SUBSET S : s # {} =>
              /\ SumPick(s) \in s
              /\ SumIter(f, S)[s] = f[SumPick(s)] + SumIter(f, S)[s \ {SumPick(s)}]
         /\ \A s \in SUBSET S : SumIter(f, S)[s] \in Nat
<1> DEFINE iter == SumIter(f, S)
<1>1. \A s \in SUBSET S : iter[s] = SumStep(f, iter, s)
  BY SumIterExists
<1> HIDE DEF iter
<1>2. iter[{}] = 0
  BY <1>1 DEF SumStep
<1>3. \A s \in SUBSET S : s # {} => SumPick(s) \in s
  BY DEF SumPick
<1>4. \A s \in SUBSET S : s # {} => iter[s] = f[SumPick(s)] + iter[s \ {SumPick(s)}]
  BY <1>1 DEF SumStep
<1> DEFINE N == {n \in Nat : \A s \in SUBSET S : Cardinality(s) = n => iter[s] \in Nat}
<1>5. \A s \in SUBSET S : IsFiniteSet(s) /\ Cardinality(s) \in Nat
  BY FS_Subset, FS_CardinalityType
<1>6. 0 \in N
  BY <1>2, <1>5, FS_EmptySet
<1>7. ASSUME NEW n \in Nat, n \in N
      PROVE  n + 1 \in N
  <2>2. SUFFICES ASSUME NEW s \in SUBSET S, Cardinality(s) = n + 1
                 PROVE  iter[s] \in Nat
    OBVIOUS
  <2>3. s # {}
    BY <2>2, FS_EmptySet
  <2>4. SumPick(s) \in s
    BY <1>3, <2>3
  <2>5. Cardinality(s \ {SumPick(s)}) = n
    <3> HIDE DEF N
    <3> QED BY <1>5, <2>2, <2>4, RemoveOne
  <2>6. iter[s \ {SumPick(s)}] \in Nat
    BY <1>7, <2>5
  <2>7. f[SumPick(s)] \in Nat
    BY <2>4
  <2>8. iter[s] = f[SumPick(s)] + iter[s \ {SumPick(s)}]
    BY <1>4, <2>3
  <2> HIDE DEF N
  <2> QED BY <2>6, <2>7, <2>8
<1>8. N = Nat
  <2> HIDE DEF N
  <2>1. N \in SUBSET Nat
    BY DEF N
  <2> QED BY <1>6, <1>7, <2>1, NatSetInduction
<1>9. \A s \in SUBSET S : iter[s] \in Nat
  BY <1>5, <1>8
<1> QED BY <1>2, <1>3, <1>4, <1>9 DEF iter

(* The order of the elements does not matter.                              *)
LEMMA SumIterAdd ==
  ASSUME NEW S, IsFiniteSet(S), NEW f, \A x \in S : f[x] \in Nat
  PROVE  \A s \in SUBSET S : \A x \in s :
           SumIter(f, S)[s] = f[x] + SumIter(f, S)[s \ {x}]
<1> DEFINE iter == SumIter(f, S)
           N == {n \in Nat : \A s \in SUBSET S : Cardinality(s) = n =>
                                \A x \in s : iter[s] = f[x] + iter[s \ {x}]}
<1>1. /\ iter[{}] = 0
      /\ \A s \in SUBSET S : s # {} =>
           SumPick(s) \in s /\ iter[s] = f[SumPick(s)] + iter[s \ {SumPick(s)}]
      /\ \A s \in SUBSET S : iter[s] \in Nat
  BY SumIterFacts
<1> HIDE DEF iter
<1>2. \A s \in SUBSET S : IsFiniteSet(s) /\ Cardinality(s) \in Nat
  BY FS_Subset, FS_CardinalityType
<1>3. 0 \in N
  BY <1>2, FS_EmptySet
<1>4. ASSUME NEW n \in Nat, n \in N
      PROVE  n + 1 \in N
  <2>2. SUFFICES ASSUME NEW s \in SUBSET S, Cardinality(s) = n + 1, NEW x \in s
                 PROVE  iter[s] = f[x] + iter[s \ {x}]
    OBVIOUS
  <2> DEFINE y == SumPick(s)
  <2>3. y \in s /\ iter[s] = f[y] + iter[s \ {y}]
    BY <1>1
  <2> HIDE DEF y
  <2>4. CASE x = y
    BY <2>3, <2>4
  <2>5. CASE x # y
    <3>1. x \in s \ {y} /\ y \in s \ {x} /\ (s \ {y}) \ {x} = (s \ {x}) \ {y}
      BY <2>3, <2>5
    <3>2. Cardinality(s \ {y}) = n /\ Cardinality(s \ {x}) = n
      <4> HIDE DEF N
      <4> QED BY <1>2, <2>2, <2>3, RemoveOne
    <3>3. iter[s \ {y}] = f[x] + iter[(s \ {y}) \ {x}]
      BY <1>4, <3>1, <3>2
    <3>4. iter[s \ {x}] = f[y] + iter[(s \ {x}) \ {y}]
      BY <1>4, <3>1, <3>2
    <3>5. f[x] \in Nat /\ f[y] \in Nat /\ iter[(s \ {x}) \ {y}] \in Nat
      BY <1>1, <2>3
    <3>6. iter[s] = f[y] + (f[x] + iter[(s \ {x}) \ {y}])
      BY <2>3, <3>1, <3>3
    <3> HIDE DEF N
    <3> QED BY <3>4, <3>5, <3>6
  <2> QED BY <2>4, <2>5
<1>5. N = Nat
  <2> HIDE DEF N
  <2>1. N \in SUBSET Nat
    BY DEF N
  <2> QED BY <1>3, <1>4, <2>1, NatSetInduction
<1>6. \A s \in SUBSET S : \A x \in s : iter[s] = f[x] + iter[s \ {x}]
  BY <1>2, <1>5
<1> QED BY <1>6 DEF iter

(* It depends on the summands only, and not on what they are a part of.    *)
LEMMA SumIterAgree ==
  ASSUME NEW S, IsFiniteSet(S), NEW T \in SUBSET S, NEW f, NEW g,
         \A x \in S : f[x] \in Nat, \A x \in T : g[x] = f[x]
  PROVE  \A s \in SUBSET T : SumIter(f, S)[s] = SumIter(g, T)[s]
<1> DEFINE G == {s \in SUBSET T : SumIter(f, S)[s] = SumIter(g, T)[s]}
<1>1. IsFiniteSet(T) /\ \A x \in T : g[x] \in Nat
  BY FS_Subset
<1>2. {} \in G
  BY <1>1, SumIterFacts
<1>3. ASSUME NEW s \in SUBSET T, s \in G, NEW x \in T \ s
      PROVE  s \cup {x} \in G
  <2>1. s \cup {x} \in SUBSET T /\ (s \cup {x}) \ {x} = s
    BY <1>3
  <2>2. SumIter(f, S)[s \cup {x}] = f[x] + SumIter(f, S)[(s \cup {x}) \ {x}]
    <3>1. s \cup {x} \in SUBSET S
      BY <2>1
    <3> QED BY <3>1, SumIterAdd
  <2>3. SumIter(g, T)[s \cup {x}] = g[x] + SumIter(g, T)[(s \cup {x}) \ {x}]
    BY <1>1, <2>1, SumIterAdd
  <2>4. SumIter(f, S)[s] = SumIter(g, T)[s]
    BY <1>3
  <2>5. SumIter(f, S)[s \cup {x}] = SumIter(g, T)[s \cup {x}]
    BY <2>1, <2>2, <2>3, <2>4
  <2> QED BY <2>1, <2>5
<1>4. \A s \in SUBSET T : IsFiniteSet(s) => s \in G
  <2>1. G \in SUBSET (SUBSET T) /\ \A s \in G : \A x \in T \ s : s \cup {x} \in G
    <3> HIDE DEF G
    <3>1. G \in SUBSET (SUBSET T)
      BY DEF G
    <3> QED BY <1>3, <3>1
  <2> HIDE DEF G
  <2> QED BY <1>2, <2>1, FiniteSetInduction
<1> QED BY <1>1, <1>4, FS_Subset

-----------------------------------------------------------------------------
(* Sums.                                                                   *)

(* A sum of nothing is 0, and sums of natural numbers are natural numbers. *)
LEMMA SumType ==
  /\ \A f : SumFunctionOnSet(f, {}) = 0
  /\ \A f, S : IsFiniteSet(S) /\ (\A x \in S : f[x] \in Nat) => SumFunctionOnSet(f, S) \in Nat
<1>1. ASSUME NEW f PROVE SumFunctionOnSet(f, {}) = 0
  BY FS_EmptySet, SumUnfold, SumIterFacts
<1>2. ASSUME NEW f, NEW S, IsFiniteSet(S), \A x \in S : f[x] \in Nat
      PROVE  SumFunctionOnSet(f, S) \in Nat
  BY <1>2, SumUnfold, SumIterFacts
<1> QED BY <1>1, <1>2

(* Equal summands have equal sums.                                         *)
LEMMA SumEqual ==
  ASSUME NEW S, IsFiniteSet(S), NEW f, NEW g,
         \A x \in S : f[x] \in Nat, \A x \in S : g[x] = f[x]
  PROVE  SumFunctionOnSet(f, S) = SumFunctionOnSet(g, S)
<1>1. SumIter(f, S)[S] = SumIter(g, S)[S]
  BY SumIterAgree
<1> QED BY <1>1, SumUnfold

(* One more summand.                                                       *)
LEMMA SumAdd ==
  ASSUME NEW S, IsFiniteSet(S), NEW x, x \notin S, NEW f, \A y \in S \cup {x} : f[y] \in Nat
  PROVE  SumFunctionOnSet(f, S \cup {x}) = f[x] + SumFunctionOnSet(f, S)
<1> DEFINE U == S \cup {x}
<1>1. IsFiniteSet(U) /\ U \ {x} = S /\ x \in U
  BY FS_AddElement
<1>2. SumIter(f, U)[U] = f[x] + SumIter(f, U)[U \ {x}]
  <2>1. \A y \in U : f[y] \in Nat
    OBVIOUS
  <2> HIDE DEF U
  <2> QED BY <1>1, <2>1, SumIterAdd
<1>3. SumIter(f, U)[S] = SumIter(f, S)[S]
  <2>1. \A y \in U : f[y] \in Nat
    OBVIOUS
  <2>2. S \in SUBSET U
    OBVIOUS
  <2> HIDE DEF U
  <2> QED BY <1>1, <2>1, <2>2, SumIterAgree
<1> QED BY <1>1, <1>2, <1>3, SumUnfold

(* One summand taken out.                                                  *)
LEMMA SumRemove ==
  ASSUME NEW S, IsFiniteSet(S), NEW f, \A y \in S : f[y] \in Nat, NEW x \in S
  PROVE  SumFunctionOnSet(f, S) = f[x] + SumFunctionOnSet(f, S \ {x})
<1>1. IsFiniteSet(S \ {x}) /\ x \notin S \ {x} /\ (S \ {x}) \cup {x} = S
  BY FS_RemoveElement
<1>2. \A y \in (S \ {x}) \cup {x} : f[y] \in Nat
  BY <1>1
<1>3. SumFunctionOnSet(f, (S \ {x}) \cup {x}) = f[x] + SumFunctionOnSet(f, S \ {x})
  BY <1>1, <1>2, SumAdd
<1> QED BY <1>1, <1>3

(* A sum with one value changed.                                           *)
LEMMA SumUpdate ==
  ASSUME NEW S, IsFiniteSet(S), NEW f, NEW g, NEW x \in S,
         \A y \in S : f[y] \in Nat, g[x] \in Nat, \A y \in S \ {x} : g[y] = f[y]
  PROVE  /\ SumFunctionOnSet(f, S) \in Nat /\ SumFunctionOnSet(g, S) \in Nat
         /\ SumFunctionOnSet(g, S) = SumFunctionOnSet(f, S) - f[x] + g[x]
<1>1. \A y \in S : g[y] \in Nat
  OBVIOUS
<1>2. IsFiniteSet(S \ {x})
  BY FS_RemoveElement
<1>3. SumFunctionOnSet(f, S) = f[x] + SumFunctionOnSet(f, S \ {x})
  BY SumRemove
<1>4. SumFunctionOnSet(g, S) = g[x] + SumFunctionOnSet(g, S \ {x})
  BY <1>1, SumRemove
<1>5. SumFunctionOnSet(f, S \ {x}) = SumFunctionOnSet(g, S \ {x})
  BY <1>2, SumEqual
<1>6. SumFunctionOnSet(f, S \ {x}) \in Nat /\ f[x] \in Nat /\ g[x] \in Nat
  BY <1>2, SumType
<1> QED BY <1>3, <1>4, <1>5, <1>6

(* Sums are additive.                                                      *)
LEMMA SumPlus ==
  ASSUME NEW S, IsFiniteSet(S), NEW f, NEW g, NEW h,
         \A x \in S : f[x] \in Nat, \A x \in S : g[x] \in Nat,
         \A x \in S : h[x] = f[x] + g[x]
  PROVE  SumFunctionOnSet(h, S) = SumFunctionOnSet(f, S) + SumFunctionOnSet(g, S)
<1> DEFINE Sum(k, s) == SumFunctionOnSet(k, s)
           G == {s \in SUBSET S : Sum(h, s) = Sum(f, s) + Sum(g, s)}
<1>1. \A x \in S : h[x] \in Nat
  OBVIOUS
<1>2. {} \in G
  BY SumType
<1>3. ASSUME NEW s \in SUBSET S, s \in G, NEW x \in S \ s
      PROVE  s \cup {x} \in G
  <2>1. IsFiniteSet(s) /\ s \cup {x} \in SUBSET S
    BY FS_Subset
  <2>2. /\ Sum(f, s \cup {x}) = f[x] + Sum(f, s)
        /\ Sum(g, s \cup {x}) = g[x] + Sum(g, s)
        /\ Sum(h, s \cup {x}) = h[x] + Sum(h, s)
    BY <1>1, <2>1, SumAdd
  <2>3. Sum(f, s) \in Nat /\ Sum(g, s) \in Nat /\ f[x] \in Nat /\ g[x] \in Nat
    BY <2>1, SumType
  <2>4. Sum(h, s) = Sum(f, s) + Sum(g, s) /\ h[x] = f[x] + g[x]
    BY <1>3
  <2> HIDE DEF Sum
  <2>5. Sum(h, s \cup {x}) = Sum(f, s \cup {x}) + Sum(g, s \cup {x})
    BY <2>2, <2>3, <2>4
  <2> QED BY <2>1, <2>5
<1>4. \A s \in SUBSET S : IsFiniteSet(s) => s \in G
  <2> HIDE DEF G
  <2>1. G \in SUBSET (SUBSET S)
    BY DEF G
  <2>2. \A s \in G : \A x \in S \ s : s \cup {x} \in G
    BY <1>3, <2>1
  <2> QED BY <1>2, <2>1, <2>2, FiniteSetInduction
<1> QED BY <1>4

(* If every q[x], t times, is at most r times s[x], then so are the sums.  *)
LEMMA SumScaled ==
  ASSUME NEW S, IsFiniteSet(S), NEW f, NEW g, NEW t \in Nat, NEW r \in Nat,
         \A x \in S : f[x] \in Nat, \A x \in S : g[x] \in Nat,
         \A x \in S : f[x] * t <= g[x] * r
  PROVE  SumFunctionOnSet(f, S) * t <= SumFunctionOnSet(g, S) * r
<1> DEFINE Sum(k, s) == SumFunctionOnSet(k, s)
           G == {s \in SUBSET S : Sum(f, s) * t <= Sum(g, s) * r}
<1>1. {} \in G
  BY SumType
<1>2. ASSUME NEW s \in SUBSET S, s \in G, NEW x \in S \ s
      PROVE  s \cup {x} \in G
  <2>1. IsFiniteSet(s) /\ s \cup {x} \in SUBSET S
    BY FS_Subset
  <2>2. /\ Sum(f, s \cup {x}) = f[x] + Sum(f, s)
        /\ Sum(g, s \cup {x}) = g[x] + Sum(g, s)
    BY <2>1, SumAdd
  <2>3. Sum(f, s) \in Nat /\ Sum(g, s) \in Nat /\ f[x] \in Nat /\ g[x] \in Nat
    BY <2>1, SumType
  <2>4. Sum(f, s) * t <= Sum(g, s) * r /\ f[x] * t <= g[x] * r
    BY <1>2
  <2>5. \A a, b, c, d \in Nat : a * t <= b * r /\ c * t <= d * r => (c + a) * t <= (d + b) * r
    OBVIOUS
  <2> HIDE DEF Sum
  <2>6. Sum(f, s \cup {x}) * t <= Sum(g, s \cup {x}) * r
    BY <2>2, <2>3, <2>4, <2>5
  <2> QED BY <2>1, <2>6
<1>3. \A s \in SUBSET S : IsFiniteSet(s) => s \in G
  <2> HIDE DEF G
  <2>1. G \in SUBSET (SUBSET S)
    BY DEF G
  <2>2. \A s \in G : \A x \in S \ s : s \cup {x} \in G
    BY <1>2, <2>1
  <2> QED BY <1>1, <2>1, <2>2, FiniteSetInduction
<1> QED BY <1>3

-----------------------------------------------------------------------------
(* The accounts.                                                           *)

AccountingInv ==
  /\ AccountingType
  /\ SlotsMatchEpochs
  /\ CachedUsedCapacity
  /\ WithinTotalCapacity

-----------------------------------------------------------------------------
(* Arithmetic of the ring.                                                 *)

(* ring_lookup without the modulus: an offset wraps around at most once.   *)
LEMMA SlotValue ==
  ASSUME current_index \in Slots
  PROVE  \A i \in Slots :
           Slot(i) = IF i + current_index < Length THEN i + current_index
                                                   ELSE i + current_index - Length
BY LengthAssumption, SMT DEF Slot, Slots

(* ring_lookup is a bijection between offsets and slots, and offset 0 is   *)
(* the slot of the current epoch.                                          *)
LEMMA SlotFacts ==
  ASSUME current_index \in Slots
  PROVE  /\ Slot(0) = current_index
         /\ \A i \in Slots : Slot(i) \in Slots
         /\ \A i, j \in Slots : Slot(i) = Slot(j) => i = j
         /\ \A k \in Slots : \E i \in Slots : Slot(i) = k
<1> USE LengthAssumption DEF Slots
<1>1. \A i \in Slots :
        Slot(i) = IF i + current_index < Length THEN i + current_index
                                                ELSE i + current_index - Length
  BY SlotValue
<1>2. Slot(0) = current_index
  BY <1>1
<1>3. \A i \in Slots : Slot(i) \in Slots
  BY <1>1
<1>4. \A i, j \in Slots : Slot(i) = Slot(j) => i = j
  BY <1>1
<1>5. ASSUME NEW k \in Slots
      PROVE  \E i \in Slots : Slot(i) = k
  <2>1. CASE k >= current_index
    <3>1. k - current_index \in Slots /\ Slot(k - current_index) = k
      BY <1>1, <2>1
    <3> QED BY <3>1
  <2>2. CASE k < current_index
    <3>1. k + Length - current_index \in Slots /\ Slot(k + Length - current_index) = k
      BY <1>1, <2>2
    <3> QED BY <3>1
  <2> QED BY <2>1, <2>2
<1> QED BY <1>2, <1>3, <1>4, <1>5

(* A slot belongs to a period exactly if its offset lies in it.            *)
LEMMA SlotsOfPeriod ==
  ASSUME current_index \in Slots, NEW start \in Nat, NEW end \in Int, end <= Length
  PROVE  /\ SlotsOf(start, end) \subseteq Slots
         /\ \A i \in Slots : Slot(i) \in SlotsOf(start, end) <=> start <= i /\ i < end
<1>1. \A i \in start .. (end - 1) : i \in Slots
  BY LengthAssumption DEF Slots
<1>2. SlotsOf(start, end) \subseteq Slots
  BY <1>1, SlotFacts DEF SlotsOf
<1>3. ASSUME NEW i \in Slots
      PROVE  Slot(i) \in SlotsOf(start, end) <=> start <= i /\ i < end
  <2>1. ASSUME start <= i, i < end
        PROVE  Slot(i) \in SlotsOf(start, end)
    <3>1. i \in start .. (end - 1)
      BY <2>1, LengthAssumption DEF Slots
    <3> QED BY <3>1 DEF SlotsOf
  <2>2. ASSUME Slot(i) \in SlotsOf(start, end)
        PROVE  start <= i /\ i < end
    <3>1. PICK j \in start .. (end - 1) : Slot(i) = Slot(j)
      BY <2>2 DEF SlotsOf
    <3>2. i = j
      BY <3>1, <1>1, SlotFacts
    <3> QED BY <3>2
  <2> QED BY <2>1, <2>2
<1> QED BY <1>2, <1>3

(* Prices are natural numbers of WAL.                                      *)
LEMMA UnitsNat == \A size \in Nat : StorageUnits(size) \in Nat
BY UnitSizeAssumption, SMT DEF StorageUnits

-----------------------------------------------------------------------------
(* What the accounting operations preserve.                                *)

(* WAL is only added to the accounts.                                      *)
LEMMA DepositType ==
  ASSUME AccountingType, NEW amount \in [Slots -> Nat], Deposit(amount)
  PROVE  slot_rewards' \in [Slots -> Nat]
BY DEF AccountingType, Deposit

(* Storage payments are deposits of natural numbers.                       *)
LEMMA StoragePaymentType ==
  ASSUME AccountingType, NEW size \in Nat, NEW start, NEW end,
         ProcessStoragePayments(size, start, end)
  PROVE  slot_rewards' \in [Slots -> Nat]
<1> DEFINE due == storage_price * StorageUnits(size)
<1> DEFINE amount == [k \in Slots |-> IF k \in SlotsOf(start, end) THEN due ELSE 0]
<1>1. due \in Nat
  BY UnitsNat DEF AccountingType
<1>2. amount \in [Slots -> Nat]
  BY <1>1
<1>3. Deposit(amount)
  BY DEF ProcessStoragePayments
<1> QED BY <1>2, <1>3, DepositType

(* Write fees are deposits of natural numbers.                             *)
LEMMA WritePaymentType ==
  ASSUME AccountingType, NEW bytes \in Nat, PayWritePrice(bytes)
  PROVE  slot_rewards' \in [Slots -> Nat]
<1> DEFINE due == write_price * StorageUnits(bytes)
<1> DEFINE amount == [k \in Slots |-> IF k = Slot(0) THEN due ELSE 0]
<1>1. due \in Nat
  BY UnitsNat DEF AccountingType
<1>2. amount \in [Slots -> Nat]
  BY <1>1
<1>3. Deposit(amount)
  BY DEF PayWritePrice
<1> QED BY <1>2, <1>3, DepositType

(* Deposits alone keep the invariant.                                      *)
LEMMA FundingInv ==
  ASSUME AccountingInv, slot_rewards' \in [Slots -> Nat],
         UNCHANGED <<epoch, committee, current_index, slot_epoch, slot_used,
                     total_capacity_size, used_capacity_size, prices, deny_list_sizes,
                     event_bytes>>
  PROVE  AccountingInv'
BY DEF AccountingInv, AccountingType, SlotsMatchEpochs, CachedUsedCapacity,
       WithinTotalCapacity, prices, Slot

(* Selling capacity for a period keeps the invariant: the cached value is  *)
(* updated and the capacity check covers the current epoch.                *)
LEMMA BuyCapacityInv ==
  ASSUME AccountingInv, NEW size \in Nat, NEW start \in Nat, NEW end \in Int,
         BuyCapacity(size, start, end)
  PROVE  AccountingInv'
<1>1. /\ AccountingType
      /\ UNCHANGED <<epoch, committee, current_index, slot_epoch, total_capacity_size,
                     prices, deny_list_sizes, event_bytes>>
      /\ end <= Length /\ start < end
      /\ IncreaseUsedCapacity(size, start, end)
      /\ UpdateUsedCapacitySize(start)
      /\ WithinCapacity(start, end)
  BY DEF AccountingInv, BuyCapacity, ValidPeriod
<1>2. slot_rewards' \in [Slots -> Nat]
  BY <1>1, StoragePaymentType DEF BuyCapacity
<1>3. slot_used' \in [Slots -> Nat]
  BY <1>1 DEF AccountingType, IncreaseUsedCapacity
<1>4. /\ current_index \in Slots
      /\ Slot(0) = current_index
      /\ current_index \in SlotsOf(start, end) <=> start = 0
  <2>1. 0 \in Slots
    BY LengthAssumption DEF Slots
  <2>2. current_index \in Slots
    BY <1>1 DEF AccountingType
  <2>3. Slot(0) = current_index
    BY <2>2, SlotFacts
  <2>4. Slot(0) \in SlotsOf(start, end) <=> start <= 0 /\ 0 < end
    BY <1>1, <2>1, <2>2, SlotsOfPeriod
  <2> QED BY <1>1, <2>2, <2>3, <2>4
<1>5. /\ used_capacity_size' = slot_used'[current_index]
      /\ used_capacity_size' <= total_capacity_size + event_bytes
      /\ used_capacity_size' \in Nat
  <2>1. CASE start = 0
    <3>1. used_capacity_size' = slot_used'[current_index]
      BY <1>1, <1>4, <2>1 DEF UpdateUsedCapacitySize
    <3>2. slot_used'[current_index] <= total_capacity_size
      BY <1>1, <1>4, <2>1 DEF WithinCapacity
    <3> QED BY <1>1, <1>3, <1>4, <3>1, <3>2 DEF AccountingType
  <2>2. CASE start # 0
    <3>1. slot_used'[current_index] = slot_used[current_index]
      BY <1>1, <1>4, <2>2 DEF IncreaseUsedCapacity
    <3> QED
      BY <1>1, <2>2, <3>1
      DEF UpdateUsedCapacitySize, AccountingInv, AccountingType, CachedUsedCapacity,
          WithinTotalCapacity
  <2> QED BY <2>1, <2>2
<1>6. AccountingType'
  BY <1>1, <1>2, <1>3, <1>5 DEF AccountingType, prices
<1>7. SlotsMatchEpochs'
  BY <1>1 DEF AccountingInv, SlotsMatchEpochs, Slot
<1>8. CachedUsedCapacity' /\ WithinTotalCapacity'
  BY <1>1, <1>5 DEF CachedUsedCapacity, WithinTotalCapacity
<1> QED BY <1>6, <1>7, <1>8 DEF AccountingInv

(* Event blobs are booked in all slots and counted in event_bytes.         *)
LEMMA ReserveEventBlobInv ==
  ASSUME AccountingInv, NEW size \in Nat, ReserveEventBlob(size)
  PROVE  AccountingInv'
<1>1. /\ AccountingType
      /\ UNCHANGED <<epoch, committee, current_index, slot_epoch, slot_rewards,
                     total_capacity_size, prices, deny_list_sizes>>
      /\ event_bytes' = event_bytes + size
      /\ IncreaseUsedCapacity(size, 0, Length)
      /\ UpdateUsedCapacitySize(0)
  BY DEF AccountingInv, ReserveEventBlob
<1>2. /\ current_index \in Slots
      /\ Slot(0) = current_index
      /\ current_index \in SlotsOf(0, Length)
  <2>1. 0 \in Slots /\ Length \in Int /\ 0 < Length
    BY LengthAssumption DEF Slots
  <2>2. current_index \in Slots
    BY <1>1 DEF AccountingType
  <2> QED BY <2>1, <2>2, SlotFacts, SlotsOfPeriod
<1>3. slot_used' \in [Slots -> Nat]
  BY <1>1 DEF AccountingType, IncreaseUsedCapacity
<1>4. /\ used_capacity_size' = slot_used'[current_index]
      /\ slot_used'[current_index] = slot_used[current_index] + size
  BY <1>1, <1>2 DEF UpdateUsedCapacitySize, IncreaseUsedCapacity
<1>5. AccountingType'
  BY <1>1, <1>2, <1>3, <1>4 DEF AccountingType, prices
<1>6. SlotsMatchEpochs'
  BY <1>1 DEF AccountingInv, SlotsMatchEpochs, Slot
<1>7. CachedUsedCapacity'
  BY <1>1, <1>4 DEF CachedUsedCapacity
<1>8. WithinTotalCapacity'
  BY <1>1, <1>2, <1>4
  DEF AccountingInv, AccountingType, CachedUsedCapacity, WithinTotalCapacity
<1> QED BY <1>5, <1>6, <1>7, <1>8 DEF AccountingInv

(* After the pop, the slot of offset i is the one that had offset i + 1,   *)
(* and the last offset gets the slot of the epoch that ended.              *)
LEMMA NextSlot ==
  ASSUME current_index \in Slots, current_index' = (current_index + 1) % Length
  PROVE  /\ current_index' \in Slots
         /\ \A i \in Slots : Slot(i)' = IF i = Length - 1 THEN current_index ELSE Slot(i + 1)
<1> USE LengthAssumption DEF Slots
<1>1. /\ current_index' \in Slots
      /\ current_index' = IF current_index + 1 < Length THEN current_index + 1 ELSE 0
  BY SMT
<1>2. ASSUME NEW i \in Slots
      PROVE  Slot(i)' = IF i = Length - 1 THEN current_index ELSE Slot(i + 1)
  <2>1. Slot(i)' = (i + current_index') % Length
    BY DEF Slot
  <2>2. Slot(i)' = IF i + current_index' < Length THEN i + current_index'
                                                  ELSE i + current_index' - Length
    BY <1>1, <2>1, SMT
  <2>3. CASE i = Length - 1
    BY <1>1, <2>2, <2>3
  <2>4. CASE i # Length - 1
    <3>1. i + 1 \in Slots
      BY <2>4
    <3>2. Slot(i + 1) = IF i + 1 + current_index < Length THEN i + 1 + current_index
                                                         ELSE i + 1 + current_index - Length
      BY <3>1, SlotValue
    <3> QED BY <1>1, <2>2, <2>4, <3>2
  <2> QED BY <2>3, <2>4
<1> QED BY <1>1, <1>2

(* The burned part is at most the rewards.                                 *)
LEMMA BurnBound == \A rewards \in Nat : BurnAmount(rewards) \in 0 .. rewards
BY SMT DEF BurnAmount

(* The epoch change: the popped account is the one of the ending epoch,    *)
(* the next account becomes the current one and the total capacity covers  *)
(* what is used in it.                                                     *)
LEMMA AdvanceEpochInv ==
  ASSUME AccountingInv, NEW c \in Committees, NEW capacity \in Capacities,
         NEW storage \in Prices, NEW write \in Prices,
         AdvanceEpoch(c, capacity, storage, write)
  PROVE  AccountingInv'
<1> DEFINE burned == BurnAmount(slot_rewards[current_index])
           distributable == slot_rewards[current_index] - burned
           leftover == distributable - CommitteeRewards(distributable)
<1>1. /\ AccountingType
      /\ epoch' = epoch + 1 /\ epoch < MaxEpoch
      /\ committee' = c
      /\ current_index' = (current_index + 1) % Length
      /\ slot_epoch' = PopExpand(slot_epoch, slot_epoch[current_index] + Length)
      /\ slot_used' = PopExpand(slot_used, 0)
      /\ slot_rewards' = CarryOver(PopExpand(slot_rewards, 0), current_index', leftover)
      /\ CommitteeRewards(distributable) \in 0 .. distributable
      /\ used_capacity_size' = slot_used'[current_index']
      /\ total_capacity_size' = NewTotalCapacity(capacity, used_capacity_size')
      /\ storage_price' = storage /\ write_price' = write
      /\ event_bytes' = 0
      /\ deny_list_sizes' = deny_list_sizes
      /\ slot_epoch[current_index] = epoch
  BY DEF AccountingInv, AdvanceEpoch
<1>2. current_index \in Slots /\ current_index' \in Slots
  BY <1>1, NextSlot DEF AccountingType
<1>3. burned \in 0 .. slot_rewards[current_index] /\ leftover \in Nat
  <2>1. slot_rewards[current_index] \in Nat
    BY <1>1, <1>2 DEF AccountingType
  <2>2. burned \in 0 .. slot_rewards[current_index]
    BY <2>1, BurnBound
  <2>3. distributable \in Nat
    BY <2>1, <2>2
  <2> HIDE DEF burned, distributable
  <2> QED BY <1>1, <2>2, <2>3
<1>4. slot_rewards' \in [Slots -> Nat]
  <2> HIDE DEF leftover
  <2> QED BY <1>1, <1>2, <1>3 DEF AccountingType, CarryOver, PopExpand
<1>5. /\ slot_used' \in [Slots -> Nat]
      /\ slot_epoch' \in [Slots -> Nat]
  BY <1>1, <1>2, LengthAssumption DEF AccountingType, PopExpand
<1>6. /\ used_capacity_size' \in Nat
      /\ total_capacity_size' \in Nat
      /\ used_capacity_size' <= total_capacity_size'
  BY <1>1, <1>2, <1>5, CapacitiesAssumption DEF NewTotalCapacity
<1>7. epoch' \in 0 .. MaxEpoch /\ committee' \in [Nodes -> Nat]
  BY <1>1, EpochAssumption, CommitteesAssumption DEF AccountingType
<1>8. AccountingType'
  BY <1>1, <1>2, <1>4, <1>5, <1>6, <1>7, PricesAssumption DEF AccountingType
<1>9. SlotsMatchEpochs'
  <2>1. ASSUME NEW i \in Slots
        PROVE  slot_epoch'[Slot(i)'] = epoch' + i
    <3>1. CASE i = Length - 1
      <4>1. Slot(i)' = current_index
        BY <1>1, <1>2, <3>1, NextSlot
      <4>2. slot_epoch'[current_index] = epoch + Length
        BY <1>1, <1>2 DEF AccountingType, PopExpand
      <4> QED BY <1>1, <3>1, <4>1, <4>2, LengthAssumption DEF AccountingType
    <3>2. CASE i # Length - 1
      <4>1. i + 1 \in Slots /\ 0 \in Slots
        BY <3>2, LengthAssumption DEF Slots
      <4>2. Slot(i)' = Slot(i + 1)
        BY <1>1, <1>2, <3>2, NextSlot
      <4>3. Slot(i + 1) \in Slots /\ Slot(i + 1) # current_index
        <5>1. i + 1 # 0
          BY DEF Slots
        <5> QED BY <1>2, <4>1, <5>1, SlotFacts
      <4>4. slot_epoch'[Slot(i + 1)] = slot_epoch[Slot(i + 1)]
        BY <1>1, <1>2, <4>3 DEF AccountingType, PopExpand
      <4>5. slot_epoch[Slot(i + 1)] = epoch + (i + 1)
        BY <4>1 DEF AccountingInv, SlotsMatchEpochs
      <4>6. epoch \in Int /\ i \in Int
        BY <1>1 DEF AccountingType, Slots
      <4> QED BY <1>1, <4>2, <4>4, <4>5, <4>6
    <3> QED BY <3>1, <3>2
  <2> QED BY <2>1 DEF SlotsMatchEpochs
<1>10. CachedUsedCapacity' /\ WithinTotalCapacity'
  BY <1>1, <1>6 DEF CachedUsedCapacity, WithinTotalCapacity
<1> QED BY <1>8, <1>9, <1>10 DEF AccountingInv

(* The amounts that add_subsidy deposits are natural numbers.              *)
LEMMA SubsidyAmount ==
  ASSUME NEW subsidy \in Subsidies, NEW n \in 1 .. Length
  PROVE  [k \in Slots |-> (IF k \in SlotsOf(0, n) THEN subsidy \div n ELSE 0)
                          + (IF k = Slot(0) THEN subsidy % n ELSE 0)] \in [Slots -> Nat]
<1>1. subsidy \div n \in Nat /\ subsidy % n \in Nat
  BY SubsidiesAssumption, LengthAssumption, SMT
<1> QED BY <1>1

(* So are those of add_per_epoch_subsidies.                                *)
LEMMA PerEpochAmount ==
  ASSUME AccountingType, NEW subsidies \in [Slots -> Subsidies \cup {0}]
  PROVE  [k \in Slots |-> subsidies[(k + Length - current_index) % Length]] \in [Slots -> Nat]
<1>1. \A k \in Slots : (k + Length - current_index) % Length \in Slots
  BY LengthAssumption, SMT DEF AccountingType, Slots
<1>2. Subsidies \cup {0} \subseteq Nat
  BY SubsidiesAssumption
<1>3. \A i \in Slots : subsidies[i] \in Nat
  BY <1>2, Zenon
<1>4. \A k \in Slots : subsidies[(k + Length - current_index) % Length] \in Nat
  BY <1>1, <1>3, Zenon
<1> QED BY <1>4, Zenon

(* The operations that touch no object.                                    *)
LEMMA SystemNextInv ==
  ASSUME AccountingInv, SystemNext
  PROVE  AccountingInv'
<1>0. AccountingType
  BY DEF AccountingInv
<1>1. CASE \E subsidy \in Subsidies, n \in 1 .. Length : AddSubsidy(subsidy, n)
  <2>1. PICK subsidy \in Subsidies, n \in 1 .. Length : AddSubsidy(subsidy, n)
    BY <1>1
  <2>2. slot_rewards' \in [Slots -> Nat]
    BY <1>0, <2>1, SubsidyAmount, DepositType DEF AddSubsidy
  <2> QED BY <2>1, <2>2, FundingInv DEF AddSubsidy
<1>2. CASE \E subsidies \in [Slots -> Subsidies \cup {0}] : AddPerEpochSubsidies(subsidies)
  <2>1. PICK subsidies \in [Slots -> Subsidies \cup {0}] : AddPerEpochSubsidies(subsidies)
    BY <1>2
  <2>2. slot_rewards' \in [Slots -> Nat]
    BY <1>0, <2>1, PerEpochAmount, DepositType DEF AddPerEpochSubsidies
  <2> QED BY <2>1, <2>2, FundingInv DEF AddPerEpochSubsidies
<1>3. CASE \E storage, write \in Prices : SetPrices(storage, write)
  BY <1>3, PricesAssumption
  DEF SetPrices, ring, AccountingInv, AccountingType, SlotsMatchEpochs, CachedUsedCapacity,
      WithinTotalCapacity, Slot
<1>4. CASE \E n \in Nodes, size \in DenySizes : UpdateDenyList(n, size)
  BY <1>4, DenySizesAssumption
  DEF UpdateDenyList, ring, prices, AccountingInv, AccountingType, SlotsMatchEpochs,
      CachedUsedCapacity, WithinTotalCapacity, Slot
<1>5. CASE \E c \in Committees, capacity \in Capacities, storage, write \in Prices :
             AdvanceEpoch(c, capacity, storage, write)
  BY <1>5, AdvanceEpochInv
<1> QED BY <1>1, <1>2, <1>3, <1>4, <1>5 DEF SystemNext

(* Operations that leave the accounting alone.                             *)
LEMMA UnchangedInv ==
  ASSUME AccountingInv, UNCHANGED accounting
  PROVE  AccountingInv'
BY DEF accounting, ring, prices, AccountingInv, AccountingType, SlotsMatchEpochs,
       CachedUsedCapacity, WithinTotalCapacity, Slot

-----------------------------------------------------------------------------
(* Objects.                                                                *)

ObjectsOK ==
  /\ objects \in [Ids -> Objects]
  /\ \A id \in Ids : ~ Is(id, "free") => objects[id].start < objects[id].end

(* What an object that is not free looks like.                             *)
LEMMA ObjectFacts ==
  ASSUME ObjectsOK, NEW id \in Ids
  PROVE  /\ Is(id, "storage") =>
              objects[id] \in [kind: {"storage"}, start: Nat, end: Nat, size: Nat]
         /\ Is(id, "blob") =>
              objects[id] \in [kind: {"blob"}, start: Nat, end: Nat, size: Nat,
                               bytes: Nat, deletable: BOOLEAN, certified: Nat \cup {-1}]
         /\ ~ Is(id, "free") => objects[id].start < objects[id].end
BY DEF ObjectsOK, Objects, Free, Is

(* Putting a well-formed object into a slot keeps the objects well-formed. *)
LEMMA PutObject ==
  ASSUME ObjectsOK, NEW id \in Ids, NEW object \in Objects,
         object.kind = "free" \/ object.start < object.end,
         objects' = [objects EXCEPT ![id] = object]
  PROVE  ObjectsOK'
BY DEF ObjectsOK, Is

(* The storage resource actions keep both parts of the invariant.          *)
LEMMA StorageNextInv ==
  ASSUME AccountingInv, ObjectsOK, StorageNext
  PROVE  AccountingInv' /\ ObjectsOK'
<1>0. epoch \in Nat /\ Length \in Nat
  BY LengthAssumption DEF AccountingInv, AccountingType
<1>1. ASSUME NEW id \in Ids, NEW size \in Sizes,
             NEW start \in 0 .. (epoch + Length), NEW end \in 0 .. (epoch + Length),
             ReserveSpace(id, size, start, end)
      PROVE  AccountingInv' /\ ObjectsOK'
  <2> DEFINE from == IF start < epoch THEN epoch ELSE start
  <2>1. from \in Nat /\ from - epoch \in Nat /\ end \in Nat /\ end - epoch \in Int
    BY <1>0
  <2>2. size \in Nat
    BY SizesAssumption
  <2>3. BuyCapacity(size, from - epoch, end - epoch)
    BY <1>1 DEF ReserveSpace
  <2>4. AccountingInv'
    BY <2>1, <2>2, <2>3, BuyCapacityInv
  <2>5. from < end
    BY <1>0, <2>1, <2>3 DEF BuyCapacity, ValidPeriod
  <2>6. Storage(from, end, size) \in Objects /\ Storage(from, end, size).start < Storage(from, end, size).end
    BY <2>1, <2>2, <2>5 DEF Storage, Objects
  <2>7. objects' = [objects EXCEPT ![id] = Storage(from, end, size)]
    BY <1>1 DEF ReserveSpace, Put
  <2>8. ObjectsOK'
    BY <2>6, <2>7, PutObject
  <2> QED BY <2>4, <2>8
<1>2. ASSUME NEW id \in Ids, NEW new \in Ids, NEW e \in 0 .. (MaxEpoch + Length),
             SplitByEpoch(id, new, e)
      PROVE  AccountingInv' /\ ObjectsOK'
  <2>1. objects[id] \in [kind: {"storage"}, start: Nat, end: Nat, size: Nat]
    BY <1>2, ObjectFacts DEF SplitByEpoch
  <2>2. id # new /\ e \in Nat
    BY <1>2, EpochAssumption, LengthAssumption DEF SplitByEpoch, Is
  <2>3. ObjectsOK'
    BY <1>2, <2>1, <2>2 DEF SplitByEpoch, StrictlyInside, ObjectsOK, Objects, Storage, Is
  <2> QED BY <1>2, <2>3, UnchangedInv DEF SplitByEpoch
<1>3. ASSUME NEW id \in Ids, NEW new \in Ids, NEW size \in Sizes \cup {0},
             SplitBySize(id, new, size)
      PROVE  AccountingInv' /\ ObjectsOK'
  <2>1. /\ objects[id] \in [kind: {"storage"}, start: Nat, end: Nat, size: Nat]
        /\ objects[id].start < objects[id].end
    BY <1>3, ObjectFacts DEF SplitBySize, Is
  <2>2. id # new /\ size \in Nat
    BY <1>3, SizesAssumption DEF SplitBySize, Is
  <2>3. ObjectsOK'
    BY <1>3, <2>1, <2>2 DEF SplitBySize, ObjectsOK, Objects, Storage, Is
  <2> QED BY <1>3, <2>3, UnchangedInv DEF SplitBySize
<1>4. ASSUME NEW id \in Ids, NEW other \in Ids, FusePeriods(id, other)
      PROVE  AccountingInv' /\ ObjectsOK'
  <2>1. /\ objects[id] \in [kind: {"storage"}, start: Nat, end: Nat, size: Nat]
        /\ objects[other] \in [kind: {"storage"}, start: Nat, end: Nat, size: Nat]
        /\ objects[id].start < objects[id].end
        /\ objects[other].start < objects[other].end
    BY <1>4, ObjectFacts DEF FusePeriods, Is
  <2>2. ObjectsOK'
    BY <1>4, <2>1 DEF FusePeriods, FusedPeriods, ObjectsOK, Objects, Free, Is
  <2> QED BY <1>4, <2>2, UnchangedInv DEF FusePeriods
<1>5. ASSUME NEW id \in Ids, NEW other \in Ids, FuseAmount(id, other)
      PROVE  AccountingInv' /\ ObjectsOK'
  <2>1. /\ objects[id] \in [kind: {"storage"}, start: Nat, end: Nat, size: Nat]
        /\ objects[other] \in [kind: {"storage"}, start: Nat, end: Nat, size: Nat]
        /\ objects[id].start < objects[id].end
    BY <1>5, ObjectFacts DEF FuseAmount, Is
  <2>2. ObjectsOK'
    BY <1>5, <2>1 DEF FuseAmount, ObjectsOK, Objects, Free, Is
  <2> QED BY <1>5, <2>2, UnchangedInv DEF FuseAmount
<1>6. ASSUME NEW id \in Ids, DestroyStorage(id)
      PROVE  AccountingInv' /\ ObjectsOK'
  <2>1. Free \in Objects /\ Free.kind = "free"
    BY DEF Objects, Free
  <2> QED BY <1>6, <2>1, PutObject, UnchangedInv DEF DestroyStorage, Put
<1> QED BY <1>1, <1>2, <1>3, <1>4, <1>5, <1>6 DEF StorageNext

(* The blob actions keep both parts of the invariant.                      *)
LEMMA BlobNextInv ==
  ASSUME AccountingInv, ObjectsOK, BlobNext
  PROVE  AccountingInv' /\ ObjectsOK'
<1>0. AccountingType /\ epoch \in Nat /\ Length \in Nat
  BY LengthAssumption DEF AccountingInv, AccountingType
<1>1. ASSUME NEW id \in Ids, NEW bytes \in Sizes, NEW deletable \in BOOLEAN,
             RegisterBlob(id, bytes, deletable)
      PROVE  AccountingInv' /\ ObjectsOK'
  <2>1. /\ objects[id] \in [kind: {"storage"}, start: Nat, end: Nat, size: Nat]
        /\ objects[id].start < objects[id].end
    BY <1>1, ObjectFacts DEF RegisterBlob, Is
  <2>2. bytes \in Nat
    BY SizesAssumption
  <2>3. slot_rewards' \in [Slots -> Nat]
    BY <1>0, <1>1, <2>2, WritePaymentType DEF RegisterBlob
  <2>4. AccountingInv'
    BY <1>1, <2>3, FundingInv DEF RegisterBlob
  <2> DEFINE blob == Blob(objects[id], bytes, deletable)
  <2>5. blob \in Objects /\ blob.start < blob.end
    BY <2>1, <2>2 DEF Blob, Objects
  <2>6. objects' = [objects EXCEPT ![id] = blob]
    BY <1>1 DEF RegisterBlob, Put
  <2> HIDE DEF blob
  <2>7. ObjectsOK'
    BY <2>5, <2>6, PutObject
  <2> QED BY <2>4, <2>7
<1>2. ASSUME NEW id \in Ids, CertifyBlob(id)
      PROVE  AccountingInv' /\ ObjectsOK'
  <2>1. /\ objects[id] \in [kind: {"blob"}, start: Nat, end: Nat, size: Nat,
                             bytes: Nat, deletable: BOOLEAN, certified: Nat \cup {-1}]
        /\ objects[id].start < objects[id].end
    BY <1>2, ObjectFacts DEF CertifyBlob, Is
  <2>2. ObjectsOK'
    BY <1>0, <1>2, <2>1 DEF CertifyBlob, ObjectsOK, Objects, Is
  <2> QED BY <1>2, <2>2, UnchangedInv DEF CertifyBlob
<1>3. ASSUME NEW id \in Ids, DeleteBlob(id)
      PROVE  AccountingInv' /\ ObjectsOK'
  <2>1. /\ objects[id] \in [kind: {"blob"}, start: Nat, end: Nat, size: Nat,
                             bytes: Nat, deletable: BOOLEAN, certified: Nat \cup {-1}]
        /\ objects[id].start < objects[id].end
    BY <1>3, ObjectFacts DEF DeleteBlob, Is
  <2> DEFINE resource == ResourceOf(objects[id])
  <2>2. resource \in Objects /\ resource.start < resource.end
    BY <2>1 DEF ResourceOf, Storage, Objects
  <2>3. objects' = [objects EXCEPT ![id] = resource]
    BY <1>3 DEF DeleteBlob, Put
  <2> HIDE DEF resource
  <2>4. ObjectsOK'
    BY <2>2, <2>3, PutObject
  <2> QED BY <1>3, <2>4, UnchangedInv DEF DeleteBlob
<1>4. ASSUME NEW id \in Ids, BurnBlob(id)
      PROVE  AccountingInv' /\ ObjectsOK'
  <2>1. Free \in Objects /\ Free.kind = "free"
    BY DEF Objects, Free
  <2> QED BY <1>4, <2>1, PutObject, UnchangedInv DEF BurnBlob, Put
<1>5. ASSUME NEW id \in Ids, NEW other \in Ids, ExtendBlobWithResource(id, other)
      PROVE  AccountingInv' /\ ObjectsOK'
  <2>1. /\ objects[id] \in [kind: {"blob"}, start: Nat, end: Nat, size: Nat,
                             bytes: Nat, deletable: BOOLEAN, certified: Nat \cup {-1}]
        /\ objects[other] \in [kind: {"storage"}, start: Nat, end: Nat, size: Nat]
        /\ objects[id].start < objects[id].end
        /\ objects[other].start < objects[other].end
        /\ id # other
    BY <1>5, ObjectFacts DEF ExtendBlobWithResource, Is
  <2>2. ObjectsOK'
    BY <1>5, <2>1 DEF ExtendBlobWithResource, FusedPeriods, ObjectsOK, Objects, Free, Is
  <2> QED BY <1>5, <2>2, UnchangedInv DEF ExtendBlobWithResource
<1>6. ASSUME NEW id \in Ids, NEW n \in 1 .. Length, ExtendBlob(id, n)
      PROVE  AccountingInv' /\ ObjectsOK'
  <2>1. /\ objects[id] \in [kind: {"blob"}, start: Nat, end: Nat, size: Nat,
                             bytes: Nat, deletable: BOOLEAN, certified: Nat \cup {-1}]
        /\ objects[id].start < objects[id].end
        /\ n \in Nat
    BY <1>6, ObjectFacts DEF ExtendBlob, Is
  <2> DEFINE start == objects[id].end - epoch
             size == objects[id].size
  <2>2. start \in Nat /\ size \in Nat /\ start + n \in Int
    BY <1>0, <1>6, <2>1 DEF ExtendBlob, CertifiedNotExpired
  <2>3. BuyCapacity(size, start, start + n)
    BY <1>6 DEF ExtendBlob
  <2>4. objects' = [objects EXCEPT ![id].end = objects[id].end + n]
    BY <1>6 DEF ExtendBlob
  <2> HIDE DEF start, size
  <2>5. AccountingInv'
    BY <2>2, <2>3, BuyCapacityInv
  <2>6. ObjectsOK'
    BY <2>1, <2>4 DEF ObjectsOK, Objects, Is
  <2> QED BY <2>5, <2>6
<1>7. ASSUME NEW size \in Sizes, CertifyEventBlob(size)
      PROVE  AccountingInv' /\ ObjectsOK'
  <2>1. size \in Nat /\ ReserveEventBlob(size) /\ UNCHANGED objects
    BY <1>7, SizesAssumption DEF CertifyEventBlob
  <2> QED BY <2>1, ReserveEventBlobInv DEF ObjectsOK, Is
<1> QED BY <1>1, <1>2, <1>3, <1>4, <1>5, <1>6, <1>7 DEF BlobNext

-----------------------------------------------------------------------------
(* The invariants.                                                         *)

Inv == AccountingInv /\ ObjectsOK

(* The invariant holds initially.                                          *)
LEMMA InitInv ==
  ASSUME Init
  PROVE  Inv
<1>1. current_index = 0 /\ epoch = 0 /\ 0 \in Slots
  BY LengthAssumption DEF Init, AccountingInit, Slots
<1>2. AccountingType
  BY <1>1, LengthAssumption, EpochAssumption
  DEF Init, AccountingInit, AccountingType, Slots
<1>3. \A i \in Slots : Slot(i) = i
  BY <1>1, SlotValue, LengthAssumption DEF Slots
<1>4. SlotsMatchEpochs
  BY <1>1, <1>3 DEF Init, AccountingInit, SlotsMatchEpochs, Slots
<1>5. CachedUsedCapacity /\ WithinTotalCapacity
  BY <1>1 DEF Init, AccountingInit, CachedUsedCapacity, WithinTotalCapacity
<1>6. ObjectsOK
  BY DEF Init, ObjectsOK, Objects, Free, Is
<1> QED BY <1>2, <1>4, <1>5, <1>6 DEF Inv, AccountingInv

(* Every step preserves it.                                                *)
LEMMA InvStep ==
  ASSUME Inv, [Next]_vars
  PROVE  Inv'
<1> SUFFICES ASSUME AccountingInv, ObjectsOK, [Next]_vars
             PROVE  AccountingInv' /\ ObjectsOK'
  BY DEF Inv
<1>1. CASE StorageNext
  BY <1>1, StorageNextInv
<1>2. CASE BlobNext
  BY <1>2, BlobNextInv
<1>3. CASE SystemNext
  <2>1. UNCHANGED objects
    BY <1>3 DEF SystemNext
  <2> QED BY <1>3, <2>1, SystemNextInv DEF ObjectsOK, Is
<1>4. CASE UNCHANGED vars
  <2>1. UNCHANGED accounting /\ UNCHANGED objects
    BY <1>4 DEF vars
  <2> QED BY <2>1, UnchangedInv DEF ObjectsOK, Is
<1> QED BY <1>1, <1>2, <1>3, <1>4 DEF Next

(* The inductive invariant holds in every reachable state.                 *)
THEOREM InvHolds == Spec => []Inv
<1>1. Init => Inv
  BY InitInv
<1>2. Inv /\ [Next]_vars => Inv'
  BY InvStep
<1> QED BY <1>1, <1>2, PTL DEF Spec

(* Type correctness of the system state.                                   *)
THEOREM TypeCorrect == Spec => []TypeOK
<1>1. Inv => TypeOK
  BY DEF Inv, AccountingInv, ObjectsOK, TypeOK
<1> QED BY <1>1, InvHolds, PTL

(* ring_lookup always finds the account of the epoch that is asked for, so *)
(* advance_epoch never fails on the popped account.                        *)
THEOREM RingNeverMisplaced == Spec => []SlotsMatchEpochs
<1>1. Inv => SlotsMatchEpochs
  BY DEF Inv, AccountingInv
<1> QED BY <1>1, InvHolds, PTL

(* The used_capacity_size field is never stale.                            *)
THEOREM UsedCapacityNeverStale == Spec => []CachedUsedCapacity
<1>1. Inv => CachedUsedCapacity
  BY DEF Inv, AccountingInv
<1> QED BY <1>1, InvHolds, PTL

(* Only event blobs exceed the total capacity of the current epoch.        *)
THEOREM CapacityRespected == Spec => []WithinTotalCapacity
<1>1. Inv => WithinTotalCapacity
  BY DEF Inv, AccountingInv
<1> QED BY <1>1, InvHolds, PTL

-----------------------------------------------------------------------------
(* The ring buffer implements FutureLedger.                                *)

UsedLedger == [e \in Epochs |-> UsedIn(e)]

RewardsLedger == [e \in Epochs |-> RewardsIn(e)]

(* An operation that leaves the ring and the capacity alone is a           *)
(* stuttering step of the ledger.                                          *)
LEMMA StutterStep ==
  ASSUME UNCHANGED <<epoch, current_index, slot_used, slot_rewards, total_capacity_size>>
  PROVE  UNCHANGED <<epoch, UsedLedger, RewardsLedger, total_capacity_size>>
BY DEF UsedLedger, RewardsLedger, UsedIn, RewardsIn, IsOpen, Slot

(* Every offset of an open epoch is a slot.                                *)
LEMMA OpenOffsets ==
  ASSUME AccountingType
  PROVE  /\ \A e \in Epochs : IsOpen(e) => e - epoch \in Slots
         /\ \A i \in Slots : epoch + i \in Epochs /\ IsOpen(epoch + i)
         /\ Epochs \subseteq Nat /\ epoch \in Epochs /\ epoch \in Nat
BY LengthAssumption, EpochAssumption DEF AccountingType, IsOpen, Slots, Epochs

(* Deposits only add WAL to open accounts.                                 *)
LEMMA FundStep ==
  ASSUME AccountingType, NEW amount \in [Slots -> Nat], Deposit(amount),
         UNCHANGED <<epoch, current_index, slot_used, total_capacity_size>>
  PROVE  Ledger!Fund
<1>1. /\ \A k \in Slots : slot_rewards'[k] = slot_rewards[k] + amount[k]
      /\ \A k \in Slots : slot_rewards'[k] >= slot_rewards[k]
  BY DEF Deposit, AccountingType
<1>2. UNCHANGED <<epoch, UsedLedger, total_capacity_size>>
  BY DEF UsedLedger, UsedIn, IsOpen, Slot
<1>3. ASSUME NEW e \in Epochs
      PROVE  /\ RewardsIn(e)' >= RewardsIn(e)
             /\ RewardsIn(e)' # RewardsIn(e) => IsOpen(e)
  <2>1. CASE IsOpen(e)
    <3>1. Slot(e - epoch) \in Slots
      BY <2>1, OpenOffsets, SlotFacts DEF AccountingType
    <3>2. RewardsIn(e)' = slot_rewards'[Slot(e - epoch)] /\ RewardsIn(e) = slot_rewards[Slot(e - epoch)]
      BY <2>1 DEF RewardsIn, IsOpen, Slot
    <3> QED BY <1>1, <2>1, <3>1, <3>2
  <2>2. CASE ~ IsOpen(e)
    BY <2>2 DEF RewardsIn, IsOpen
  <2> QED BY <2>1, <2>2
<1>4. \A e \in Epochs : IsOpen(e) => e \in Ledger!Open
  BY OpenOffsets, LengthAssumption DEF IsOpen, Ledger!Open
<1>5. /\ RewardsLedger' = [e \in Epochs |-> RewardsLedger'[e]]
      /\ \A e \in Epochs : RewardsLedger'[e] = RewardsIn(e)' /\ RewardsLedger[e] = RewardsIn(e)
  BY DEF RewardsLedger, Epochs
<1> QED
  BY <1>2, <1>3, <1>4, <1>5 DEF Ledger!Fund, Ledger!Epochs, UsedLedger, RewardsLedger, Epochs

(* Growing the slots of a period grows the accounts of its epochs.         *)
LEMMA GrowUsed ==
  ASSUME AccountingType, NEW size \in Nat, NEW start \in Nat, NEW end \in Int,
         end <= Length, IncreaseUsedCapacity(size, start, end),
         UNCHANGED <<epoch, current_index>>
  PROVE  UsedLedger' = Ledger!Grow(UsedLedger, epoch + start, epoch + end, size)
<1>1. ASSUME NEW e \in Epochs
      PROVE  UsedIn(e)' = IF epoch + start <= e /\ e < epoch + end
                          THEN UsedIn(e) + size ELSE UsedIn(e)
  <2>1. e \in Nat /\ epoch \in Nat
    BY OpenOffsets
  <2>2. CASE IsOpen(e)
    <3>1. e - epoch \in Slots /\ current_index \in Slots
      BY <2>2, OpenOffsets DEF AccountingType
    <3>2. /\ Slot(e - epoch) \in Slots
          /\ Slot(e - epoch) \in SlotsOf(start, end) <=> start <= e - epoch /\ e - epoch < end
      BY <3>1, SlotFacts, SlotsOfPeriod
    <3>3. UsedIn(e)' = slot_used'[Slot(e - epoch)] /\ UsedIn(e) = slot_used[Slot(e - epoch)]
      BY <2>2 DEF UsedIn, IsOpen, Slot
    <3>4. slot_used'[Slot(e - epoch)] =
            IF Slot(e - epoch) \in SlotsOf(start, end) THEN slot_used[Slot(e - epoch)] + size
                                                       ELSE slot_used[Slot(e - epoch)]
      BY <3>2 DEF IncreaseUsedCapacity
    <3> QED BY <2>1, <3>2, <3>3, <3>4
  <2>3. CASE ~ IsOpen(e)
    <3>1. ~ (epoch + start <= e /\ e < epoch + end)
      BY <2>1, <2>3, LengthAssumption DEF IsOpen
    <3> QED BY <2>3, <3>1 DEF UsedIn, IsOpen
  <2> QED BY <2>2, <2>3
<1> QED BY <1>1 DEF UsedLedger, Ledger!Grow, Ledger!Epochs, Epochs

(* The same for the rewards, when a period is paid for.                    *)
LEMMA GrowRewards ==
  ASSUME AccountingType, NEW due \in Nat, NEW start \in Nat, NEW end \in Int,
         end <= Length,
         slot_rewards' = [k \in Slots |-> slot_rewards[k] +
                            (IF k \in SlotsOf(start, end) THEN due ELSE 0)],
         UNCHANGED <<epoch, current_index>>
  PROVE  RewardsLedger' = Ledger!Grow(RewardsLedger, epoch + start, epoch + end, due)
<1>1. ASSUME NEW e \in Epochs
      PROVE  RewardsIn(e)' = IF epoch + start <= e /\ e < epoch + end
                             THEN RewardsIn(e) + due ELSE RewardsIn(e)
  <2>1. e \in Nat /\ epoch \in Nat
    BY OpenOffsets
  <2>2. CASE IsOpen(e)
    <3>1. e - epoch \in Slots /\ current_index \in Slots
      BY <2>2, OpenOffsets DEF AccountingType
    <3>2. /\ Slot(e - epoch) \in Slots
          /\ Slot(e - epoch) \in SlotsOf(start, end) <=> start <= e - epoch /\ e - epoch < end
      BY <3>1, SlotFacts, SlotsOfPeriod
    <3>3. RewardsIn(e)' = slot_rewards'[Slot(e - epoch)] /\ RewardsIn(e) = slot_rewards[Slot(e - epoch)]
      BY <2>2 DEF RewardsIn, IsOpen, Slot
    <3>4. slot_rewards'[Slot(e - epoch)] = slot_rewards[Slot(e - epoch)] +
            (IF Slot(e - epoch) \in SlotsOf(start, end) THEN due ELSE 0)
      BY <3>2
    <3>5. slot_rewards[Slot(e - epoch)] \in Nat
      BY <3>2 DEF AccountingType
    <3> QED BY <2>1, <3>2, <3>3, <3>4, <3>5
  <2>3. CASE ~ IsOpen(e)
    <3>1. ~ (epoch + start <= e /\ e < epoch + end)
      BY <2>1, <2>3, LengthAssumption DEF IsOpen
    <3> QED BY <2>3, <3>1 DEF RewardsIn, IsOpen
  <2> QED BY <2>2, <2>3
<1> QED BY <1>1 DEF RewardsLedger, Ledger!Grow, Ledger!Epochs, Epochs

(* Selling capacity is a Book step of the ledger.                          *)
LEMMA BookStep ==
  ASSUME AccountingInv, NEW size \in Nat, NEW start \in Nat, NEW end \in Int,
         BuyCapacity(size, start, end)
  PROVE  Ledger!Next
<1> DEFINE a == epoch + start
           b == epoch + end
           due == storage_price * StorageUnits(size)
<1>1. /\ AccountingType
      /\ UNCHANGED <<epoch, current_index, total_capacity_size>>
      /\ start < end /\ end <= Length
      /\ IncreaseUsedCapacity(size, start, end)
      /\ WithinCapacity(start, end)
  BY DEF AccountingInv, BuyCapacity, ValidPeriod
<1>2. due \in Nat
  BY <1>1, UnitsNat DEF AccountingType
<1>3. slot_rewards' = [k \in Slots |-> slot_rewards[k] +
                         (IF k \in SlotsOf(start, end) THEN due ELSE 0)]
  BY DEF BuyCapacity, ProcessStoragePayments, Deposit
<1>4. a \in Epochs /\ b \in Epochs /\ epoch <= a /\ a < b /\ b <= epoch + Length
  BY <1>1, EpochAssumption, LengthAssumption DEF AccountingType, Epochs
<1> HIDE DEF due
<1>5. UsedLedger' = Ledger!Grow(UsedLedger, a, b, size)
  BY <1>1, GrowUsed
<1>6. RewardsLedger' = Ledger!Grow(RewardsLedger, a, b, due)
  BY <1>1, <1>2, <1>3, GrowRewards
<1>7. /\ UsedLedger[a] \in Nat /\ RewardsLedger[a] \in Nat
      /\ UsedLedger'[a] = UsedLedger[a] + size
      /\ RewardsLedger'[a] = RewardsLedger[a] + due
  <2>1. start \in Slots /\ a - epoch = start /\ IsOpen(a)
    BY <1>1, LengthAssumption DEF Slots, IsOpen, AccountingType
  <2>2. Slot(start) \in Slots
    BY <1>1, <2>1, SlotFacts DEF AccountingType
  <2>3. UsedIn(a) \in Nat /\ RewardsIn(a) \in Nat
    BY <1>1, <2>1, <2>2 DEF UsedIn, RewardsIn, AccountingType
  <2>4. UsedLedger[a] \in Nat /\ RewardsLedger[a] \in Nat
    BY <1>4, <2>3 DEF UsedLedger, RewardsLedger
  <2>5. a \in Ledger!Epochs /\ a <= a /\ a < b
    BY <1>4 DEF Ledger!Epochs, Epochs
  <2> HIDE DEF a, b
  <2> QED BY <1>5, <1>6, <2>4, <2>5 DEF Ledger!Grow
<1>8. /\ UsedLedger'[a] - UsedLedger[a] = size /\ UsedLedger'[a] >= UsedLedger[a]
      /\ RewardsLedger'[a] - RewardsLedger[a] = due /\ RewardsLedger'[a] >= RewardsLedger[a]
  BY <1>2, <1>7
<1>9. ASSUME NEW e \in Epochs, a <= e, e < b
      PROVE  UsedLedger'[e] <= total_capacity_size
  <2>0. e \in Nat /\ epoch \in Nat
    BY <1>1, OpenOffsets
  <2>1. e - epoch \in Slots /\ IsOpen(e) /\ start <= e - epoch /\ e - epoch < end
    BY <1>1, <1>9, <2>0, LengthAssumption DEF Slots, IsOpen
  <2>2. Slot(e - epoch) \in SlotsOf(start, end)
    BY <1>1, <2>1, SlotsOfPeriod DEF AccountingType
  <2>3. UsedLedger'[e] = slot_used'[Slot(e - epoch)]
    BY <1>1, <2>1 DEF UsedLedger, UsedIn, IsOpen, Slot
  <2> QED BY <1>1, <2>2, <2>3 DEF WithinCapacity
<1>10. Ledger!Book(a, b)
  BY <1>1, <1>4, <1>5, <1>6, <1>8, <1>9
  DEF Ledger!Book, UsedLedger, RewardsLedger, Ledger!Epochs, Epochs
<1> QED BY <1>4, <1>10 DEF Ledger!Next, Ledger!Epochs, Epochs

(* An event blob is a BookEventBlob step of the ledger.                    *)
LEMMA EventBlobStep ==
  ASSUME AccountingInv, NEW size \in Nat, ReserveEventBlob(size)
  PROVE  Ledger!Next
<1>1. /\ AccountingType
      /\ UNCHANGED <<epoch, current_index, slot_rewards, total_capacity_size>>
      /\ IncreaseUsedCapacity(size, 0, Length)
      /\ Length \in Int /\ 0 \in Nat /\ epoch + 0 = epoch
  BY LengthAssumption DEF AccountingInv, ReserveEventBlob, AccountingType
<1>2. UsedLedger' = Ledger!Grow(UsedLedger, epoch + 0, epoch + Length, size)
  BY <1>1, GrowUsed
<1>3. UsedLedger' = Ledger!Grow(UsedLedger, epoch, epoch + Length, size)
  BY <1>1, <1>2
<1>4. UsedLedger[epoch] \in Nat /\ UsedLedger'[epoch] = UsedLedger[epoch] + size
  <2>0. epoch \in Nat /\ epoch \in Epochs
    BY <1>1, OpenOffsets
  <2>1. 0 \in Slots /\ epoch - epoch = 0 /\ IsOpen(epoch) /\ epoch \in Epochs
    BY <2>0, LengthAssumption DEF Slots, IsOpen
  <2>2. Slot(0) \in Slots
    BY <1>1, <2>1, SlotFacts DEF AccountingType
  <2>3. UsedLedger[epoch] \in Nat
    <3>1. UsedLedger[epoch] = slot_used[Slot(0)]
      BY <2>1 DEF UsedLedger, UsedIn
    <3> QED BY <1>1, <2>2, <3>1 DEF AccountingType
  <2>4. epoch \in Ledger!Epochs /\ epoch <= epoch /\ epoch < epoch + Length
    BY <2>1, LengthAssumption, OpenOffsets, <1>1 DEF Ledger!Epochs, Epochs
  <2> QED BY <1>3, <2>3, <2>4 DEF Ledger!Grow
<1>5. UsedLedger'[epoch] - UsedLedger[epoch] = size /\ UsedLedger'[epoch] >= UsedLedger[epoch]
  BY <1>4
<1>6. RewardsLedger' = RewardsLedger
  BY <1>1 DEF RewardsLedger, RewardsIn, IsOpen, Slot
<1>7. Ledger!BookEventBlob
  BY <1>1, <1>3, <1>5, <1>6 DEF Ledger!BookEventBlob, UsedLedger, RewardsLedger
<1> QED BY <1>7 DEF Ledger!Next

(* The period of open epochs and the slot of an epoch after the epoch      *)
(* change, in terms of the state before it.                                *)
OpensNext(e) == epoch + 1 <= e /\ e < epoch + 1 + Length

NewSlot(e) == ((e - (epoch + 1)) + ((current_index + 1) % Length)) % Length

(* The accounts after the epoch change, read through the new index.        *)
LEMMA LedgerAfterClose ==
  ASSUME AccountingType, epoch' = epoch + 1,
         current_index' = (current_index + 1) % Length, NEW e \in Epochs
  PROVE  /\ UsedIn(e)' = IF OpensNext(e) THEN slot_used'[NewSlot(e)] ELSE 0
         /\ RewardsIn(e)' = IF OpensNext(e) THEN slot_rewards'[NewSlot(e)] ELSE 0
BY DEF UsedIn, RewardsIn, IsOpen, Slot, OpensNext, NewSlot

(* Where the accounts are after an epoch change: an account that was open  *)
(* stays where it was, and the newest one takes the slot that was popped.  *)
LEMMA SlotsAfterClose ==
  ASSUME AccountingType, NEW e \in Epochs, OpensNext(e)
  PROVE  /\ NewSlot(e) \in Slots
         /\ NewSlot(e) = (current_index + 1) % Length <=> e = epoch + 1
         /\ e = epoch + Length => NewSlot(e) = current_index /\ ~ IsOpen(e)
         /\ e # epoch + Length => /\ IsOpen(e)
                                  /\ NewSlot(e) = Slot(e - epoch)
                                  /\ NewSlot(e) # current_index
<1> DEFINE i == e - (epoch + 1)
           c == (current_index + 1) % Length
<1>1. e \in Nat /\ epoch \in Nat /\ current_index \in Slots
  BY OpenOffsets DEF AccountingType
<1>2. i \in Slots /\ e - epoch = i + 1
  BY <1>1, LengthAssumption DEF OpensNext, Slots
<1>3. c = IF current_index = Length - 1 THEN 0 ELSE current_index + 1
  BY <1>1, LengthAssumption, SMT DEF Slots
<1>4. NewSlot(e) = (i + c) % Length
  BY DEF NewSlot
<1> HIDE DEF c
<1>5. c \in Slots
  BY <1>1, <1>3, LengthAssumption DEF Slots
<1>6. NewSlot(e) = IF i + c < Length THEN i + c ELSE i + c - Length
  <2> HIDE DEF i
  <2> QED BY <1>2, <1>4, <1>5, LengthAssumption, SMT DEF Slots
<1>7. NewSlot(e) \in Slots /\ (NewSlot(e) = c <=> e = epoch + 1)
  BY <1>1, <1>2, <1>5, <1>6, LengthAssumption DEF Slots
<1>8. CASE e = epoch + Length
  BY <1>1, <1>2, <1>3, <1>6, <1>7, <1>8, LengthAssumption DEF Slots, IsOpen, c
<1>9. CASE e # epoch + Length
  <2>1. i + 1 \in Slots /\ IsOpen(e)
    BY <1>1, <1>2, <1>9, LengthAssumption DEF Slots, IsOpen, OpensNext
  <2>2. Slot(i + 1) = IF (i + 1) + current_index < Length THEN (i + 1) + current_index
                      ELSE (i + 1) + current_index - Length
    BY <1>1, <2>1, SlotValue
  <2>3. NewSlot(e) = Slot(i + 1) /\ NewSlot(e) # current_index
    BY <1>1, <1>2, <1>3, <1>6, <2>1, <2>2, LengthAssumption DEF Slots
  <2>4. NewSlot(e) = Slot(e - epoch)
    BY <1>2, <2>3
  <2> QED BY <1>7, <1>9, <2>1, <2>3, <2>4 DEF c
<1> QED BY <1>8, <1>9

(* The epoch change is a Close step of the ledger.                         *)
LEMMA CloseStep ==
  ASSUME AccountingInv, NEW c \in Committees, NEW capacity \in Capacities,
         NEW storage \in Prices, NEW write \in Prices,
         AdvanceEpoch(c, capacity, storage, write)
  PROVE  Ledger!Next
<1> DEFINE burned == BurnAmount(slot_rewards[current_index])
           distributable == slot_rewards[current_index] - burned
           leftover == distributable - CommitteeRewards(distributable)
<1>1. /\ AccountingType /\ AccountingInv'
      /\ epoch' = epoch + 1 /\ epoch < MaxEpoch
      /\ current_index' = (current_index + 1) % Length
      /\ slot_used' = PopExpand(slot_used, 0)
      /\ slot_rewards' = CarryOver(PopExpand(slot_rewards, 0), current_index', leftover)
      /\ CommitteeRewards(distributable) \in 0 .. distributable
      /\ used_capacity_size' = slot_used'[current_index']
      /\ total_capacity_size' = NewTotalCapacity(capacity, used_capacity_size')
  BY AdvanceEpochInv DEF AccountingInv, AdvanceEpoch
<1>2. /\ current_index \in Slots /\ current_index' \in Slots
      /\ epoch \in Nat /\ epoch \in Epochs /\ epoch + 1 \in Epochs
  <2>1. AccountingType'
    BY <1>1 DEF AccountingInv
  <2> QED BY <1>1, <2>1, EpochAssumption, LengthAssumption DEF AccountingType, Epochs
<1>3. leftover \in 0 .. slot_rewards[current_index]
  <2>1. slot_rewards[current_index] \in Nat
    BY <1>1, <1>2 DEF AccountingType
  <2>2. burned \in 0 .. slot_rewards[current_index]
    BY <2>1, BurnBound
  <2>3. distributable \in 0 .. slot_rewards[current_index]
    BY <2>1, <2>2
  <2> HIDE DEF burned, distributable
  <2> QED BY <1>1, <2>1, <2>3
<1> HIDE DEF leftover
<1>4. /\ slot_used'[current_index] = 0
      /\ \A k \in Slots : k # current_index => slot_used'[k] = slot_used[k]
  BY <1>1, <1>2 DEF PopExpand, AccountingType
<1>5. \A k \in Slots : slot_rewards'[k] =
        (IF k = current_index THEN 0 ELSE slot_rewards[k])
        + (IF k = current_index' THEN leftover ELSE 0)
  BY <1>1, <1>2, <1>3 DEF PopExpand, CarryOver, AccountingType
<1>6. ASSUME NEW e \in Epochs
      PROVE  UsedIn(e)' = IF e = epoch THEN 0 ELSE UsedIn(e)
  <2>0. e \in Nat
    BY <1>1, OpenOffsets
  <2>1. UsedIn(e)' = IF OpensNext(e) THEN slot_used'[NewSlot(e)] ELSE 0
    BY <1>1, LedgerAfterClose
  <2>2. CASE OpensNext(e)
    <3>1. e # epoch
      BY <1>2, <2>0, <2>2 DEF OpensNext
    <3>2. /\ NewSlot(e) \in Slots
          /\ e = epoch + Length => NewSlot(e) = current_index /\ ~ IsOpen(e)
          /\ e # epoch + Length => /\ IsOpen(e) /\ NewSlot(e) = Slot(e - epoch)
                                   /\ NewSlot(e) # current_index
      BY <1>1, <2>2, SlotsAfterClose
    <3> QED BY <1>4, <2>1, <2>2, <3>1, <3>2 DEF UsedIn
  <2>3. CASE ~ OpensNext(e)
    <3>1. e # epoch => ~ IsOpen(e)
      BY <1>2, <2>0, <2>3, LengthAssumption DEF IsOpen, OpensNext
    <3> QED BY <2>1, <2>3, <3>1 DEF UsedIn
  <2> QED BY <2>2, <2>3
<1>7. ASSUME NEW e \in Epochs
      PROVE  RewardsIn(e)' = IF e = epoch THEN 0
                             ELSE IF e = epoch + 1 THEN RewardsIn(e) + leftover
                             ELSE RewardsIn(e)
  <2>0. e \in Nat
    BY <1>1, OpenOffsets
  <2>1. RewardsIn(e)' = IF OpensNext(e) THEN slot_rewards'[NewSlot(e)] ELSE 0
    BY <1>1, LedgerAfterClose
  <2>2. CASE OpensNext(e)
    <3>1. e # epoch
      BY <1>2, <2>0, <2>2 DEF OpensNext
    <3>2. /\ NewSlot(e) \in Slots
          /\ NewSlot(e) = current_index' <=> e = epoch + 1
          /\ e = epoch + Length => NewSlot(e) = current_index /\ ~ IsOpen(e)
          /\ e # epoch + Length => /\ IsOpen(e) /\ NewSlot(e) = Slot(e - epoch)
                                   /\ NewSlot(e) # current_index
      BY <1>1, <2>2, SlotsAfterClose
    <3>3. slot_rewards[NewSlot(e)] \in Nat
      BY <1>1, <3>2 DEF AccountingType
    <3>4. slot_rewards'[NewSlot(e)] =
            (IF NewSlot(e) = current_index THEN 0 ELSE slot_rewards[NewSlot(e)])
            + (IF e = epoch + 1 THEN leftover ELSE 0)
      BY <1>5, <3>2
    <3>5. RewardsIn(e) = IF NewSlot(e) = current_index THEN 0 ELSE slot_rewards[NewSlot(e)]
      BY <3>2 DEF RewardsIn
    <3> QED BY <1>3, <2>1, <2>2, <3>1, <3>3, <3>4, <3>5
  <2>3. CASE ~ OpensNext(e)
    <3>1. e # epoch + 1 /\ (e # epoch => ~ IsOpen(e))
      BY <1>2, <2>0, <2>3, LengthAssumption DEF IsOpen, OpensNext
    <3> QED BY <2>1, <2>3, <3>1 DEF RewardsIn
  <2> QED BY <2>2, <2>3
<1>8. UsedLedger' = [UsedLedger EXCEPT ![epoch] = 0]
  BY <1>2, <1>6 DEF UsedLedger, Epochs
<1>9. /\ RewardsLedger[epoch] = slot_rewards[current_index]
      /\ RewardsLedger[epoch + 1] \in Nat
      /\ RewardsLedger'[epoch + 1] = RewardsLedger[epoch + 1] + leftover
  <2>1. RewardsLedger[epoch] = RewardsIn(epoch) /\ RewardsLedger[epoch + 1] = RewardsIn(epoch + 1)
    BY <1>2 DEF RewardsLedger
  <2>2. RewardsLedger'[epoch + 1] = RewardsIn(epoch + 1) + leftover
    <3>1. \A e \in Epochs : RewardsLedger'[e] = RewardsIn(e)'
      BY DEF RewardsLedger, Epochs
    <3>2. epoch + 1 # epoch
      BY <1>2
    <3> QED BY <1>2, <1>7, <3>1, <3>2
  <2>3. RewardsIn(epoch) = slot_rewards[current_index]
    <3>1. IsOpen(epoch) /\ epoch - epoch = 0
      BY <1>2, LengthAssumption DEF IsOpen
    <3> QED BY <1>2, <3>1, SlotFacts DEF RewardsIn
  <2>4. RewardsIn(epoch + 1) \in Nat
    <3>1. CASE IsOpen(epoch + 1)
      <4>1. Slot((epoch + 1) - epoch) \in Slots
        BY <1>1, <1>2, <3>1, OpenOffsets, SlotFacts
      <4> QED BY <1>1, <3>1, <4>1 DEF RewardsIn, AccountingType
    <3>2. CASE ~ IsOpen(epoch + 1)
      BY <3>2 DEF RewardsIn
    <3> QED BY <3>1, <3>2
  <2> QED BY <2>1, <2>2, <2>3, <2>4
<1>10. RewardsLedger' =
         [RewardsLedger EXCEPT ![epoch] = 0, ![epoch + 1] = RewardsLedger'[epoch + 1]]
  <2>1. epoch + 1 # epoch
    BY <1>2
  <2>2. \A e \in Epochs : RewardsLedger'[e] = RewardsIn(e)' /\ RewardsLedger[e] = RewardsIn(e)
    BY DEF RewardsLedger, Epochs
  <2>3. /\ RewardsLedger = [e \in Epochs |-> RewardsLedger[e]]
        /\ RewardsLedger' = [e \in Epochs |-> RewardsLedger'[e]]
    BY DEF RewardsLedger, Epochs
  <2> QED BY <1>2, <1>7, <2>1, <2>2, <2>3
<1>11. total_capacity_size' >= UsedLedger'[epoch']
  <2>1. IsOpen(epoch)' /\ epoch' - epoch' = 0 /\ epoch' \in Epochs
    BY <1>1, <1>2, LengthAssumption DEF IsOpen
  <2>2. UsedLedger'[epoch'] = UsedIn(epoch)'
    BY <2>1 DEF UsedLedger, Epochs
  <2>3. UsedIn(epoch)' = slot_used'[Slot(0)']
    BY <2>1 DEF UsedIn, IsOpen, Slot
  <2>4. Slot(0)' = current_index'
    <3>1. \A k \in Slots : (0 + k) % Length = k
      BY LengthAssumption, SMT DEF Slots
    <3> QED BY <1>2, <3>1 DEF Slot
  <2>5. used_capacity_size' \in Nat /\ capacity \in Nat
    BY <1>1, CapacitiesAssumption DEF AccountingInv, AccountingType
  <2> QED BY <1>1, <2>2, <2>3, <2>4, <2>5 DEF NewTotalCapacity
<1>12. RewardsLedger'[epoch + 1] - RewardsLedger[epoch + 1] \in 0 .. RewardsLedger[epoch]
  BY <1>3, <1>9
<1>13. Ledger!Close
  BY <1>1, <1>8, <1>10, <1>11, <1>12 DEF Ledger!Close, UsedLedger, RewardsLedger
<1> QED BY <1>13 DEF Ledger!Next

(* Every operation is a step of the accounting: a sale, an event blob, a   *)
(* deposit, an adjustment of prices or deny lists, or an epoch change.     *)

Sell == \E size \in Nat, start \in Nat, end \in Int : BuyCapacity(size, start, end)

Donate ==
  \E amount \in [Slots -> Nat] :
    /\ Deposit(amount)
    /\ UNCHANGED <<epoch, committee, current_index, slot_epoch, slot_used,
                   total_capacity_size, used_capacity_size, prices, deny_list_sizes,
                   event_bytes>>

StoreEventBlob == \E size \in Nat : ReserveEventBlob(size)

Adjust ==
  \/ \E storage, write \in Prices : SetPrices(storage, write)
  \/ \E n \in Nodes, size \in DenySizes : UpdateDenyList(n, size)

ChangeEpoch ==
  \E c \in Committees, capacity \in Capacities, storage, write \in Prices :
    AdvanceEpoch(c, capacity, storage, write)

AccountingStep ==
  Sell \/ Donate \/ StoreEventBlob \/ Adjust \/ ChangeEpoch \/ UNCHANGED accounting

\* All that the accounting needs to know about objects.
WellFormed ==
  \A id \in Ids : ~ Is(id, "free") =>
    /\ objects[id].start \in Nat /\ objects[id].end \in Nat /\ objects[id].size \in Nat
    /\ objects[id].start < objects[id].end

(* A write fee is a deposit.                                               *)
LEMMA WriteFeeStep ==
  ASSUME AccountingType, NEW bytes \in Nat, PayWritePrice(bytes),
         UNCHANGED <<epoch, committee, current_index, slot_epoch, slot_used,
                     total_capacity_size, used_capacity_size, prices, deny_list_sizes,
                     event_bytes>>
  PROVE  Donate
<1> DEFINE fee == write_price * StorageUnits(bytes)
           amount == [k \in Slots |-> IF k = Slot(0) THEN fee ELSE 0]
<1>1. fee \in Nat
  BY UnitsNat DEF AccountingType
<1>2. Deposit(amount)
  BY DEF PayWritePrice
<1> HIDE DEF fee
<1>3. amount \in [Slots -> Nat]
  BY <1>1
<1> HIDE DEF amount
<1> QED BY <1>2, <1>3 DEF Donate

(* What an extension buys starts where the object ends.                    *)
LEMMA ExtensionStep ==
  ASSUME AccountingType, WellFormed, NEW id \in Ids, ~ Is(id, "free"),
         epoch < objects[id].end, NEW n \in 1 .. Length
  PROVE  /\ objects[id].end - epoch \in Nat
         /\ (objects[id].end - epoch) + n \in Int
         /\ objects[id].size \in Nat
BY LengthAssumption DEF WellFormed, AccountingType

(* The operations of this module are steps of the accounting.              *)
LEMMA NextAccounting ==
  ASSUME AccountingType, WellFormed, Next
  PROVE  AccountingStep
<1>0. epoch \in Nat
  BY DEF AccountingType
<1>1. ASSUME NEW id \in Ids, NEW size \in Sizes, NEW start \in 0 .. (epoch + Length),
             NEW end \in 0 .. (epoch + Length), ReserveSpace(id, size, start, end)
      PROVE  Sell
  <2> DEFINE s == IF start < epoch THEN epoch ELSE start
  <2>1. size \in Nat /\ s - epoch \in Nat /\ end - epoch \in Int
    BY <1>0, SizesAssumption
  <2>2. BuyCapacity(size, s - epoch, end - epoch)
    BY <1>1 DEF ReserveSpace
  <2> HIDE DEF s
  <2> QED BY <2>1, <2>2 DEF Sell
<1>2. CASE StorageNext
  <2>1. Sell \/ UNCHANGED accounting
    BY <1>1, <1>2
    DEF StorageNext, SplitByEpoch, SplitBySize, FusePeriods, FuseAmount, DestroyStorage
  <2> QED BY <2>1 DEF AccountingStep
<1>3. ASSUME NEW id \in Ids, NEW bytes \in Sizes, NEW deletable \in BOOLEAN,
             RegisterBlob(id, bytes, deletable)
      PROVE  Donate
  <2>1. bytes \in Nat
    BY SizesAssumption
  <2> QED BY <1>3, <2>1, WriteFeeStep DEF RegisterBlob
<1>4. ASSUME NEW id \in Ids, NEW n \in 1 .. Length, ExtendBlob(id, n)
      PROVE  Sell
  <2> DEFINE start == objects[id].end - epoch
  <2>1. ~ Is(id, "free") /\ epoch < objects[id].end
    BY <1>4 DEF ExtendBlob, CertifiedNotExpired, Is
  <2>2. start \in Nat /\ start + n \in Int /\ objects[id].size \in Nat
    BY <2>1, ExtensionStep
  <2>3. BuyCapacity(objects[id].size, start, start + n)
    BY <1>4 DEF ExtendBlob
  <2> HIDE DEF start
  <2> QED BY <2>2, <2>3 DEF Sell
<1>5. ASSUME NEW size \in Sizes, CertifyEventBlob(size)
      PROVE  StoreEventBlob
  BY <1>5, SizesAssumption DEF CertifyEventBlob, StoreEventBlob
<1>6. CASE BlobNext
  <2>1. Donate \/ Sell \/ StoreEventBlob \/ UNCHANGED accounting
    BY <1>3, <1>4, <1>5, <1>6
    DEF BlobNext, CertifyBlob, DeleteBlob, BurnBlob, ExtendBlobWithResource
  <2> QED BY <2>1 DEF AccountingStep
<1>7. ASSUME NEW subsidy \in Subsidies, NEW n \in 1 .. Length, AddSubsidy(subsidy, n)
      PROVE  Donate
  BY <1>7, SubsidyAmount DEF AddSubsidy, Donate
<1>8. ASSUME NEW subsidies \in [Slots -> Subsidies \cup {0}], AddPerEpochSubsidies(subsidies)
      PROVE  Donate
  BY <1>8, PerEpochAmount DEF AddPerEpochSubsidies, Donate
<1>9. CASE SystemNext
  <2>1. Donate \/ Adjust \/ ChangeEpoch
    BY <1>7, <1>8, <1>9 DEF SystemNext, Adjust, ChangeEpoch
  <2> QED BY <2>1 DEF AccountingStep
<1> QED BY <1>2, <1>6, <1>9 DEF Next

(* Such a step keeps the invariant of the accounting.                      *)
LEMMA StepInv ==
  ASSUME AccountingInv, AccountingStep
  PROVE  AccountingInv'
<1>0. AccountingType
  BY DEF AccountingInv
<1>1. CASE Sell
  BY <1>1, BuyCapacityInv DEF Sell
<1>2. CASE Donate
  BY <1>0, <1>2, DepositType, FundingInv DEF Donate
<1>3. CASE StoreEventBlob
  BY <1>3, ReserveEventBlobInv DEF StoreEventBlob
<1>4. CASE Adjust
  BY <1>4, PricesAssumption, DenySizesAssumption
  DEF Adjust, SetPrices, UpdateDenyList, ring, prices, AccountingInv, AccountingType,
      SlotsMatchEpochs, CachedUsedCapacity, WithinTotalCapacity, Slot
<1>5. CASE ChangeEpoch
  BY <1>5, AdvanceEpochInv DEF ChangeEpoch
<1> QED BY <1>1, <1>2, <1>3, <1>4, <1>5, UnchangedInv DEF AccountingStep

(* And it is a step of the ledger, or a stuttering step.                   *)
LEMMA StepLedger ==
  ASSUME AccountingInv, AccountingStep
  PROVE  Ledger!Next \/ UNCHANGED <<epoch, UsedLedger, RewardsLedger, total_capacity_size>>
<1>0. AccountingType
  BY DEF AccountingInv
<1>1. CASE Sell
  BY <1>1, BookStep DEF Sell
<1>2. CASE Donate
  <2>1. Ledger!Fund
    BY <1>0, <1>2, FundStep DEF Donate
  <2> QED BY <2>1 DEF Ledger!Next
<1>3. CASE StoreEventBlob
  BY <1>3, EventBlobStep DEF StoreEventBlob
<1>4. CASE Adjust
  <2>1. UNCHANGED <<epoch, current_index, slot_used, slot_rewards, total_capacity_size>>
    BY <1>4 DEF Adjust, SetPrices, UpdateDenyList, ring
  <2> QED BY <2>1, StutterStep
<1>5. CASE ChangeEpoch
  BY <1>5, CloseStep DEF ChangeEpoch
<1>6. CASE UNCHANGED accounting
  BY <1>6, StutterStep DEF accounting, ring
<1> QED BY <1>1, <1>2, <1>3, <1>4, <1>5, <1>6 DEF AccountingStep

(* Objects are well formed.                                                *)
LEMMA ObjectsWellFormed ==
  ASSUME ObjectsOK
  PROVE  WellFormed
BY DEF ObjectsOK, WellFormed, Objects, Free, Is

(* The ledger starts empty.                                                *)
LEMMA InitLedger ==
  ASSUME Init
  PROVE  Ledger!Init
<1>1. current_index = 0 /\ epoch = 0 /\ current_index \in Slots
  BY LengthAssumption DEF Init, AccountingInit, Slots
<1>2. ASSUME NEW e \in Epochs PROVE UsedIn(e) = 0 /\ RewardsIn(e) = 0
  <2>1. CASE IsOpen(e)
    <3>1. e - epoch \in Slots
      BY <1>1, <2>1, LengthAssumption, EpochAssumption DEF IsOpen, Slots, Epochs
    <3>2. Slot(e - epoch) \in Slots
      BY <1>1, <3>1, SlotFacts
    <3> QED BY <2>1, <3>2 DEF UsedIn, RewardsIn, Init, AccountingInit
  <2>2. CASE ~ IsOpen(e)
    BY <2>2 DEF UsedIn, RewardsIn
  <2> QED BY <2>1, <2>2
<1> QED BY <1>2 DEF Ledger!Init, Ledger!Epochs, Epochs, Init, AccountingInit

(* The ring buffer, with everything that is sold, subsidised, carried over *)
(* and burned, implements one account per epoch.                           *)
THEOREM RingImplementsLedger == Spec => ImplementsLedger
<1>1. Init => Ledger!Init
  BY InitLedger
<1>2. Inv /\ [Next]_vars => [Ledger!Next]_(Ledger!ledger)
  <2> SUFFICES ASSUME AccountingInv, ObjectsOK, [Next]_vars
               PROVE  Ledger!Next
                      \/ UNCHANGED <<epoch, UsedLedger, RewardsLedger, total_capacity_size>>
    BY DEF Inv, Ledger!ledger, UsedLedger, RewardsLedger
  <2>1. CASE UNCHANGED vars
    <3>1. UNCHANGED accounting
      BY <2>1 DEF vars
    <3> QED BY <3>1, StutterStep DEF accounting, ring
  <2>2. CASE Next
    <3>1. AccountingType /\ WellFormed
      BY ObjectsWellFormed DEF AccountingInv
    <3> QED BY <2>2, <3>1, NextAccounting, StepLedger
  <2> QED BY <2>1, <2>2
<1> QED BY <1>1, <1>2, InvHolds, PTL DEF Spec, ImplementsLedger, Ledger!Spec
-----------------------------------------------------------------------------
(* Rewards and WAL.                                                        *)

(* A share that is rounded down, times the total, is at most its part of   *)
(* the rewards.                                                            *)
LEMMA RoundedDown ==
  ASSUME NEW stored \in Nat, NEW rewards \in Nat, NEW total \in Nat \ {0}
  PROVE  RewardOf(stored, rewards, total) \in Nat
         /\ RewardOf(stored, rewards, total) * total <= stored * rewards
<1>1. stored * rewards \in Nat
  OBVIOUS
<1>2. \A a \in Nat : a \div total \in Nat /\ (a \div total) * total <= a
  BY SMT
<1> QED BY <1>1, <1>2 DEF RewardOf

(* What a node stored is not negative.                                     *)
LEMMA StoredType ==
  ASSUME AccountingType, NEW n \in Nodes
  PROVE  StoredWeighted(n) \in Nat
<1> DEFINE used == slot_used[Slot(0)]
           denied == IF deny_list_sizes[n] < used THEN deny_list_sizes[n] ELSE used
<1>1. used \in Nat
  <2>1. 0 \in Slots /\ current_index \in Slots
    BY LengthAssumption DEF AccountingType, Slots
  <2> QED BY <2>1, SlotFacts DEF AccountingType
<1>2. deny_list_sizes[n] \in Nat /\ committee[n] \in Nat
  BY DEF AccountingType
<1>3. used - denied \in Nat
  <2> HIDE DEF used
  <2> QED BY <1>1, <1>2
<1>4. StoredWeighted(n) = committee[n] * (used - denied)
  BY DEF StoredWeighted
<1> HIDE DEF used, denied
<1> QED BY <1>2, <1>3, <1>4

(* The rewards of all nodes together are covered, whatever the committee   *)
(* and its deny lists are.                                                 *)
LEMMA CommitteeRewardsBound ==
  ASSUME AccountingType, NEW rewards \in Nat
  PROVE  CommitteeRewards(rewards) \in 0 .. rewards
<1> DEFINE stored == [n \in Nodes |-> StoredWeighted(n)]
           all == SumFunctionOnSet(stored, Nodes)
           total == IF all < 1 THEN 1 ELSE all
           share == [n \in Nodes |-> RewardOf(StoredWeighted(n), rewards, total)]
           sum == SumFunctionOnSet(share, Nodes)
<1>1. CommitteeRewards(rewards) = sum
  BY DEF CommitteeRewards, SumFunction
<1>2. \A n \in Nodes : stored[n] \in Nat
  BY StoredType
<1>3. all \in Nat
  <2> HIDE DEF stored
  <2> QED BY <1>2, NodesAssumption, SumType
<1>4. total \in Nat \ {0} /\ all <= total
  <2> HIDE DEF all
  <2> QED BY <1>3
<1>5. \A n \in Nodes : share[n] \in Nat /\ share[n] * total <= stored[n] * rewards
  <2> HIDE DEF total
  <2> QED BY <1>2, <1>4, RoundedDown
<1>6. sum \in Nat
  <2> HIDE DEF share
  <2> QED BY <1>5, NodesAssumption, SumType
<1>7. sum * total <= all * rewards
  <2> HIDE DEF share, total, stored
  <2> QED BY <1>2, <1>4, <1>5, NodesAssumption, SumScaled
<1>8. sum <= rewards
  <2> HIDE DEF sum, total, all
  <2>1. all * rewards <= total * rewards
    BY <1>3, <1>4
  <2>2. sum * total <= rewards * total
    BY <1>3, <1>4, <1>6, <1>7, <2>1
  <2> QED BY <1>4, <1>6, <2>2
<1> QED BY <1>1, <1>6, <1>8

WalInv ==
  /\ wal \in [paid_in: Nat, paid_out: Nat, burned: Nat]
  /\ WalConserved

(* The slots are a finite set of numbers.                                  *)
LEMMA SlotsFinite == IsFiniteSet(Slots)
BY LengthAssumption, FS_Interval DEF Slots

(* Deposits are counted as paid in.                                        *)
LEMMA DepositWal ==
  ASSUME AccountingType, WalInv, NEW amount \in [Slots -> Nat], Deposit(amount)
  PROVE  WalInv'
<1> DEFINE Sum(f) == SumFunctionOnSet(f, Slots)
<1>1. /\ \A k \in Slots : slot_rewards[k] \in Nat /\ amount[k] \in Nat
      /\ \A k \in Slots : slot_rewards'[k] = slot_rewards[k] + amount[k]
      /\ DOMAIN slot_rewards = Slots /\ DOMAIN slot_rewards' = Slots /\ DOMAIN amount = Slots
  BY DEF AccountingType, Deposit
<1>2. Sum(slot_rewards') = Sum(slot_rewards) + Sum(amount)
  BY <1>1, SlotsFinite, SumPlus
<1>3. Sum(slot_rewards) \in Nat /\ Sum(amount) \in Nat
  BY <1>1, SlotsFinite, SumType
<1>4. wal' = [wal EXCEPT !.paid_in = wal.paid_in + Sum(amount)]
  BY <1>1 DEF Deposit, SumFunction
<1>5. wal.paid_in = Sum(slot_rewards) + wal.paid_out + wal.burned
  BY <1>1 DEF WalInv, WalConserved, SumFunction
<1>6. wal \in [paid_in: Nat, paid_out: Nat, burned: Nat]
  BY DEF WalInv
<1> HIDE DEF Sum
<1>7. wal' \in [paid_in: Nat, paid_out: Nat, burned: Nat]
  BY <1>3, <1>4, <1>6
<1>8. wal'.paid_in = Sum(slot_rewards') + wal'.paid_out + wal'.burned
  BY <1>2, <1>3, <1>4, <1>5, <1>6
<1> QED BY <1>1, <1>7, <1>8 DEF WalInv, WalConserved, SumFunction, Sum

(* At the end of an epoch its rewards are paid out, burned or moved on.    *)
LEMMA AdvanceEpochWal ==
  ASSUME AccountingType, WalInv, NEW c, NEW capacity, NEW storage, NEW write,
         AdvanceEpoch(c, capacity, storage, write)
  PROVE  WalInv'
<1> DEFINE Sum(f) == SumFunctionOnSet(f, Slots)
           here == slot_rewards[current_index]
           burned == BurnAmount(here)
           distributable == here - burned
           distributed == CommitteeRewards(distributable)
           left == distributable - distributed
           popped == PopExpand(slot_rewards, 0)
           next == (current_index + 1) % Length
<1>1. current_index \in Slots /\ next \in Slots
  BY NextSlot DEF AccountingType, AdvanceEpoch
<1>2. \A k \in Slots : slot_rewards[k] \in Nat
  BY DEF AccountingType
<1>3. here \in Nat /\ burned \in 0 .. here
  BY <1>1, <1>2, BurnBound
<1>4. distributed \in 0 .. distributable
  BY DEF AdvanceEpoch
<1>5. /\ wal' = [wal EXCEPT !.paid_out = wal.paid_out + distributed, !.burned = wal.burned + burned]
      /\ slot_rewards' = CarryOver(popped, next, left)
  BY DEF AdvanceEpoch
<1>6. DOMAIN slot_rewards = Slots /\ popped = [k \in Slots |-> IF k = current_index THEN 0 ELSE slot_rewards[k]]
  BY DEF AccountingType, PopExpand
<1> HIDE DEF here, burned, distributed, popped, next
<1>7. left \in Nat /\ distributed \in Nat /\ burned \in Nat /\ here = burned + distributed + left
  BY <1>3, <1>4
<1> HIDE DEF left, distributable
<1>8. Sum(popped) \in Nat /\ Sum(slot_rewards) \in Nat /\ Sum(popped) = Sum(slot_rewards) - here + 0
  <2>1. popped[current_index] = 0 /\ \A k \in Slots \ {current_index} : popped[k] = slot_rewards[k]
    BY <1>1, <1>6
  <2>2. popped[current_index] \in Nat
    BY <2>1
  <2>3. /\ SumFunctionOnSet(slot_rewards, Slots) \in Nat /\ SumFunctionOnSet(popped, Slots) \in Nat
        /\ SumFunctionOnSet(popped, Slots) =
             SumFunctionOnSet(slot_rewards, Slots) - slot_rewards[current_index] + popped[current_index]
    <3> HIDE DEF Sum
    <3> DEFINE f == slot_rewards
               x == current_index
    <3>1. x \in Slots /\ (\A y \in Slots : f[y] \in Nat) /\ popped[x] \in Nat
          /\ (\A y \in Slots \ {x} : popped[y] = f[y])
      BY <1>1, <1>2, <2>1, <2>2
    <3> HIDE DEF f, x
    <3>2. SumFunctionOnSet(f, Slots) \in Nat /\ SumFunctionOnSet(popped, Slots) \in Nat
          /\ SumFunctionOnSet(popped, Slots) = SumFunctionOnSet(f, Slots) - f[x] + popped[x]
      BY <3>1, SlotsFinite, SumUpdate
    <3> QED BY <3>2 DEF f, x
  <2> QED BY <2>1, <2>3 DEF here
<1>9. /\ \A k \in Slots : popped[k] \in Nat
      /\ slot_rewards' = [k \in Slots |-> IF k = next THEN popped[k] + left ELSE popped[k]]
  BY <1>1, <1>2, <1>5, <1>6 DEF CarryOver
<1>10. Sum(slot_rewards') \in Nat /\ Sum(slot_rewards') = Sum(popped) - popped[next] + (popped[next] + left)
  <2>1. /\ slot_rewards'[next] = popped[next] + left
        /\ slot_rewards'[next] \in Nat
        /\ \A k \in Slots \ {next} : slot_rewards'[k] = popped[k]
    BY <1>1, <1>7, <1>9
  <2>2. /\ SumFunctionOnSet(popped, Slots) \in Nat /\ SumFunctionOnSet(slot_rewards', Slots) \in Nat
        /\ SumFunctionOnSet(slot_rewards', Slots) =
             SumFunctionOnSet(popped, Slots) - popped[next] + slot_rewards'[next]
    <3> DEFINE g == slot_rewards'
    <3>1. (\A y \in Slots : popped[y] \in Nat) /\ g[next] \in Nat
          /\ (\A y \in Slots \ {next} : g[y] = popped[y])
      BY <1>9, <2>1
    <3> HIDE DEF g
    <3>2. SumFunctionOnSet(popped, Slots) \in Nat /\ SumFunctionOnSet(g, Slots) \in Nat
          /\ SumFunctionOnSet(g, Slots) = SumFunctionOnSet(popped, Slots) - popped[next] + g[next]
      BY <1>1, <3>1, SlotsFinite, SumUpdate
    <3> QED BY <3>2 DEF g
  <2> QED BY <2>1, <2>2
<1>11. popped[next] \in Nat
  BY <1>1, <1>9
<1>12. wal.paid_in = Sum(slot_rewards) + wal.paid_out + wal.burned
  BY <1>6 DEF WalInv, WalConserved, SumFunction
<1>13. wal \in [paid_in: Nat, paid_out: Nat, burned: Nat]
  BY DEF WalInv
<1> HIDE DEF Sum
<1>14. wal' \in [paid_in: Nat, paid_out: Nat, burned: Nat]
  <2>1. wal.paid_out + distributed \in Nat /\ wal.burned + burned \in Nat
    <3>1. wal.paid_out \in Nat /\ wal.burned \in Nat
      BY <1>13
    <3> QED BY <1>7, <3>1
  <2> QED BY <1>5, <1>13, <2>1
<1>15. Sum(slot_rewards') = Sum(slot_rewards) - here + left
  BY <1>3, <1>7, <1>8, <1>10, <1>11
<1>16. wal'.paid_in = wal.paid_in /\ wal'.paid_out = wal.paid_out + distributed /\ wal'.burned = wal.burned + burned
  BY <1>5, <1>13
<1>17. wal.paid_in \in Nat /\ wal.paid_out \in Nat /\ wal.burned \in Nat
  BY <1>13
<1>18. wal'.paid_in = Sum(slot_rewards') + wal'.paid_out + wal'.burned
  BY <1>3, <1>7, <1>8, <1>12, <1>15, <1>16, <1>17
<1>19. DOMAIN slot_rewards' = Slots
  BY <1>9
<1> QED BY <1>14, <1>18, <1>19 DEF WalInv, WalConserved, SumFunction, Sum

(* What a sale is paid with is a deposit.                                  *)
LEMMA SaleDeposit ==
  ASSUME AccountingType, Sell
  PROVE  \E amount \in [Slots -> Nat] : Deposit(amount)
<1>1. PICK size \in Nat, start \in Nat, end \in Int : BuyCapacity(size, start, end)
  BY DEF Sell
<1> DEFINE due == storage_price * StorageUnits(size)
           amount == [k \in Slots |-> IF k \in SlotsOf(start, end) THEN due ELSE 0]
<1>2. due \in Nat
  BY UnitsNat DEF AccountingType
<1>3. Deposit(amount)
  BY <1>1 DEF BuyCapacity, ProcessStoragePayments
<1> HIDE DEF due
<1>4. amount \in [Slots -> Nat]
  BY <1>2
<1> HIDE DEF amount
<1> QED BY <1>3, <1>4

(* No step of the accounting creates or loses WAL.                         *)
LEMMA StepWal ==
  ASSUME AccountingType, WalInv, AccountingStep
  PROVE  WalInv'
<1>1. CASE Sell
  BY <1>1, SaleDeposit, DepositWal
<1>2. CASE Donate
  BY <1>2, DepositWal DEF Donate
<1>3. CASE ChangeEpoch
  BY <1>3, AdvanceEpochWal DEF ChangeEpoch
<1>4. CASE StoreEventBlob \/ Adjust \/ UNCHANGED accounting
  <2>1. UNCHANGED <<slot_rewards, wal>>
    BY <1>4 DEF StoreEventBlob, ReserveEventBlob, Adjust, SetPrices, UpdateDenyList,
                accounting, ring
  <2> QED BY <2>1 DEF WalInv, WalConserved
<1> QED BY <1>1, <1>2, <1>3, <1>4 DEF AccountingStep

(* The ring starts without any WAL.                                        *)
LEMMA InitWal ==
  ASSUME Init
  PROVE  WalInv
<1> DEFINE zero == [i \in Slots |-> 0]
<1>1. slot_rewards = zero /\ wal = [paid_in |-> 0, paid_out |-> 0, burned |-> 0]
  BY DEF Init, AccountingInit
<1>2. \A k \in Slots : zero[k] \in Nat /\ zero[k] = zero[k] + zero[k]
  OBVIOUS
<1>3. DOMAIN zero = Slots
  OBVIOUS
<1> HIDE DEF zero
<1>4. SumFunctionOnSet(zero, Slots) \in Nat
      /\ SumFunctionOnSet(zero, Slots) = SumFunctionOnSet(zero, Slots) + SumFunctionOnSet(zero, Slots)
  BY <1>2, SlotsFinite, SumType, SumPlus
<1>5. SumFunctionOnSet(zero, Slots) = 0
  <2> DEFINE total == SumFunctionOnSet(zero, Slots)
  <2>1. total \in Nat /\ total = total + total
    BY <1>4
  <2> HIDE DEF total
  <2>2. total = 0
    BY <2>1
  <2> QED BY <2>2 DEF total
<1> QED BY <1>1, <1>3, <1>5 DEF WalInv, WalConserved, SumFunction

(* advance_epoch can always split the nodes' rewards off the balance.      *)
LEMMA RewardsCovered ==
  ASSUME AccountingType
  PROVE  RewardsAreCovered
<1> DEFINE here == slot_rewards[current_index]
           distributable == here - BurnAmount(here)
<1>1. here \in Nat
  BY DEF AccountingType
<1> HIDE DEF here
<1>2. distributable \in Nat
  BY <1>1, BurnBound
<1> HIDE DEF distributable
<1>3. CommitteeRewards(distributable) \in 0 .. distributable
  BY <1>2, CommitteeRewardsBound
<1> QED BY <1>3 DEF RewardsAreCovered, distributable, here
-----------------------------------------------------------------------------
(* The subsidies contract.                                                 *)

SubsidiesType ==
  /\ already_subsidized \in [first: Nat, balances: [Slots -> Nat]]
  /\ already_subsidized.first <= epoch
  /\ system_subsidy_rate \in Nat

SubsidiesInv ==
  /\ Inv
  /\ WalInv
  /\ SubsidiesType
  /\ SubsidiesNotBlocked

(* Until the epoch changes, accounts only grow.                            *)
LEMMA RewardsGrow ==
  ASSUME AccountingType, AccountingStep, ~ ChangeEpoch
  PROVE  /\ UNCHANGED <<epoch, current_index, slot_epoch>>
         /\ \A k \in Slots : slot_rewards'[k] >= slot_rewards[k]
<1>1. ASSUME NEW amount \in [Slots -> Nat], Deposit(amount)
      PROVE  \A k \in Slots : slot_rewards'[k] >= slot_rewards[k]
  BY <1>1 DEF Deposit, AccountingType
<1>2. CASE Sell
  <2>1. UNCHANGED <<epoch, current_index, slot_epoch>>
    BY <1>2 DEF Sell, BuyCapacity
  <2> QED BY <1>1, <1>2, <2>1, SaleDeposit
<1>3. CASE Donate
  BY <1>1, <1>3 DEF Donate
<1>4. CASE StoreEventBlob \/ Adjust \/ UNCHANGED accounting
  <2>1. UNCHANGED <<epoch, current_index, slot_epoch, slot_rewards>>
    BY <1>4 DEF StoreEventBlob, ReserveEventBlob, Adjust, SetPrices, UpdateDenyList,
                accounting, ring
  <2> QED BY <2>1 DEF AccountingType
<1> QED BY <1>2, <1>3, <1>4 DEF AccountingStep

(* An epoch change moves every account one epoch closer, and takes nothing *)
(* from those that stay open.                                              *)
LEMMA RewardsShift ==
  ASSUME AccountingInv, ChangeEpoch
  PROVE  /\ epoch' = epoch + 1
         /\ \A i \in Slots : i + 1 \in Slots => Rewards(i)' >= Rewards(i + 1)
<1>1. PICK c \in Committees, capacity \in Capacities, storage \in Prices, write \in Prices :
        AdvanceEpoch(c, capacity, storage, write)
  BY DEF ChangeEpoch
<1> DEFINE here == slot_rewards[current_index]
           distributable == here - BurnAmount(here)
           left == distributable - CommitteeRewards(distributable)
<1>2. /\ epoch' = epoch + 1
      /\ current_index' = (current_index + 1) % Length
      /\ slot_rewards' = CarryOver(PopExpand(slot_rewards, 0), current_index', left)
      /\ CommitteeRewards(distributable) \in 0 .. distributable
  BY <1>1 DEF AdvanceEpoch
<1>3. here \in Nat /\ distributable \in Nat
  <2>1. here \in Nat
    BY DEF AccountingInv, AccountingType
  <2> HIDE DEF here
  <2> QED BY <2>1, BurnBound
<1>4. left \in Nat
  <2> HIDE DEF here, distributable
  <2> QED BY <1>2, <1>3
<1> HIDE DEF here, distributable, left
<1>5. current_index \in Slots /\ current_index' \in Slots
      /\ slot_rewards \in [Slots -> Nat]
  BY <1>2, NextSlot DEF AccountingInv, AccountingType
<1>6. ASSUME NEW i \in Slots, i + 1 \in Slots
      PROVE  Rewards(i)' >= Rewards(i + 1)
  <2>1. Slot(i)' = Slot(i + 1)
    BY <1>2, <1>5, <1>6, NextSlot DEF Slots
  <2>2. Slot(i + 1) \in Slots /\ Slot(i + 1) # current_index
    <3>1. 0 \in Slots /\ i + 1 # 0
      BY LengthAssumption DEF Slots
    <3> QED BY <1>5, <1>6, <3>1, SlotFacts
  <2>3. slot_rewards'[Slot(i + 1)] >= slot_rewards[Slot(i + 1)]
    <3> DEFINE k == Slot(i + 1)
               popped == PopExpand(slot_rewards, 0)
    <3>1. k \in Slots /\ k # current_index
      BY <2>2
    <3> HIDE DEF k
    <3>2. popped \in [Slots -> Nat] /\ popped[k] = slot_rewards[k] /\ slot_rewards[k] \in Nat
      BY <1>5, <3>1 DEF PopExpand
    <3> HIDE DEF popped
    <3>3. slot_rewards' = [popped EXCEPT ![current_index'] = popped[current_index'] + left]
      BY <1>2 DEF CarryOver, popped
    <3>4. slot_rewards'[k] = popped[k] \/ slot_rewards'[k] = popped[k] + left
      BY <1>5, <3>1, <3>2, <3>3
    <3>5. slot_rewards'[k] >= slot_rewards[k]
      BY <1>4, <3>2, <3>4
    <3> QED BY <3>5 DEF k
  <2>4. Rewards(i)' = slot_rewards'[Slot(i + 1)] /\ Rewards(i + 1) = slot_rewards[Slot(i + 1)]
    BY <2>1 DEF Rewards
  <2> QED BY <2>3, <2>4
<1> QED BY <1>2, <1>6

\* The accounts of the system contract, as the subsidies contract reads them.
ReadsAccounts ==
  /\ slot_epoch[Slot(0)] = epoch
  /\ \A i \in Slots : Rewards(i) \in Nat
  /\ \A i \in Slots :
       /\ Balances[i] \in Nat
       /\ Balances[i] = IF i + (epoch - already_subsidized.first) < Length
                        THEN already_subsidized.balances[i + (epoch - already_subsidized.first)]
                        ELSE 0

(* Every account is read with the balance that was recorded for its epoch. *)
LEMMA BalancesFacts == AccountingInv /\ SubsidiesType => ReadsAccounts
<1> SUFFICES ASSUME AccountingInv, SubsidiesType PROVE ReadsAccounts
  OBVIOUS
<1>1. 0 \in Slots /\ epoch \in Nat /\ current_index \in Slots
  BY LengthAssumption DEF Slots, AccountingInv, AccountingType
<1>2. slot_epoch[Slot(0)] = epoch
  BY <1>1 DEF AccountingInv, SlotsMatchEpochs
<1>3. \A i \in Slots : Rewards(i) \in Nat
  BY <1>1, SlotFacts DEF Rewards, AccountingInv, AccountingType
<1> DEFINE over == epoch - already_subsidized.first
<1>4. over \in Nat
  BY <1>1 DEF SubsidiesType
<1>5. \A i \in Slots : Balances[i] = IF i + over < Length THEN already_subsidized.balances[i + over] ELSE 0
  BY <1>2 DEF Balances, Popped
<1>6. already_subsidized.balances \in [Slots -> Nat]
  BY DEF SubsidiesType
<1>7. \A i \in Slots : Balances[i] \in Nat
  <2> HIDE DEF over
  <2>1. ASSUME NEW i \in Slots, i + over < Length PROVE i + over \in Slots
    BY <1>4, <2>1, LengthAssumption DEF Slots
  <2> QED BY <1>5, <1>6, <2>1
<1> QED BY <1>2, <1>3, <1>5, <1>7 DEF ReadsAccounts

(* The same in the next state.                                             *)
LEMMA NextBalances == AccountingInv' /\ SubsidiesType' => ReadsAccounts'
BY BalancesFacts, PTL

(* What was recorded as subsidised stays covered when accounts grow or     *)
(* move one epoch closer.                                                  *)
LEMMA BalancesStayCovered ==
  ASSUME AccountingInv, SubsidiesType, SubsidiesNotBlocked, AccountingStep,
         UNCHANGED <<already_subsidized, system_subsidy_rate>>
  PROVE  SubsidiesType' /\ SubsidiesNotBlocked'
<1> DEFINE first == already_subsidized.first
           balances == already_subsidized.balances
<1>1. AccountingType /\ AccountingInv'
  BY StepInv DEF AccountingInv
<1>2. epoch \in Nat /\ first \in Nat /\ first <= epoch
  BY <1>1 DEF AccountingType, SubsidiesType
<1>3. CASE ~ ChangeEpoch
  <2>1. UNCHANGED <<epoch, current_index, slot_epoch>>
        /\ \A k \in Slots : slot_rewards'[k] >= slot_rewards[k]
    BY <1>1, <1>3, RewardsGrow
  <2>2. SubsidiesType'
    BY <2>1 DEF SubsidiesType
  <2>3. ASSUME NEW i \in Slots PROVE Rewards(i)' >= Balances'[i]
    <3>1. Slot(i) \in Slots
      BY <1>1, SlotFacts DEF AccountingType
    <3>2. Rewards(i)' = slot_rewards'[Slot(i)] /\ Rewards(i) = slot_rewards[Slot(i)]
      BY <2>1 DEF Rewards, Slot
    <3>3. Balances' = Balances
      BY <2>1 DEF Balances, Popped, Slot
    <3>4. Rewards(i) >= Balances[i] /\ Rewards(i) \in Nat /\ Balances[i] \in Nat
      BY BalancesFacts DEF SubsidiesNotBlocked, ReadsAccounts
    <3>5. Rewards(i)' \in Nat
      BY <1>1, <2>2, NextBalances DEF ReadsAccounts
    <3> QED BY <2>1, <3>1, <3>2, <3>3, <3>4, <3>5
  <2> QED BY <2>2, <2>3 DEF SubsidiesNotBlocked
<1>4. CASE ChangeEpoch
  <2>1. epoch' = epoch + 1 /\ \A i \in Slots : i + 1 \in Slots => Rewards(i)' >= Rewards(i + 1)
    BY <1>4, RewardsShift
  <2>2. SubsidiesType'
    BY <1>2, <2>1 DEF SubsidiesType
  <2>3. ASSUME NEW i \in Slots PROVE Rewards(i)' >= Balances'[i]
    <3>1. Rewards(i)' \in Nat /\ Balances'[i] \in Nat
      BY <1>1, <2>2, NextBalances DEF ReadsAccounts
    <3>2. Balances'[i] = IF i + (epoch' - first) < Length THEN balances[i + (epoch' - first)] ELSE 0
      <4>1. Balances'[i] = IF i + (epoch' - already_subsidized'.first) < Length
                           THEN already_subsidized'.balances[i + (epoch' - already_subsidized'.first)]
                           ELSE 0
        BY <1>1, <2>2, NextBalances DEF ReadsAccounts
      <4> QED BY <4>1
    <3>3. CASE i + 1 \in Slots
      <4>1. Balances[i + 1] = IF (i + 1) + (epoch - first) < Length
                              THEN balances[(i + 1) + (epoch - first)] ELSE 0
        BY <3>3, BalancesFacts DEF ReadsAccounts
      <4>2. i + (epoch' - first) = (i + 1) + (epoch - first)
        BY <1>2, <2>1 DEF Slots
      <4>3. Balances'[i] = Balances[i + 1]
        BY <3>2, <4>1, <4>2
      <4>4. Rewards(i + 1) >= Balances[i + 1] /\ Rewards(i + 1) \in Nat /\ Balances[i + 1] \in Nat
        BY <3>3, BalancesFacts DEF SubsidiesNotBlocked, ReadsAccounts
      <4>5. Rewards(i)' >= Rewards(i + 1)
        BY <2>1, <3>3
      <4> QED BY <3>1, <4>3, <4>4, <4>5
    <3>4. CASE i + 1 \notin Slots
      <4>1. ~ (i + (epoch' - first) < Length)
        BY <1>2, <2>1, <3>4, LengthAssumption DEF Slots
      <4> QED BY <3>1, <3>2, <4>1
    <3> QED BY <3>3, <3>4
  <2> QED BY <2>2, <2>3 DEF SubsidiesNotBlocked
<1> QED BY <1>3, <1>4

(* The subsidies of process_usage_subsidies are natural numbers.           *)
LEMMA UsageSubsidyType ==
  ASSUME AccountingInv, SubsidiesType, SubsidiesNotBlocked
  PROVE  \A i \in Slots : UsageSubsidy(i) \in Nat
<1> SUFFICES ASSUME NEW i \in Slots PROVE UsageSubsidy(i) \in Nat
  OBVIOUS
<1> DEFINE added == Rewards(i) - Balances[i]
           product == added * system_subsidy_rate
<1>1. added \in Nat
  BY BalancesFacts DEF SubsidiesNotBlocked, ReadsAccounts
<1>2. product \in Nat
  <2> HIDE DEF added
  <2> QED BY <1>1 DEF SubsidiesType
<1>3. UsageSubsidy(i) = product \div HundredPercent
  BY DEF UsageSubsidy
<1> HIDE DEF product
<1> QED BY <1>2, <1>3, SubsidyAssumption

(* The offset of the slot that is i epochs ahead is i.                     *)
LEMMA OffsetOfSlot ==
  ASSUME current_index \in Slots, NEW i \in Slots
  PROVE  (Slot(i) + Length - current_index) % Length = i
<1>1. Slot(i) = IF i + current_index < Length THEN i + current_index
                                              ELSE i + current_index - Length
  BY SlotValue
<1>2. Slot(i) + Length - current_index = i + Length \/ Slot(i) + Length - current_index = i
  BY <1>1, LengthAssumption DEF Slots
<1>3. (i + Length) % Length = i /\ i % Length = i
  BY LengthAssumption, SMT DEF Slots
<1> QED BY <1>2, <1>3

(* process_subsidies is a deposit, and records exactly what the accounts   *)
(* then hold.                                                              *)
LEMMA ProcessSubsidiesStep ==
  ASSUME AccountingInv, SubsidiesType, SubsidiesNotBlocked, ProcessSubsidies
  PROVE  AccountingStep /\ SubsidiesType' /\ SubsidiesNotBlocked'
<1> DEFINE usage == [i \in Slots |-> UsageSubsidy(i)]
           amount == [k \in Slots |-> usage[(k + Length - current_index) % Length]]
<1>1. /\ Deposit(amount)
      /\ UNCHANGED <<epoch, committee, current_index, slot_epoch, slot_used,
                     total_capacity_size, used_capacity_size, prices, deny_list_sizes,
                     event_bytes>>
  BY DEF ProcessSubsidies, AddPerEpochSubsidies
<1>2. usage \in [Slots -> Nat]
  BY UsageSubsidyType
<1>3. AccountingType /\ current_index \in Slots
  BY DEF AccountingInv, AccountingType
<1>4. \A k \in Slots : (k + Length - current_index) % Length \in Slots
  BY <1>3, LengthAssumption, SMT DEF Slots
<1>5. \A i \in Slots : usage[i] = UsageSubsidy(i)
  OBVIOUS
<1> HIDE DEF usage
<1>6. amount \in [Slots -> Nat]
  BY <1>2, <1>4
<1>7. \A i \in Slots : Slot(i) \in Slots /\ amount[Slot(i)] = usage[i]
  BY <1>3, SlotFacts, OffsetOfSlot
<1> HIDE DEF amount
<1>8. AccountingStep
  BY <1>1, <1>6 DEF AccountingStep, Donate
<1>9. AccountingInv'
  BY <1>8, StepInv
<1>10. \A i \in Slots : Rewards(i)' = Rewards(i) + UsageSubsidy(i)
  BY <1>1, <1>5, <1>7 DEF Deposit, Rewards, Slot
<1>11. slot_epoch[Slot(0)] = epoch /\ \A i \in Slots : Rewards(i) \in Nat /\ UsageSubsidy(i) \in Nat
  BY BalancesFacts, UsageSubsidyType DEF ReadsAccounts
<1>12. already_subsidized' = [first |-> epoch, balances |-> [i \in Slots |-> SubsidizedBalance(i)]]
  BY <1>11 DEF ProcessSubsidies
<1>13. SubsidiesType'
  <2>1. \A i \in Slots : SubsidizedBalance(i) \in Nat
    BY <1>11 DEF SubsidizedBalance
  <2>2. epoch' = epoch /\ epoch \in Nat
    BY <1>1, <1>3 DEF AccountingType
  <2>3. system_subsidy_rate' = system_subsidy_rate /\ system_subsidy_rate \in Nat
    BY DEF ProcessSubsidies, SubsidiesType
  <2>4. [i \in Slots |-> SubsidizedBalance(i)] \in [Slots -> Nat]
    BY <2>1
  <2> HIDE DEF usage, amount
  <2> QED BY <1>12, <2>2, <2>3, <2>4 DEF SubsidiesType
<1>14. ASSUME NEW i \in Slots PROVE Rewards(i)' >= Balances'[i]
  <2>1. Balances'[i] = IF i + (epoch' - already_subsidized'.first) < Length
                       THEN already_subsidized'.balances[i + (epoch' - already_subsidized'.first)]
                       ELSE 0
    BY <1>9, <1>13, NextBalances DEF ReadsAccounts
  <2>2. epoch' - already_subsidized'.first = 0 /\ i + 0 = i /\ i < Length
    BY <1>1, <1>3, <1>12, LengthAssumption DEF AccountingType, Slots
  <2>3. Balances'[i] = SubsidizedBalance(i)
    BY <1>12, <2>1, <2>2
  <2>4. Rewards(i)' = Balances'[i] /\ Rewards(i)' \in Nat
    BY <1>10, <1>11, <2>3 DEF SubsidizedBalance
  <2> QED BY <2>4
<1> QED BY <1>8, <1>13, <1>14 DEF SubsidiesNotBlocked

(* Every step of the two contracts together is a step of the accounting.   *)
LEMMA SubsidiesAccounting ==
  ASSUME SubsidiesInv, [SubsidiesNext]_allVars
  PROVE  AccountingStep
<1>1. AccountingInv /\ AccountingType /\ WellFormed
  BY ObjectsWellFormed DEF SubsidiesInv, Inv, AccountingInv
<1>2. CASE Next
  BY <1>1, <1>2, NextAccounting
<1>3. CASE ProcessSubsidies
  BY <1>1, <1>3, ProcessSubsidiesStep DEF SubsidiesInv
<1>4. CASE UNCHANGED vars
  BY <1>4 DEF vars, AccountingStep
<1> QED BY <1>2, <1>3, <1>4 DEF SubsidiesNext, AddBalance, SetSystemSubsidyRate, allVars

(* The subsidies contract starts with what is in the accounts.             *)
LEMMA SubsidiesInitInv ==
  ASSUME SubsidiesInit
  PROVE  SubsidiesInv
<1>1. Init /\ Inv /\ WalInv
  BY InitInv, InitWal DEF SubsidiesInit
<1>2. AccountingInv /\ epoch \in Nat
  BY <1>1 DEF Inv, AccountingInv, AccountingType
<1>3. \A i \in Slots : Rewards(i) \in Nat
  BY <1>2, SlotFacts DEF Rewards, AccountingInv, AccountingType
<1>4. SubsidiesType
  BY <1>2, <1>3, SubsidyAssumption DEF SubsidiesInit, SubsidiesType
<1>5. ASSUME NEW i \in Slots PROVE Rewards(i) >= Balances[i]
  <2>1. Balances[i] = IF i + (epoch - already_subsidized.first) < Length
                      THEN already_subsidized.balances[i + (epoch - already_subsidized.first)]
                      ELSE 0
    BY <1>2, <1>4, BalancesFacts DEF ReadsAccounts
  <2>2. epoch - already_subsidized.first = 0 /\ i + 0 = i /\ i < Length
    BY <1>2, LengthAssumption DEF SubsidiesInit, Slots
  <2>3. Balances[i] = Rewards(i)
    BY <2>1, <2>2 DEF SubsidiesInit
  <2> QED BY <1>3, <2>3
<1> QED BY <1>1, <1>4, <1>5 DEF SubsidiesInv, SubsidiesNotBlocked

(* The inductive invariant of the system with the subsidies contract.      *)
THEOREM SubsidiesInvHolds == SubsidiesSpec => []SubsidiesInv
<1>1. SubsidiesInit => SubsidiesInv
  BY SubsidiesInitInv
<1>2. SubsidiesInv /\ [SubsidiesNext]_allVars => SubsidiesInv'
  <2> SUFFICES ASSUME SubsidiesInv, [SubsidiesNext]_allVars
               PROVE  SubsidiesInv'
    OBVIOUS
  <2>1. AccountingStep
    BY SubsidiesAccounting
  <2>2. AccountingInv /\ ObjectsOK /\ AccountingType /\ WalInv /\ SubsidiesType /\ SubsidiesNotBlocked
    BY DEF SubsidiesInv, Inv, AccountingInv
  <2>3. AccountingInv' /\ WalInv'
    BY <2>1, <2>2, StepInv, StepWal
  <2>4. CASE Next /\ UNCHANGED subsidyVars
    <3>1. Inv'
      BY <2>2, <2>4, InvStep DEF Inv
    <3>2. UNCHANGED <<already_subsidized, system_subsidy_rate>>
      BY <2>4 DEF subsidyVars
    <3> QED BY <2>1, <2>2, <2>3, <3>1, <3>2, BalancesStayCovered DEF SubsidiesInv
  <2>5. CASE ProcessSubsidies
    <3>1. ObjectsOK'
      BY <2>2, <2>5 DEF ProcessSubsidies, ObjectsOK, Is
    <3> QED BY <2>2, <2>3, <2>5, <3>1, ProcessSubsidiesStep DEF SubsidiesInv, Inv
  <2>6. CASE \/ \E funds \in Funds : AddBalance(funds)
             \/ \E rate \in Rates : SetSystemSubsidyRate(rate)
             \/ UNCHANGED allVars
    <3>1. UNCHANGED <<vars, already_subsidized>>
          /\ (system_subsidy_rate' \in Rates \/ system_subsidy_rate' = system_subsidy_rate)
      BY <2>6 DEF AddBalance, SetSystemSubsidyRate, allVars, subsidyVars
    <3>2. UNCHANGED <<epoch, current_index, slot_epoch, slot_rewards, objects>>
      BY <3>1 DEF vars, accounting, ring
    <3>3. SubsidiesType'
      BY <2>2, <3>1, <3>2, SubsidyAssumption DEF SubsidiesType
    <3>4. SubsidiesNotBlocked'
      BY <2>2, <3>1, <3>2 DEF SubsidiesNotBlocked, Rewards, Balances, Popped, Slot
    <3>5. ObjectsOK'
      BY <2>2, <3>2 DEF ObjectsOK, Is
    <3> QED BY <2>3, <3>3, <3>4, <3>5 DEF SubsidiesInv, Inv
  <2> QED BY <2>4, <2>5, <2>6 DEF SubsidiesNext
<1> QED BY <1>1, <1>2, PTL DEF SubsidiesSpec

(* No WAL is created or lost by sales, fees, subsidies and epoch changes:  *)
(* what is paid in is in an account, was paid out or was burned.           *)
THEOREM WalIsConserved == SubsidiesSpec => []WalConserved
<1>1. SubsidiesInv => WalConserved
  BY DEF SubsidiesInv, WalInv
<1> QED BY <1>1, SubsidiesInvHolds, PTL

(* advance_epoch never lacks rewards to split off, for every committee,    *)
(* every weight and every deny list.                                       *)
THEOREM RewardsNeverShort == SubsidiesSpec => []RewardsAreCovered
<1>1. SubsidiesInv => RewardsAreCovered
  BY RewardsCovered DEF SubsidiesInv, Inv, AccountingInv
<1> QED BY <1>1, SubsidiesInvHolds, PTL

(* The subtraction in process_usage_subsidies never underflows, however    *)
(* many epochs have passed since it was last called.                       *)
THEOREM SubsidiesNeverBlocked == SubsidiesSpec => []SubsidiesNotBlocked
<1>1. SubsidiesInv => SubsidiesNotBlocked
  BY DEF SubsidiesInv
<1> QED BY <1>1, SubsidiesInvHolds, PTL

(* With the subsidies contract the ring still implements one account per   *)
(* epoch.                                                                  *)
THEOREM SubsidiesImplementLedger == SubsidiesSpec => ImplementsLedger
<1>1. SubsidiesInit => Ledger!Init
  BY InitLedger DEF SubsidiesInit
<1>2. SubsidiesInv /\ [SubsidiesNext]_allVars => [Ledger!Next]_(Ledger!ledger)
  <2> SUFFICES ASSUME SubsidiesInv, [SubsidiesNext]_allVars
               PROVE  Ledger!Next
                      \/ UNCHANGED <<epoch, UsedLedger, RewardsLedger, total_capacity_size>>
    BY DEF Ledger!ledger, UsedLedger, RewardsLedger
  <2> QED BY SubsidiesAccounting, StepLedger DEF SubsidiesInv, Inv
<1> QED BY <1>1, <1>2, SubsidiesInvHolds, PTL DEF SubsidiesSpec, ImplementsLedger, Ledger!Spec

-----------------------------------------------------------------------------
(* Resources, blobs and storage pools *)

Reservation(object) ==
  /\ object.start \in Nat /\ object.end \in Nat /\ object.size \in Nat
  /\ object.start < object.end

StorageObjects == [kind: {"storage"}, start: Nat, end: Nat, size: Nat]

BlobObjects ==
  [kind: {"blob"}, start: Nat, end: Nat, size: Nat,
   bytes: Nat, deletable: BOOLEAN, certified: Nat \cup {-1}]

PooledBlobs == [blob_id: BlobIds, bytes: Nat, deletable: BOOLEAN, certified: Nat \cup {-1}]

PoolObjects ==
  [kind: {"pool"}, start: Nat, end: Nat, size: Nat,
   used: Nat, count: Nat, blobs: SUBSET PooledBlobs]

\* What BlobsAreBacked says of one blob.
Backed(b) ==
  /\ b.start <= epoch
  /\ b.bytes <= b.size
  /\ b.certified # -1 => b.start <= b.certified /\ b.certified < b.end

\* What PoolsAreExact says of one pool, whose table has every blob ID once.
Exact(pool) ==
  /\ IsFiniteSet(pool.blobs)
  /\ \A a, b \in pool.blobs : a.blob_id = b.blob_id => a = b
  /\ pool.used = BytesOf(pool.blobs)
  /\ pool.count = Cardinality(pool.blobs)
  /\ pool.used <= pool.size

ObjectOK(object) ==
  \/ object = Free
  \/ /\ Reservation(object)
     /\ \/ object \in StorageObjects
        \/ object \in BlobObjects /\ Backed(object)
        \/ object \in PoolObjects /\ Exact(object)

ObjectsInv ==
  /\ objects = [id \in Ids |-> objects[id]]
  /\ \A id \in Ids : ObjectOK(objects[id])

PoolInv == AccountingInv /\ ObjectsInv /\ ClaimsAreBooked

-----------------------------------------------------------------------------
(* Objects.                                                                *)

(* What the kind of an object says about it.                               *)
LEMMA KindFacts ==
  ASSUME ObjectsInv, NEW id \in Ids
  PROVE  /\ Is(id, "free") <=> objects[id] = Free
         /\ ~ Is(id, "free") => Reservation(objects[id])
         /\ Is(id, "storage") => objects[id] \in StorageObjects
         /\ Is(id, "blob") => objects[id] \in BlobObjects /\ Backed(objects[id])
         /\ Is(id, "pool") => objects[id] \in PoolObjects /\ Exact(objects[id])
<1>1. ObjectOK(objects[id])
  BY DEF ObjectsInv
<1>2. objects[id] = Free => objects[id].kind = "free"
  BY DEF Free
<1>3. /\ objects[id] \in StorageObjects => objects[id].kind = "storage"
      /\ objects[id] \in BlobObjects => objects[id].kind = "blob"
      /\ objects[id] \in PoolObjects => objects[id].kind = "pool"
  BY DEF StorageObjects, BlobObjects, PoolObjects
<1> QED BY <1>1, <1>2, <1>3 DEF ObjectOK, Is

(* Claims are natural numbers.                                             *)
LEMMA ClaimType ==
  ASSUME NEW object, ObjectOK(object), NEW e
  PROVE  Claim(object, e) \in Nat
BY DEF ObjectOK, Claim, Covers, Reservation, Free

(* The sum of the claims is a natural number.                              *)
LEMMA ClaimedType ==
  ASSUME ObjectsInv, NEW e
  PROVE  Claimed(e) \in Nat
<1> DEFINE f == [i \in Ids |-> Claim(objects[i], e)]
<1>1. \A i \in Ids : f[i] \in Nat
  BY ClaimType DEF ObjectsInv
<1>2. Claimed(e) = SumFunctionOnSet(f, Ids)
  BY DEF Claimed, SumFunction
<1> HIDE DEF f
<1> QED BY <1>1, <1>2, IdsAssumption, SumType

(* Replacing one object changes the sum of the claims by the difference.   *)
LEMMA ClaimOne ==
  ASSUME ObjectsInv, NEW id \in Ids, NEW x, ObjectOK(x),
         objects' = [objects EXCEPT ![id] = x], NEW e
  PROVE  /\ Claimed(e) \in Nat /\ Claimed(e)' \in Nat
         /\ Claimed(e)' = Claimed(e) - Claim(objects[id], e) + Claim(x, e)
<1> DEFINE f == [i \in Ids |-> Claim(objects[i], e)]
           g == [i \in Ids |-> Claim(objects'[i], e)]
<1>1. DOMAIN objects = Ids /\ objects'[id] = x /\ \A i \in Ids \ {id} : objects'[i] = objects[i]
  BY DEF ObjectsInv
<1>2. \A i \in Ids : f[i] \in Nat
  BY ClaimType DEF ObjectsInv
<1>3. g[id] = Claim(x, e) /\ g[id] \in Nat /\ f[id] = Claim(objects[id], e)
  BY <1>1, ClaimType
<1>4. \A i \in Ids \ {id} : g[i] = f[i]
  BY <1>1
<1>5. Claimed(e) = SumFunctionOnSet(f, Ids) /\ Claimed(e)' = SumFunctionOnSet(g, Ids)
  BY DEF Claimed, SumFunction
<1> HIDE DEF f, g
<1>6. SumFunctionOnSet(f, Ids) \in Nat /\ SumFunctionOnSet(g, Ids) \in Nat
      /\ SumFunctionOnSet(g, Ids) = SumFunctionOnSet(f, Ids) - f[id] + g[id]
  <2>1. (\A i \in Ids : f[i] \in Nat) /\ g[id] \in Nat /\ (\A i \in Ids \ {id} : g[i] = f[i])
    BY <1>2, <1>3, <1>4
  <2> QED BY <2>1, IdsAssumption, SumUpdate
<1> QED BY <1>3, <1>5, <1>6

Replaced(a, x, b, y) == objects' = [objects EXCEPT ![a] = x, ![b] = y]

(* The same for two objects.                                               *)
LEMMA ClaimTwo ==
  ASSUME ObjectsInv, NEW a \in Ids, NEW b \in Ids, a # b, NEW x, ObjectOK(x), NEW y, ObjectOK(y),
         Replaced(a, x, b, y), NEW e
  PROVE  /\ Claimed(e) \in Nat /\ Claimed(e)' \in Nat
         /\ Claimed(e)' = Claimed(e) - Claim(objects[a], e) - Claim(objects[b], e)
                          + Claim(x, e) + Claim(y, e)
<1> DEFINE f == [i \in Ids |-> Claim(objects[i], e)]
           h == [i \in Ids |-> IF i = a THEN Claim(x, e) ELSE f[i]]
           g == [i \in Ids |-> Claim(objects'[i], e)]
<1>1. /\ objects'[a] = x /\ objects'[b] = y
      /\ \A i \in Ids \ {a, b} : objects'[i] = objects[i]
  BY DEF Replaced, ObjectsInv
<1>2. \A i \in Ids : f[i] \in Nat
  BY ClaimType DEF ObjectsInv
<1>3. Claim(x, e) \in Nat /\ Claim(y, e) \in Nat
  BY ClaimType
<1>4. f[a] = Claim(objects[a], e) /\ f[b] = Claim(objects[b], e)
  OBVIOUS
<1>5. h[a] = Claim(x, e) /\ h[b] = f[b] /\ \A i \in Ids \ {a} : h[i] = f[i]
  OBVIOUS
<1>6. g[b] = Claim(y, e) /\ \A i \in Ids \ {b} : g[i] = h[i]
  BY <1>1
<1>7. Claimed(e) = SumFunctionOnSet(f, Ids) /\ Claimed(e)' = SumFunctionOnSet(g, Ids)
  BY DEF Claimed, SumFunction
<1> HIDE DEF f, g, h
<1>8. \A i \in Ids : h[i] \in Nat
  BY <1>2, <1>3, <1>5
<1>9. SumFunctionOnSet(f, Ids) \in Nat /\ SumFunctionOnSet(h, Ids) \in Nat
      /\ SumFunctionOnSet(h, Ids) = SumFunctionOnSet(f, Ids) - f[a] + h[a]
  <2>1. h[a] \in Nat /\ (\A i \in Ids \ {a} : h[i] = f[i])
    BY <1>5, <1>8
  <2> QED BY <1>2, <2>1, IdsAssumption, SumUpdate
<1>10. SumFunctionOnSet(h, Ids) \in Nat /\ SumFunctionOnSet(g, Ids) \in Nat
       /\ SumFunctionOnSet(g, Ids) = SumFunctionOnSet(h, Ids) - h[b] + g[b]
  <2>1. g[b] \in Nat /\ (\A i \in Ids \ {b} : g[i] = h[i])
    BY <1>3, <1>6
  <2> QED BY <1>8, <2>1, IdsAssumption, SumUpdate
<1>11. f[a] \in Nat /\ f[b] \in Nat
  BY <1>2
<1> QED BY <1>3, <1>4, <1>5, <1>6, <1>7, <1>9, <1>10, <1>11

(* Putting one or two well-formed objects keeps all objects well formed.   *)
LEMMA PutOK ==
  ASSUME ObjectsInv, epoch' = epoch, NEW a \in Ids, NEW b \in Ids, NEW x, ObjectOK(x),
         NEW y, ObjectOK(y),
         \/ objects' = [objects EXCEPT ![a] = x]
         \/ objects' = [objects EXCEPT ![a] = x, ![b] = y]
  PROVE  ObjectsInv'
<1>1. objects' = [id \in Ids |-> objects'[id]]
  BY DEF ObjectsInv
<1>2. ASSUME NEW id \in Ids PROVE ObjectOK(objects'[id])
  <2>1. objects'[id] = x \/ objects'[id] = y \/ objects'[id] = objects[id]
    BY DEF ObjectsInv
  <2> QED BY <2>1 DEF ObjectsInv
<1>3. ASSUME NEW id \in Ids PROVE ObjectOK(objects[id])'
  BY <1>2 DEF ObjectOK, Backed, Exact, Reservation, BytesOf
<1> QED BY <1>1, <1>3 DEF ObjectsInv

(* Every account is a natural number.                                      *)
LEMMA UsedInType ==
  ASSUME AccountingType, NEW e \in Epochs
  PROVE  UsedIn(e) \in Nat
<1>1. IsOpen(e) => Slot(e - epoch) \in Slots
  BY OpenOffsets, SlotFacts DEF AccountingType
<1> QED BY <1>1 DEF UsedIn, AccountingType

(* The same as an implication, which holds in the next state, too.         *)
LEMMA UsedInNat == AccountingType => \A e \in Epochs : UsedIn(e) \in Nat
BY UsedInType

(* Also in the next state.                                                 *)
LEMMA UsedInNext == AccountingType' => \A e \in Epochs : UsedIn(e)' \in Nat
<1>1. (AccountingType => \A e \in Epochs : UsedIn(e) \in Nat)'
  BY UsedInNat, PTL
<1> QED BY <1>1 DEF Epochs

(* Objects stay as they are while accounts only grow.                      *)
LEMMA IdleObjects ==
  ASSUME PoolInv, AccountingInv', UNCHANGED <<epoch, objects>>,
         \A e \in Epochs : UsedIn(e) \in Nat /\ UsedIn(e)' >= UsedIn(e)
  PROVE  PoolInv'
<1>1. ObjectsInv'
  BY DEF PoolInv, ObjectsInv, ObjectOK, Backed, Exact, Reservation, BytesOf
<1>2. ASSUME NEW e \in Epochs, e >= epoch PROVE Claimed(e)' <= UsedIn(e)'
  <2>1. Claimed(e)' = Claimed(e) /\ Claimed(e) <= UsedIn(e)
    BY <1>2 DEF Claimed, PoolInv, ClaimsAreBooked
  <2>2. Claimed(e) \in Nat
    BY ClaimedType DEF PoolInv
  <2>3. UsedIn(e)' \in Nat
    BY UsedInNext DEF AccountingInv
  <2> QED BY <2>1, <2>2, <2>3
<1>3. ClaimsAreBooked'
  BY <1>2 DEF ClaimsAreBooked, Epochs
<1> QED BY <1>1, <1>3 DEF PoolInv

(* An operation on one object that books nothing must not claim more.      *)
LEMMA QuietOne ==
  ASSUME PoolInv, AccountingInv', UNCHANGED <<epoch, current_index, slot_used>>,
         NEW id \in Ids, NEW x, ObjectOK(x), objects' = [objects EXCEPT ![id] = x],
         \A e \in Epochs : e >= epoch => Claim(x, e) <= Claim(objects[id], e)
  PROVE  PoolInv'
<1>1. ObjectsInv /\ AccountingType /\ ObjectsInv'
  BY PutOK DEF PoolInv, AccountingInv
<1>2. ASSUME NEW e \in Epochs, e >= epoch PROVE Claimed(e)' <= UsedIn(e)'
  <2>1. UsedIn(e)' = UsedIn(e) /\ Claimed(e) <= UsedIn(e) /\ UsedIn(e) \in Nat
    BY <1>1, <1>2, UsedInType DEF UsedIn, IsOpen, Slot, PoolInv, ClaimsAreBooked
  <2>2. Claimed(e) \in Nat /\ Claimed(e)' \in Nat
        /\ Claimed(e)' = Claimed(e) - Claim(objects[id], e) + Claim(x, e)
    BY <1>1, ClaimOne
  <2>3. Claim(x, e) \in Nat /\ Claim(objects[id], e) \in Nat
    BY <1>1, ClaimType DEF ObjectsInv
  <2>4. Claim(x, e) <= Claim(objects[id], e)
    BY <1>2
  <2> QED BY <2>1, <2>2, <2>3, <2>4
<1>3. ClaimsAreBooked'
  BY <1>2 DEF ClaimsAreBooked, Epochs
<1> QED BY <1>1, <1>3 DEF PoolInv

\* The new objects claim together at most what the old ones did.
ClaimsNoMore(a, x, b, y) ==
  \A e \in Epochs : e >= epoch =>
    Claim(x, e) + Claim(y, e) <= Claim(objects[a], e) + Claim(objects[b], e)

(* Nor must an operation on two objects.                                   *)
LEMMA QuietTwo ==
  ASSUME PoolInv, UNCHANGED accounting, NEW a \in Ids, NEW b \in Ids, a # b,
         NEW x, ObjectOK(x), NEW y, ObjectOK(y), Replaced(a, x, b, y), ClaimsNoMore(a, x, b, y)
  PROVE  PoolInv'
<1>0. UNCHANGED <<epoch, current_index, slot_used>>
  BY DEF accounting, ring
<1>1. ObjectsInv /\ AccountingInv /\ AccountingType /\ ObjectsInv' /\ AccountingInv'
  BY <1>0, PutOK, UnchangedInv DEF PoolInv, AccountingInv, Replaced
<1>2. ASSUME NEW e \in Epochs, e >= epoch PROVE Claimed(e)' <= UsedIn(e)'
  <2>1. UsedIn(e)' = UsedIn(e) /\ Claimed(e) <= UsedIn(e) /\ UsedIn(e) \in Nat
    BY <1>0, <1>1, <1>2, UsedInType DEF UsedIn, IsOpen, Slot, PoolInv, ClaimsAreBooked
  <2>2. Claimed(e) \in Nat /\ Claimed(e)' \in Nat
        /\ Claimed(e)' = Claimed(e) - Claim(objects[a], e) - Claim(objects[b], e)
                         + Claim(x, e) + Claim(y, e)
    BY <1>1, ClaimTwo
  <2>3. /\ Claim(x, e) \in Nat /\ Claim(objects[a], e) \in Nat
        /\ Claim(y, e) \in Nat /\ Claim(objects[b], e) \in Nat
    BY <1>1, ClaimType DEF ObjectsInv
  <2>4. Claim(x, e) + Claim(y, e) <= Claim(objects[a], e) + Claim(objects[b], e)
    BY <1>2 DEF ClaimsNoMore
  <2> QED BY <2>1, <2>2, <2>3, <2>4
<1>3. ClaimsAreBooked'
  BY <1>0, <1>2 DEF ClaimsAreBooked, Epochs
<1> QED BY <1>1, <1>3 DEF PoolInv

(* A sale may add what it books to the claim of one object.                *)
LEMMA SaleOne ==
  ASSUME PoolInv, NEW size \in Nat, NEW start \in Nat, NEW end \in Int,
         BuyCapacity(size, start, end),
         NEW id \in Ids, NEW x, ObjectOK(x), objects' = [objects EXCEPT ![id] = x],
         \A e \in Epochs : e >= epoch =>
           Claim(x, e) <= Claim(objects[id], e)
                          + (IF epoch + start <= e /\ e < epoch + end THEN size ELSE 0)
  PROVE  PoolInv'
<1>1. /\ AccountingInv /\ AccountingType /\ ObjectsInv /\ AccountingInv'
      /\ UNCHANGED <<epoch, current_index>>
      /\ end <= Length /\ IncreaseUsedCapacity(size, start, end)
  BY BuyCapacityInv DEF PoolInv, AccountingInv, BuyCapacity, ValidPeriod
<1>2. ObjectsInv'
  BY <1>1, PutOK
<1>3. UsedLedger' = Ledger!Grow(UsedLedger, epoch + start, epoch + end, size)
  BY <1>1, GrowUsed
<1>4. ASSUME NEW e \in Epochs, e >= epoch PROVE Claimed(e)' <= UsedIn(e)'
  <2> DEFINE bought == IF epoch + start <= e /\ e < epoch + end THEN size ELSE 0
  <2>1. UsedIn(e) \in Nat /\ Claimed(e) <= UsedIn(e) /\ bought \in Nat
    BY <1>1, <1>4, UsedInType DEF PoolInv, ClaimsAreBooked
  <2>2. UsedIn(e)' = UsedIn(e) + bought
    <3>1. UsedLedger'[e] = UsedIn(e)' /\ UsedLedger[e] = UsedIn(e)
      BY DEF UsedLedger, Epochs
    <3>2. UsedLedger'[e] = IF epoch + start <= e /\ e < epoch + end THEN UsedLedger[e] + size ELSE UsedLedger[e]
      BY <1>3 DEF Ledger!Grow, Ledger!Epochs, Epochs
    <3> QED BY <2>1, <3>1, <3>2
  <2>3. Claimed(e) \in Nat /\ Claimed(e)' \in Nat
        /\ Claimed(e)' = Claimed(e) - Claim(objects[id], e) + Claim(x, e)
    BY <1>1, ClaimOne
  <2>4. Claim(x, e) \in Nat /\ Claim(objects[id], e) \in Nat
    BY <1>1, ClaimType DEF ObjectsInv
  <2>5. Claim(x, e) <= Claim(objects[id], e) + bought
    BY <1>4
  <2> HIDE DEF bought
  <2> QED BY <2>1, <2>2, <2>3, <2>4, <2>5
<1>5. ClaimsAreBooked'
  BY <1>1, <1>4 DEF ClaimsAreBooked, Epochs
<1> QED BY <1>1, <1>2, <1>5 DEF PoolInv
-----------------------------------------------------------------------------
(* The counters of a pool.                                                 *)

(* The bytes of one more blob.                                             *)
LEMMA BytesAdd ==
  ASSUME NEW blobs, IsFiniteSet(blobs), NEW blob, blob \notin blobs,
         \A b \in blobs \cup {blob} : b.bytes \in Nat
  PROVE  /\ BytesOf(blobs) \in Nat
         /\ BytesOf(blobs \cup {blob}) = blob.bytes + BytesOf(blobs)
<1> DEFINE f == [b \in blobs |-> b.bytes]
           g == [b \in blobs \cup {blob} |-> b.bytes]
<1>1. (\A b \in blobs : f[b] \in Nat) /\ (\A b \in blobs : g[b] = f[b])
  OBVIOUS
<1>2. (\A b \in blobs \cup {blob} : g[b] \in Nat) /\ g[blob] = blob.bytes
  OBVIOUS
<1>3. BytesOf(blobs) = SumFunctionOnSet(f, blobs)
      /\ BytesOf(blobs \cup {blob}) = SumFunctionOnSet(g, blobs \cup {blob})
  BY DEF BytesOf, SumFunction
<1> HIDE DEF f, g
<1>4. SumFunctionOnSet(f, blobs) \in Nat
  BY <1>1, SumType
<1>5. SumFunctionOnSet(f, blobs) = SumFunctionOnSet(g, blobs)
  BY <1>1, SumEqual
<1>6. SumFunctionOnSet(g, blobs \cup {blob}) = g[blob] + SumFunctionOnSet(g, blobs)
  BY <1>2, SumAdd
<1> QED BY <1>2, <1>3, <1>4, <1>5, <1>6

(* The bytes of one blob less.                                             *)
LEMMA BytesRemove ==
  ASSUME NEW blobs, IsFiniteSet(blobs), NEW blob \in blobs, \A b \in blobs : b.bytes \in Nat
  PROVE  /\ IsFiniteSet(blobs \ {blob})
         /\ BytesOf(blobs \ {blob}) \in Nat
         /\ BytesOf(blobs) = blob.bytes + BytesOf(blobs \ {blob})
<1> DEFINE rest == blobs \ {blob}
<1>1. IsFiniteSet(rest) /\ blob \notin rest /\ rest \cup {blob} = blobs
  BY FS_RemoveElement
<1>2. \A b \in rest \cup {blob} : b.bytes \in Nat
  BY <1>1
<1> HIDE DEF rest
<1>3. BytesOf(rest) \in Nat /\ BytesOf(rest \cup {blob}) = blob.bytes + BytesOf(rest)
  BY <1>1, <1>2, BytesAdd
<1> QED BY <1>1, <1>3 DEF rest

(* An empty pool holds nothing.                                            *)
LEMMA EmptyExact ==
  ASSUME NEW storage, Reservation(storage)
  PROVE  ObjectOK(Pool(storage))
<1> DEFINE pool == Pool(storage)
<1>1. BytesOf({}) = 0 /\ IsFiniteSet({}) /\ Cardinality({}) = 0
  <2> DEFINE f == [b \in {} |-> b.bytes]
  <2>1. DOMAIN f = {}
    OBVIOUS
  <2>2. BytesOf({}) = SumFunctionOnSet(f, {})
    BY <2>1 DEF BytesOf, SumFunction
  <2> HIDE DEF f
  <2> QED BY <2>2, SumType, FS_EmptySet
<1>2. pool.blobs = {} /\ pool.used = 0 /\ pool.count = 0 /\ pool.size = storage.size
  BY DEF Pool
<1>3. pool \in PoolObjects /\ Reservation(pool)
  BY DEF Pool, PoolObjects, Reservation
<1>4. Exact(pool)
  BY <1>1, <1>2 DEF Exact, Reservation
<1> QED BY <1>3, <1>4 DEF ObjectOK

(* add_blob keeps the counters exact.                                      *)
LEMMA AddExact ==
  ASSUME NEW pool \in PoolObjects, Exact(pool), Reservation(pool), NEW blob \in PooledBlobs,
         \A b \in pool.blobs : b.blob_id # blob.blob_id, Fits(pool, blob.bytes)
  PROVE  ObjectOK(AddBlob(pool, blob))
<1> DEFINE new == AddBlob(pool, blob)
<1>1. /\ IsFiniteSet(pool.blobs) /\ pool.blobs \subseteq PooledBlobs /\ blob \notin pool.blobs
      /\ pool.used \in Nat /\ pool.count \in Nat /\ pool.size \in Nat /\ blob.bytes \in Nat
  BY DEF Exact, PoolObjects, PooledBlobs
<1>2. /\ new.blobs = pool.blobs \cup {blob} /\ new.used = pool.used + blob.bytes
      /\ new.count = pool.count + 1 /\ new.size = pool.size
  BY DEF AddBlob, PoolObjects
<1>3. \A b \in pool.blobs \cup {blob} : b.bytes \in Nat
  BY <1>1 DEF PooledBlobs
<1>4. BytesOf(new.blobs) = blob.bytes + BytesOf(pool.blobs)
  BY <1>1, <1>2, <1>3, BytesAdd
<1>5. IsFiniteSet(new.blobs) /\ Cardinality(new.blobs) = Cardinality(pool.blobs) + 1
  <2> DEFINE old == pool.blobs
  <2>1. IsFiniteSet(old) /\ blob \notin old
    BY <1>1
  <2> HIDE DEF old
  <2>2. IsFiniteSet(old \cup {blob}) /\ Cardinality(old \cup {blob}) = Cardinality(old) + 1
    BY <2>1, FS_AddElement
  <2> QED BY <1>2, <2>2 DEF old
<1>6. new \in PoolObjects /\ Reservation(new)
  <2>1. /\ pool.blobs \cup {blob} \in SUBSET PooledBlobs
        /\ pool.used + blob.bytes \in Nat /\ pool.count + 1 \in Nat
    BY <1>1
  <2>2. new = [pool EXCEPT !.count = pool.count + 1, !.used = pool.used + blob.bytes,
                           !.blobs = pool.blobs \cup {blob}]
    BY DEF AddBlob
  <2> HIDE DEF new
  <2> QED BY <2>1, <2>2 DEF PoolObjects, Reservation
<1>7. \A a, b \in new.blobs : a.blob_id = b.blob_id => a = b
  BY <1>2 DEF Exact
<1> HIDE DEF new
<1>8. new.used = BytesOf(new.blobs) /\ new.count = Cardinality(new.blobs) /\ new.used <= new.size
  BY <1>1, <1>2, <1>4, <1>5 DEF Exact, Fits
<1>9. Exact(new)
  BY <1>5, <1>7, <1>8 DEF Exact
<1>10. ObjectOK(new)
  BY <1>6, <1>9 DEF ObjectOK
<1> QED BY <1>10 DEF new

(* So does remove_blob, which never underflows.                            *)
LEMMA RemoveExact ==
  ASSUME NEW pool \in PoolObjects, Exact(pool), Reservation(pool), NEW blob \in pool.blobs
  PROVE  ObjectOK(RemoveBlob(pool, blob))
<1> DEFINE new == RemoveBlob(pool, blob)
<1>1. /\ IsFiniteSet(pool.blobs) /\ pool.blobs \subseteq PooledBlobs
      /\ pool.used \in Nat /\ pool.count \in Nat /\ pool.size \in Nat /\ blob.bytes \in Nat
  BY DEF Exact, PoolObjects, PooledBlobs
<1>2. /\ new.blobs = pool.blobs \ {blob} /\ new.used = pool.used - blob.bytes
      /\ new.count = pool.count - 1 /\ new.size = pool.size
  BY DEF RemoveBlob, PoolObjects
<1>3. \A b \in pool.blobs : b.bytes \in Nat
  BY <1>1 DEF PooledBlobs
<1>4. BytesOf(pool.blobs) = blob.bytes + BytesOf(new.blobs) /\ BytesOf(new.blobs) \in Nat
      /\ IsFiniteSet(new.blobs)
  <2>1. /\ IsFiniteSet(pool.blobs \ {blob}) /\ BytesOf(pool.blobs \ {blob}) \in Nat
        /\ BytesOf(pool.blobs) = blob.bytes + BytesOf(pool.blobs \ {blob})
    BY <1>1, <1>3, BytesRemove
  <2> QED BY <1>2, <2>1
<1>5. Cardinality(new.blobs) \in Nat /\ Cardinality(pool.blobs) = Cardinality(new.blobs) + 1
  BY <1>1, <1>2, RemoveOne
<1>6. new.used \in Nat /\ new.used = BytesOf(new.blobs) /\ new.used <= new.size
      /\ new.count \in Nat /\ new.count = Cardinality(new.blobs)
  <2> HIDE DEF new
  <2> QED BY <1>1, <1>2, <1>4, <1>5 DEF Exact
<1>7. new \in PoolObjects /\ Reservation(new)
  BY <1>1, <1>2, <1>6 DEF RemoveBlob, PoolObjects, Reservation
<1>8. \A a, b \in new.blobs : a.blob_id = b.blob_id => a = b
  BY <1>2 DEF Exact
<1> HIDE DEF new
<1>9. Exact(new)
  BY <1>4, <1>6, <1>8 DEF Exact
<1>10. ObjectOK(new)
  BY <1>7, <1>9 DEF ObjectOK
<1> QED BY <1>10 DEF new

(* Certification replaces a blob by one of the same size.                  *)
LEMMA CertifyExact ==
  ASSUME NEW pool \in PoolObjects, Exact(pool), Reservation(pool), NEW blob \in pool.blobs,
         NEW e \in Nat
  PROVE  ObjectOK([pool EXCEPT !.blobs = (pool.blobs \ {blob}) \cup {[blob EXCEPT !.certified = e]}])
<1> DEFINE certified == [blob EXCEPT !.certified = e]
           rest == pool.blobs \ {blob}
           new == [pool EXCEPT !.blobs = rest \cup {certified}]
<1>1. /\ IsFiniteSet(pool.blobs) /\ pool.blobs \subseteq PooledBlobs /\ blob \in PooledBlobs
      /\ pool.used \in Nat /\ pool.count \in Nat /\ pool.size \in Nat
  BY DEF Exact, PoolObjects
<1>2. certified \in PooledBlobs /\ certified.bytes = blob.bytes /\ certified.blob_id = blob.blob_id
      /\ blob.bytes \in Nat
  BY <1>1 DEF PooledBlobs
<1>3. certified \notin rest
  BY <1>2 DEF Exact
<1>4. \A b \in pool.blobs : b.bytes \in Nat
  BY <1>1 DEF PooledBlobs
<1>5. \A a, b \in rest \cup {certified} : a.blob_id = b.blob_id => a = b
  <2> HIDE DEF certified
  <2> QED BY <1>2 DEF Exact
<1>6. new \in PoolObjects /\ Reservation(new)
  <2> HIDE DEF certified
  <2> QED BY <1>1, <1>2 DEF PoolObjects, Reservation
<1>7. new.blobs = rest \cup {certified} /\ new.used = pool.used /\ new.count = pool.count
      /\ new.size = pool.size
  BY DEF PoolObjects
<1>8. IsFiniteSet(rest) /\ BytesOf(rest) \in Nat /\ BytesOf(pool.blobs) = blob.bytes + BytesOf(rest)
  BY <1>1, <1>4, BytesRemove
<1>9. Cardinality(rest) \in Nat /\ Cardinality(pool.blobs) = Cardinality(rest) + 1
  BY <1>1, RemoveOne
<1>10. \A b \in rest : b.bytes \in Nat
  BY <1>4
<1> HIDE DEF certified, rest, new
<1>11. BytesOf(rest \cup {certified}) = certified.bytes + BytesOf(rest)
  <2>1. \A b \in rest \cup {certified} : b.bytes \in Nat
    BY <1>2, <1>10
  <2> QED BY <1>3, <1>8, <2>1, BytesAdd
<1>12. IsFiniteSet(rest \cup {certified}) /\ Cardinality(rest \cup {certified}) = Cardinality(rest) + 1
  BY <1>3, <1>8, FS_AddElement
<1>13. new.used = BytesOf(new.blobs) /\ new.count = Cardinality(new.blobs) /\ new.used <= new.size
  BY <1>2, <1>7, <1>8, <1>9, <1>11, <1>12 DEF Exact
<1>14. Exact(new)
  BY <1>5, <1>7, <1>12, <1>13 DEF Exact
<1>15. ObjectOK(new)
  BY <1>6, <1>14 DEF ObjectOK
<1> QED BY <1>15 DEF new, rest, certified
-----------------------------------------------------------------------------
(* The operations.                                                         *)

(* Objects look well formed to the accounting.                             *)
LEMMA InvWellFormed ==
  ASSUME ObjectsInv
  PROVE  WellFormed
BY KindFacts DEF WellFormed, Reservation

(* Free slots, resources and the parts of objects that storage_resource    *)
(* splits off.                                                             *)
LEMMA FreeOK == ObjectOK(Free) /\ \A e : Claim(Free, e) = 0
BY DEF ObjectOK, Claim, Covers, Free

(* An object that goes away takes its claim with it.                       *)
LEMMA DropOne ==
  ASSUME PoolInv, UNCHANGED accounting, NEW id \in Ids, objects' = [objects EXCEPT ![id] = Free]
  PROVE  PoolInv'
<1>1. UNCHANGED <<epoch, current_index, slot_used>> /\ AccountingInv' /\ ObjectsInv
  BY UnchangedInv DEF accounting, ring, PoolInv
<1>2. \A e \in Epochs : Claim(objects[id], e) \in Nat
  BY <1>1, ClaimType DEF ObjectsInv
<1>3. \A e \in Epochs : e >= epoch => Claim(Free, e) <= Claim(objects[id], e)
  BY <1>2, FreeOK
<1> QED BY <1>1, <1>3, FreeOK, QuietOne

(* A resource is well formed if its period is not empty.                   *)
LEMMA StorageOK ==
  ASSUME NEW start \in Nat, NEW end \in Nat, start < end, NEW size \in Nat
  PROVE  /\ ObjectOK(Storage(start, end, size))
         /\ \A e : Claim(Storage(start, end, size), e) = IF start <= e /\ e < end THEN size ELSE 0
BY DEF ObjectOK, Reservation, StorageObjects, Storage, Claim, Covers

(* What a reservation claims.                                              *)
LEMMA ReservationClaim ==
  ASSUME NEW object, object.kind # "free"
  PROVE  \A e : Claim(object, e) = IF object.start <= e /\ e < object.end THEN object.size ELSE 0
BY DEF Claim, Covers

(* Operations on storage resources.                                        *)
LEMMA StorageNextPool ==
  ASSUME PoolInv, StorageNext
  PROVE  PoolInv'
<1>0. AccountingInv /\ AccountingType /\ ObjectsInv /\ epoch \in Nat /\ Length \in Nat /\ Epochs \subseteq Nat
  BY LengthAssumption, OpenOffsets DEF PoolInv, AccountingInv, AccountingType
<1>1. ASSUME NEW id \in Ids, NEW size \in Sizes, NEW start \in 0 .. (epoch + Length),
             NEW end \in 0 .. (epoch + Length), ReserveSpace(id, size, start, end)
      PROVE  PoolInv'
  <2> DEFINE s == IF start < epoch THEN epoch ELSE start
             x == Storage(s, end, size)
  <2>1. size \in Nat /\ s \in Nat /\ s - epoch \in Nat /\ end \in Nat /\ end - epoch \in Int
    BY <1>0, SizesAssumption
  <2>2. BuyCapacity(size, s - epoch, end - epoch) /\ objects' = [objects EXCEPT ![id] = x]
        /\ Is(id, "free")
    BY <1>1 DEF ReserveSpace, Put
  <2> HIDE DEF s
  <2>3. s < end
    BY <1>0, <2>1, <2>2 DEF BuyCapacity, ValidPeriod
  <2>4. ObjectOK(x) /\ \A e : Claim(x, e) = IF s <= e /\ e < end THEN size ELSE 0
    BY <2>1, <2>3, StorageOK
  <2>5. \A e : Claim(objects[id], e) = 0
    BY <1>0, <2>2, KindFacts, FreeOK
  <2> HIDE DEF x
  <2>6. \A e \in Epochs : e >= epoch =>
          Claim(x, e) <= Claim(objects[id], e)
            + (IF epoch + (s - epoch) <= e /\ e < epoch + (end - epoch) THEN size ELSE 0)
    BY <1>0, <2>1, <2>4, <2>5
  <2> QED BY <2>1, <2>2, <2>4, <2>6, SaleOne
<1>2. ASSUME NEW id \in Ids, NEW new \in Ids, NEW e \in 0 .. (MaxEpoch + Length),
             SplitByEpoch(id, new, e)
      PROVE  PoolInv'
  <2> DEFINE o == objects[id]
             x == [o EXCEPT !.end = e]
             y == Storage(e, o.end, o.size)
  <2>1. /\ Is(id, "storage") /\ Is(new, "free") /\ id # new /\ UNCHANGED accounting
        /\ e > o.start /\ e < o.end /\ e \in Nat
    BY <1>2, EpochAssumption, LengthAssumption DEF SplitByEpoch, StrictlyInside, Is
  <2>2. o \in StorageObjects /\ objects[new] = Free
    BY <1>0, <2>1, KindFacts
  <2>3. Replaced(id, x, new, y)
    BY <1>2 DEF SplitByEpoch, Replaced
  <2>4. /\ o.start \in Nat /\ o.end \in Nat /\ o.size \in Nat /\ o.kind = "storage"
        /\ x = Storage(o.start, e, o.size)
    BY <2>2 DEF StorageObjects, Storage
  <2> HIDE DEF o, x, y
  <2>5. ObjectOK(x) /\ \A d : Claim(x, d) = IF o.start <= d /\ d < e THEN o.size ELSE 0
    BY <2>1, <2>4, StorageOK
  <2>6. ObjectOK(y) /\ \A d : Claim(y, d) = IF e <= d /\ d < o.end THEN o.size ELSE 0
    BY <2>1, <2>4, StorageOK DEF y
  <2>7. \A d : Claim(o, d) = IF o.start <= d /\ d < o.end THEN o.size ELSE 0
    BY <2>4, ReservationClaim
  <2>8. \A d \in Nat : Claim(x, d) + Claim(y, d) <= Claim(o, d) + 0
    BY <2>1, <2>4, <2>5, <2>6, <2>7
  <2>9. ClaimsNoMore(id, x, new, y)
    BY <1>0, <2>2, <2>8, FreeOK DEF ClaimsNoMore, o
  <2> QED BY <2>1, <2>3, <2>5, <2>6, <2>9, QuietTwo
<1>3. ASSUME NEW id \in Ids, NEW new \in Ids, NEW size \in Sizes \cup {0},
             SplitBySize(id, new, size)
      PROVE  PoolInv'
  <2> DEFINE o == objects[id]
             x == [o EXCEPT !.size = size]
             y == Storage(o.start, o.end, o.size - size)
  <2>1. /\ Is(id, "storage") /\ Is(new, "free") /\ id # new /\ UNCHANGED accounting
        /\ size <= o.size /\ size \in Nat
    BY <1>3, SizesAssumption DEF SplitBySize, Is
  <2>2. o \in StorageObjects /\ objects[new] = Free /\ Reservation(o)
    BY <1>0, <2>1, KindFacts DEF Is
  <2>3. Replaced(id, x, new, y)
    BY <1>3 DEF SplitBySize, Replaced
  <2>4. /\ o.start \in Nat /\ o.end \in Nat /\ o.size \in Nat /\ o.kind = "storage"
        /\ o.start < o.end /\ x = Storage(o.start, o.end, size)
    BY <2>2 DEF StorageObjects, Storage, Reservation
  <2>5. o.size - size \in Nat
    BY <2>1, <2>4
  <2> HIDE DEF o, x
  <2>6. ObjectOK(x) /\ \A d : Claim(x, d) = IF o.start <= d /\ d < o.end THEN size ELSE 0
    BY <2>1, <2>4, StorageOK
  <2>7. ObjectOK(y) /\ \A d : Claim(y, d) = IF o.start <= d /\ d < o.end THEN o.size - size ELSE 0
    BY <2>4, <2>5, StorageOK
  <2>8. \A d : Claim(o, d) = IF o.start <= d /\ d < o.end THEN o.size ELSE 0
    BY <2>4, ReservationClaim
  <2> HIDE DEF y
  <2>9. \A d \in Nat : Claim(x, d) + Claim(y, d) <= Claim(o, d) + 0
    BY <2>1, <2>4, <2>6, <2>7, <2>8
  <2>10. ClaimsNoMore(id, x, new, y)
    BY <1>0, <2>2, <2>9, FreeOK DEF ClaimsNoMore, o
  <2> QED BY <2>1, <2>3, <2>6, <2>7, <2>10, QuietTwo
<1>4. ASSUME NEW id \in Ids, NEW other \in Ids, FusePeriods(id, other)
      PROVE  PoolInv'
  <2> DEFINE o == objects[id]
             p == objects[other]
             x == FusedPeriods(o, p)
  <2>1. /\ Is(id, "storage") /\ Is(other, "storage") /\ id # other /\ UNCHANGED accounting
        /\ o.size = p.size /\ (o.end = p.start \/ o.start = p.end)
    BY <1>4 DEF FusePeriods
  <2>2. o \in StorageObjects /\ p \in StorageObjects /\ Reservation(o) /\ Reservation(p)
    BY <1>0, <2>1, KindFacts DEF Is
  <2>3. Replaced(id, x, other, Free)
    BY <1>4 DEF FusePeriods, Replaced
  <2>4. /\ o.start \in Nat /\ o.end \in Nat /\ o.size \in Nat /\ o.kind = "storage"
        /\ p.start \in Nat /\ p.end \in Nat /\ p.size \in Nat /\ p.kind = "storage"
        /\ o.start < o.end /\ p.start < p.end
        /\ \/ o.end = p.start /\ x = Storage(o.start, p.end, o.size)
           \/ o.start = p.end /\ x = Storage(p.start, o.end, o.size)
    BY <2>1, <2>2 DEF StorageObjects, Storage, Reservation, FusedPeriods
  <2> HIDE DEF o, p, x
  <2>5. /\ \A d : Claim(o, d) = IF o.start <= d /\ d < o.end THEN o.size ELSE 0
        /\ \A d : Claim(p, d) = IF p.start <= d /\ d < p.end THEN p.size ELSE 0
    BY <2>4, ReservationClaim
  <2>6. ObjectOK(x) /\ \A d \in Nat : Claim(x, d) <= Claim(o, d) + Claim(p, d)
    <3>1. CASE o.end = p.start /\ x = Storage(o.start, p.end, o.size)
      <4>1. ObjectOK(x) /\ \A d : Claim(x, d) = IF o.start <= d /\ d < p.end THEN o.size ELSE 0
        BY <2>4, <3>1, StorageOK
      <4> QED BY <2>1, <2>4, <2>5, <3>1, <4>1
    <3>2. CASE o.start = p.end /\ x = Storage(p.start, o.end, o.size)
      <4>1. ObjectOK(x) /\ \A d : Claim(x, d) = IF p.start <= d /\ d < o.end THEN o.size ELSE 0
        BY <2>4, <3>2, StorageOK
      <4> QED BY <2>1, <2>4, <2>5, <3>2, <4>1
    <3> QED BY <2>4, <3>1, <3>2
  <2>7. ClaimsNoMore(id, x, other, Free)
    <3>1. \A d \in Nat : Claim(x, d) \in Nat
      BY <2>6, ClaimType
    <3> QED BY <1>0, <2>6, <3>1, FreeOK DEF ClaimsNoMore, o, p
  <2> QED BY <2>1, <2>3, <2>6, <2>7, FreeOK, QuietTwo
<1>5. ASSUME NEW id \in Ids, NEW other \in Ids, FuseAmount(id, other)
      PROVE  PoolInv'
  <2> DEFINE o == objects[id]
             p == objects[other]
             x == [o EXCEPT !.size = o.size + p.size]
  <2>1. /\ Is(id, "storage") /\ Is(other, "storage") /\ id # other /\ UNCHANGED accounting
        /\ o.start = p.start /\ o.end = p.end
    BY <1>5 DEF FuseAmount, SamePeriod
  <2>2. o \in StorageObjects /\ p \in StorageObjects /\ Reservation(o) /\ Reservation(p)
    BY <1>0, <2>1, KindFacts DEF Is
  <2>3. Replaced(id, x, other, Free)
    BY <1>5 DEF FuseAmount, Replaced
  <2>4. /\ o.start \in Nat /\ o.end \in Nat /\ o.size \in Nat /\ o.kind = "storage"
        /\ p.size \in Nat /\ p.kind = "storage" /\ o.start < o.end
        /\ x = Storage(o.start, o.end, o.size + p.size) /\ o.size + p.size \in Nat
    BY <2>2 DEF StorageObjects, Storage, Reservation
  <2> HIDE DEF o, p, x
  <2>5. /\ \A d : Claim(o, d) = IF o.start <= d /\ d < o.end THEN o.size ELSE 0
        /\ \A d : Claim(p, d) = IF p.start <= d /\ d < p.end THEN p.size ELSE 0
    BY <2>4, ReservationClaim
  <2>6. ObjectOK(x) /\ \A d : Claim(x, d) = IF o.start <= d /\ d < o.end THEN o.size + p.size ELSE 0
    BY <2>4, StorageOK
  <2>7. \A d \in Nat : Claim(x, d) + 0 <= Claim(o, d) + Claim(p, d)
    BY <2>1, <2>4, <2>5, <2>6
  <2>8. ClaimsNoMore(id, x, other, Free)
    BY <1>0, <2>7, FreeOK DEF ClaimsNoMore, o, p
  <2> QED BY <2>1, <2>3, <2>6, <2>8, FreeOK, QuietTwo
<1>6. ASSUME NEW id \in Ids, DestroyStorage(id)
      PROVE  PoolInv'
  BY <1>6, DropOne DEF DestroyStorage, Put
<1> QED BY <1>1, <1>2, <1>3, <1>4, <1>5, <1>6 DEF StorageNext

(* An operation that keeps an object's reservation claims nothing new.     *)
LEMMA SameReservation ==
  ASSUME PoolInv, AccountingInv', UNCHANGED <<epoch, current_index, slot_used>>,
         NEW id \in Ids, ~ Is(id, "free"),
         NEW x, ObjectOK(x), objects' = [objects EXCEPT ![id] = x],
         x.start = objects[id].start, x.end = objects[id].end, x.size = objects[id].size,
         x.kind # "free"
  PROVE  PoolInv'
<1>1. \A e : Claim(x, e) = Claim(objects[id], e)
  BY DEF Claim, Covers, Is
<1>2. \A e \in Epochs : Claim(objects[id], e) \in Nat
  BY ClaimType DEF PoolInv, ObjectsInv
<1>3. \A e \in Epochs : e >= epoch => Claim(x, e) <= Claim(objects[id], e)
  BY <1>1, <1>2
<1> QED BY <1>3, QuietOne

(* The same, where only the object changes.                                *)
LEMMA SameReservationOnly ==
  ASSUME PoolInv, UNCHANGED accounting, NEW id \in Ids, ~ Is(id, "free"),
         NEW x, ObjectOK(x), objects' = [objects EXCEPT ![id] = x],
         x.start = objects[id].start, x.end = objects[id].end, x.size = objects[id].size,
         x.kind # "free"
  PROVE  PoolInv'
<1>1. UNCHANGED <<epoch, current_index, slot_used>> /\ AccountingInv'
  BY UnchangedInv DEF accounting, ring, PoolInv
<1> QED BY <1>1, SameReservation

(* An extension adds to the claim what it books.                           *)
LEMMA ExtendOne ==
  ASSUME PoolInv, NEW id \in Ids, ~ Is(id, "free"), epoch < objects[id].end,
         NEW n \in 1 .. Length,
         BuyCapacity(objects[id].size, objects[id].end - epoch, (objects[id].end - epoch) + n),
         NEW x, ObjectOK(x), objects' = [objects EXCEPT ![id] = x], x.kind # "free",
         x.start = objects[id].start, x.end = objects[id].end + n, x.size = objects[id].size
  PROVE  PoolInv'
<1> DEFINE o == objects[id]
           start == o.end - epoch
           end == start + n
<1>1. AccountingType /\ ObjectsInv /\ epoch \in Nat /\ Epochs \subseteq Nat /\ n \in Nat /\ n > 0
  BY OpenOffsets, LengthAssumption DEF PoolInv, AccountingInv
<1>2. Reservation(o)
  BY <1>1, KindFacts
<1>3. start \in Nat /\ end \in Int /\ o.size \in Nat
  BY <1>1, <1>2 DEF Reservation
<1>4. /\ \A e : Claim(o, e) = IF o.start <= e /\ e < o.end THEN o.size ELSE 0
      /\ \A e : Claim(x, e) = IF o.start <= e /\ e < o.end + n THEN o.size ELSE 0
  BY ReservationClaim DEF Is
<1>5. \A e \in Epochs : e >= epoch =>
        Claim(x, e) <= Claim(o, e) + (IF epoch + start <= e /\ e < epoch + end THEN o.size ELSE 0)
  BY <1>1, <1>2, <1>4 DEF Reservation
<1>6. BuyCapacity(o.size, start, end) /\ objects' = [objects EXCEPT ![id] = x]
  OBVIOUS
<1> HIDE DEF start, end
<1> QED BY <1>3, <1>5, <1>6, SaleOne

(* Operations on blobs.                                                    *)
LEMMA BlobNextPool ==
  ASSUME PoolInv, BlobNext
  PROVE  PoolInv'
<1>0. AccountingInv /\ AccountingType /\ ObjectsInv /\ epoch \in Nat /\ Length \in Nat /\ Epochs \subseteq Nat
  BY LengthAssumption, OpenOffsets DEF PoolInv, AccountingInv, AccountingType
<1>1. ASSUME NEW id \in Ids, NEW bytes \in Sizes, NEW deletable \in BOOLEAN,
             RegisterBlob(id, bytes, deletable)
      PROVE  PoolInv'
  <2> DEFINE o == objects[id]
             x == Blob(o, bytes, deletable)
  <2>1. /\ Is(id, "storage") /\ CoversNow(o) /\ bytes <= o.size
        /\ objects' = [objects EXCEPT ![id] = x] /\ bytes \in Nat
        /\ UNCHANGED <<epoch, current_index, slot_used>>
    BY <1>1, SizesAssumption DEF RegisterBlob, Put
  <2>2. AccountingInv'
    BY <1>0, <1>1, <2>1, WriteFeeStep, StepInv DEF RegisterBlob, AccountingStep
  <2>3. o \in StorageObjects /\ Reservation(o) /\ ~ Is(id, "free")
    BY <1>0, <2>1, KindFacts DEF Is
  <2>4. ObjectOK(x)
    BY <1>0, <2>1, <2>3
    DEF ObjectOK, Reservation, StorageObjects, BlobObjects, Blob, Backed, CoversNow
  <2>5. x.start = o.start /\ x.end = o.end /\ x.size = o.size /\ x.kind # "free"
    BY DEF Blob
  <2> QED BY <2>1, <2>2, <2>3, <2>4, <2>5, SameReservation
<1>2. ASSUME NEW id \in Ids, CertifyBlob(id)
      PROVE  PoolInv'
  <2> DEFINE o == objects[id]
             x == [o EXCEPT !.certified = epoch]
  <2>1. /\ Is(id, "blob") /\ ~ Is(id, "free") /\ o.certified = -1 /\ epoch < o.end
        /\ objects' = [objects EXCEPT ![id] = x] /\ UNCHANGED accounting
    BY <1>2 DEF CertifyBlob, Is
  <2>2. o \in BlobObjects /\ Backed(o) /\ Reservation(o)
    BY <1>0, <2>1, KindFacts
  <2>3. ObjectOK(x)
    BY <1>0, <2>1, <2>2 DEF ObjectOK, Reservation, BlobObjects, Backed
  <2>4. x.start = o.start /\ x.end = o.end /\ x.size = o.size /\ x.kind # "free"
    BY <2>2 DEF BlobObjects
  <2> QED BY <2>1, <2>3, <2>4, SameReservationOnly
<1>3. ASSUME NEW id \in Ids, DeleteBlob(id)
      PROVE  PoolInv'
  <2> DEFINE o == objects[id]
             x == ResourceOf(o)
  <2>1. /\ Is(id, "blob") /\ ~ Is(id, "free")
        /\ objects' = [objects EXCEPT ![id] = x] /\ UNCHANGED accounting
    BY <1>3 DEF DeleteBlob, Put, Is
  <2>2. Reservation(o)
    BY <1>0, <2>1, KindFacts
  <2>3. ObjectOK(x) /\ x.start = o.start /\ x.end = o.end /\ x.size = o.size /\ x.kind # "free"
    BY <2>2, StorageOK DEF Reservation, ResourceOf, Storage
  <2> QED BY <2>1, <2>3, SameReservationOnly
<1>4. ASSUME NEW id \in Ids, BurnBlob(id)
      PROVE  PoolInv'
  BY <1>4, DropOne DEF BurnBlob, Put
<1>5. ASSUME NEW id \in Ids, NEW other \in Ids, ExtendBlobWithResource(id, other)
      PROVE  PoolInv'
  <2> DEFINE o == objects[id]
             p == objects[other]
             x == [o EXCEPT !.end = p.end]
  <2>1. /\ Is(id, "blob") /\ Is(other, "storage") /\ id # other /\ UNCHANGED accounting
        /\ p.end > o.end /\ o.size = p.size /\ (o.end = p.start \/ o.start = p.end)
    BY <1>5 DEF ExtendBlobWithResource, Is
  <2>2. o \in BlobObjects /\ Backed(o) /\ p \in StorageObjects /\ Reservation(o) /\ Reservation(p)
    BY <1>0, <2>1, KindFacts DEF Is
  <2>3. o.end = p.start
    BY <2>1, <2>2 DEF Reservation
  <2>4. Replaced(id, x, other, Free)
    BY <1>5, <2>3 DEF ExtendBlobWithResource, FusedPeriods, Replaced
  <2>5. ObjectOK(x)
    <3>1. x \in BlobObjects
      BY <2>2 DEF BlobObjects, StorageObjects
    <3>2. x.start = o.start /\ x.end = p.end /\ x.size = o.size /\ x.bytes = o.bytes
          /\ x.certified = o.certified
      BY <2>2 DEF BlobObjects
    <3>3. o.certified \in Nat \cup {-1}
      BY <2>2 DEF BlobObjects
    <3> HIDE DEF x
    <3>4. Reservation(x) /\ Backed(x)
      BY <1>0, <2>1, <2>2, <3>2, <3>3 DEF Reservation, Backed
    <3> QED BY <3>1, <3>4 DEF ObjectOK
  <2>6. x.start = o.start /\ x.end = p.end /\ x.size = o.size /\ x.kind # "free"
        /\ o.kind # "free" /\ p.kind # "free"
    BY <2>2 DEF BlobObjects, StorageObjects
  <2> HIDE DEF o, p, x
  <2>7. /\ \A d : Claim(o, d) = IF o.start <= d /\ d < o.end THEN o.size ELSE 0
        /\ \A d : Claim(p, d) = IF p.start <= d /\ d < p.end THEN p.size ELSE 0
        /\ \A d : Claim(x, d) = IF o.start <= d /\ d < p.end THEN o.size ELSE 0
    BY <2>6, ReservationClaim
  <2>8. \A d \in Nat : Claim(x, d) + 0 <= Claim(o, d) + Claim(p, d)
    BY <2>1, <2>2, <2>3, <2>7 DEF Reservation
  <2>9. ClaimsNoMore(id, x, other, Free)
    BY <1>0, <2>8, FreeOK DEF ClaimsNoMore, o, p
  <2> QED BY <2>1, <2>4, <2>5, <2>9, FreeOK, QuietTwo
<1>6. ASSUME NEW id \in Ids, NEW n \in 1 .. Length, ExtendBlob(id, n)
      PROVE  PoolInv'
  <2> DEFINE o == objects[id]
             x == [o EXCEPT !.end = o.end + n]
  <2>1. /\ Is(id, "blob") /\ ~ Is(id, "free") /\ epoch < o.end
        /\ objects' = [objects EXCEPT ![id] = x]
        /\ BuyCapacity(o.size, o.end - epoch, (o.end - epoch) + n)
    BY <1>6 DEF ExtendBlob, CertifiedNotExpired, Is
  <2>2. o \in BlobObjects /\ Backed(o) /\ Reservation(o) /\ n \in Nat
    BY <1>0, <2>1, KindFacts
  <2>3. x.start = o.start /\ x.end = o.end + n /\ x.size = o.size /\ x.kind # "free"
        /\ x.bytes = o.bytes /\ x.certified = o.certified
    BY <2>2 DEF BlobObjects
  <2>4. x \in BlobObjects /\ o.certified \in Nat \cup {-1}
    BY <2>2 DEF BlobObjects
  <2>5. ObjectOK(x)
    <3> HIDE DEF x
    <3>1. Reservation(x) /\ Backed(x)
      BY <1>0, <2>2, <2>3, <2>4 DEF Reservation, Backed
    <3> QED BY <2>4, <3>1 DEF ObjectOK
  <2> QED BY <2>1, <2>3, <2>5, ExtendOne
<1>7. ASSUME NEW size \in Sizes, CertifyEventBlob(size)
      PROVE  PoolInv'
  <2>1. size \in Nat /\ ReserveEventBlob(size) /\ UNCHANGED objects
    BY <1>7, SizesAssumption DEF CertifyEventBlob
  <2>2. /\ UNCHANGED <<epoch, current_index>> /\ IncreaseUsedCapacity(size, 0, Length)
        /\ 0 \in Nat /\ Length \in Int /\ AccountingInv'
    BY <1>0, <2>1, ReserveEventBlobInv DEF ReserveEventBlob
  <2>3. UsedLedger' = Ledger!Grow(UsedLedger, epoch + 0, epoch + Length, size)
    BY <1>0, <2>1, <2>2, GrowUsed
  <2>4. ASSUME NEW e \in Epochs PROVE UsedIn(e) \in Nat /\ UsedIn(e)' >= UsedIn(e)
    <3>1. UsedLedger'[e] = UsedIn(e)' /\ UsedLedger[e] = UsedIn(e) /\ UsedIn(e) \in Nat
      BY <1>0, UsedInType DEF UsedLedger, Epochs
    <3>2. UsedLedger'[e] = UsedLedger[e] + size \/ UsedLedger'[e] = UsedLedger[e]
      BY <2>3 DEF Ledger!Grow, Ledger!Epochs, Epochs
    <3> QED BY <2>1, <3>1, <3>2
  <2> QED BY <2>1, <2>2, <2>4, IdleObjects
<1> QED BY <1>1, <1>2, <1>3, <1>4, <1>5, <1>6, <1>7 DEF BlobNext

(* An epoch change takes no capacity from a later epoch.                   *)
LEMMA LaterUsed ==
  ASSUME AccountingType, ChangeEpoch, NEW e \in Epochs, e >= epoch + 1
  PROVE  UsedIn(e)' = UsedIn(e)
<1>1. /\ epoch' = epoch + 1 /\ current_index' = (current_index + 1) % Length
      /\ slot_used' = PopExpand(slot_used, 0)
  BY DEF ChangeEpoch, AdvanceEpoch
<1>2. UsedIn(e)' = IF OpensNext(e) THEN slot_used'[NewSlot(e)] ELSE 0
  BY <1>1, LedgerAfterClose
<1>3. e \in Nat /\ epoch \in Nat /\ current_index \in Slots /\ DOMAIN slot_used = Slots
  BY OpenOffsets DEF AccountingType
<1>4. CASE ~ OpensNext(e)
  <2>1. ~ IsOpen(e)
    BY <1>3, <1>4, LengthAssumption DEF OpensNext, IsOpen
  <2> QED BY <1>2, <1>4, <2>1 DEF UsedIn
<1>5. CASE OpensNext(e) /\ e = epoch + Length
  <2>1. NewSlot(e) = current_index /\ ~ IsOpen(e)
    BY <1>5, SlotsAfterClose
  <2>2. slot_used'[current_index] = 0
    BY <1>1, <1>3 DEF PopExpand
  <2> QED BY <1>2, <1>5, <2>1, <2>2 DEF UsedIn
<1>6. CASE OpensNext(e) /\ e # epoch + Length
  <2>1. IsOpen(e) /\ NewSlot(e) \in Slots /\ NewSlot(e) = Slot(e - epoch) /\ NewSlot(e) # current_index
    BY <1>6, SlotsAfterClose
  <2>2. slot_used'[NewSlot(e)] = slot_used[NewSlot(e)]
    BY <1>1, <1>3, <2>1 DEF PopExpand
  <2> QED BY <1>2, <1>6, <2>1, <2>2 DEF UsedIn
<1> QED BY <1>4, <1>5, <1>6

(* Operations that touch no object.                                        *)
LEMMA SystemNextPool ==
  ASSUME PoolInv, SystemNext
  PROVE  PoolInv'
<1>0. AccountingInv /\ AccountingType /\ ObjectsInv /\ epoch \in Nat /\ UNCHANGED objects
  BY OpenOffsets DEF PoolInv, AccountingInv, SystemNext
<1>1. AccountingInv'
  BY <1>0, SystemNextInv
<1>2. CASE ChangeEpoch
  <2>1. epoch' = epoch + 1
    BY <1>2 DEF ChangeEpoch, AdvanceEpoch
  <2>2. ObjectsInv'
    <3>1. ASSUME NEW id \in Ids PROVE ObjectOK(objects[id])'
      <4> DEFINE o == objects[id]
      <4>1. ObjectOK(o) /\ objects'[id] = o
        BY <1>0 DEF ObjectsInv
      <4>2. CASE o \in BlobObjects /\ Backed(o) /\ Reservation(o)
        <5>1. o.start <= epoch' /\ o.bytes <= o.size
              /\ (o.certified # -1 => o.start <= o.certified /\ o.certified < o.end)
          BY <1>0, <2>1, <4>2 DEF Backed, Reservation
        <5> HIDE DEF o
        <5> QED BY <4>1, <4>2, <5>1 DEF ObjectOK, Backed, Reservation, o
      <4>3. CASE ~ (o \in BlobObjects /\ Backed(o) /\ Reservation(o))
        BY <4>1, <4>3 DEF ObjectOK, Exact, Reservation, BytesOf
      <4> QED BY <4>2, <4>3
    <3> QED BY <1>0, <3>1 DEF ObjectsInv
  <2>3. ASSUME NEW e \in Epochs, e >= epoch' PROVE Claimed(e)' <= UsedIn(e)'
    <3>1. e >= epoch /\ e >= epoch + 1
      BY <1>0, <2>1, <2>3, OpenOffsets
    <3>2. UsedIn(e)' = UsedIn(e)
      BY <1>0, <1>2, <3>1, LaterUsed
    <3>3. Claimed(e)' = Claimed(e)
      BY <1>0 DEF Claimed
    <3> QED BY <3>1, <3>2, <3>3 DEF PoolInv, ClaimsAreBooked
  <2>4. ClaimsAreBooked'
    BY <2>3 DEF ClaimsAreBooked, Epochs
  <2> QED BY <1>1, <2>2, <2>4 DEF PoolInv
<1>3. CASE ~ ChangeEpoch
  <2>1. UNCHANGED <<epoch, current_index, slot_used>>
    BY <1>3 DEF SystemNext, ChangeEpoch, AddSubsidy, AddPerEpochSubsidies, SetPrices,
                UpdateDenyList, ring
  <2>2. ASSUME NEW e \in Epochs PROVE UsedIn(e) \in Nat /\ UsedIn(e)' >= UsedIn(e)
    <3>1. UsedIn(e)' = UsedIn(e) /\ UsedIn(e) \in Nat
      BY <1>0, <2>1, UsedInType DEF UsedIn, IsOpen, Slot
    <3> QED BY <3>1
  <2> QED BY <1>0, <1>1, <2>1, <2>2, IdleObjects
<1> QED BY <1>2, <1>3

(* Operations on storage pools.                                            *)
LEMMA PoolNextPool ==
  ASSUME PoolInv, PoolNext
  PROVE  PoolInv'
<1>0. AccountingInv /\ AccountingType /\ ObjectsInv /\ epoch \in Nat /\ Length \in Nat /\ Epochs \subseteq Nat
  BY LengthAssumption, OpenOffsets DEF PoolInv, AccountingInv, AccountingType
<1>1. ASSUME NEW id \in Ids, NEW size \in Sizes, NEW n \in 1 .. Length, CreateStoragePool(id, size, n)
      PROVE  PoolInv'
  <2> DEFINE s == Storage(epoch, epoch + n, size)
             x == Pool(s)
  <2>1. /\ Is(id, "free") /\ BuyCapacity(size, 0, n) /\ objects' = [objects EXCEPT ![id] = x]
        /\ size \in Nat /\ n \in Nat /\ n > 0 /\ n \in Int /\ 0 \in Nat
    BY <1>0, <1>1, SizesAssumption DEF CreateStoragePool, Put
  <2>2. Reservation(s)
    BY <1>0, <2>1 DEF Reservation, Storage
  <2>3. x.kind # "free" /\ x.start = epoch /\ x.end = epoch + n /\ x.size = size
    BY DEF Pool, Storage
  <2> HIDE DEF s
  <2>4. ObjectOK(x)
    BY <2>2, EmptyExact
  <2>5. \A e : Claim(objects[id], e) = 0
    BY <1>0, <2>1, KindFacts, FreeOK
  <2> HIDE DEF x
  <2>6. \A e : Claim(x, e) = IF epoch <= e /\ e < epoch + n THEN size ELSE 0
    BY <2>3, ReservationClaim
  <2>7. \A e \in Epochs : e >= epoch =>
          Claim(x, e) <= Claim(objects[id], e)
            + (IF epoch + 0 <= e /\ e < epoch + n THEN size ELSE 0)
    BY <1>0, <2>1, <2>5, <2>6
  <2> QED BY <2>1, <2>4, <2>7, SaleOne
<1>2. ASSUME NEW id \in Ids, CreateStoragePoolWithStorage(id)
      PROVE  PoolInv'
  <2> DEFINE o == objects[id]
             x == Pool(o)
  <2>1. /\ Is(id, "storage") /\ ~ Is(id, "free") /\ UNCHANGED accounting
        /\ objects' = [objects EXCEPT ![id] = x]
    BY <1>2 DEF CreateStoragePoolWithStorage, Put, Is
  <2>2. Reservation(o)
    BY <1>0, <2>1, KindFacts
  <2>3. x.start = o.start /\ x.end = o.end /\ x.size = o.size /\ x.kind # "free"
    BY DEF Pool
  <2>4. ObjectOK(x)
    BY <2>2, EmptyExact
  <2> QED BY <2>1, <2>3, <2>4, SameReservationOnly
<1>3. ASSUME NEW id \in Ids, DestroyStoragePool(id)
      PROVE  PoolInv'
  <2> DEFINE o == objects[id]
             x == ResourceOf(o)
  <2>1. /\ ~ Is(id, "free") /\ UNCHANGED accounting /\ objects' = [objects EXCEPT ![id] = x]
    BY <1>3 DEF DestroyStoragePool, Put, Is
  <2>2. Reservation(o)
    BY <1>0, <2>1, KindFacts
  <2>3. ObjectOK(x) /\ x.start = o.start /\ x.end = o.end /\ x.size = o.size /\ x.kind # "free"
    BY <2>2, StorageOK DEF Reservation, ResourceOf, Storage
  <2> QED BY <2>1, <2>3, SameReservationOnly
<1>4. ASSUME NEW id \in Ids, NEW blob_id \in BlobIds, NEW bytes \in Sizes, NEW deletable \in BOOLEAN,
             RegisterPooledBlob(id, blob_id, bytes, deletable)
      PROVE  PoolInv'
  <2> DEFINE o == objects[id]
             blob == PooledBlob(blob_id, bytes, deletable)
             x == AddBlob(o, blob)
  <2>1. /\ Is(id, "pool") /\ ~ Is(id, "free") /\ Fits(o, bytes) /\ bytes \in Nat
        /\ \A b \in o.blobs : b.blob_id # blob_id
        /\ objects' = [objects EXCEPT ![id] = x]
        /\ UNCHANGED <<epoch, current_index, slot_used>>
    BY <1>4, SizesAssumption DEF RegisterPooledBlob, Put, Is
  <2>2. AccountingInv'
    BY <1>0, <1>4, <2>1, WriteFeeStep, StepInv DEF RegisterPooledBlob, AccountingStep
  <2>3. o \in PoolObjects /\ Exact(o) /\ Reservation(o)
    BY <1>0, <2>1, KindFacts
  <2>4. blob \in PooledBlobs /\ blob.blob_id = blob_id /\ blob.bytes = bytes
    BY <2>1 DEF PooledBlob, PooledBlobs
  <2>5. x.start = o.start /\ x.end = o.end /\ x.size = o.size /\ x.kind # "free"
    BY <2>3 DEF AddBlob, PoolObjects
  <2> HIDE DEF blob
  <2>6. ObjectOK(x)
    BY <2>1, <2>3, <2>4, AddExact
  <2> QED BY <2>1, <2>2, <2>5, <2>6, SameReservation
<1>5. ASSUME NEW id \in Ids, Is(id, "pool"), NEW blob \in objects[id].blobs,
             DeletePooledBlob(id, blob) \/ BurnExpiredPooledBlob(id, blob)
      PROVE  PoolInv'
  <2> DEFINE o == objects[id]
             x == RemoveBlob(o, blob)
  <2>1. /\ ~ Is(id, "free") /\ objects' = [objects EXCEPT ![id] = x] /\ UNCHANGED accounting
    BY <1>5 DEF DeletePooledBlob, BurnExpiredPooledBlob, Put, Is
  <2>2. o \in PoolObjects /\ Exact(o) /\ Reservation(o)
    BY <1>0, <1>5, <2>1, KindFacts
  <2>3. x.start = o.start /\ x.end = o.end /\ x.size = o.size /\ x.kind # "free"
    BY <2>2 DEF RemoveBlob, PoolObjects
  <2>4. ObjectOK(x)
    BY <2>2, RemoveExact
  <2> QED BY <2>1, <2>3, <2>4, SameReservationOnly
<1>6. ASSUME NEW id \in Ids, Is(id, "pool"), NEW blob \in objects[id].blobs, CertifyPooledBlob(id, blob)
      PROVE  PoolInv'
  <2> DEFINE o == objects[id]
             x == [o EXCEPT !.blobs = (o.blobs \ {blob}) \cup {[blob EXCEPT !.certified = epoch]}]
  <2>1. /\ ~ Is(id, "free") /\ objects' = [objects EXCEPT ![id] = x] /\ UNCHANGED accounting
    BY <1>6 DEF CertifyPooledBlob, Is
  <2>2. o \in PoolObjects /\ Exact(o) /\ Reservation(o)
    BY <1>0, <1>6, <2>1, KindFacts
  <2>3. x.start = o.start /\ x.end = o.end /\ x.size = o.size /\ x.kind # "free"
    BY <2>2 DEF PoolObjects
  <2>4. ObjectOK(x)
    BY <1>0, <2>2, CertifyExact
  <2> QED BY <2>1, <2>3, <2>4, SameReservationOnly
<1>7. ASSUME NEW id \in Ids, NEW n \in 1 .. Length, ExtendStoragePool(id, n)
      PROVE  PoolInv'
  <2> DEFINE o == objects[id]
             x == [o EXCEPT !.end = o.end + n]
  <2>1. /\ Is(id, "pool") /\ ~ Is(id, "free") /\ epoch < o.end
        /\ objects' = [objects EXCEPT ![id] = x]
        /\ BuyCapacity(o.size, o.end - epoch, (o.end - epoch) + n)
    <3>1. Is(id, "pool") /\ o.end > epoch
      BY <1>7 DEF ExtendStoragePool, IsActive
    <3>2. Reservation(o)
      BY <1>0, <3>1, KindFacts DEF Is
    <3> QED BY <1>0, <1>7, <3>1, <3>2 DEF ExtendStoragePool, Is, Reservation
  <2>2. o \in PoolObjects /\ Exact(o) /\ Reservation(o) /\ n \in Nat
    BY <1>0, <2>1, KindFacts
  <2>3. x.start = o.start /\ x.end = o.end + n /\ x.size = o.size /\ x.kind # "free"
        /\ x.used = o.used /\ x.count = o.count /\ x.blobs = o.blobs
    BY <2>2 DEF PoolObjects
  <2>4. x \in PoolObjects
    BY <2>2 DEF PoolObjects
  <2>5. ObjectOK(x)
    <3> HIDE DEF x
    <3>1. Reservation(x) /\ Exact(x)
      BY <1>0, <2>2, <2>3 DEF Reservation, Exact
    <3> QED BY <2>4, <3>1 DEF ObjectOK
  <2> QED BY <2>1, <2>3, <2>5, ExtendOne
<1>8. ASSUME NEW id \in Ids, NEW size \in Sizes, IncreaseStoragePoolCapacity(id, size)
      PROVE  PoolInv'
  <2> DEFINE o == objects[id]
             x == [o EXCEPT !.size = o.size + size]
  <2>1. /\ Is(id, "pool") /\ ~ Is(id, "free") /\ size \in Nat
        /\ objects' = [objects EXCEPT ![id] = x]
        /\ BuyCapacity(size, 0, o.end - epoch)
    BY <1>8, SizesAssumption DEF IncreaseStoragePoolCapacity, Is
  <2>2. o \in PoolObjects /\ Exact(o) /\ Reservation(o)
    BY <1>0, <2>1, KindFacts
  <2>3. x.start = o.start /\ x.end = o.end /\ x.size = o.size + size /\ x.kind # "free"
        /\ x.used = o.used /\ x.count = o.count /\ x.blobs = o.blobs /\ o.used \in Nat
    BY <2>2 DEF PoolObjects
  <2>4. x \in PoolObjects
    BY <2>1, <2>2 DEF PoolObjects
  <2> HIDE DEF x
  <2>5. ObjectOK(x)
    <3>1. Reservation(x) /\ Exact(x)
      BY <1>0, <2>1, <2>2, <2>3 DEF Reservation, Exact
    <3> QED BY <2>4, <3>1 DEF ObjectOK
  <2>6. /\ \A d : Claim(o, d) = IF o.start <= d /\ d < o.end THEN o.size ELSE 0
        /\ \A d : Claim(x, d) = IF o.start <= d /\ d < o.end THEN o.size + size ELSE 0
    BY <2>1, <2>3, ReservationClaim DEF Is
  <2>7. o.end - epoch \in Int /\ 0 \in Nat /\ o.start \in Nat /\ o.end \in Nat /\ o.size \in Nat
    BY <1>0, <2>2 DEF Reservation
  <2> HIDE DEF o
  <2>8. \A e \in Epochs : e >= epoch =>
          Claim(x, e) <= Claim(o, e)
            + (IF epoch + 0 <= e /\ e < epoch + (o.end - epoch) THEN size ELSE 0)
    BY <1>0, <2>1, <2>6, <2>7
  <2> QED BY <2>1, <2>5, <2>7, <2>8, SaleOne DEF o
<1>9. ASSUME NEW id \in Ids, NEW new \in Ids, NEW size \in Sizes, DecreaseCapacity(id, new, size)
      PROVE  PoolInv'
  <2> DEFINE o == objects[id]
             x == [o EXCEPT !.size = o.size - size]
             y == Storage(o.start, o.end, size)
  <2>1. /\ Is(id, "pool") /\ Is(new, "free") /\ id # new /\ ~ Is(id, "free") /\ size \in Nat
        /\ UNCHANGED accounting /\ o.size - o.used >= size
    BY <1>9, SizesAssumption DEF DecreaseCapacity, Is, Unused
  <2>2. o \in PoolObjects /\ Exact(o) /\ Reservation(o) /\ objects[new] = Free
    BY <1>0, <2>1, KindFacts
  <2>3. Replaced(id, x, new, y)
    BY <1>9 DEF DecreaseCapacity, Replaced
  <2>4. /\ x.start = o.start /\ x.end = o.end /\ x.size = o.size - size /\ x.kind # "free"
        /\ x.used = o.used /\ x.count = o.count /\ x.blobs = o.blobs /\ o.used \in Nat
        /\ o.start \in Nat /\ o.end \in Nat /\ o.size \in Nat /\ o.start < o.end
    BY <2>2 DEF PoolObjects, Reservation
  <2>5. o.size - size \in Nat
    BY <2>1, <2>4
  <2>6. x \in PoolObjects
    BY <2>2, <2>5 DEF PoolObjects
  <2> HIDE DEF x
  <2>7. ObjectOK(x)
    <3>1. Reservation(x) /\ Exact(x)
      BY <2>1, <2>2, <2>4, <2>5 DEF Reservation, Exact
    <3> QED BY <2>6, <3>1 DEF ObjectOK
  <2>8. ObjectOK(y) /\ \A d : Claim(y, d) = IF o.start <= d /\ d < o.end THEN size ELSE 0
    BY <2>1, <2>4, StorageOK
  <2>9. /\ \A d : Claim(o, d) = IF o.start <= d /\ d < o.end THEN o.size ELSE 0
        /\ \A d : Claim(x, d) = IF o.start <= d /\ d < o.end THEN o.size - size ELSE 0
    BY <2>1, <2>4, ReservationClaim DEF Is
  <2> HIDE DEF o, y
  <2>10. \A d \in Nat : Claim(x, d) + Claim(y, d) <= Claim(o, d) + 0
    BY <2>1, <2>4, <2>8, <2>9
  <2>11. ClaimsNoMore(id, x, new, y)
    BY <1>0, <2>2, <2>10, FreeOK DEF ClaimsNoMore, o
  <2> QED BY <2>1, <2>3, <2>7, <2>8, <2>11, QuietTwo
<1>10. ASSUME NEW id \in Ids, NEW other \in Ids, IncreaseCapacityWithStorage(id, other)
       PROVE  PoolInv'
  <2> DEFINE o == objects[id]
             p == objects[other]
             x == [o EXCEPT !.size = o.size + p.size]
  <2>1. /\ Is(id, "pool") /\ Is(other, "storage") /\ id # other /\ ~ Is(id, "free") /\ ~ Is(other, "free")
        /\ UNCHANGED accounting /\ p.start <= epoch /\ p.end = o.end
    BY <1>10 DEF IncreaseCapacityWithStorage, Is, MayAbsorb
  <2>2. o \in PoolObjects /\ Exact(o) /\ Reservation(o) /\ Reservation(p)
    BY <1>0, <2>1, KindFacts
  <2>3. Replaced(id, x, other, Free)
    BY <1>10 DEF IncreaseCapacityWithStorage, Replaced
  <2>4. /\ x.start = o.start /\ x.end = o.end /\ x.size = o.size + p.size /\ x.kind # "free"
        /\ x.used = o.used /\ x.count = o.count /\ x.blobs = o.blobs /\ o.used \in Nat
        /\ o.start \in Nat /\ o.end \in Nat /\ o.size \in Nat /\ o.start < o.end
        /\ p.start \in Nat /\ p.end \in Nat /\ p.size \in Nat
    BY <2>2 DEF PoolObjects, Reservation
  <2>5. x \in PoolObjects
    BY <2>2, <2>4 DEF PoolObjects
  <2> HIDE DEF x
  <2>6. ObjectOK(x)
    <3>1. Reservation(x) /\ Exact(x)
      BY <2>1, <2>2, <2>4 DEF Reservation, Exact
    <3> QED BY <2>5, <3>1 DEF ObjectOK
  <2>7. /\ \A d : Claim(o, d) = IF o.start <= d /\ d < o.end THEN o.size ELSE 0
        /\ \A d : Claim(p, d) = IF p.start <= d /\ d < p.end THEN p.size ELSE 0
        /\ \A d : Claim(x, d) = IF o.start <= d /\ d < o.end THEN o.size + p.size ELSE 0
    BY <2>1, <2>4, ReservationClaim DEF Is
  <2> HIDE DEF o, p
  <2>8. \A d \in Nat : d >= epoch => Claim(x, d) + 0 <= Claim(o, d) + Claim(p, d)
    BY <1>0, <2>1, <2>4, <2>7
  <2>9. ClaimsNoMore(id, x, other, Free)
    BY <1>0, <2>8, FreeOK DEF ClaimsNoMore, o, p
  <2> QED BY <2>1, <2>3, <2>6, <2>9, FreeOK, QuietTwo
<1>11. ASSUME NEW id \in {i \in Ids : Is(i, "pool")}, NEW blob \in objects[id].blobs,
              \/ DeletePooledBlob(id, blob)
              \/ BurnExpiredPooledBlob(id, blob)
              \/ CertifyPooledBlob(id, blob)
       PROVE  PoolInv'
  BY <1>5, <1>6, <1>11
<1> QED
  BY <1>1, <1>2, <1>3, <1>4, <1>7, <1>8, <1>9, <1>10, <1>11 DEF PoolNext
-----------------------------------------------------------------------------
(* The invariants of resources, blobs and pools.                           *)

(* At the start there are no objects and no claims.                        *)
LEMMA PoolInit ==
  ASSUME Init
  PROVE  PoolInv
<1>1. AccountingInv /\ AccountingType
  BY InitInv DEF Inv, AccountingInv
<1>2. objects = [id \in Ids |-> Free]
  BY DEF Init
<1>3. ObjectsInv
  BY <1>2, FreeOK DEF ObjectsInv
<1>4. ASSUME NEW e \in Epochs PROVE Claimed(e) <= UsedIn(e)
  <2> DEFINE f == [i \in Ids |-> Claim(objects[i], e)]
  <2>1. \A i \in Ids : f[i] \in Nat /\ f[i] = f[i] + f[i]
    BY <1>2, FreeOK
  <2>2. Claimed(e) = SumFunctionOnSet(f, Ids)
    BY DEF Claimed, SumFunction
  <2> HIDE DEF f
  <2> DEFINE total == SumFunctionOnSet(f, Ids)
  <2>3. total = total + total /\ total \in Nat
    BY <2>1, IdsAssumption, SumType, SumPlus
  <2> HIDE DEF total
  <2>4. total = 0
    BY <2>3
  <2>5. UsedIn(e) \in Nat
    BY <1>1, UsedInType
  <2> QED BY <2>2, <2>4, <2>5 DEF total
<1> QED BY <1>1, <1>3, <1>4 DEF PoolInv, ClaimsAreBooked

(* Every step preserves the invariant.                                     *)
LEMMA PoolStep ==
  ASSUME PoolInv, [PoolNext \/ Next]_vars
  PROVE  PoolInv'
<1>1. CASE UNCHANGED vars
  <2>1. UNCHANGED <<accounting, objects>> /\ UNCHANGED <<epoch, current_index, slot_used>>
    BY <1>1 DEF vars, accounting, ring
  <2>2. AccountingInv' /\ AccountingType
    BY <2>1, UnchangedInv DEF PoolInv, AccountingInv
  <2>3. ASSUME NEW e \in Epochs PROVE UsedIn(e) \in Nat /\ UsedIn(e)' >= UsedIn(e)
    <3>1. UsedIn(e)' = UsedIn(e) /\ UsedIn(e) \in Nat
      BY <2>1, <2>2, UsedInType DEF UsedIn, IsOpen, Slot
    <3> QED BY <3>1
  <2> QED BY <2>1, <2>2, <2>3, IdleObjects
<1> QED BY <1>1, PoolNextPool, StorageNextPool, BlobNextPool, SystemNextPool DEF Next

(* The inductive invariant holds in every reachable state.                 *)
THEOREM PoolInvHolds == PoolSpec => []PoolInv
<1>1. Init => PoolInv
  BY PoolInit
<1>2. PoolInv /\ [PoolNext \/ Next]_vars => PoolInv'
  BY PoolStep
<1> QED BY <1>1, <1>2, PTL DEF PoolSpec

(* The used_capacity_size field is never stale, with pools as well.        *)
THEOREM PoolsKeepCache == PoolSpec => []CachedUsedCapacity
<1>1. PoolInv => CachedUsedCapacity
  BY DEF PoolInv, AccountingInv
<1> QED BY <1>1, PoolInvHolds, PTL

(* No sequence of purchases, splits, fusions, absorptions, extensions and  *)
(* epoch changes gives anybody a claim to storage that is not booked.      *)
THEOREM NoUnbookedClaims == PoolSpec => []ClaimsAreBooked
<1>1. PoolInv => ClaimsAreBooked
  BY DEF PoolInv
<1> QED BY <1>1, PoolInvHolds, PTL

(* Every blob has a resource that has started and is large enough, and was *)
(* certified within its period.                                            *)
THEOREM BlobsStayBacked == PoolSpec => []BlobsAreBacked
<1>1. PoolInv => BlobsAreBacked
  <2> SUFFICES ASSUME PoolInv, NEW id \in Ids, objects[id].kind = "blob"
               PROVE  Backed(objects[id])
    BY DEF BlobsAreBacked, Resources, Backed
  <2> QED BY KindFacts DEF PoolInv, Is
<1> QED BY <1>1, PoolInvHolds, PTL

(* The counters of a pool are exact, and its blobs fit into it.            *)
THEOREM PoolCountersExact == PoolSpec => []PoolsAreExact
<1>1. PoolInv => PoolsAreExact
  <2> SUFFICES ASSUME PoolInv, NEW id \in Ids, objects[id].kind = "pool"
               PROVE  Exact(objects[id])
    BY DEF PoolsAreExact, Resources, Exact
  <2> QED BY KindFacts DEF PoolInv, Is
<1> QED BY <1>1, PoolInvHolds, PTL
-----------------------------------------------------------------------------
(* Permanent blobs.                                                        *)

\* What PermanentBlobsStay says of the blobs of one pool.
Keeps(id) ==
  \A blob \in objects[id].blobs : ~ blob.deletable =>
    /\ objects'[id].kind = "pool"
    /\ objects'[id].end >= objects[id].end
    /\ \E same \in objects'[id].blobs :
         /\ same.blob_id = blob.blob_id /\ same.bytes = blob.bytes
         /\ ~ same.deletable
         /\ blob.certified # -1 => same.certified = blob.certified

(* Operations on resources and plain blobs touch no pool.                  *)
LEMMA PoolUntouched ==
  ASSUME ObjectsInv, Next, NEW id \in Ids, Is(id, "pool")
  PROVE  objects'[id] = objects[id]
<1>0. DOMAIN objects = Ids
  BY DEF ObjectsInv
<1>1. CASE StorageNext
  BY <1>0, <1>1
  DEF StorageNext, ReserveSpace, SplitByEpoch, SplitBySize, FusePeriods, FuseAmount,
      DestroyStorage, Put, Is
<1>2. CASE BlobNext
  BY <1>0, <1>2
  DEF BlobNext, RegisterBlob, CertifyBlob, DeleteBlob, BurnBlob, ExtendBlobWithResource,
      ExtendBlob, CertifyEventBlob, Put, Is
<1>3. CASE SystemNext
  BY <1>3 DEF SystemNext
<1> QED BY <1>1, <1>2, <1>3 DEF Next

(* A pool that keeps its blobs and does not end earlier keeps them all.    *)
LEMMA KeepsAll ==
  ASSUME NEW id \in Ids, objects'[id].kind = "pool",
         objects[id].end \in Nat, objects'[id].end \in Nat, objects'[id].end >= objects[id].end,
         \A blob \in objects[id].blobs : ~ blob.deletable => blob \in objects'[id].blobs
  PROVE  Keeps(id)
BY DEF Keeps

(* What the operations on pools do to a pool that has not expired.         *)
LEMMA PoolNextKeeps ==
  ASSUME ObjectsInv, epoch \in Nat, PoolNext, NEW id \in Ids, Is(id, "pool"), objects[id].end > epoch
  PROVE  Keeps(id)
<1> DEFINE o == objects[id]
<1>0. /\ DOMAIN objects = Ids /\ o \in PoolObjects /\ Exact(o) /\ o.kind = "pool"
      /\ o.end \in Nat /\ o.blobs \subseteq PooledBlobs
  BY KindFacts DEF ObjectsInv, PoolObjects, Is
<1>1. CASE objects'[id] = o
  BY <1>0, <1>1, KeepsAll
<1>2. ASSUME NEW i \in Ids, NEW size \in Sizes, NEW n \in 1 .. Length, CreateStoragePool(i, size, n)
      PROVE  Keeps(id)
  <2>1. objects'[id] = o
    BY <1>0, <1>2 DEF CreateStoragePool, Put, Is
  <2> QED BY <1>1, <2>1
<1>3. ASSUME NEW i \in Ids, CreateStoragePoolWithStorage(i)
      PROVE  Keeps(id)
  <2>1. objects'[id] = o
    BY <1>0, <1>3 DEF CreateStoragePoolWithStorage, Put, Is
  <2> QED BY <1>1, <2>1
<1>4. ASSUME NEW i \in Ids, DestroyStoragePool(i)
      PROVE  Keeps(id)
  <2>1. CASE i = id
    BY <1>4, <2>1 DEF DestroyStoragePool, Keeps
  <2>2. CASE i # id
    <3>1. objects'[id] = o
      BY <1>0, <1>4, <2>2 DEF DestroyStoragePool, Put
    <3> QED BY <1>1, <3>1
  <2> QED BY <2>1, <2>2
<1>5. ASSUME NEW i \in Ids, NEW blob_id \in BlobIds, NEW bytes \in Sizes, NEW deletable \in BOOLEAN,
             RegisterPooledBlob(i, blob_id, bytes, deletable)
      PROVE  Keeps(id)
  <2>1. CASE i = id
    <3>1. objects'[id] = AddBlob(o, PooledBlob(blob_id, bytes, deletable))
      BY <1>0, <1>5, <2>1 DEF RegisterPooledBlob, Put
    <3>2. objects'[id].kind = "pool" /\ objects'[id].end = o.end /\ o.blobs \subseteq objects'[id].blobs
      BY <1>0, <3>1 DEF AddBlob, PoolObjects
    <3> QED BY <1>0, <3>2, KeepsAll
  <2>2. CASE i # id
    <3>1. objects'[id] = o
      BY <1>0, <1>5, <2>2 DEF RegisterPooledBlob, Put
    <3> QED BY <1>1, <3>1
  <2> QED BY <2>1, <2>2
<1>6. ASSUME NEW i \in Ids, NEW b \in objects[i].blobs, DeletePooledBlob(i, b)
      PROVE  Keeps(id)
  <2>1. CASE i = id
    <3>1. objects'[id] = RemoveBlob(o, b) /\ b.deletable
      BY <1>0, <1>6, <2>1 DEF DeletePooledBlob, Put
    <3>2. objects'[id].kind = "pool" /\ objects'[id].end = o.end /\ objects'[id].blobs = o.blobs \ {b}
      BY <1>0, <3>1 DEF RemoveBlob, PoolObjects
    <3>3. \A blob \in o.blobs : ~ blob.deletable => blob \in objects'[id].blobs
      BY <3>1, <3>2
    <3> QED BY <1>0, <3>2, <3>3, KeepsAll
  <2>2. CASE i # id
    <3>1. objects'[id] = o
      BY <1>0, <1>6, <2>2 DEF DeletePooledBlob, Put
    <3> QED BY <1>1, <3>1
  <2> QED BY <2>1, <2>2
<1>7. ASSUME NEW i \in Ids, NEW b \in objects[i].blobs, BurnExpiredPooledBlob(i, b)
      PROVE  Keeps(id)
  <2>1. i # id
    BY <1>7 DEF BurnExpiredPooledBlob, IsActive
  <2>2. objects'[id] = o
    BY <1>0, <1>7, <2>1 DEF BurnExpiredPooledBlob, Put
  <2> QED BY <1>1, <2>2
<1>8. ASSUME NEW i \in Ids, NEW b \in objects[i].blobs, CertifyPooledBlob(i, b)
      PROVE  Keeps(id)
  <2>1. CASE i = id
    <3> DEFINE c == [b EXCEPT !.certified = epoch]
    <3>1. objects'[id] = [o EXCEPT !.blobs = (o.blobs \ {b}) \cup {c}] /\ b.certified = -1
      BY <1>0, <1>8, <2>1 DEF CertifyPooledBlob
    <3>2. b \in PooledBlobs
      BY <1>0, <2>1
    <3>3. c.blob_id = b.blob_id /\ c.bytes = b.bytes /\ c.deletable = b.deletable
      BY <3>2 DEF PooledBlobs
    <3> HIDE DEF c
    <3>4. objects'[id].kind = "pool" /\ objects'[id].end = o.end
          /\ objects'[id].blobs = (o.blobs \ {b}) \cup {c}
      BY <1>0, <3>1 DEF PoolObjects
    <3>5. ASSUME NEW blob \in o.blobs, ~ blob.deletable
          PROVE  \E same \in objects'[id].blobs :
                   /\ same.blob_id = blob.blob_id /\ same.bytes = blob.bytes
                   /\ ~ same.deletable
                   /\ blob.certified # -1 => same.certified = blob.certified
      <4>1. CASE blob = b
        BY <3>1, <3>3, <3>4, <3>5, <4>1
      <4>2. CASE blob # b
        BY <3>4, <3>5, <4>2
      <4> QED BY <4>1, <4>2
    <3> QED BY <1>0, <3>4, <3>5 DEF Keeps
  <2>2. CASE i # id
    <3>1. objects'[id] = o
      BY <1>0, <1>8, <2>2 DEF CertifyPooledBlob
    <3> QED BY <1>1, <3>1
  <2> QED BY <2>1, <2>2
<1>9. ASSUME NEW i \in Ids, NEW n \in 1 .. Length, ExtendStoragePool(i, n)
      PROVE  Keeps(id)
  <2>1. CASE i = id
    <3>1. objects'[id] = [o EXCEPT !.end = o.end + n] /\ n \in Nat
      BY <1>0, <1>9, <2>1 DEF ExtendStoragePool
    <3>2. objects'[id].kind = "pool" /\ objects'[id].end = o.end + n /\ objects'[id].blobs = o.blobs
      BY <1>0, <3>1 DEF PoolObjects
    <3>3. o.end + n \in Nat /\ o.end + n >= o.end
      BY <1>0, <3>1
    <3> QED BY <1>0, <3>2, <3>3, KeepsAll
  <2>2. CASE i # id
    <3>1. objects'[id] = o
      BY <1>0, <1>9, <2>2 DEF ExtendStoragePool
    <3> QED BY <1>1, <3>1
  <2> QED BY <2>1, <2>2
<1>10. ASSUME NEW s, objects'[id] = [o EXCEPT !.size = s]
       PROVE  Keeps(id)
  <2>1. objects'[id].kind = "pool" /\ objects'[id].end = o.end /\ objects'[id].blobs = o.blobs
    BY <1>0, <1>10 DEF PoolObjects
  <2> QED BY <1>0, <2>1, KeepsAll
<1>11. ASSUME NEW i \in Ids, NEW size \in Sizes, IncreaseStoragePoolCapacity(i, size)
       PROVE  Keeps(id)
  <2>1. objects'[id] = o \/ objects'[id] = [o EXCEPT !.size = o.size + size]
    BY <1>0, <1>11 DEF IncreaseStoragePoolCapacity
  <2> QED BY <1>1, <1>10, <2>1
<1>12. ASSUME NEW i \in Ids, NEW new \in Ids, NEW size \in Sizes, DecreaseCapacity(i, new, size)
       PROVE  Keeps(id)
  <2>1. new # id
    BY <1>0, <1>12 DEF DecreaseCapacity, Is
  <2>2. objects'[id] = o \/ objects'[id] = [o EXCEPT !.size = o.size - size]
    BY <1>0, <1>12, <2>1 DEF DecreaseCapacity
  <2> QED BY <1>1, <1>10, <2>2
<1>13. ASSUME NEW i \in Ids, NEW other \in Ids, IncreaseCapacityWithStorage(i, other)
       PROVE  Keeps(id)
  <2>1. other # id
    BY <1>0, <1>13 DEF IncreaseCapacityWithStorage, Is
  <2>2. objects'[id] = o \/ objects'[id] = [o EXCEPT !.size = o.size + objects[other].size]
    BY <1>0, <1>13, <2>1 DEF IncreaseCapacityWithStorage
  <2> QED BY <1>1, <1>10, <2>2
<1> HIDE DEF o
<1>14. ASSUME NEW i \in {j \in Ids : Is(j, "pool")}, NEW b \in objects[i].blobs,
              \/ DeletePooledBlob(i, b)
              \/ BurnExpiredPooledBlob(i, b)
              \/ CertifyPooledBlob(i, b)
       PROVE  Keeps(id)
  BY <1>6, <1>7, <1>8, <1>14
<1> QED
  BY <1>2, <1>3, <1>4, <1>5, <1>9, <1>11, <1>12, <1>13, <1>14 DEF PoolNext

(* Nobody can take a permanent blob out of a pool that has not expired,    *)
(* end the pool earlier or undo the certification.                         *)
THEOREM PermanentBlobsKept == PoolSpec => PermanentBlobsStay
<1>1. PoolInv /\ [PoolNext \/ Next]_vars =>
        [\A id \in Ids : Is(id, "pool") /\ objects[id].end > epoch => Keeps(id)]_vars
  <2> SUFFICES ASSUME PoolInv, PoolNext \/ Next, NEW id \in Ids, Is(id, "pool"), objects[id].end > epoch
               PROVE  Keeps(id)
    OBVIOUS
  <2>1. ObjectsInv /\ epoch \in Nat
    BY OpenOffsets DEF PoolInv, AccountingInv
  <2>2. CASE PoolNext
    BY <2>1, <2>2, PoolNextKeeps
  <2>3. CASE Next
    <3>1. objects'[id] = objects[id]
      BY <2>1, <2>3, PoolUntouched
    <3>2. objects[id].kind = "pool" /\ objects[id].end \in Nat
      BY <2>1, KindFacts DEF Is, PoolObjects
    <3> QED BY <3>1, <3>2, KeepsAll
  <2> QED BY <2>2, <2>3
<1>2. [\A id \in Ids : Is(id, "pool") /\ objects[id].end > epoch => Keeps(id)]_vars =>
        [\A id \in Ids :
           Is(id, "pool") /\ objects[id].end > epoch =>
             \A blob \in objects[id].blobs : ~ blob.deletable =>
               /\ objects'[id].kind = "pool"
               /\ objects'[id].end >= objects[id].end
               /\ \E same \in objects'[id].blobs :
                    /\ same.blob_id = blob.blob_id /\ same.bytes = blob.bytes
                    /\ ~ same.deletable
                    /\ blob.certified # -1 => same.certified = blob.certified]_vars
  BY DEF Keeps
<1> QED BY <1>1, <1>2, PoolInvHolds, PTL DEF PoolSpec, PermanentBlobsStay
=============================================================================
