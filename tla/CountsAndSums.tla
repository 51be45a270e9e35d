---------------------------- MODULE CountsAndSums ----------------------------
(***************************************************************************)
(* Lemmas shared by the proofs.  Reference counts: how many pointers of a  *)
(* finite set of holders point to the same object, and what one moving     *)
(* pointer does to that number.  Sums over a finite set (SumFunctionOnSet  *)
(* of the module Functions): what one more element, or one changed value,  *)
(* does to the sum.  Folds over a sequence (FoldLeft of SequencesExt),     *)
(* spelled out; sorted sets; and what is kept of a sequence when every     *)
(* element is compared with those kept before it.                          *)
(*                                                                         *)
(* The facts about sums and folds are proved by minimal counterexample:    *)
(* inclusion of finite sets is well founded, so a claim that fails for     *)
(* some set fails for one all of whose parts satisfy it.                   *)
(***************************************************************************)
EXTENDS Integers, FiniteSets, FiniteSetsExt, Functions, FiniteSetTheorems, SequenceTheorems,
        WellFoundedInduction, TLAPS

\* How many of the holders in S point to m; holder x points to f[x].
Count(f, S, m) == Cardinality({x \in S : f[x] = m})

\* Counts of holders are natural numbers.
LEMMA CountType ==
    ASSUME NEW S, IsFiniteSet(S), NEW f, NEW m
    PROVE  Count(f, S, m) \in Nat
<1>1. IsFiniteSet({x \in S : f[x] = m})
    BY FS_Subset, {x \in S : f[x] = m} \subseteq S
<1> QED BY <1>1, FS_CardinalityType DEF Count

\* What nobody points to is counted zero times.
LEMMA CountNone ==
    ASSUME NEW S, NEW f, NEW m, \A x \in S : f[x] # m
    PROVE  Count(f, S, m) = 0
<1>1. {x \in S : f[x] = m} = {}
    OBVIOUS
<1> QED BY <1>1, FS_EmptySet DEF Count

\* One holder, s, moves its pointer away from m.
LEMMA CountLoses ==
    ASSUME NEW S, NEW f, NEW g, NEW m, NEW s \in S, IsFiniteSet(S),
           \A x \in S \ {s} : g[x] = f[x], f[s] = m, g[s] # m
    PROVE  Count(g, S, m) = Count(f, S, m) - 1
<1> DEFINE F == {x \in S : f[x] = m}
           G == {x \in S : g[x] = m}
<1>1. IsFiniteSet(F) /\ s \in F /\ G = F \ {s}
    BY FS_Subset, F \subseteq S
<1>2. Cardinality(G) = Cardinality(F) - 1
    BY <1>1, FS_RemoveElement
<1> QED BY <1>2 DEF Count

\* s moves its pointer to m.
LEMMA CountGains ==
    ASSUME NEW S, NEW f, NEW g, NEW m, NEW s \in S, IsFiniteSet(S),
           \A x \in S \ {s} : g[x] = f[x], f[s] # m, g[s] = m
    PROVE  Count(g, S, m) = Count(f, S, m) + 1
<1>1. Count(f, S, m) = Count(g, S, m) - 1
    BY CountLoses
<1>2. Count(g, S, m) \in Nat
    BY CountType
<1> QED BY <1>1, <1>2

\* s moves its pointer neither from nor to m.
LEMMA CountKeeps ==
    ASSUME NEW S, NEW f, NEW g, NEW m, NEW s \in S,
           \A x \in S \ {s} : g[x] = f[x], f[s] = m <=> g[s] = m
    PROVE  Count(g, S, m) = Count(f, S, m)
<1>1. {x \in S : g[x] = m} = {x \in S : f[x] = m}
    OBVIOUS
<1> QED BY <1>1 DEF Count

-----------------------------------------------------------------------------
(* Sums.                                                                    *)

Picked(s) == CHOOSE x \in s : TRUE

\* g is the function that FoldFunctionOnSet recurses with.
Sums(g, f, S) ==
    g = [s \in SUBSET S |->
            IF s = {} THEN 0 ELSE f[Picked(s)] + g[s \ {Picked(s)}]]

\* The sum is the value of the recursive function at the whole set.
LEMMA SumsDef == ASSUME NEW f, NEW S PROVE SumFunctionOnSet(f, S) = (CHOOSE g : Sums(g, f, S))[S]
BY Zenon DEF SumFunctionOnSet, FoldFunctionOnSet, MapThenFoldSet, Sums, Picked

\* Induction over finite sets: a set of subsets has a minimal member.
LEMMA MinimalSubset ==
    ASSUME NEW S, IsFiniteSet(S), NEW B \in SUBSET SUBSET S, B # {}
    PROVE  \E b \in B : \A c \in B : c \subseteq b => c = b
<1>1. B \subseteq FiniteSubsetsOf(S)
    BY FS_Subset DEF FiniteSubsetsOf
<1>2. PICK b \in B : \A c \in B : <<c, b>> \notin StrictSubsetOrdering(S)
    BY <1>1, FS_StrictSubsetOrderingWellFounded, WFMin
<1>3. ASSUME NEW c \in B, c \subseteq b, c # b PROVE FALSE
    BY <1>2, <1>3 DEF StrictSubsetOrdering
<1> QED BY <1>3

\* What is picked from a set is in it.
LEMMA PickedIn == \A s : s # {} => Picked(s) \in s
BY DEF Picked

\* What g is at a subset.
LEMMA SumsAt ==
    ASSUME NEW f, NEW S, NEW g, Sums(g, f, S), NEW s \in SUBSET S
    PROVE  g[s] = IF s = {} THEN 0 ELSE f[Picked(s)] + g[s \ {Picked(s)}]
BY Zenon DEF Sums

\* Two such functions agree where both are defined.
LEMMA SumsUnique ==
    ASSUME NEW f, NEW S, IsFiniteSet(S), NEW g, Sums(g, f, S),
           NEW T \in SUBSET S, NEW h, Sums(h, f, T)
    PROVE  g[T] = h[T]
<1> DEFINE B == {s \in SUBSET T : g[s] # h[s]}
<1>1. SUFFICES ASSUME B # {} PROVE FALSE
    BY Zenon
<1>2. IsFiniteSet(T) /\ B \in SUBSET SUBSET T
    BY FS_Subset
<1> HIDE DEF B
<1>3. PICK b \in B : \A c \in B : c \subseteq b => c = b
    BY <1>1, <1>2, MinimalSubset
<1>4. b \in SUBSET T /\ b \in SUBSET S /\ g[b] # h[b]
    BY <1>3 DEF B
<1>5. g[b] = (IF b = {} THEN 0 ELSE f[Picked(b)] + g[b \ {Picked(b)}])
    BY <1>4, SumsAt
<1>6. h[b] = (IF b = {} THEN 0 ELSE f[Picked(b)] + h[b \ {Picked(b)}])
    BY <1>4, SumsAt
<1>7. b # {} => b \ {Picked(b)} \notin B
    BY <1>3, PickedIn
<1>8. b # {} => g[b \ {Picked(b)}] = h[b \ {Picked(b)}]
    BY <1>4, <1>7 DEF B
<1> QED BY <1>4, <1>5, <1>6, <1>8

\* There is such a function for every finite set.
LEMMA SumsExist ==
    ASSUME NEW f, NEW S, IsFiniteSet(S)
    PROVE  \E g : Sums(g, f, S)
<1> DEFINE B == {T \in SUBSET S : ~ \E g : Sums(g, f, T)}
<1>1. SUFFICES ASSUME B # {} PROVE FALSE
    OBVIOUS
<1>2. PICK T \in B : \A c \in B : c \subseteq T => c = T
  <2>1. B \in SUBSET SUBSET S OBVIOUS
  <2> HIDE DEF B
  <2> QED BY <1>1, <2>1, MinimalSubset
<1> DEFINE H(U) == CHOOSE g : Sums(g, f, U)
           g == [s \in SUBSET T |->
                   IF s = {} THEN 0
                   ELSE f[Picked(s)] + H(s \ {Picked(s)})[s \ {Picked(s)}]]
<1>3. T \subseteq S /\ IsFiniteSet(T)
    BY FS_Subset
<1>4. ASSUME NEW U \in SUBSET T, U # T PROVE Sums(H(U), f, U)
  <2>1. U \notin B
      BY <1>2, <1>4
  <2>2. \E k : Sums(k, f, U)
      BY <1>3, <2>1
  <2> QED BY <2>2
<1>5. ASSUME NEW V \in SUBSET T, V # T PROVE g[V] = H(V)[V]
  <2>1. Sums(H(V), f, V) BY <1>4, <1>5
  <2> DEFINE W == V \ {Picked(V)}
  <2>2. H(V)[V] = IF V = {} THEN 0 ELSE f[Picked(V)] + H(V)[W]
    <3> HIDE DEF H
    <3> QED BY <2>1, SumsAt
  <2>3. g[V] = IF V = {} THEN 0 ELSE f[Picked(V)] + H(W)[W]
    <3> HIDE DEF H
    <3> QED OBVIOUS
  <2>4. ASSUME V # {} PROVE H(V)[W] = H(W)[W]
    <3>1. W \in SUBSET T /\ W # T /\ W \in SUBSET V /\ IsFiniteSet(V)
        BY <1>3, <1>5, <2>4, PickedIn, FS_Subset
    <3>2. Sums(H(W), f, W)
      <4> HIDE DEF H, W
      <4> QED BY <1>4, <3>1
    <3> HIDE DEF H, W
    <3> QED BY <2>1, <3>1, <3>2, SumsUnique
  <2> HIDE DEF H, W, g
  <2> QED BY <2>2, <2>3, <2>4
<1>6. g = [s \in SUBSET T |->
              IF s = {} THEN 0 ELSE f[Picked(s)] + g[s \ {Picked(s)}]]
  <2>1. ASSUME NEW s \in SUBSET T
        PROVE  g[s] = IF s = {} THEN 0 ELSE f[Picked(s)] + g[s \ {Picked(s)}]
    <3>1. g[s] = IF s = {} THEN 0 ELSE f[Picked(s)] + H(s \ {Picked(s)})[s \ {Picked(s)}]
      <4> HIDE DEF H
      <4> QED OBVIOUS
    <3>2. s # {} => s \ {Picked(s)} \in SUBSET T /\ s \ {Picked(s)} # T
        BY PickedIn
    <3> HIDE DEF H, g
    <3> QED BY <1>5, <3>1, <3>2
  <2>2. g = [s \in SUBSET T |-> g[s]]
    <3> HIDE DEF H
    <3> QED OBVIOUS
  <2> HIDE DEF H, g
  <2> QED BY <2>1, <2>2
<1>7. Sums(g, f, T)
  <2> HIDE DEF g
  <2> QED BY <1>6 DEF Sums
<1>8. T \in B
    BY <1>2
<1> HIDE DEF g
<1> QED BY <1>7, <1>8

\* The sum over any part of the set is a value of one and the same function.
LEMMA SumIs ==
    ASSUME NEW f, NEW S, IsFiniteSet(S), NEW g, Sums(g, f, S), NEW T \in SUBSET S
    PROVE  SumFunctionOnSet(f, T) = g[T]
<1> DEFINE h == CHOOSE k : Sums(k, f, T)
<1>1. IsFiniteSet(T)
    BY FS_Subset
<1>2. Sums(h, f, T)
    BY <1>1, SumsExist
<1>3. SumFunctionOnSet(f, T) = h[T]
    BY Zenon, SumsDef
<1> HIDE DEF h
<1> QED BY <1>2, <1>3, SumsUnique

\* The sum over nothing.
LEMMA SumEmpty == \A f : SumFunctionOnSet(f, {}) = 0
<1> TAKE f
<1>1. IsFiniteSet({})
    BY FS_EmptySet
<1>2. PICK g : Sums(g, f, {})
    BY <1>1, SumsExist
<1>3. SumFunctionOnSet(f, {}) = g[{}]
    BY <1>1, <1>2, SumIs
<1> QED BY <1>2, <1>3, SumsAt

\* The sum takes one element and goes on with the others.
LEMMA SumPicked ==
    ASSUME NEW f, NEW S, IsFiniteSet(S), S # {}
    PROVE  SumFunctionOnSet(f, S) = f[Picked(S)] + SumFunctionOnSet(f, S \ {Picked(S)})
<1>1. PICK g : Sums(g, f, S)
    BY SumsExist
<1>2. SumFunctionOnSet(f, S) = g[S]
    BY <1>1, SumIs
<1>3. SumFunctionOnSet(f, S \ {Picked(S)}) = g[S \ {Picked(S)}]
    BY <1>1, SumIs
<1> QED BY <1>1, <1>2, <1>3, SumsAt

\* A sum of natural numbers is one.
LEMMA SumNat ==
    ASSUME NEW S, IsFiniteSet(S), NEW f, \A x \in S : f[x] \in Nat
    PROVE  SumFunctionOnSet(f, S) \in Nat
<1> DEFINE B == {T \in SUBSET S : SumFunctionOnSet(f, T) \notin Nat}
<1>1. SUFFICES ASSUME B # {} PROVE FALSE
    OBVIOUS
<1>2. PICK T \in B : \A c \in B : c \subseteq T => c = T
  <2>1. B \in SUBSET SUBSET S OBVIOUS
  <2> HIDE DEF B
  <2> QED BY <1>1, <2>1, MinimalSubset
<1>3. T # {} /\ IsFiniteSet(T)
  <2>1. T \in SUBSET S /\ SumFunctionOnSet(f, T) \notin Nat BY <1>2
  <2>2. SumFunctionOnSet(f, {}) = 0 BY SumEmpty
  <2>3. IsFiniteSet(T) BY <2>1, FS_Subset
  <2>4. T # {} BY ONLY <2>1, <2>2, 0 \in Nat
  <2> QED BY <2>3, <2>4
<1>4. Picked(T) \in T /\ T \ {Picked(T)} \notin B
    BY <1>2, <1>3, PickedIn
<1>5. SumFunctionOnSet(f, T \ {Picked(T)}) \in Nat
    BY <1>4
<1>6. SumFunctionOnSet(f, T) \in Nat
    BY <1>3, <1>4, <1>5, SumPicked
<1> QED BY <1>6

\* The choice of the next element does not matter.
LEMMA SumRemove ==
    ASSUME NEW S, IsFiniteSet(S), NEW f, \A x \in S : f[x] \in Nat, NEW x \in S
    PROVE  SumFunctionOnSet(f, S) = f[x] + SumFunctionOnSet(f, S \ {x})
<1> DEFINE B == {T \in SUBSET S : \E y \in T : SumFunctionOnSet(f, T) # f[y] + SumFunctionOnSet(f, T \ {y})}
<1>1. SUFFICES ASSUME B # {} PROVE FALSE
    OBVIOUS
<1>2. PICK T \in B : \A c \in B : c \subseteq T => c = T
  <2>1. B \in SUBSET SUBSET S OBVIOUS
  <2> HIDE DEF B
  <2> QED BY <1>1, <2>1, MinimalSubset
<1>3. PICK y \in T : SumFunctionOnSet(f, T) # f[y] + SumFunctionOnSet(f, T \ {y})
    BY <1>2
<1>4. ASSUME NEW c \in SUBSET S, c \subseteq T, c # T, NEW z \in c
      PROVE  SumFunctionOnSet(f, c) = f[z] + SumFunctionOnSet(f, c \ {z})
    BY <1>2, <1>4
<1>5. IsFiniteSet(T) /\ T \in SUBSET S
    BY FS_Subset, <1>2
<1> HIDE DEF B
<1> DEFINE p == Picked(T)
           V == T \ {p, y}
<1>6. p \in T /\ SumFunctionOnSet(f, T) = f[p] + SumFunctionOnSet(f, T \ {p})
    BY <1>5, PickedIn, SumPicked
<1> HIDE DEF p
<1>7. p # y
    BY <1>3, <1>6
<1>8. SumFunctionOnSet(f, T \ {p}) = f[y] + SumFunctionOnSet(f, V)
  <2>1. (T \ {p}) \ {y} = V OBVIOUS
  <2>2. y \in T \ {p} BY <1>7
  <2> HIDE DEF V
  <2> QED BY <1>4, <1>5, <1>6, <2>1, <2>2
<1>9. SumFunctionOnSet(f, T \ {y}) = f[p] + SumFunctionOnSet(f, V)
  <2>1. (T \ {y}) \ {p} = V OBVIOUS
  <2>2. p \in T \ {y} BY <1>6, <1>7
  <2> HIDE DEF V
  <2> QED BY <1>4, <1>5, <2>1, <2>2
<1>10. SumFunctionOnSet(f, V) \in Nat /\ f[p] \in Nat /\ f[y] \in Nat
    BY <1>3, <1>5, <1>6, SumNat, FS_Subset
<1> HIDE DEF V
<1> QED BY <1>3, <1>6, <1>8, <1>9, <1>10

\* One more element.
LEMMA SumAdd ==
    ASSUME NEW S, IsFiniteSet(S), NEW x, x \notin S, NEW f,
           \A y \in S \cup {x} : f[y] \in Nat
    PROVE  /\ SumFunctionOnSet(f, S \cup {x}) = SumFunctionOnSet(f, S) + f[x]
           /\ SumFunctionOnSet(f, S) \in Nat
<1>1. IsFiniteSet(S \cup {x})
    BY FS_AddElement
<1>2. (S \cup {x}) \ {x} = S OBVIOUS
<1>3. SumFunctionOnSet(f, S \cup {x}) = f[x] + SumFunctionOnSet(f, S)
    BY <1>1, <1>2, SumRemove
<1>4. SumFunctionOnSet(f, S) \in Nat
    BY SumNat
<1> QED BY <1>3, <1>4

\* The sum depends on the values at the elements alone.
LEMMA SumSame ==
    ASSUME NEW S, IsFiniteSet(S), NEW f, NEW g, \A x \in S : f[x] = g[x]
    PROVE  SumFunctionOnSet(f, S) = SumFunctionOnSet(g, S)
<1> DEFINE B == {T \in SUBSET S : SumFunctionOnSet(f, T) # SumFunctionOnSet(g, T)}
<1>1. SUFFICES ASSUME B # {} PROVE FALSE
    OBVIOUS
<1>2. PICK T \in B : \A c \in B : c \subseteq T => c = T
  <2>1. B \in SUBSET SUBSET S OBVIOUS
  <2> HIDE DEF B
  <2> QED BY <1>1, <2>1, MinimalSubset
<1>3. T # {} /\ IsFiniteSet(T)
  <2>1. T \in SUBSET S /\ SumFunctionOnSet(f, T) # SumFunctionOnSet(g, T) BY <1>2
  <2>2. SumFunctionOnSet(f, {}) = 0 /\ SumFunctionOnSet(g, {}) = 0 BY SumEmpty
  <2>3. IsFiniteSet(T) BY <2>1, FS_Subset
  <2>4. T # {} BY ONLY <2>1, <2>2, 0 \in Nat
  <2> QED BY <2>3, <2>4
<1>4. Picked(T) \in T /\ T \ {Picked(T)} \notin B
    BY <1>2, <1>3, PickedIn
<1>5. SumFunctionOnSet(f, T \ {Picked(T)}) = SumFunctionOnSet(g, T \ {Picked(T)})
    BY <1>4
<1>6. SumFunctionOnSet(f, T) = SumFunctionOnSet(g, T)
    BY <1>3, <1>4, <1>5, SumPicked
<1> QED BY <1>6

\* One value of the sum changes.
LEMMA SumUpdate ==
    ASSUME NEW S, IsFiniteSet(S), NEW f, NEW g, NEW x \in S,
           \A y \in S : f[y] \in Nat /\ g[y] \in Nat,
           \A y \in S \ {x} : f[y] = g[y]
    PROVE  /\ SumFunctionOnSet(g, S) + f[x] = SumFunctionOnSet(f, S) + g[x]
           /\ SumFunctionOnSet(f, S) \in Nat /\ SumFunctionOnSet(g, S) \in Nat
<1>1. IsFiniteSet(S \ {x})
    BY FS_RemoveElement
<1>2. SumFunctionOnSet(f, S \ {x}) = SumFunctionOnSet(g, S \ {x})
    BY <1>1, SumSame
<1>3. /\ SumFunctionOnSet(f, S) = f[x] + SumFunctionOnSet(f, S \ {x})
      /\ SumFunctionOnSet(g, S) = g[x] + SumFunctionOnSet(g, S \ {x}) BY SumRemove
<1>4. SumFunctionOnSet(f, S \ {x}) \in Nat
    BY <1>1, SumNat
<1> QED BY <1>2, <1>3, <1>4

\* Elements that contribute nothing may be left out.
LEMMA SumSupport ==
    ASSUME NEW S, IsFiniteSet(S), NEW f, \A x \in S : f[x] \in Nat,
           NEW R \in SUBSET S, \A x \in S \ R : f[x] = 0
    PROVE  SumFunctionOnSet(f, S) = SumFunctionOnSet(f, R)
<1> DEFINE B == {T \in SUBSET S : /\ R \subseteq T
                                  /\ SumFunctionOnSet(f, T) # SumFunctionOnSet(f, R)}
<1>1. SUFFICES ASSUME B # {} PROVE FALSE
    OBVIOUS
<1>2. PICK T \in B : \A c \in B : c \subseteq T => c = T
  <2>1. B \in SUBSET SUBSET S
      OBVIOUS
  <2> HIDE DEF B
  <2> QED BY <1>1, <2>1, MinimalSubset
<1>3. PICK x \in T : x \notin R
  <2>1. R \subseteq T /\ T # R
      BY <1>2
  <2> HIDE DEF B
  <2> QED BY ONLY <2>1
<1>4. SumFunctionOnSet(f, T \ {x}) = SumFunctionOnSet(f, R)
  <2>1. T \ {x} \in SUBSET S /\ R \subseteq T \ {x} /\ T \ {x} \subseteq T /\ T \ {x} # T
      BY <1>2, <1>3
  <2>2. T \ {x} \notin B
    <3> HIDE DEF B
    <3> QED BY <1>2, <2>1
  <2> QED BY <2>1, <2>2
<1>5. IsFiniteSet(T) /\ T \in SUBSET S /\ IsFiniteSet(R)
    BY <1>2, FS_Subset
<1>6. SumFunctionOnSet(f, T) = f[x] + SumFunctionOnSet(f, T \ {x})
    BY <1>3, <1>5, SumRemove
<1>7. f[x] = 0 /\ SumFunctionOnSet(f, R) \in Nat
    BY <1>3, <1>5, SumNat
<1> QED BY <1>2, <1>4, <1>6, <1>7

\* A sum in which nothing contributes is zero.
LEMMA SumZero ==
    ASSUME NEW S, IsFiniteSet(S), NEW f, \A x \in S : f[x] = 0
    PROVE  SumFunctionOnSet(f, S) = 0
<1>1. SumFunctionOnSet(f, S) = SumFunctionOnSet(f, {})
    BY SumSupport
<1> QED BY <1>1, SumEmpty

\* The values up to n, and one more.
LEMMA SumUpTo ==
    ASSUME NEW n \in Nat, NEW f, NEW g, \A k \in 1..(n + 1) : g[k] \in Nat,
           \A k \in 1..n : f[k] = g[k]
    PROVE  /\ SumFunctionOnSet(g, 1..(n + 1)) = SumFunctionOnSet(f, 1..n) + g[n + 1]
           /\ SumFunctionOnSet(f, 1..n) \in Nat
<1>1. IsFiniteSet(1..n) /\ (n + 1) \notin 1..n /\ 1..(n + 1) = (1..n) \cup {n + 1}
  <2>1. IsFiniteSet(1..n)
      BY FS_Interval
  <2> QED BY <2>1
<1>2. /\ SumFunctionOnSet(g, 1..(n + 1)) = SumFunctionOnSet(g, 1..n) + g[n + 1]
      /\ SumFunctionOnSet(g, 1..n) \in Nat
  <2>1. \A k \in (1..n) \cup {n + 1} : g[k] \in Nat
      BY <1>1
  <2>2. /\ SumFunctionOnSet(g, (1..n) \cup {n + 1}) = SumFunctionOnSet(g, 1..n) + g[n + 1]
        /\ SumFunctionOnSet(g, 1..n) \in Nat
      BY ONLY <1>1, <2>1, SumAdd
  <2> QED BY <1>1, <2>2
<1>3. SumFunctionOnSet(f, 1..n) = SumFunctionOnSet(g, 1..n)
    BY <1>1, SumSame
<1> QED BY <1>2, <1>3

-----------------------------------------------------------------------------
(* Finite sets of numbers.                                                  *)

\* A finite set of numbers has a largest.
LEMMA HasMax ==
    ASSUME NEW S, S \subseteq Int, IsFiniteSet(S), S # {}
    PROVE  \E x \in S : \A y \in S : y <= x
<1> DEFINE B == {T \in SUBSET S : T # {} /\ ~ \E x \in T : \A y \in T : y <= x}
<1>1. SUFFICES ASSUME B # {} PROVE FALSE
    OBVIOUS
<1>2. PICK T \in B : \A c \in B : c \subseteq T => c = T
  <2>1. B \in SUBSET SUBSET S OBVIOUS
  <2>2. B # {} BY <1>1
  <2>3. IsFiniteSet(S) OBVIOUS
  <2> HIDE DEF B
  <2> QED BY ONLY <2>1, <2>2, <2>3, MinimalSubset
<1>3. PICK x \in T : TRUE
    BY <1>2
<1>4. T \in SUBSET S /\ T # {} /\ ~ \E z \in T : \A y \in T : y <= z
    BY <1>2
<1>5. T \ {x} \notin B
    BY <1>2, <1>3
<1>6. CASE T = {x}
    BY <1>4, <1>6
<1>7. CASE T # {x}
  <2>1. PICK z \in T \ {x} : \A y \in T \ {x} : y <= z
      BY <1>3, <1>4, <1>5, <1>7
  <2>2. x \in Int /\ z \in Int /\ \A y \in T : y \in Int
      BY <1>4
  <2>3. CASE x <= z
      BY <1>4, <2>1, <2>2, <2>3
  <2>4. CASE z <= x
    <3>1. \A y \in T : y <= x
        BY <2>1, <2>2, <2>4
    <3> QED BY <1>4, <3>1
  <2> QED BY <2>2, <2>3, <2>4
<1> QED BY <1>6, <1>7

\* And a smallest.
LEMMA HasMin ==
    ASSUME NEW S, S \subseteq Int, IsFiniteSet(S), S # {}
    PROVE  \E x \in S : \A y \in S : x <= y
<1> DEFINE B == {T \in SUBSET S : T # {} /\ ~ \E x \in T : \A y \in T : x <= y}
<1>1. SUFFICES ASSUME B # {} PROVE FALSE
    OBVIOUS
<1>2. PICK T \in B : \A c \in B : c \subseteq T => c = T
  <2>1. B \in SUBSET SUBSET S OBVIOUS
  <2>2. B # {} BY <1>1
  <2>3. IsFiniteSet(S) OBVIOUS
  <2> HIDE DEF B
  <2> QED BY ONLY <2>1, <2>2, <2>3, MinimalSubset
<1>3. PICK x \in T : TRUE
    BY <1>2
<1>4. T \in SUBSET S /\ T # {} /\ ~ \E z \in T : \A y \in T : z <= y
    BY <1>2
<1>5. T \ {x} \notin B
    BY <1>2, <1>3
<1>6. CASE T = {x}
    BY <1>4, <1>6
<1>7. CASE T # {x}
  <2>1. PICK z \in T \ {x} : \A y \in T \ {x} : z <= y
      BY <1>3, <1>4, <1>5, <1>7
  <2>2. x \in Int /\ z \in Int /\ \A y \in T : y \in Int
      BY <1>4
  <2>3. CASE z <= x
      BY <1>4, <2>1, <2>2, <2>3
  <2>4. CASE x <= z
    <3>1. \A y \in T : x <= y
        BY <2>1, <2>2, <2>4
    <3> QED BY <1>4, <3>1
  <2> QED BY <2>2, <2>3, <2>4
<1> QED BY <1>6, <1>7

\* Every set of natural numbers has a smallest.
LEMMA LeastNatural ==
    ASSUME NEW B \in SUBSET Nat, B # {}
    PROVE  \E n \in B : \A m \in B : n <= m
<1>1. PICK b \in B : TRUE
    OBVIOUS
<1>2. IsFiniteSet(B \cap (0..b)) /\ b \in B \cap (0..b)
  <2>1. b \in Nat /\ IsFiniteSet(0..b)
      BY <1>1, FS_Interval
  <2>2. B \cap (0..b) \in SUBSET (0..b)
      OBVIOUS
  <2>3. IsFiniteSet(B \cap (0..b))
      BY ONLY <2>1, <2>2, FS_Subset
  <2> QED BY <1>1, <2>1, <2>3
<1>3. PICK n \in B \cap (0..b) : \A m \in B \cap (0..b) : n <= m
    BY <1>2, HasMin
<1> QED BY <1>1, <1>3

-----------------------------------------------------------------------------
(* Largest and smallest numbers.                                           *)

\* The larger and the smaller of two numbers.
LEMMA MaxOfTwo == \A a, b \in Int : Max({a, b}) = IF a <= b THEN b ELSE a
<1> SUFFICES ASSUME NEW a \in Int, NEW b \in Int
             PROVE  Max({a, b}) = IF a <= b THEN b ELSE a
    OBVIOUS
<1> DEFINE m == IF a <= b THEN b ELSE a
<1>1. m \in {a, b} /\ \A y \in {a, b} : m >= y
    OBVIOUS
<1>2. \A n \in {a, b} : (\A y \in {a, b} : n >= y) => n = m
    OBVIOUS
<1> HIDE DEF m
<1>3. Max({a, b}) = m
    BY <1>1, <1>2 DEF Max
<1> QED BY <1>3 DEF m

LEMMA MinOfTwo == \A a, b \in Int : Min({a, b}) = IF a <= b THEN a ELSE b
<1> SUFFICES ASSUME NEW a \in Int, NEW b \in Int
             PROVE  Min({a, b}) = IF a <= b THEN a ELSE b
    OBVIOUS
<1> DEFINE m == IF a <= b THEN a ELSE b
<1>1. m \in {a, b} /\ \A y \in {a, b} : m <= y
    OBVIOUS
<1>2. \A n \in {a, b} : (\A y \in {a, b} : n <= y) => n = m
    OBVIOUS
<1> HIDE DEF m
<1>3. Min({a, b}) = m
    BY <1>1, <1>2 DEF Min
<1> QED BY <1>3 DEF m

\* The largest and the smallest of a finite set of numbers.
LEMMA MaxIs ==
    ASSUME NEW S, S \subseteq Int, IsFiniteSet(S), S # {}
    PROVE  Max(S) \in S /\ \A y \in S : y <= Max(S)
<1>1. PICK x \in S : \A y \in S : y <= x
    BY HasMax
<1>2. \A y \in S : x >= y
    BY <1>1
<1>3. Max(S) \in S /\ \A y \in S : Max(S) >= y
    BY <1>2 DEF Max
<1> QED BY <1>3

LEMMA MinIs ==
    ASSUME NEW S, S \subseteq Int, IsFiniteSet(S), S # {}
    PROVE  Min(S) \in S /\ \A y \in S : Min(S) <= y
<1>1. PICK x \in S : \A y \in S : x <= y
    BY HasMin
<1> QED BY <1>1 DEF Min

\* What a function makes of a finite set is finite.
LEMMA ImageFinite ==
    ASSUME NEW S, IsFiniteSet(S), NEW f
    PROVE  IsFiniteSet({f[x] : x \in S})
<1> DEFINE T == {f[x] : x \in S}
           g == [x \in S |-> f[x]]
<1>1. g \in Surjection(S, T)
    BY DEF Surjection
<1> HIDE DEF T, g
<1>2. IsFiniteSet(T)
    BY <1>1, FS_Surjection
<1> QED BY <1>2 DEF T

\* A function on the first numbers is a sequence.
LEMMA SequenceOf ==
    ASSUME NEW S, NEW n \in Nat, NEW f \in [1..n -> S]
    PROVE  f \in Seq(S) /\ Len(f) = n /\ DOMAIN f = 1..n
<1>1. f \in Seq(S)
    OBVIOUS
<1>2. Len(f) \in Nat /\ DOMAIN f = 1..Len(f)
    BY <1>1
<1>3. 1..Len(f) = 1..n
    BY <1>2
<1> QED BY <1>1, <1>2, <1>3

-----------------------------------------------------------------------------
(* Folding a sequence with a function.                                     *)

\* Finitely many indices.
Indices(S) == S \subseteq Nat /\ IsFiniteSet(S)

\* g is the function that FoldLeft recurses with, from the last of a set of indices on.
Folding(g, F, base, s, S) ==
    g = [T \in SUBSET S |-> IF T = {} THEN base ELSE F[g[T \ {Max(T)}]][s[Max(T)]]]

LEMMA FoldingAt ==
    ASSUME NEW F, NEW base, NEW s, NEW S, NEW g, Folding(g, F, base, s, S),
           NEW T, T \in SUBSET S
    PROVE  g[T] = IF T = {} THEN base ELSE F[g[T \ {Max(T)}]][s[Max(T)]]
BY Zenon DEF Folding

LEMMA MaxOfPart ==
    ASSUME NEW S, Indices(S), NEW T \in SUBSET S, T # {}
    PROVE  /\ Max(T) \in T /\ \A y \in T : y <= Max(T)
           /\ T \ {Max(T)} \in SUBSET S /\ T \ {Max(T)} # T /\ T \ {Max(T)} \in SUBSET T
<1>1. IsFiniteSet(T)
    BY FS_Subset DEF Indices
<1>2. T \subseteq Int
    BY DEF Indices
<1>3. Max(T) \in T /\ \A y \in T : y <= Max(T)
    BY <1>1, <1>2, MaxIs
<1> QED BY <1>3

\* Two such functions agree where both are defined.
LEMMA FoldingUnique ==
    ASSUME NEW F, NEW base, NEW s, NEW S, Indices(S),
           NEW g, Folding(g, F, base, s, S),
           NEW T, T \in SUBSET S, NEW h, Folding(h, F, base, s, T)
    PROVE  g[T] = h[T]
<1> DEFINE B == {U \in SUBSET T : g[U] # h[U]}
<1>1. SUFFICES ASSUME B # {} PROVE FALSE
    BY Zenon
<1>2. IsFiniteSet(T) /\ B \in SUBSET SUBSET T
    BY FS_Subset DEF Indices
<1> HIDE DEF B
<1>3. PICK b \in B : \A c \in B : c \subseteq b => c = b
    BY ONLY <1>1, <1>2, MinimalSubset
<1>4. b \in SUBSET T /\ b \in SUBSET S /\ g[b] # h[b]
    BY <1>3 DEF B
<1> DEFINE m == Max(b)
<1>5. g[b] = (IF b = {} THEN base ELSE F[g[b \ {m}]][s[m]])
    BY ONLY Folding(g, F, base, s, S), <1>4, Zenon DEF Folding
<1>6. h[b] = (IF b = {} THEN base ELSE F[h[b \ {m}]][s[m]])
    BY ONLY Folding(h, F, base, s, T), <1>4, Zenon DEF Folding
<1>7. b # {} => b \ {m} \in SUBSET b /\ b \ {m} # b
    BY <1>4, MaxOfPart
<1> HIDE DEF m
<1>8. b # {} => g[b \ {m}] = h[b \ {m}]
    BY <1>3, <1>4, <1>7 DEF B
<1> QED BY <1>4, <1>5, <1>6, <1>8

\* There is such a function.
LEMMA FoldingExists ==
    ASSUME NEW F, NEW base, NEW s, NEW S, Indices(S)
    PROVE  \E g : Folding(g, F, base, s, S)
<1> DEFINE B == {T \in SUBSET S : ~ \E g : Folding(g, F, base, s, T)}
<1>1. SUFFICES ASSUME B # {} PROVE FALSE
    OBVIOUS
<1>2. PICK T \in B : \A c \in B : c \subseteq T => c = T
  <2>1. B \in SUBSET SUBSET S
      OBVIOUS
  <2> HIDE DEF B
  <2>2. IsFiniteSet(S)
      BY DEF Indices
  <2> QED BY ONLY <2>2, <1>1, <2>1, MinimalSubset
<1> DEFINE H(U) == CHOOSE g : Folding(g, F, base, s, U)
           less(U) == U \ {Max(U)}
           g == [U \in SUBSET T |->
                   IF U = {} THEN base ELSE F[H(less(U))[less(U)]][s[Max(U)]]]
<1>3. T \in SUBSET S /\ Indices(T)
    BY FS_Subset DEF Indices
<1>4. ASSUME NEW U \in SUBSET T, U # T PROVE Folding(H(U), F, base, s, U)
  <2>1. U \notin B
      BY <1>2, <1>4
  <2>2. \E k : Folding(k, F, base, s, U)
      BY <1>3, <2>1
  <2> QED BY <2>2
<1>5. ASSUME NEW V \in SUBSET T, V # T PROVE g[V] = H(V)[V]
  <2>1. Folding(H(V), F, base, s, V) BY <1>4, <1>5
  <2> DEFINE W == less(V)
  <2>2. H(V)[V] = IF V = {} THEN base ELSE F[H(V)[W]][s[Max(V)]]
    <3>1. V \in SUBSET V
        OBVIOUS
    <3> HIDE DEF H
    <3> QED BY ONLY <2>1, <3>1, Zenon DEF Folding
  <2>3. g[V] = IF V = {} THEN base ELSE F[H(W)[W]][s[Max(V)]]
    <3> HIDE DEF H
    <3> QED OBVIOUS
  <2>4. ASSUME V # {} PROVE H(V)[W] = H(W)[W]
    <3>0. Indices(V)
        BY <1>3, <1>5, FS_Subset DEF Indices
    <3>1. W \in SUBSET T /\ W # T /\ W \in SUBSET V
        BY <1>5, <2>4, <3>0, MaxOfPart
    <3>2. Folding(H(W), F, base, s, W)
      <4> HIDE DEF H, W
      <4> QED BY <1>4, <3>1
    <3> HIDE DEF H, W
    <3> QED BY ONLY <2>1, <3>0, <3>1, <3>2, FoldingUnique
  <2> HIDE DEF H, W, g
  <2> QED BY <2>2, <2>3, <2>4
<1>6. \A U \in SUBSET T : g[U] = IF U = {} THEN base ELSE F[g[less(U)]][s[Max(U)]]
  <2> SUFFICES ASSUME NEW U \in SUBSET T
               PROVE  g[U] = IF U = {} THEN base ELSE F[g[less(U)]][s[Max(U)]]
      BY Zenon
  <2>1. g[U] = IF U = {} THEN base ELSE F[H(less(U))[less(U)]][s[Max(U)]]
    <3> HIDE DEF H
    <3> QED OBVIOUS
  <2>2. U # {} => less(U) \in SUBSET T /\ less(U) # T
    <3>1. CASE U # {}
        BY <1>3, <3>1, MaxOfPart
    <3> QED BY <3>1
  <2> HIDE DEF H, g, less
  <2> QED BY <1>5, <2>1, <2>2
<1>7. g = [U \in SUBSET T |-> g[U]]
  <2> HIDE DEF H
  <2> QED OBVIOUS
<1>8. Folding(g, F, base, s, T)
  <2> HIDE DEF g
  <2> QED BY <1>6, <1>7 DEF Folding
<1>9. T \in B
    BY <1>2
<1> HIDE DEF g
<1> QED BY <1>8, <1>9

\* Its values are of the type that the function folded with keeps.
LEMMA FoldingTyped ==
    ASSUME NEW V, NEW E, NEW F, \A v \in V : \A e \in E : F[v][e] \in V,
           NEW base \in V, NEW s \in Seq(E), NEW g, Folding(g, F, base, s, 1..Len(s))
    PROVE  \A T \in SUBSET (1..Len(s)) : g[T] \in V
<1> DEFINE D == 1..Len(s)
           B == {U \in SUBSET D : g[U] \notin V}
<1>1. SUFFICES ASSUME B # {} PROVE FALSE
    BY Zenon
<1>2. IsFiniteSet(D) /\ B \in SUBSET SUBSET D
  <2>1. 1 \in Int /\ Len(s) \in Int
      OBVIOUS
  <2>2. IsFiniteSet(D)
      BY <2>1, FS_Interval
  <2>3. B \in SUBSET SUBSET D
      BY Zenon
  <2> QED BY <2>2, <2>3
<1> HIDE DEF B, D
<1>0. Folding(g, F, base, s, D)
    BY DEF D
<1>3. PICK b \in B : \A c \in B : c \subseteq b => c = b
    BY ONLY <1>1, <1>2, MinimalSubset
<1>4. b \in SUBSET D /\ g[b] \notin V
    BY <1>3 DEF B
<1> DEFINE m == Max(b)
<1>5. g[b] = (IF b = {} THEN base ELSE F[g[b \ {m}]][s[m]])
    BY ONLY <1>0, <1>4, Zenon DEF Folding
<1>6. b # {} => m \in b /\ b \ {m} \in SUBSET b /\ b \ {m} # b
  <2>1. Indices(D)
      BY <1>2 DEF D, Indices
  <2> QED BY <1>2, <1>4, <2>1, MaxOfPart
<1> HIDE DEF m
<1>7. b # {} => g[b \ {m}] \in V
    BY <1>3, <1>4, <1>6 DEF B
<1>8. b # {} => s[m] \in E
  <2>1. b # {} => m \in D
      BY <1>4, <1>6
  <2> QED BY <2>1 DEF D
<1> QED BY <1>4, <1>5, <1>7, <1>8

\* result is what base becomes by the elements of s, one after the other.
FoldsTo(result, V, F, base, s) ==
    \E m \in [0..Len(s) -> V] :
        /\ m[0] = base /\ result = m[Len(s)]
        /\ \A k \in 1..Len(s) : m[k] = F[m[k - 1]][s[k]]

LEMMA MaxOfPrefix == \A k \in Nat \ {0} : Max(1..k) = k /\ (1..k) \ {k} = 1..(k - 1)
<1> SUFFICES ASSUME NEW k \in Nat \ {0} PROVE Max(1..k) = k /\ (1..k) \ {k} = 1..(k - 1)
    OBVIOUS
<1>1. k \in 1..k /\ (\A y \in 1..k : k >= y)
    OBVIOUS
<1>2. \A n \in 1..k : (\A y \in 1..k : n >= y) => n = k
    BY <1>1
<1>3. Max(1..k) = k
    BY <1>1, <1>2 DEF Max
<1> QED BY <1>3

LEMMA FoldingPrefixes ==
    ASSUME NEW V, NEW E, NEW F, \A v \in V : \A e \in E : F[v][e] \in V,
           NEW base \in V, NEW s \in Seq(E), NEW g, Folding(g, F, base, s, 1..Len(s))
    PROVE  FoldsTo(g[1..Len(s)], V, F, base, s)
<1> DEFINE n == Len(s)
           m == [k \in 0..n |-> g[1..k]]
<1>1. n \in Nat
    OBVIOUS
<1>2. \A k \in 0..n : 1..k \in SUBSET (1..n)
    BY <1>1
<1>3. m \in [0..n -> V]
    BY <1>2, FoldingTyped
<1>4. m[0] = base
  <2>1. 1..0 = {} /\ {} \in SUBSET (1..n)
      OBVIOUS
  <2>2. g[{}] = base
      BY ONLY Folding(g, F, base, s, 1..n), <2>1, Zenon DEF Folding
  <2> QED BY <1>1, <2>1, <2>2
<1>5. ASSUME NEW k \in 1..n PROVE m[k] = F[m[k - 1]][s[k]]
  <2>1. k \in 0..n /\ k - 1 \in 0..n /\ k \in Nat \ {0}
      BY <1>1
  <2>2. 1..k # {} /\ 1..k \in SUBSET (1..n)
    <3>1. 1 \in 1..k
        BY <2>1
    <3> QED BY <1>2, <2>1, <3>1
  <2>3. g[1..k] = F[g[(1..k) \ {Max(1..k)}]][s[Max(1..k)]]
      BY ONLY Folding(g, F, base, s, 1..n), <2>2, Zenon DEF Folding
  <2>4. Max(1..k) = k /\ (1..k) \ {k} = 1..(k - 1)
      BY <2>1, MaxOfPrefix
  <2>5. g[1..k] = F[g[1..(k - 1)]][s[k]]
      BY <2>3, <2>4
  <2> QED BY <2>1, <2>5
<1>6. g[1..n] = m[n]
    BY <1>1
<1> HIDE DEF m
<1> QED BY <1>3, <1>4, <1>5, <1>6 DEF FoldsTo

LEMMA IndicesOf == \A S : \A s \in Seq(S) : Indices(1..Len(s)) /\ DOMAIN s = 1..Len(s)
<1> SUFFICES ASSUME NEW S, NEW s \in Seq(S)
             PROVE  Indices(1..Len(s)) /\ DOMAIN s = 1..Len(s)
    OBVIOUS
<1>1. Len(s) \in Nat /\ DOMAIN s = 1..Len(s)
    OBVIOUS
<1>2. 1 \in Int /\ Len(s) \in Int
    BY <1>1
<1>3. IsFiniteSet(1..Len(s))
    BY ONLY <1>2, FS_Interval
<1>4. 1..Len(s) \subseteq Nat
    BY <1>1
<1> QED BY <1>1, <1>3, <1>4 DEF Indices

\* A function may fold with more than the values that come up.
LEMMA FoldsLike ==
    ASSUME NEW V, NEW E, NEW F, \A v \in V : \A e \in E : F[v][e] \in V,
           NEW base \in V, NEW s \in Seq(E),
           NEW G, \A v \in V : \A e \in E : G[v][e] = F[v][e],
           NEW h, Folding(h, G, base, s, 1..Len(s))
    PROVE  FoldsTo(h[1..Len(s)], V, F, base, s)
<1>1. \A v \in V : \A e \in E : G[v][e] \in V
    OBVIOUS
<1>2. FoldsTo(h[1..Len(s)], V, G, base, s)
    BY ONLY <1>1, base \in V, s \in Seq(E), Folding(h, G, base, s, 1..Len(s)), FoldingPrefixes
<1> DEFINE result == h[1..Len(s)]
<1> HIDE DEF result
<1>3. PICK m \in [0..Len(s) -> V] :
          /\ m[0] = base /\ result = m[Len(s)]
          /\ \A k \in 1..Len(s) : m[k] = G[m[k - 1]][s[k]]
    BY <1>2 DEF FoldsTo, result
<1>4. ASSUME NEW k \in 1..Len(s) PROVE m[k] = F[m[k - 1]][s[k]]
  <2>1. k - 1 \in 0..Len(s) /\ s[k] \in E
      OBVIOUS
  <2> QED BY <1>3, <2>1
<1>5. FoldsTo(result, V, F, base, s)
    BY <1>3, <1>4 DEF FoldsTo
<1> QED BY <1>5 DEF result

-----------------------------------------------------------------------------
(* Sorting: an order is given by what comes before each element.           *)

Ordering(before, S) ==
    /\ \A a \in S : a \notin before[a]
    /\ \A a, b, c \in S : a \in before[b] /\ b \in before[c] => a \in before[c]
    /\ \A a, b \in S : a = b \/ a \in before[b] \/ b \in before[a]

\* Where an element is when a set is sorted.
Placed(S, before) == [a \in S |-> Cardinality(before[a]) + 1]

\* The places of a sorted set are the numbers up to its size, in its order.
LEMMA PlacesAre ==
    ASSUME NEW S, IsFiniteSet(S), NEW before \in [S -> SUBSET S], Ordering(before, S)
    PROVE  LET place == Placed(S, before)
               n == Cardinality(S)
           IN  /\ n \in Nat /\ place \in [S -> 1..n]
               /\ \A a, b \in S : place[a] < place[b] => a \in before[b]
               /\ \A k \in 1..n : \E a \in S : place[a] = k
               /\ \A a, b \in S : place[a] = place[b] => a = b
<1> DEFINE place == Placed(S, before)
           n == Cardinality(S)
<1>1. n \in Nat
    BY FS_CardinalityType
<1>2. ASSUME NEW a \in S
      PROVE  IsFiniteSet(before[a]) /\ Cardinality(before[a]) \in 0..(n - 1)
  <2>1. before[a] \in SUBSET S /\ before[a] # S
      BY DEF Ordering
  <2>2. IsFiniteSet(before[a]) /\ Cardinality(before[a]) <= n /\ Cardinality(before[a]) # n
      BY ONLY <2>1, IsFiniteSet(S), FS_Subset
  <2>3. Cardinality(before[a]) \in Nat
      BY ONLY <2>2, FS_CardinalityType
  <2> HIDE DEF n
  <2> QED BY <1>1, <2>2, <2>3
<1>3. place \in [S -> 1..n]
  <2>1. \A a \in S : Cardinality(before[a]) + 1 \in 1..n
    <3> HIDE DEF n
    <3> QED BY <1>1, <1>2
  <2> HIDE DEF n
  <2> QED BY <2>1 DEF Placed
<1>4. ASSUME NEW a \in S, NEW b \in S, a \in before[b] PROVE place[a] < place[b]
  <2>1. before[a] \in SUBSET before[b] /\ before[a] # before[b]
      BY <1>4 DEF Ordering
  <2>2. IsFiniteSet(before[b])
      BY <1>2
  <2>3. /\ Cardinality(before[a]) <= Cardinality(before[b])
        /\ Cardinality(before[a]) # Cardinality(before[b])
      BY ONLY <2>1, <2>2, FS_Subset
  <2>4. Cardinality(before[a]) \in Int /\ Cardinality(before[b]) \in Int
    <3> HIDE DEF n
    <3> QED BY <1>1, <1>2
  <2>5. place[a] = Cardinality(before[a]) + 1 /\ place[b] = Cardinality(before[b]) + 1
      BY DEF Placed
  <2> HIDE DEF place
  <2> QED BY <2>3, <2>4, <2>5
<1> HIDE DEF place, n
<1>5. \A a \in S : place[a] \in Nat
    BY <1>1, <1>3
<1>6. ASSUME NEW a \in S, NEW b \in S, place[a] < place[b] PROVE a \in before[b]
  <2>1. ~(place[b] < place[a]) /\ place[a] # place[b]
      BY <1>5, <1>6
  <2> QED BY <1>4, <2>1 DEF Ordering
<1>7. \A a, b \in S : place[a] = place[b] => a = b
  <2>1. \A a, b \in S : place[a] < place[b] => place[a] # place[b]
      BY <1>5
  <2> QED BY <1>4, <2>1 DEF Ordering
<1>8. place \in Injection(S, 1..n)
    BY <1>3, <1>7 DEF Injection, IsInjective
<1>9. IsFiniteSet(1..n) /\ Cardinality(1..n) = n
    BY <1>1, FS_Interval
<1>10. place \in Surjection(S, 1..n)
    BY <1>8, <1>9, FS_Injection DEF n
<1>11. \A k \in 1..n : \E a \in S : place[a] = k
    BY <1>10 DEF Surjection
<1> QED BY <1>1, <1>3, <1>6, <1>7, <1>11 DEF place, n

\* Sorting a set: what is at each place.
Arranged(order, S, before) ==
    LET n == Cardinality(S) IN
    /\ order \in [1..n -> S]
    /\ \A a \in S : \E k \in 1..n : order[k] = a
    /\ \A k, l \in 1..n : k < l => order[k] \in before[order[l]]

LEMMA ArrangedIs ==
    ASSUME NEW S, IsFiniteSet(S), NEW before \in [S -> SUBSET S], Ordering(before, S),
           NEW order, order = [k \in 1..Cardinality(S) |-> order[k]],
           \A k \in 1..Cardinality(S) :
               (\E a \in S : Placed(S, before)[a] = k) =>
                   order[k] \in S /\ Placed(S, before)[order[k]] = k
    PROVE  Arranged(order, S, before)
<1> DEFINE place == Placed(S, before)
           n == Cardinality(S)
<1>1. /\ n \in Nat /\ place \in [S -> 1..n]
      /\ \A a, b \in S : place[a] < place[b] => a \in before[b]
      /\ \A k \in 1..n : \E a \in S : place[a] = k
      /\ \A a, b \in S : place[a] = place[b] => a = b
    BY PlacesAre
<1>2. \A k \in 1..n : order[k] \in S /\ place[order[k]] = k
    BY <1>1
<1>0. order = [k \in 1..n |-> order[k]]
    OBVIOUS
<1> HIDE DEF place, n
<1>3. order \in [1..n -> S]
    BY <1>0, <1>2
<1>4. \A a \in S : place[a] \in 1..n /\ order[place[a]] = a
    BY <1>1, <1>2
<1>5. \A a \in S : \E k \in 1..n : order[k] = a
    BY <1>4
<1>6. ASSUME NEW k \in 1..n, NEW l \in 1..n, k < l PROVE order[k] \in before[order[l]]
    BY <1>1, <1>2, <1>6
<1> QED BY <1>3, <1>5, <1>6 DEF Arranged, n, place

-----------------------------------------------------------------------------
(* Suppression: of a sequence, in its order, everything is kept that is no *)
(* waste and clashes with nothing kept before, up to a number.             *)

Suppression(E, waste, clash, most) ==
    [kept \in Seq(E) |-> [d \in E |->
        IF d \in waste \/ Len(kept) >= most \/ \E i \in DOMAIN kept : kept[i] \in clash[d]
        THEN kept ELSE Append(kept, d)]]

\* What is kept of the first k elements of s, and where it was.
KeptOf(kept, p, s, k, waste, clash, most) ==
    LET all == 1..Len(kept) IN
    /\ Len(kept) <= most /\ p \in [all -> 1..k]
    /\ \A i, j \in all : i < j => kept[i] \notin clash[kept[j]]
    /\ \A i \in all : kept[i] = s[p[i]] /\ kept[i] \notin waste
    /\ \A i, j \in all : i < j => p[i] < p[j]
    /\ \A l \in 1..k :
           \/ s[l] \in waste
           \/ \E i \in all : p[i] <= l /\ (kept[i] = s[l] \/ kept[i] \in clash[s[l]])
           \/ Len(kept) = most /\ \A i \in all : p[i] <= l

Survivors(kept, s, k, waste, clash, most) ==
    \E p : KeptOf(kept, p, s, k, waste, clash, most)

LEMMA SuppressionTyped ==
    ASSUME NEW E, NEW waste, NEW clash, NEW most
    PROVE  Suppression(E, waste, clash, most) \in [Seq(E) -> [E -> Seq(E)]]
<1>1. \A kept \in Seq(E), d \in E : Append(kept, d) \in Seq(E)
    BY AppendProperties
<1> QED BY <1>1 DEF Suppression

\* One more element.
LEMMA SurvivorsGrow ==
    ASSUME NEW E, NEW waste, NEW clash, NEW most \in Nat, NEW s \in Seq(E),
           NEW k \in 1..Len(s), NEW kept \in Seq(E), NEW p,
           KeptOf(kept, p, s, k - 1, waste, clash, most),
           NEW next, next = Suppression(E, waste, clash, most)[kept][s[k]]
    PROVE  Survivors(next, s, k, waste, clash, most)
<1> DEFINE d == s[k]
<1>1. d \in E /\ k \in Nat \ {0} /\ Len(kept) \in Nat /\ Len(kept) <= most
    BY DEF KeptOf
<1>2. next = IF d \in waste \/ Len(kept) >= most \/ \E i \in DOMAIN kept : kept[i] \in clash[d]
             THEN kept ELSE Append(kept, d)
    BY <1>1 DEF Suppression
<1>3. DOMAIN kept = 1..Len(kept)
    OBVIOUS
<1>0. \A i \in 1..Len(kept) : p[i] \in 1..(k - 1)
    BY DEF KeptOf
<1>4. CASE d \in waste \/ Len(kept) >= most \/ \E i \in DOMAIN kept : kept[i] \in clash[d]
  <2>1. next = kept
      BY <1>2, <1>4
  <2>2. p \in [1..Len(kept) -> 1..k]
      BY <1>1 DEF KeptOf
  <2>3. \A i \in 1..Len(kept) : p[i] <= k
      BY <1>0, <1>1
  <2>4. Len(kept) >= most => Len(kept) = most
      BY <1>1
  <2>5. \A l \in 1..k : l # k => l \in 1..(k - 1)
      BY <1>1
  <2>6. ASSUME NEW l \in 1..k
        PROVE  \/ s[l] \in waste
               \/ \E i \in 1..Len(kept) : p[i] <= l /\ (kept[i] = s[l] \/ kept[i] \in clash[s[l]])
               \/ Len(kept) = most /\ \A i \in 1..Len(kept) : p[i] <= l
    <3>1. CASE l = k
        BY <1>3, <1>4, <2>3, <2>4, <3>1
    <3>2. CASE l \in 1..(k - 1)
        BY <3>2 DEF KeptOf
    <3> QED BY <2>5, <3>1, <3>2
  <2>7. KeptOf(kept, p, s, k, waste, clash, most)
      BY <2>2, <2>6 DEF KeptOf
  <2> QED BY <2>1, <2>7 DEF Survivors
<1>5. CASE ~(d \in waste \/ Len(kept) >= most \/ \E i \in DOMAIN kept : kept[i] \in clash[d])
  <2> DEFINE n == Len(kept)
             q == [i \in 1..(n + 1) |-> IF i = n + 1 THEN k ELSE p[i]]
  <2>1. next = Append(kept, d)
      BY <1>2, <1>5
  <2>2. /\ Len(next) = n + 1 /\ next[n + 1] = d
        /\ \A i \in 1..n : next[i] = kept[i]
      BY <1>1, <2>1, AppendProperties
  <2>3. n \in Nat /\ n + 1 <= most
      BY <1>1, <1>5
  <2>4. \A i \in 1..(n + 1) : i # n + 1 => i \in 1..n
      BY <2>3
  <2>5. \A i \in 1..n : i \in 1..(n + 1) /\ i # n + 1 /\ q[i] = p[i] /\ p[i] \in 1..(k - 1)
      BY <1>0, <2>3
  <2>6. q[n + 1] = k /\ n + 1 \in 1..(n + 1)
      BY <2>3
  <2>7. q \in [1..(n + 1) -> 1..k]
    <3>1. \A i \in 1..(n + 1) : q[i] \in 1..k
      <4> HIDE DEF q
      <4> QED BY <1>1, <2>4, <2>5, <2>6
    <3> QED BY <3>1
  <2> HIDE DEF q
  <2>8. ASSUME NEW i \in 1..(n + 1), NEW j \in 1..(n + 1), i < j
        PROVE  q[i] < q[j] /\ next[i] \notin clash[next[j]]
    <3>1. i \in 1..n
        BY <2>3, <2>8
    <3>2. CASE j = n + 1
      <4>1. q[i] \in 1..(k - 1) /\ q[j] = k
          BY <2>5, <2>6, <3>1, <3>2
      <4>2. next[i] = kept[i] /\ next[j] = d
          BY <2>2, <3>1, <3>2
      <4>3. kept[i] \notin clash[d]
          BY <1>3, <1>5, <3>1
      <4> QED BY <1>1, <4>1, <4>2, <4>3
    <3>3. CASE j \in 1..n
        BY <2>2, <2>5, <2>8, <3>1, <3>3 DEF KeptOf
    <3> QED BY <2>4, <3>2, <3>3
  <2>9. ASSUME NEW i \in 1..(n + 1) PROVE next[i] = s[q[i]] /\ next[i] \notin waste
    <3>1. CASE i = n + 1
        BY <1>5, <2>2, <2>6, <3>1
    <3>2. CASE i \in 1..n
        BY <2>2, <2>5, <3>2 DEF KeptOf
    <3> QED BY <2>4, <3>1, <3>2
  <2>10. ASSUME NEW l \in 1..k
         PROVE  \/ s[l] \in waste
                \/ \E i \in 1..(n + 1) :
                       q[i] <= l /\ (next[i] = s[l] \/ next[i] \in clash[s[l]])
                \/ n + 1 = most /\ \A i \in 1..(n + 1) : q[i] <= l
    <3>1. CASE l = k
        BY <1>1, <2>2, <2>6, <3>1
    <3>2. CASE l \in 1..(k - 1)
      <4>1. n # most
          BY <2>3
      <4>2. \/ s[l] \in waste
            \/ \E i \in 1..n : p[i] <= l /\ (kept[i] = s[l] \/ kept[i] \in clash[s[l]])
          BY <3>2, <4>1 DEF KeptOf
      <4> QED BY <2>2, <2>5, <4>2
    <3>3. l = k \/ l \in 1..(k - 1)
        BY <1>1
    <3> QED BY <3>1, <3>2, <3>3
  <2>11. KeptOf(next, q, s, k, waste, clash, most)
    <3> HIDE DEF n
    <3> QED BY <2>2, <2>3, <2>7, <2>8, <2>9, <2>10 DEF KeptOf
  <2> QED BY <2>11 DEF Survivors
<1> QED BY <1>4, <1>5

\* What is kept of the whole sequence.
LEMMA SurvivorsAre ==
    ASSUME NEW E, NEW waste, NEW clash, NEW most \in Nat, NEW s \in Seq(E), NEW kept,
           FoldsTo(kept, Seq(E), Suppression(E, waste, clash, most), <<>>, s)
    PROVE  kept \in Seq(E) /\ Survivors(kept, s, Len(s), waste, clash, most)
<1> DEFINE F == Suppression(E, waste, clash, most)
           n == Len(s)
<1>1. PICK m \in [0..n -> Seq(E)] :
          /\ m[0] = <<>> /\ kept = m[n]
          /\ \A k \in 1..n : m[k] = F[m[k - 1]][s[k]]
    BY DEF FoldsTo
<1>2. n \in Nat
    OBVIOUS
<1> DEFINE B == {k \in 0..n : ~Survivors(m[k], s, k, waste, clash, most)}
<1> HIDE DEF F, n
<1>3. ASSUME B # {} PROVE FALSE
  <2>1. B \in SUBSET Nat
      BY <1>2
  <2>2. PICK k \in B : \A l \in B : k <= l
    <3> HIDE DEF B
    <3> QED BY <1>3, <2>1, LeastNatural
  <2>3. k \in 0..n /\ ~Survivors(m[k], s, k, waste, clash, most)
      BY <2>2
  <2>4. CASE k = 0
    <3>1. m[k] = <<>> /\ Len(m[k]) = 0
        BY <1>1, <2>4
    <3>2. KeptOf(m[k], <<>>, s, k, waste, clash, most)
      <4>1. 1..Len(m[k]) = {} /\ 1..k = {}
          BY <2>4, <3>1
      <4>2. <<>> \in [1..Len(m[k]) -> 1..k]
          BY <4>1
      <4> QED BY <3>1, <4>1, <4>2 DEF KeptOf
    <3> QED BY <2>3, <3>2 DEF Survivors
  <2>5. CASE k # 0
    <3>1. k \in 1..n /\ k - 1 \in 0..n /\ k - 1 < k
        BY <1>2, <2>3, <2>5
    <3>2. k - 1 \notin B
        BY <1>2, <2>2, <3>1
    <3>3. Survivors(m[k - 1], s, k - 1, waste, clash, most)
        BY <3>1, <3>2
    <3>4. PICK p : KeptOf(m[k - 1], p, s, k - 1, waste, clash, most)
        BY <3>3 DEF Survivors
    <3>5. m[k - 1] \in Seq(E) /\ m[k] = F[m[k - 1]][s[k]]
        BY <1>1, <3>1
    <3>6. Survivors(m[k], s, k, waste, clash, most)
        BY <3>1, <3>4, <3>5, SurvivorsGrow DEF F, n
    <3> QED BY <2>3, <3>6
  <2> QED BY <2>4, <2>5
<1>4. n \in 0..n
    BY <1>2
<1>5. Survivors(m[n], s, n, waste, clash, most)
    BY <1>3, <1>4
<1> QED BY <1>1, <1>4, <1>5 DEF n
==============================================================================
