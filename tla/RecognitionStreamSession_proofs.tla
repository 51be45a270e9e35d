-------------------- MODULE RecognitionStreamSession_proofs --------------------
(***************************************************************************)
(* Proofs about RecognitionStreamSession and the vote and history of       *)
(* TemporalPlateConsensus it is built on, for any set of threads, any      *)
(* plates and readings and any bounds.                                     *)
(*                                                                         *)
(* The vote.  The code finds the winner and the runner-up in one pass over *)
(* the aggregates, ordered by plate.  Leads says what the pass has found   *)
(* after m of them; it is proved for one more of them (MeetLeads), so for  *)
(* all of them (ScanLeads), and gives the definition of a justified plate  *)
(* (ConsensusIsJustified).  RememberKeeps says what observe leaves of a    *)
(* history: its end, from some index on, and the new entry.  What holds of *)
(* a fold for every input is proved by minimal counterexample, over finite *)
(* sets or over natural numbers.                                           *)
(*                                                                         *)
(* The session.  StreamInv says what the log, the clock and the waiting    *)
(* calls are made of, that last_timestamp_ is the time of the last frame   *)
(* of the log, and that a closed session is empty.  AnswerInv adds what    *)
(* the answers are made of, that frames are completed in order of time,    *)
(* and that the filter remembers the last emission of the log, to the      *)
(* properties of the vote and of the cooldown.  Both are inductive.  The   *)
(* properties speak of the log alone, so the lemmas do: l is a log of n    *)
(* frames and l2 the same log with one more (Extends).  The heart of the   *)
(* argument is RememberIsWindow: a history that is what the bounds admit   *)
(* of the log becomes, by observe, what they admit of the longer log,      *)
(* although expire and trim never see again what they gave up.             *)
(***************************************************************************)
EXTENDS RecognitionStreamSession, CountsAndSums, SequenceTheorems

-----------------------------------------------------------------------------
(* The largest and the smallest of numbers.                                *)

\* The largest number of a set is its Max.
LEMMA LargestIs ==
    ASSUME NEW S, S \subseteq Int, NEW x \in S, \A y \in S : y <= x
    PROVE  Max(S) = x
<1>1. \E z \in S : \A y \in S : z >= y
    OBVIOUS
<1>2. Max(S) \in S /\ \A y \in S : Max(S) >= y
    BY <1>1 DEF Max
<1>3. Max(S) \in Int /\ x \in Int /\ Max(S) >= x /\ Max(S) <= x
    BY <1>2
<1> QED BY ONLY <1>3

\* The largest of two numbers.
LEMMA LargerOfTwo ==
    ASSUME NEW a \in Int, NEW b \in Int
    PROVE  Max({a, b}) = IF a >= b THEN a ELSE b
<1>1. CASE a >= b
  <2>1. {a, b} \subseteq Int /\ a \in {a, b} /\ \A y \in {a, b} : y <= a
      BY <1>1
  <2> QED BY <1>1, <2>1, LargestIs
<1>2. CASE ~ (a >= b)
  <2>1. {a, b} \subseteq Int /\ b \in {a, b} /\ \A y \in {a, b} : y <= b
      BY <1>2
  <2> QED BY <1>2, <2>1, LargestIs
<1> QED BY <1>1, <1>2

\* Max is one of the numbers.
LEMMA MaxIn == ASSUME NEW S, S \subseteq Int, IsFiniteSet(S), S # {} PROVE Max(S) \in S
BY HasMax, LargestIs

-----------------------------------------------------------------------------
(* The members of a set in order.                                          *)

\* s lists the n members of S, the smallest first.
Ascends(s, n, S) ==
    /\ s \in [1..n -> S]
    /\ \A i, j \in 1..n : i < j => s[i] < s[j]
    /\ \A x \in S : \E i \in 1..n : s[i] = x

\* It is as long as S has members.
LEMMA AscendsCounts ==
    ASSUME NEW S, S \subseteq Int, NEW n \in Nat, NEW s, Ascends(s, n, S)
    PROVE  IsFiniteSet(S) /\ Cardinality(S) = n
<1>1. \A i, j \in 1..n : s[i] = s[j] => i = j
  <2> SUFFICES ASSUME NEW i \in 1..n, NEW j \in 1..n, s[i] = s[j], i # j PROVE FALSE OBVIOUS
  <2>0. i \in Int /\ j \in Int /\ (i < j \/ j < i)
      OBVIOUS
  <2>1. s[i] \in Int /\ s[j] \in Int /\ (i < j \/ j < i)
      BY <2>0 DEF Ascends
  <2>2. s[i] < s[j] \/ s[j] < s[i]
      BY <2>1 DEF Ascends
  <2> QED BY <2>1, <2>2
<1>2. s \in Bijection(1..n, S)
    BY <1>1 DEF Ascends, Bijection, Injection, IsInjective, Surjection
<1>3. IsFiniteSet(1..n) /\ Cardinality(1..n) = n
    BY FS_Interval
<1> QED BY <1>2, <1>3, FS_Bijection DEF ExistsBijection

\* There is only one such list.
LEMMA AscendsOnce ==
    ASSUME NEW S, S \subseteq Int, NEW n \in Nat, NEW s, NEW t, Ascends(s, n, S), Ascends(t, n, S)
    PROVE  s = t
<1> DEFINE B == {i \in 1..n : s[i] # t[i]}
<1>1. SUFFICES ASSUME B # {} PROVE FALSE
    BY DEF Ascends
<1>2. PICK i \in B : \A j \in B : i <= j
  <2>1. B \in SUBSET Nat OBVIOUS
  <2> HIDE DEF B
  <2> QED BY <1>1, <2>1, LeastNatural
<1>3. i \in 1..n /\ s[i] # t[i] /\ \A j \in 1..n : j < i => s[j] = t[j]
    BY <1>2
<1> HIDE DEF B
<1>4. s[i] \in S /\ t[i] \in S /\ s[i] \in Int /\ t[i] \in Int
    BY <1>3 DEF Ascends
<1>5. ASSUME s[i] < t[i] PROVE FALSE
  <2>1. PICK k \in 1..n : t[k] = s[i]
      BY <1>4 DEF Ascends
  <2>2. k < i
    <3>1. CASE k = i BY <1>4, <1>5, <2>1, <3>1
    <3>2. CASE i < k
      <4>1. t[i] < t[k] BY <1>3, <3>2 DEF Ascends
      <4> QED BY <1>4, <1>5, <2>1, <4>1
    <3> QED BY <1>3, <3>1, <3>2
  <2>3. s[k] = s[i] /\ s[k] < s[i]
      BY <1>3, <2>1, <2>2 DEF Ascends
  <2> QED BY <1>4, <2>3
<1>6. ASSUME t[i] < s[i] PROVE FALSE
  <2>1. PICK k \in 1..n : s[k] = t[i]
      BY <1>4 DEF Ascends
  <2>2. k < i
    <3>1. CASE k = i BY <1>4, <1>6, <2>1, <3>1
    <3>2. CASE i < k
      <4>1. s[i] < s[k] BY <1>3, <3>2 DEF Ascends
      <4> QED BY <1>4, <1>6, <2>1, <4>1
    <3> QED BY <1>3, <3>1, <3>2
  <2>3. t[k] = t[i] /\ t[k] < t[i]
      BY <1>3, <2>1, <2>2 DEF Ascends
  <2> QED BY <1>4, <2>3
<1> QED BY <1>3, <1>4, <1>5, <1>6

\* Every finite set of numbers has one.
LEMMA AscendsExists ==
    ASSUME NEW S, S \subseteq Int, IsFiniteSet(S)
    PROVE  \E n \in Nat : \E s : Ascends(s, n, S)
<1> DEFINE B == {T \in SUBSET S : ~ \E n \in Nat : \E s : Ascends(s, n, T)}
<1>1. SUFFICES ASSUME B # {} PROVE FALSE
    OBVIOUS
<1>2. PICK T \in B : \A c \in B : c \subseteq T => c = T
  <2>1. B \in SUBSET SUBSET S OBVIOUS
  <2>2. B # {} BY <1>1
  <2>3. IsFiniteSet(S) OBVIOUS
  <2> HIDE DEF B
  <2> QED BY ONLY <2>1, <2>2, <2>3, MinimalSubset
<1>3. T \in SUBSET S /\ ~ \E n \in Nat : \E s : Ascends(s, n, T)
    BY <1>2
<1>4. T # {}
  <2>1. Ascends(<<>>, 0, {})
      BY DEF Ascends
  <2> QED BY <1>3, <2>1
<1>5. IsFiniteSet(T) /\ T \in SUBSET Int
    BY <1>3, FS_Subset
<1>6. PICK x \in T : \A y \in T : y <= x
    BY <1>4, <1>5, HasMax
<1>7. T \ {x} \notin B
    BY <1>2, <1>6
<1>8. PICK n \in Nat : \E s : Ascends(s, n, T \ {x})
    BY <1>3, <1>7
<1>8a. PICK s : Ascends(s, n, T \ {x})
    BY <1>8
<1> DEFINE t == [i \in 1..(n + 1) |-> IF i = n + 1 THEN x ELSE s[i]]
<1>9. /\ s \in [1..n -> T \ {x}] /\ \A i, j \in 1..n : i < j => s[i] < s[j]
      /\ \A y \in T \ {x} : \E i \in 1..n : s[i] = y
    BY <1>8a DEF Ascends
<1>10. /\ t[n + 1] = x /\ \A i \in 1..n : t[i] = s[i] /\ s[i] \in T \ {x}
       /\ \A i \in 1..(n + 1) : i = n + 1 \/ i \in 1..n
    BY <1>9
<1>11. t \in [1..(n + 1) -> T]
    BY <1>6, <1>9
<1> HIDE DEF t
<1>12. ASSUME NEW i \in 1..(n + 1), NEW j \in 1..(n + 1), i < j PROVE t[i] < t[j]
  <2>1. i \in 1..n
      BY <1>12
  <2>2. CASE j \in 1..n BY <1>9, <1>10, <1>12, <2>1, <2>2
  <2>3. CASE j = n + 1
    <3>1. t[i] \in T /\ t[i] # x /\ t[i] \in Int /\ x \in Int /\ t[i] <= x
        BY <1>5, <1>6, <1>10, <2>1
    <3> QED BY <1>10, <2>3, <3>1
  <2> QED BY <2>2, <2>3
<1>13. \A y \in T : \E i \in 1..(n + 1) : t[i] = y
  <2> SUFFICES ASSUME NEW y \in T PROVE \E i \in 1..(n + 1) : t[i] = y OBVIOUS
  <2>1. CASE y = x
    <3>1. n + 1 \in 1..(n + 1) OBVIOUS
    <3> QED BY <1>10, <2>1, <3>1
  <2>2. CASE y # x
    <3>1. PICK i \in 1..n : s[i] = y BY <1>9, <2>2
    <3>2. i \in 1..(n + 1) /\ t[i] = y BY <1>10, <3>1
    <3> QED BY <3>2
  <2> QED BY <2>1, <2>2
<1>14. Ascends(t, n + 1, T)
    BY <1>11, <1>12, <1>13 DEF Ascends
<1> QED BY <1>3, <1>14

\* The list that Ascending chooses is the one there is.
LEMMA AscendingAscends ==
    ASSUME NEW S, S \subseteq Int, IsFiniteSet(S)
    PROVE  /\ Ascends(Ascending(S), Cardinality(S), S)
           /\ Cardinality(S) \in Nat /\ DOMAIN Ascending(S) = 1..Cardinality(S)
<1> DEFINE c == Ascending(S)
           n == Cardinality(S)
<1>0. PICK m \in Nat : \E s : Ascends(s, m, S)
    BY AscendsExists
<1>1. PICK s : Ascends(s, m, S)
    BY <1>0
<1>2. m = n /\ n \in Nat
    BY <1>1, AscendsCounts
<1>3. /\ s \in [1..n -> S] /\ \A i, j \in DOMAIN s : i < j => s[i] < s[j]
    BY <1>1, <1>2 DEF Ascends
<1>4. /\ c \in [1..n -> S] /\ \A i, j \in DOMAIN c : i < j => c[i] < c[j]
    BY <1>3 DEF Ascending
<1> HIDE DEF c, n
<1>5. \A i, j \in 1..n : c[i] = c[j] => i = j
  <2> SUFFICES ASSUME NEW i \in 1..n, NEW j \in 1..n, c[i] = c[j], i # j PROVE FALSE OBVIOUS
  <2>1. c[i] \in Int /\ c[j] \in Int /\ i \in Int /\ j \in Int /\ DOMAIN c = 1..n
    <3>1. c[i] \in S /\ c[j] \in S /\ DOMAIN c = 1..n
        BY <1>4
    <3>2. n \in Nat
        BY <1>2
    <3>3. i \in Int /\ j \in Int
        BY ONLY <3>2, i \in 1..n, j \in 1..n
    <3>4. c[i] \in Int /\ c[j] \in Int
        BY ONLY <3>1, S \subseteq Int
    <3> QED BY <3>1, <3>3, <3>4
  <2>2. c[i] < c[j] \/ c[j] < c[i]
      BY <1>4, <2>1
  <2> QED BY <2>1, <2>2
<1>6. c \in Injection(1..n, S)
    BY <1>4, <1>5 DEF Injection, IsInjective
<1>7. IsFiniteSet(1..n) /\ Cardinality(1..n) = n
    BY <1>2, FS_Interval
<1>8. c \in Surjection(1..n, S)
    BY <1>6, <1>7, FS_Injection DEF n
<1> QED BY <1>2, <1>4, <1>8 DEF Ascends, Surjection, c, n

\* Any list of the members in order is the one that Ascending chooses.
LEMMA AscendingIs ==
    ASSUME NEW S, S \subseteq Int, NEW n \in Nat, NEW s, Ascends(s, n, S)
    PROVE  Ascending(S) = s
<1>1. IsFiniteSet(S) /\ Cardinality(S) = n
    BY AscendsCounts
<1> QED BY <1>1, AscendingAscends, AscendsOnce

-----------------------------------------------------------------------------
(* The scan is a fold over the candidates.                                 *)

\* Where the scan begins, and the function that FoldLeft recurses with.
Begin(h) == [winner |-> Head(Candidates(h)), runner_up |-> 0]
Scans(g, h, S) ==
    g = [s \in SUBSET S |->
            IF s = {} THEN Begin(h) ELSE Meet(h, g[s \ {Max(s)}], Candidates(h)[Max(s)])]

\* The scan is a value of that function.
LEMMA ScanDef ==
    ASSUME NEW h
    PROVE  Scan(h) = (CHOOSE g : Scans(g, h, DOMAIN Candidates(h)))[DOMAIN Candidates(h)]
BY Zenon DEF Scan, FoldLeft, MapThenFoldSet, Scans, Begin

\* Finitely many indices.
PlaceSet(S) == S \subseteq Int /\ IsFiniteSet(S)

\* Two such functions agree where both are defined.
LEMMA ScansUnique ==
    ASSUME NEW h, NEW S, PlaceSet(S), NEW g, Scans(g, h, S),
           NEW T \in SUBSET S, NEW k, Scans(k, h, T)
    PROVE  g[T] = k[T]
<1> DEFINE B == {s \in SUBSET T : g[s] # k[s]}
<1>1. SUFFICES ASSUME B # {} PROVE FALSE
    BY Zenon
<1>2. IsFiniteSet(T) /\ B \in SUBSET SUBSET T
    BY FS_Subset DEF PlaceSet
<1>2a. B # {} BY <1>1
<1> HIDE DEF B
<1>3. PICK b \in B : \A c \in B : c \subseteq b => c = b
    BY ONLY <1>2, <1>2a, MinimalSubset
<1>4. b \in SUBSET T /\ b \in SUBSET S /\ g[b] # k[b]
    BY <1>3 DEF B
<1> DEFINE rest == b \ {Max(b)}
           last == Candidates(h)[Max(b)]
<1>5. g[b] = (IF b = {} THEN Begin(h) ELSE Meet(h, g[rest], last))
  <2>1. Scans(g, h, S) /\ b \in SUBSET S
      BY <1>4
  <2> QED BY ONLY <2>1, Zenon DEF Scans
<1>6. k[b] = (IF b = {} THEN Begin(h) ELSE Meet(h, k[rest], last))
  <2>1. Scans(k, h, T) /\ b \in SUBSET T
      BY <1>4
  <2> QED BY ONLY <2>1, Zenon DEF Scans
<1>7. b # {} => rest \in SUBSET T /\ rest # b /\ rest \subseteq b
  <2>1. b \subseteq Int /\ IsFiniteSet(b)
      BY <1>4, FS_Subset DEF PlaceSet
  <2> QED BY <1>4, <2>1, MaxIn
<1>8. b # {} => g[rest] = k[rest]
    BY <1>3, <1>7 DEF B
<1> HIDE DEF rest, last
<1> QED BY <1>4, <1>5, <1>6, <1>8

\* There is such a function for every finite set of indices.
LEMMA ScansExist ==
    ASSUME NEW h, NEW S, S \subseteq Int, IsFiniteSet(S)
    PROVE  \E g : Scans(g, h, S)
<1> DEFINE B == {T \in SUBSET S : ~ \E g : Scans(g, h, T)}
<1>1. SUFFICES ASSUME B # {} PROVE FALSE
    OBVIOUS
<1>2. PICK T \in B : \A c \in B : c \subseteq T => c = T
  <2>1. B \in SUBSET SUBSET S OBVIOUS
  <2>2. B # {} BY <1>1
  <2>3. IsFiniteSet(S) OBVIOUS
  <2> HIDE DEF B
  <2> QED BY ONLY <2>1, <2>2, <2>3, MinimalSubset
<1> DEFINE H(U) == CHOOSE g : Scans(g, h, U)
           rest(s) == s \ {Max(s)}
           last(s) == Candidates(h)[Max(s)]
           g == [s \in SUBSET T |->
                   IF s = {} THEN Begin(h) ELSE Meet(h, H(rest(s))[rest(s)], last(s))]
<1>3. T \subseteq S /\ T \subseteq Int /\ IsFiniteSet(T)
    BY FS_Subset
<1>4. ASSUME NEW U \in SUBSET T, U # T PROVE Scans(H(U), h, U)
  <2>1. U \notin B
      BY <1>2, <1>4
  <2>2. \E k : Scans(k, h, U)
      BY <1>3, <2>1
  <2> QED BY <2>2
<1>5. ASSUME NEW s \in SUBSET T, s # {}
      PROVE  rest(s) \in SUBSET T /\ rest(s) # T /\ rest(s) \in SUBSET s
  <2>1. s \subseteq Int /\ IsFiniteSet(s)
      BY <1>3, FS_Subset
  <2> QED BY <1>5, <2>1, MaxIn
<1>6. ASSUME NEW V \in SUBSET T, V # T PROVE g[V] = H(V)[V]
  <2> DEFINE W == rest(V)
  <2>1. Scans(H(V), h, V) BY <1>4, <1>6
  <2>2. H(V)[V] = IF V = {} THEN Begin(h) ELSE Meet(h, H(V)[W], last(V))
    <3>1. V \in SUBSET V
        OBVIOUS
    <3> HIDE DEF H
    <3> QED BY ONLY <2>1, <3>1, Zenon DEF Scans
  <2>3. g[V] = IF V = {} THEN Begin(h) ELSE Meet(h, H(W)[W], last(V))
    <3> HIDE DEF H, last, rest
    <3> QED OBVIOUS
  <2>4. ASSUME V # {} PROVE H(V)[W] = H(W)[W]
    <3>1. W \in SUBSET T /\ W # T /\ W \in SUBSET V
      <4> HIDE DEF rest
      <4> QED BY <1>5, <2>4
    <3>2. IsFiniteSet(V) /\ V \subseteq Int
        BY <1>3, FS_Subset
    <3>3. Scans(H(W), h, W)
      <4> HIDE DEF H, W
      <4> QED BY <1>4, <3>1
    <3> DEFINE p == H(V)
               q == H(W)
    <3>4. Scans(p, h, V) /\ Scans(q, h, W)
        BY <2>1, <3>3
    <3>5. W \in SUBSET V
        BY <3>1
    <3> HIDE DEF B, H, W, p, q
    <3>6. PlaceSet(V)
        BY <3>2 DEF PlaceSet
    <3>7. p[W] = q[W]
        BY ONLY <3>4, <3>5, <3>6, ScansUnique
    <3> QED BY <3>7 DEF p, q
  <2> HIDE DEF H, W, g, last
  <2> QED BY <2>2, <2>3, <2>4
<1>7. g = [s \in SUBSET T |->
              IF s = {} THEN Begin(h) ELSE Meet(h, g[rest(s)], last(s))]
  <2>1. ASSUME NEW s \in SUBSET T
        PROVE  g[s] = IF s = {} THEN Begin(h) ELSE Meet(h, g[rest(s)], last(s))
    <3>1. g[s] = IF s = {} THEN Begin(h) ELSE Meet(h, H(rest(s))[rest(s)], last(s))
      <4> HIDE DEF H, rest, last
      <4> QED OBVIOUS
    <3> HIDE DEF H, g, rest, last
    <3> QED BY <1>5, <1>6, <3>1
  <2>2. g = [s \in SUBSET T |-> g[s]]
    <3> HIDE DEF H
    <3> QED OBVIOUS
  <2> HIDE DEF H, g, rest, last
  <2> QED BY <2>1, <2>2
<1>8. Scans(g, h, T)
  <2> HIDE DEF g
  <2> QED BY <1>7 DEF Scans
<1>9. T \in B
    BY <1>2
<1> HIDE DEF g
<1> QED BY <1>8, <1>9

-----------------------------------------------------------------------------
(* What the scan finds.                                                    *)

\* What the history is a sequence of.
Observation == [result : PlateRecognitionResult, timestamp : 0..MaxTime]

\* The support of a plate is a number, and nothing if no frame votes for it.
LEMMA SupportIs ==
    ASSUME NEW h \in Seq(Observation), NEW p
    PROVE  /\ IsFiniteSet(Votes(h, p)) /\ Votes(h, p) \subseteq DOMAIN h
           /\ Support(h, p) \in Nat
           /\ Votes(h, p) = {} => Support(h, p) = 0
<1> DEFINE f == [i \in Votes(h, p) |-> h[i].result.confidence]
           V == Votes(h, p)
<1>1. DOMAIN h = 1..Len(h) /\ Len(h) \in Nat /\ \A i \in DOMAIN h : h[i] \in Observation
    OBVIOUS
<1>2. V \subseteq DOMAIN h
    BY DEF Votes
<1>3. IsFiniteSet(1..Len(h))
    BY <1>1, FS_Interval
<1>4. IsFiniteSet(V)
    BY <1>1, <1>2, <1>3, FS_Subset
<1>5. \A i \in V : h[i].result.confidence \in Nat
  <2>1. \A i \in DOMAIN h : h[i].result.confidence \in 0..(Scale + 1)
      BY <1>1 DEF Observation, PlateRecognitionResult
  <2> QED BY <1>2, <2>1, ConsensusAssumption
<1>6. Support(h, p) = SumFunctionOnSet(f, V)
  <2>1. Support(h, p) = SumFunction(f)
      BY DEF Support
  <2>2. DOMAIN f = V
      OBVIOUS
  <2> HIDE DEF f, V
  <2> QED BY <2>1, <2>2 DEF SumFunction, SumFunctionOnSet, FoldFunction
<1>7. \A i \in V : f[i] \in Nat
    BY <1>5
<1> HIDE DEF f, V
<1> QED BY <1>2, <1>4, <1>6, <1>7, SumNat, SumEmpty DEF V

\* The total weight is that of all plates together.
LEMMA TotalIs ==
    ASSUME NEW h \in Seq(Observation)
    PROVE  /\ TotalWeight(h) \in Nat
           /\ \A p \in Plates : Support(h, p) \in Nat /\ Support(h, p) <= TotalWeight(h)
           /\ \A p \in Plates : (\A q \in Plates \ {p} : Support(h, q) = 0)
                                   => TotalWeight(h) = Support(h, p)
           /\ (\A p \in Plates : Support(h, p) = 0) => TotalWeight(h) = 0
<1> DEFINE f == [p \in Plates |-> Support(h, p)]
<1>1. TotalWeight(h) = SumFunctionOnSet(f, Plates)
  <2>1. TotalWeight(h) = SumFunction(f)
      BY DEF TotalWeight
  <2>2. DOMAIN f = Plates
      OBVIOUS
  <2> HIDE DEF f
  <2> QED BY <2>1, <2>2 DEF SumFunction, SumFunctionOnSet, FoldFunction
<1>2. \A p \in Plates : f[p] = Support(h, p) /\ f[p] \in Nat
    BY SupportIs
<1>3. IsFiniteSet(Plates)
    BY ConsensusAssumption
<1> HIDE DEF f
<1>4. TotalWeight(h) \in Nat
    BY <1>1, <1>2, <1>3, SumNat
<1>5. ASSUME NEW p \in Plates
      PROVE  /\ f[p] <= TotalWeight(h)
             /\ (\A q \in Plates \ {p} : f[q] = 0) => TotalWeight(h) = f[p]
  <2>1. SumFunctionOnSet(f, Plates) = f[p] + SumFunctionOnSet(f, Plates \ {p})
      BY <1>2, <1>3, SumRemove
  <2>2. IsFiniteSet(Plates \ {p})
      BY <1>3, FS_Subset
  <2>3. SumFunctionOnSet(f, Plates \ {p}) \in Nat
      BY <1>2, <2>2, SumNat
  <2>4. (\A q \in Plates \ {p} : f[q] = 0) => SumFunctionOnSet(f, Plates \ {p}) = 0
      BY <2>2, SumZero
  <2> QED BY <1>1, <1>2, <1>4, <2>1, <2>3, <2>4
<1>6. (\A p \in Plates : f[p] = 0) => TotalWeight(h) = 0
    BY <1>1, <1>3, SumZero
<1> QED BY <1>2, <1>4, <1>5, <1>6

\* After m of the candidates: the winner is the one of them with the most support,
\* the smallest if there are several, and the runner-up has the support of the best
\* of the others.
Leads(h, acc, m) ==
    /\ m > 0 => \E i \in 1..m : Candidates(h)[i] = acc.winner
    /\ m = 0 => acc = Begin(h)
    /\ acc.runner_up \in Nat
    /\ \A i \in 1..m : LET p == Candidates(h)[i] IN
         /\ Support(h, p) <= Support(h, acc.winner)
         /\ p # acc.winner =>
              /\ Support(h, p) <= acc.runner_up
              /\ Support(h, p) = Support(h, acc.winner) => acc.winner < p
    /\ \/ acc.runner_up = 0
       \/ \E i \in 1..m : /\ Candidates(h)[i] # acc.winner
                          /\ Support(h, Candidates(h)[i]) = acc.runner_up

\* The plates that some frame votes for.
Voted(h) == {p \in Plates : Votes(h, p) # {}}

\* The scan visits them in the order of the map of aggregates.
LEMMA CandidatesAscend ==
    ASSUME NEW h
    PROVE  /\ Cardinality(Voted(h)) \in Nat
           /\ DOMAIN Candidates(h) = 1..Cardinality(Voted(h))
           /\ Ascends(Candidates(h), Cardinality(Voted(h)), Voted(h))
           /\ Voted(h) \subseteq Plates /\ Voted(h) \subseteq Int
<1>1. Voted(h) \subseteq Plates
    BY DEF Voted
<1>2. IsFiniteSet(Plates) /\ Plates \subseteq Int
    BY ConsensusAssumption
<1>3. IsFiniteSet(Voted(h)) /\ Voted(h) \subseteq Int
    BY <1>1, <1>2, FS_Subset
<1>4. Candidates(h) = Ascending(Voted(h))
    BY DEF Candidates, Voted
<1> QED BY <1>1, <1>3, <1>4, AscendingAscends

\* One more candidate.
LEMMA MeetLeads ==
    ASSUME NEW h \in Seq(Observation), NEW m \in Nat, m < Cardinality(Voted(h)),
           NEW acc, Leads(h, acc, m)
    PROVE  Leads(h, Meet(h, acc, Candidates(h)[m + 1]), m + 1)
<1> DEFINE C == Candidates(h)
           n == Cardinality(Voted(h))
           p == C[m + 1]
           next == Meet(h, acc, p)
           w == acc.winner
<1>0. SUFFICES Leads(h, next, m + 1)
    OBVIOUS
<1>1. /\ n \in Nat /\ m < n /\ m + 1 \in 1..n
      /\ \A i \in 1..n : C[i] \in Plates /\ C[i] \in Int
      /\ \A i, j \in 1..n : i < j => C[i] < C[j]
  <2>1. n \in Nat /\ Ascends(C, n, Voted(h)) /\ Voted(h) \subseteq Plates /\ Voted(h) \subseteq Int
      BY CandidatesAscend
  <2> HIDE DEF C, n
  <2>2. \A i \in 1..n : C[i] \in Voted(h)
      BY <2>1 DEF Ascends
  <2> QED BY <2>1, <2>2 DEF Ascends, n
<1>2. \A i \in 1..n : Support(h, C[i]) \in Nat
    BY SupportIs
<1>3. C[1] = Begin(h).winner /\ Begin(h).runner_up = 0
  <2>1. C \in Seq(Voted(h)) /\ C # <<>>
    <3>1. C \in [1..n -> Voted(h)] /\ DOMAIN C = 1..n
        BY CandidatesAscend DEF Ascends
    <3> HIDE DEF C, n
    <3>2. n \in Nat /\ n > 0
        BY ONLY <1>1, m \in Nat
    <3>3. C \in Seq(Voted(h))
        BY ONLY <3>1, <3>2
    <3>4. 1 \in DOMAIN C /\ DOMAIN (<<>>) = {}
        BY ONLY <3>1, <3>2
    <3> QED BY <3>3, <3>4
  <2> HIDE DEF C
  <2>2. Head(C) = C[1]
      BY ONLY <2>1
  <2> QED BY <2>2 DEF Begin, C
<1> HIDE DEF C, n, p
<1>4. CASE m = 0
  <2>1. acc = Begin(h) /\ p = w
      BY <1>3, <1>4 DEF Leads, p
  <2>2. p \in Plates /\ Support(h, p) \in Nat
      BY <1>1, <1>2 DEF p
  <2>3. next = acc
      BY <2>1, <2>2 DEF Meet
  <2>4. \A i \in 1..1 : i = 1
      OBVIOUS
  <2>5. C[1] = p /\ 1 \in 1..1
      BY <1>4 DEF p
  <2>6. acc.runner_up = 0 /\ acc.winner = p
      BY <1>3, <2>1
  <2>7. Leads(h, acc, 1)
      BY ONLY <2>2, <2>4, <2>5, <2>6 DEF Leads, C
  <2> QED BY <1>4, <2>3, <2>7
<1>5. CASE m > 0
  <2>1. PICK j \in 1..m : C[j] = w
      BY <1>5 DEF Leads, C
  <2>2. j \in 1..n /\ \A i \in 1..m : i \in 1..n /\ i < m + 1
      BY <1>1
  <2>3. /\ \A i \in 1..m : C[i] # p /\ C[i] < p
        /\ w # p /\ w < p /\ w \in Int /\ p \in Int
      BY <1>1, <2>1, <2>2 DEF p
  <2>4. Support(h, p) \in Nat /\ Support(h, w) \in Nat
      BY <1>1, <1>2, <2>1, <2>2 DEF p
  <2>5. /\ acc.runner_up \in Nat
        /\ \A i \in 1..m :
             /\ Support(h, C[i]) <= Support(h, w)
             /\ C[i] # w => /\ Support(h, C[i]) <= acc.runner_up
                            /\ Support(h, C[i]) = Support(h, w) => w < C[i]
        /\ \/ acc.runner_up = 0
           \/ \E i \in 1..m : C[i] # w /\ Support(h, C[i]) = acc.runner_up
      BY DEF Leads, C
  <2>6. \A i \in 1..m : Support(h, C[i]) \in Nat
      BY <1>2, <2>2
  <2>7. \A i \in 1..(m + 1) : i \in 1..m \/ C[i] = p
      BY DEF p
  <2>8. 1..m \subseteq 1..(m + 1) /\ m + 1 \in 1..(m + 1) /\ C[m + 1] = p
      BY DEF p
  <2>9. CASE Support(h, p) > Support(h, w)
    <3> DEFINE r == Max({acc.runner_up, Support(h, w)})
    <3>1. next = [winner |-> p, runner_up |-> r]
        BY <2>9 DEF Meet
    <3>2. r = IF acc.runner_up >= Support(h, w) THEN acc.runner_up ELSE Support(h, w)
        BY <2>4, <2>5, LargerOfTwo
    <3> HIDE DEF r, next
    <3>3. next.winner = p /\ next.runner_up = r /\ r \in Nat
        BY <2>4, <2>5, <3>1, <3>2
    <3>4. ASSUME NEW i \in 1..(m + 1)
          PROVE  /\ Support(h, C[i]) <= Support(h, p)
                 /\ C[i] # p => /\ Support(h, C[i]) <= r
                                /\ Support(h, C[i]) = Support(h, p) => p < C[i]
      <4>1. CASE C[i] = p
          BY <2>4, <4>1
      <4>2. CASE i \in 1..m
        <5>1. Support(h, C[i]) < Support(h, p)
            BY <2>4, <2>5, <2>6, <2>9, <4>2
        <5>2. Support(h, C[i]) <= r
            BY <2>1, <2>4, <2>5, <2>6, <3>2, <4>2
        <5> QED BY <2>4, <2>6, <4>2, <5>1, <5>2
      <4> QED BY <2>7, <4>1, <4>2
    <3>5. r = 0 \/ \E i \in 1..(m + 1) : C[i] # p /\ Support(h, C[i]) = r
      <4>1. CASE r = Support(h, w)
          BY <2>1, <2>3, <2>8, <4>1
      <4>2. CASE r = acc.runner_up
          BY <2>3, <2>5, <2>8, <4>2
      <4> QED BY <3>2, <4>1, <4>2
    <3>6. \E i \in 1..(m + 1) : C[i] = p
        BY <2>8
    <3>7. m + 1 # 0
        BY m \in Nat
    <3>8. Leads(h, next, m + 1)
        BY ONLY <3>3, <3>4, <3>5, <3>6, <3>7 DEF Leads, C
    <3> QED BY <3>8
  <2>10. CASE ~ (Support(h, p) > Support(h, w))
    <3> DEFINE r == Max({acc.runner_up, Support(h, p)})
    <3>1. next = [winner |-> w, runner_up |-> r]
        BY <2>3, <2>10 DEF Meet
    <3>2. r = IF acc.runner_up >= Support(h, p) THEN acc.runner_up ELSE Support(h, p)
        BY <2>4, <2>5, LargerOfTwo
    <3> HIDE DEF r, next
    <3>3. next.winner = w /\ next.runner_up = r /\ r \in Nat
        BY <2>4, <2>5, <3>1, <3>2
    <3>4. ASSUME NEW i \in 1..(m + 1)
          PROVE  /\ Support(h, C[i]) <= Support(h, w)
                 /\ C[i] # w => /\ Support(h, C[i]) <= r
                                /\ Support(h, C[i]) = Support(h, w) => w < C[i]
      <4>1. CASE C[i] = p
          BY <2>3, <2>4, <2>5, <2>10, <3>2, <4>1
      <4>2. CASE i \in 1..m
          BY <2>4, <2>5, <2>6, <3>2, <4>2
      <4> QED BY <2>7, <4>1, <4>2
    <3>5. r = 0 \/ \E i \in 1..(m + 1) : C[i] # w /\ Support(h, C[i]) = r
      <4>1. CASE r = Support(h, p)
          BY <2>3, <2>8, <4>1
      <4>2. CASE r = acc.runner_up
          BY <2>5, <2>8, <4>2
      <4> QED BY <3>2, <4>1, <4>2
    <3>6. \E i \in 1..(m + 1) : C[i] = w
        BY <2>1, <2>8
    <3>7. m + 1 # 0
        BY m \in Nat
    <3>8. Leads(h, next, m + 1)
        BY ONLY <3>3, <3>4, <3>5, <3>6, <3>7 DEF Leads, C
    <3> QED BY <3>8
  <2> QED BY <2>9, <2>10
<1> QED BY <1>4, <1>5

\* The whole scan.
LEMMA ScanLeads ==
    ASSUME NEW h \in Seq(Observation)
    PROVE  Leads(h, Scan(h), Cardinality(Voted(h)))
<1> DEFINE n == Cardinality(Voted(h))
<1>1. n \in Nat /\ DOMAIN Candidates(h) = 1..n
    BY CandidatesAscend
<1>2. IsFiniteSet(1..n) /\ 1..n \subseteq Int
    BY <1>1, FS_Interval
<1> HIDE DEF n
<1> DEFINE g == CHOOSE k : Scans(k, h, 1..n)
<1>3. Scans(g, h, 1..n)
    BY <1>2, ScansExist
<1>4. Scan(h) = g[1..n]
    BY <1>1, ScanDef
<1> HIDE DEF g
<1> DEFINE B == {m \in 0..n : ~ Leads(h, g[1..m], m)}
<1>5. SUFFICES ASSUME B # {} PROVE FALSE
    BY <1>1, <1>4 DEF n
<1>6. PICK m \in B : \A j \in B : m <= j
  <2>1. B \in SUBSET Nat
      BY <1>1
  <2> HIDE DEF B
  <2> QED BY <1>5, <2>1, LeastNatural
<1>7. m \in 0..n /\ ~ Leads(h, g[1..m], m)
    BY <1>6
<1>8. CASE m = 0
  <2>1. 1..0 = {} /\ {} \in SUBSET (1..n)
      OBVIOUS
  <2>2. g[{}] = Begin(h)
    <3>1. {} \in SUBSET (1..n)
        OBVIOUS
    <3> QED BY ONLY <1>3, <3>1, Zenon DEF Scans
  <2>3. Begin(h).runner_up = 0
      BY DEF Begin
  <2> QED BY <1>7, <1>8, <2>1, <2>2, <2>3 DEF Leads
<1>9. CASE m > 0
  <2>1. m - 1 \in 0..n /\ m - 1 \notin B /\ m - 1 \in Nat /\ m - 1 < n /\ (m - 1) + 1 = m
      BY <1>1, <1>6, <1>7, <1>9
  <2>2. Leads(h, g[1..(m - 1)], m - 1)
      BY <2>1
  <2>3. Max(1..m) = m
    <3>1. 1..m \subseteq Int /\ m \in 1..m /\ \A y \in 1..m : y <= m
        BY <1>1, <1>7, <1>9
    <3> QED BY <3>1, LargestIs
  <2>4. /\ 1..m \in SUBSET (1..n) /\ 1..m # {} /\ (1..m) \ {m} = 1..(m - 1)
    <3>1. n \in Nat /\ m \in 1..n
        BY <1>1, <1>7, <1>9
    <3> QED BY ONLY <3>1
  <2>5. g[1..m] = Meet(h, g[(1..m) \ {Max(1..m)}], Candidates(h)[Max(1..m)])
      BY ONLY <1>3, <2>4, Zenon DEF Scans
  <2>6. g[1..m] = Meet(h, g[1..(m - 1)], Candidates(h)[m])
      BY <2>3, <2>4, <2>5
  <2> HIDE DEF B
  <2>7. Leads(h, Meet(h, g[1..(m - 1)], Candidates(h)[(m - 1) + 1]), (m - 1) + 1)
      BY <2>1, <2>2, MeetLeads DEF n
  <2> QED BY <1>7, <2>1, <2>6, <2>7
<1> QED BY <1>1, <1>7, <1>8, <1>9

-----------------------------------------------------------------------------
(* The vote.                                                               *)

\* Products of ratios that are compared across.
LEMMA Products ==
    /\ \A a, b \in Int, c \in Nat : a >= b => a * c >= b * c
    /\ \A a, b \in Nat : a * b \in Nat
    /\ \A a \in Int, c \in Nat : a < 0 /\ c > 0 => a * c < 0
<1>1. ASSUME NEW a \in Int, NEW b \in Int, NEW c \in Nat, a >= b PROVE a * c >= b * c
  <2>1. a - b \in Nat
      BY ONLY a \in Int, b \in Int, a >= b
  <2>2. (a - b) * c \in Nat
      BY ONLY <2>1, c \in Nat
  <2>3. (a - b) * c = a * c - b * c
      BY ONLY a \in Int, b \in Int, c \in Nat
  <2> QED BY ONLY <2>2, <2>3, a \in Int, b \in Int, c \in Nat
<1>2. ASSUME NEW a \in Int, NEW c \in Nat, a < 0, c > 0 PROVE a * c < 0
    BY ONLY a \in Int, c \in Nat, a < 0, c > 0
<1>3. \A a, b \in Nat : a * b \in Nat
    OBVIOUS
<1> QED BY ONLY <1>1, <1>2, <1>3

\* The scan ends with the plate that has the most support, the smallest one when
\* several have it, and with the support of the best of the others.
LEMMA WinnerIs ==
    ASSUME NEW h \in Seq(Observation), TotalWeight(h) # 0
    PROVE  LET w == Scan(h).winner
               r == Scan(h).runner_up
           IN  /\ w \in Plates /\ Support(h, w) \in Nat /\ Support(h, w) > 0
               /\ r \in Nat
               /\ \A q \in Plates \ {w} :
                     /\ Support(h, q) \in Nat
                     /\ Support(h, q) <= r /\ Support(h, q) <= Support(h, w)
                     /\ Support(h, q) = Support(h, w) => w < q
               /\ r = 0 \/ \E q \in Plates \ {w} : Support(h, q) = r
<1> DEFINE w == Scan(h).winner
           r == Scan(h).runner_up
           C == Candidates(h)
           n == Cardinality(Voted(h))
<1>1. n \in Nat /\ Ascends(C, n, Voted(h)) /\ Voted(h) \subseteq Plates
    BY CandidatesAscend
<1>2. Leads(h, Scan(h), n)
    BY ScanLeads
<1>3. \A p \in Plates : Support(h, p) \in Nat /\ (p \notin Voted(h) => Support(h, p) = 0)
    BY SupportIs DEF Voted
<1>4. PICK p \in Plates : Support(h, p) # 0
    BY TotalIs
<1>5. p \in Voted(h) /\ Support(h, p) > 0
    BY <1>3, <1>4
<1> HIDE DEF n
<1>6. /\ n > 0 => \E i \in 1..n : C[i] = w
      /\ r \in Nat
      /\ \A i \in 1..n : /\ Support(h, C[i]) <= Support(h, w)
                         /\ C[i] # w => /\ Support(h, C[i]) <= r
                                        /\ Support(h, C[i]) = Support(h, w) => w < C[i]
      /\ r = 0 \/ \E i \in 1..n : C[i] # w /\ Support(h, C[i]) = r
    BY ONLY <1>2 DEF Leads
<1> HIDE DEF w, r, C
<1>7. /\ \A i \in 1..n : C[i] \in Voted(h) /\ C[i] \in Plates
      /\ \A q \in Voted(h) : \E i \in 1..n : C[i] = q
    BY <1>1 DEF Ascends
<1>8. n > 0
    BY <1>1, <1>5, <1>7
<1>9. w \in Plates /\ w \in Voted(h) /\ Support(h, w) \in Nat
    BY <1>3, <1>6, <1>7, <1>8
<1>10. \A q \in Voted(h) :
          /\ Support(h, q) <= Support(h, w)
          /\ q # w => Support(h, q) <= r /\ (Support(h, q) = Support(h, w) => w < q)
    BY <1>6, <1>7
<1>11. Support(h, w) > 0
    BY <1>3, <1>4, <1>5, <1>9, <1>10
<1>12. ASSUME NEW q \in Plates \ {w}
       PROVE  /\ Support(h, q) \in Nat
              /\ Support(h, q) <= r /\ Support(h, q) <= Support(h, w)
              /\ Support(h, q) = Support(h, w) => w < q
    BY <1>3, <1>6, <1>9, <1>10, <1>11
<1>13. r = 0 \/ \E q \in Plates \ {w} : Support(h, q) = r
    BY <1>6, <1>7
<1> QED BY <1>6, <1>9, <1>11, <1>12, <1>13 DEF w, r

\* TemporalPlateConsensus::observe: for every history, the one pass over the
\* aggregates, with its running winner and runner-up, declares the plate stable
\* that is justified by the definition, which compares each plate with every other
\* one, and none if there is none; so two plates are never both justified.
THEOREM ConsensusIsJustified ==
    ASSUME NEW h \in Seq(Observation)
    PROVE  /\ Consensus(h).stable.plate \in Plates \cup {NoPlate}
           /\ \A p \in Plates : Consensus(h).stable.plate = p <=> Justified(h, p)
<1> DEFINE w == Scan(h).winner
           r == Scan(h).runner_up
           T == TotalWeight(h)
           F(p) == Support(h, p)
           stands == /\ Cardinality(Votes(h, w)) >= minimum_supporting_frames
                     /\ F(w) * Scale >= stable_confidence_threshold * T
                     /\ (F(w) - r) * Scale >= conflict_margin * T
<1>1. T \in Nat /\ \A p \in Plates : F(p) \in Nat /\ F(p) <= T
    BY TotalIs
<1>2. NoPlate \notin Plates
    BY ConsensusAssumption
<1>3. CASE T = 0
  <2>1. Consensus(h).stable.plate = NoPlate
      BY <1>3 DEF Consensus, NoResult
  <2>2. \A p \in Plates : ~ Justified(h, p)
      BY <1>1, <1>3 DEF Justified
  <2> QED BY <1>2, <2>1, <2>2
<1>4. CASE T # 0
  <2>1. Consensus(h).stable.plate = IF stands THEN w ELSE NoPlate
      BY <1>4 DEF Consensus, NoResult
  <2>2. /\ w \in Plates /\ F(w) \in Nat /\ F(w) > 0 /\ r \in Nat
        /\ \A q \in Plates \ {w} : /\ F(q) \in Nat /\ F(q) <= r /\ F(q) <= F(w)
                                   /\ F(q) = F(w) => w < q
        /\ r = 0 \/ \E q \in Plates \ {w} : F(q) = r
      BY <1>4, WinnerIs
  <2>3. /\ Scale \in Nat /\ Scale > 0 /\ conflict_margin \in Nat /\ conflict_margin <= Scale
        /\ \A p \in Plates : p \in Int
      BY ConsensusAssumption
  <2>4. conflict_margin * T \in Nat
      BY <1>1, <2>3, Products
  <2>5. ASSUME stands PROVE Justified(h, w)
    <3>1. ASSUME NEW q \in Plates \ {w}
          PROVE  (F(w) - F(q)) * Scale >= conflict_margin * T /\ (F(w) = F(q) => w < q)
      <4>1. F(w) - F(q) \in Int /\ F(w) - r \in Int /\ F(w) - F(q) >= F(w) - r
          BY <2>2
      <4>2. (F(w) - F(q)) * Scale >= (F(w) - r) * Scale
          BY <2>3, <4>1, Products
      <4>3. (F(w) - r) * Scale \in Int /\ (F(w) - F(q)) * Scale \in Int
          BY <2>3, <4>1
      <4>4. (F(w) - r) * Scale >= conflict_margin * T
          BY <2>5
      <4> HIDE DEF F, r, w, T
      <4>5. (F(w) - F(q)) * Scale >= conflict_margin * T
          BY ONLY <2>4, <4>2, <4>3, <4>4
      <4> QED BY <2>2, <4>5
    <3> QED BY <2>2, <2>5, <3>1 DEF Justified
  <2>6. ASSUME Justified(h, w) PROVE stands
    <3>1. CASE \E q \in Plates \ {w} : F(q) = r
        BY <2>6, <3>1 DEF Justified
    <3>2. CASE r = 0 /\ \A q \in Plates \ {w} : F(q) = 0
      <4>1. T = F(w)
          BY <2>2, <3>2, TotalIs
      <4>2. Scale * T >= conflict_margin * T
          BY <1>1, <2>3, Products
      <4>3. (F(w) - r) * Scale = Scale * T
        <5> HIDE DEF F, r, w, T
        <5> QED BY ONLY <1>1, <2>3, <3>2, <4>1
      <4> QED BY <2>6, <4>2, <4>3 DEF Justified
    <3>3. (\A q \in Plates \ {w} : F(q) <= r) /\ \A q \in Plates \ {w} : F(q) \in Nat
        BY <2>2
    <3> QED BY <2>2, <3>1, <3>2, <3>3
  <2>7. ASSUME NEW p \in Plates, p # w PROVE ~ Justified(h, p)
    <3> SUFFICES ASSUME Justified(h, p) PROVE FALSE OBVIOUS
    <3>1. /\ (F(p) - F(w)) * Scale >= conflict_margin * T
          /\ F(p) = F(w) => p < w
        BY <2>2, <2>7 DEF Justified
    <3>2. F(p) \in Nat /\ F(p) <= F(w) /\ (F(p) = F(w) => w < p) /\ p \in Int /\ w \in Int
        BY <2>2, <2>3, <2>7
    <3> HIDE DEF F, w, T
    <3>3. F(p) - F(w) \in Int /\ (F(p) - F(w)) * Scale \in Int
        BY <2>2, <2>3, <3>2
    <3>4. ~ (F(p) - F(w) < 0)
      <4> SUFFICES ASSUME F(p) - F(w) < 0 PROVE FALSE OBVIOUS
      <4>1. (F(p) - F(w)) * Scale < 0
          BY <2>3, <3>3, Products
      <4> QED BY ONLY <2>4, <3>1, <3>3, <4>1
    <3>5. F(p) = F(w)
        BY ONLY <2>2, <3>2, <3>4
    <3> QED BY ONLY <3>1, <3>2, <3>5
  <2> HIDE DEF stands, w
  <2> QED BY <1>2, <2>1, <2>2, <2>5, <2>6, <2>7
<1> QED BY <1>3, <1>4

-----------------------------------------------------------------------------
(* The history.                                                            *)

\* A history in order of time.
InOrder(h) == \A i, j \in DOMAIN h : i <= j => h[i].timestamp <= h[j].timestamp

\* What expire keeps of a history in order of time: the entries still alive, which
\* are the ones from some index on.
LEMMA ExpireKeeps ==
    ASSUME NEW h \in Seq(Observation), NEW now \in Int,
           InOrder(h)
    PROVE  \E s \in 1..(Len(h) + 1) :
              /\ Expire(h, now) \in Seq(Observation)
              /\ Len(Expire(h, now)) = Len(h) + 1 - s
              /\ \A i \in 1..(Len(h) + 1 - s) : Expire(h, now)[i] = h[s + i - 1]
              /\ \A t \in 1..Len(h) : t >= s <=> ~Expired(h[t], now)
<1> DEFINE n == Len(h)
           alive == {i \in DOMAIN h : ~Expired(h[i], now)}
           E == Expire(h, now)
<1>1. n \in Nat /\ DOMAIN h = 1..n /\ \A i \in 1..n : h[i] \in Observation
    OBVIOUS
<1>2. E = IF alive = {} THEN <<>> ELSE SubSeq(h, Min(alive), n)
    BY DEF Expire
<1>3. history_ttl \in Int /\ \A i \in 1..n : h[i].timestamp \in Int
    BY <1>1, ConsensusAssumption DEF Observation
<1>4. CASE alive = {}
  <2>1. E = <<>> /\ n + 1 \in 1..(n + 1) /\ n + 1 - (n + 1) = 0
      BY <1>1, <1>2, <1>4
  <2>2. \A t \in 1..n : ~(t >= n + 1) /\ Expired(h[t], now)
      BY <1>1, <1>4
  <2>3. E \in Seq(Observation) /\ Len(E) = 0 /\ 1..0 = {}
      BY <2>1
  <2> QED BY <2>1, <2>2, <2>3
<1>5. CASE alive # {}
  <2> DEFINE s == Min(alive)
  <2>1. alive \subseteq Int /\ IsFiniteSet(alive)
    <3>1. IsFiniteSet(1..n)
        BY <1>1, FS_Interval
    <3> QED BY <1>1, <3>1, FS_Subset
  <2>2. s \in alive /\ \A y \in alive : s <= y
    <3> HIDE DEF alive
    <3> QED BY <1>5, <2>1, MinIs
  <2>3. s \in 1..n
      BY <1>1, <2>2
  <2>4. E = SubSeq(h, s, n)
      BY <1>2, <1>5
  <2>5. \A t \in 1..n : t >= s <=> ~Expired(h[t], now)
    <3> SUFFICES ASSUME NEW t \in 1..n PROVE t >= s <=> ~Expired(h[t], now) OBVIOUS
    <3>1. ~Expired(h[t], now) => t >= s
        BY <1>1, <2>2, <2>3
    <3>2. ~Expired(h[s], now)
        BY <2>2
    <3> HIDE DEF s, alive, E
    <3>3. t >= s => h[s].timestamp <= h[t].timestamp
        BY <1>1, <2>3 DEF InOrder
    <3>4. t >= s => ~Expired(h[t], now)
        BY <1>3, <2>3, <3>2, <3>3 DEF Expired
    <3> QED BY <3>1, <3>4
  <2> HIDE DEF s, E, alive
  <2>6. s \in Int /\ n \in Int /\ \A i \in s..n : h[i] \in Observation
    <3>1. s \in Int /\ n \in Int /\ \A i \in s..n : i \in 1..n
        BY ONLY <1>1, <2>3
    <3> QED BY <1>1, <3>1
  <2>7. /\ E \in Seq(Observation) /\ Len(E) = IF s <= n THEN n - s + 1 ELSE 0
        /\ \A i \in 1..(n - s + 1) : E[i] = h[s + i - 1]
    <3> HIDE DEF n
    <3> QED BY ONLY <2>4, <2>6, SubSeqProperties
  <2>8. Len(E) = n + 1 - s /\ n - s + 1 = n + 1 - s /\ s \in 1..(n + 1)
      BY ONLY <1>1, <2>3, <2>7
  <2> QED BY <2>5, <2>7, <2>8 DEF E
<1> QED BY <1>4, <1>5

\* r is what h has from index s on, and then e.
EndsWith(r, h, s, e, n) ==
    /\ r \in Seq(Observation) /\ Len(r) = n + 2 - s
    /\ \A i \in 1..(n + 2 - s) : r[i] = IF i = n + 2 - s THEN e ELSE h[s + i - 1]

\* The entries of h that are alive and leave room are the ones from index s on.
AdmittedFrom(h, now, s, n) ==
    \A t \in 1..n : t >= s <=> ~Expired(h[t], now) /\ n - t + 1 < max_history

\* What observe leaves in a history in order of time: from some index on, the
\* entries still alive that leave room for the new one, and then the new one.
LEMMA RememberKeeps ==
    ASSUME NEW h \in Seq(Observation), NEW e \in Observation,
           NEW n, Len(h) = n,
           InOrder(h)
    PROVE  \E s \in 1..(n + 1) : /\ EndsWith(Remember(h, e.result, e.timestamp), h, s, e, n)
                                 /\ AdmittedFrom(h, e.timestamp, s, n)
<1> DEFINE now == e.timestamp
           E == Expire(h, now)
           A == Append(E, e)
<1>1. n \in Nat /\ now \in Int /\ e = [result |-> e.result, timestamp |-> now]
    BY ConsensusAssumption DEF Observation
<1>2. PICK s \in 1..(n + 1) :
              /\ E \in Seq(Observation)
              /\ Len(E) = n + 1 - s
              /\ \A i \in 1..(n + 1 - s) : E[i] = h[s + i - 1]
              /\ \A t \in 1..n : t >= s <=> ~Expired(h[t], now)
    BY <1>1, ExpireKeeps
<1> DEFINE m == n + 2 - s
           c == Max({1, m - max_history + 1})
           start == s + c - 1
           R == SubSeq(A, c, m)
<1>0. e \in Observation /\ Remember(h, e.result, now) = Trim(A)
    BY <1>1 DEF Remember
<1> HIDE DEF now, E
<1>3. /\ A \in Seq(Observation) /\ Len(A) = m /\ A[m] = e
      /\ \A i \in 1..(m - 1) : A[i] = h[s + i - 1]
      /\ m \in Nat /\ m >= 1
  <2>1. Len(E) \in Nat /\ m = Len(E) + 1 /\ m - 1 = n + 1 - s /\ Len(E) = m - 1
      BY ONLY <1>1, <1>2
  <2> HIDE DEF m
  <2>2. A \in Seq(Observation) /\ Len(A) = Len(E) + 1 /\ A[Len(E) + 1] = e
        /\ \A i \in 1..Len(E) : A[i] = E[i]
      BY ONLY <1>0, <1>2 DEF A
  <2> HIDE DEF A
  <2>3. \A i \in 1..(m - 1) : A[i] = h[s + i - 1]
      BY ONLY <1>2, <2>1, <2>2
  <2> QED BY ONLY <2>1, <2>2, <2>3
<1> HIDE DEF A
<1>4. max_history \in Nat /\ max_history >= 1
    BY ConsensusAssumption
<1>5. c = IF 1 >= m - max_history + 1 THEN 1 ELSE m - max_history + 1
  <2>1. m - max_history + 1 \in Int
      BY <1>3, <1>4
  <2> HIDE DEF m
  <2> QED BY <2>1, LargerOfTwo
<1>6. Remember(h, e.result, now) = R
  <2>1. Len(A) = m
      BY <1>3
  <2>2. Trim(A) = SubSeq(A, Max({1, Len(A) - max_history + 1}), Len(A))
      BY DEF Trim
  <2> HIDE DEF m
  <2> QED BY ONLY <1>0, <2>1, <2>2, Zenon
<1>7. c \in 1..m /\ start \in 1..(n + 1) /\ m - c + 1 = n + 2 - start
  <2> HIDE DEF c
  <2>1. n \in Int /\ s \in Int /\ s >= 1 /\ s <= n + 1
      BY ONLY <1>1, s \in 1..(n + 1)
  <2>2. c \in Int /\ c >= 1 /\ c <= m
      BY ONLY <1>3, <1>4, <1>5
  <2> QED BY ONLY <2>1, <2>2
<1> HIDE DEF c
<1>8. /\ R \in Seq(Observation) /\ Len(R) = m - c + 1
      /\ \A i \in 1..(m - c + 1) : R[i] = A[c + i - 1]
  <2>1. m \in Int /\ c \in Int /\ c <= m /\ \A i \in c..m : i \in 1..m
      BY ONLY <1>3, <1>7
  <2>2. \A i \in c..m : A[i] \in Observation
      BY <1>3, <2>1
  <2> HIDE DEF m
  <2> QED BY <2>1, <2>2, SubSeqProperties
<1>9. \A i \in 1..(m - c + 1) :
         R[i] = IF i = m - c + 1 THEN e ELSE h[start + i - 1]
  <2> SUFFICES ASSUME NEW i \in 1..(m - c + 1)
               PROVE  R[i] = IF i = m - c + 1 THEN e ELSE h[start + i - 1]
      OBVIOUS
  <2>1. CASE i = m - c + 1
    <3>1. c + i - 1 = m
      <4>1. c \in Int /\ m \in Int
          BY ONLY <1>3, <1>7
      <4> HIDE DEF m
      <4> QED BY ONLY <2>1, <4>1
    <3> QED BY <1>3, <1>8, <2>1, <3>1
  <2>2. CASE i # m - c + 1
    <3>1. c + i - 1 \in 1..(m - 1) /\ s + (c + i - 1) - 1 = start + i - 1
      <4>1. s \in Int /\ c \in Int /\ m \in Int /\ i \in Int /\ c >= 1
          BY ONLY <1>1, <1>2, <1>3, <1>7, i \in 1..(m - c + 1)
      <4>2. i >= 1 /\ i < m - c + 1
          BY ONLY <4>1, <2>2, i \in 1..(m - c + 1)
      <4> HIDE DEF m
      <4>3. c + i - 1 \in 1..(m - 1)
          BY ONLY <4>1, <4>2
      <4> QED BY ONLY <4>1, <4>3 DEF start
    <3> QED BY <1>3, <1>8, <2>2, <3>1
  <2> QED BY <2>1, <2>2
<1>10. \A t \in 1..n : t >= start <=> ~Expired(h[t], now) /\ n - t + 1 < max_history
  <2> SUFFICES ASSUME NEW t \in 1..n
               PROVE  t >= start <=> t >= s /\ n - t + 1 < max_history
      BY <1>2
  <2>1. t \in Int /\ t <= n /\ s \in Int /\ n \in Int
      BY ONLY <1>1, s \in 1..(n + 1), t \in 1..n
  <2>2. start = IF 1 >= m - max_history + 1 THEN s ELSE s + m - max_history
      BY ONLY <1>3, <1>4, <1>5, <2>1 DEF start
  <2> HIDE DEF start
  <2> QED BY ONLY <1>4, <2>1, <2>2
<1>11. \A i \in 1..(n + 2 - start) :
          R[i] = IF i = n + 2 - start THEN e ELSE h[start + i - 1]
    BY <1>7, <1>9
<1>12. Len(R) = n + 2 - start
    BY <1>7, <1>8
<1> HIDE DEF R, start
<1>13. EndsWith(R, h, start, e, n)
    BY ONLY <1>8, <1>11, <1>12 DEF EndsWith
<1>14. AdmittedFrom(h, now, start, n)
    BY ONLY <1>10 DEF AdmittedFrom
<1> QED BY <1>6, <1>7, <1>13, <1>14 DEF now

-----------------------------------------------------------------------------
(* What the session and its waiting calls are made of.                     *)

\* The times a call can have.
Stamps == 0..MaxTime

\* What the calls that wait, the clock and the log are made of.
LogTypes ==
    /\ last_timestamp \in Stamps \cup {NoTime} /\ clock \in Stamps
    /\ DOMAIN pending = Threads
    /\ \A th \in Threads : Recognizing(th) => pending[th].at \in Stamps
    /\ log \in Seq(Range(log))
    /\ \A i \in DOMAIN log :
         log[i].at \in Stamps /\ log[i].op \in {"recognize", "recognize_at"}

\* The session remembers the time of the frame completed last, and of none when
\* there is none; no frame that took the time itself is ahead of the clock.
LogTimes ==
    /\ IF log = <<>> THEN last_timestamp = NoTime
       ELSE last_timestamp = log[Len(log)].at
    /\ \A i \in DOMAIN log : log[i].op = "recognize" => log[i].at <= clock

\* close leaves an empty session, and no frame is completed in a closed one.
ClosedIsEmpty ==
    closed => /\ history = <<>> /\ last_emitted = NoPlate
              /\ last_timestamp = NoTime /\ log = <<>>

\* The invariant of the clock and of the calls.
StreamInv == LogTypes /\ LogTimes /\ OnlyLateFramesRefused /\ ClosedIsEmpty

-----------------------------------------------------------------------------

\* A new session is open and has seen no frame.
LEMMA StreamInvInit == Init => StreamInv
BY ConsensusAssumption DEF Init, StreamInv, LogTypes, LogTimes, OnlyLateFramesRefused,
   LateOnlyIfOvertaken, ClockCallsAreInOrder, ClosedIsEmpty, Recognizing, NoCall, Stamps,
   ConsensusInit, EmissionFilter!FilterInit, NoTime, EmissionFilter!NoTime, Range,
   EmissionFilter!NoPlate, NoPlate

\* One more frame in the log: it is the last one, and the others are what they
\* were.
LEMMA LogGrows ==
    ASSUME log \in Seq(Range(log)), NEW e, log' = Append(log, e)
    PROVE  /\ log' \in Seq(Range(log')) /\ log' # <<>> /\ log'[Len(log')] = e
           /\ \A i \in DOMAIN log' : (i \in DOMAIN log /\ log'[i] = log[i]) \/ log'[i] = e
<1>1. /\ Len(log) \in Nat /\ DOMAIN log = 1..Len(log)
      /\ log \in Seq(Range(log) \cup {e})
    <2>1. Range(log) \subseteq Range(log) \cup {e} OBVIOUS
    <2> HIDE DEF Range
    <2> QED BY <2>1
<1>2. /\ log' \in Seq(Range(log) \cup {e})
      /\ Len(log') = Len(log) + 1 /\ DOMAIN log' = 1..(Len(log) + 1)
      /\ log'[Len(log) + 1] = e
      /\ \A i \in 1..Len(log) : log'[i] = log[i]
    BY <1>1
<1>3. \A i \in DOMAIN log' : (i \in DOMAIN log /\ log'[i] = log[i]) \/ log'[i] = e
    BY <1>1, <1>2
<1>4. log' \in Seq(Range(log'))
    <2>1. \A i \in 1..Len(log') : log'[i] \in Range(log')
        BY <1>1, <1>2 DEF Range
    <2>2. log' = [i \in 1..Len(log') |-> log'[i]] /\ Len(log') \in Nat
        BY ONLY <1>2
    <2> QED BY <2>1, <2>2
<1> QED BY <1>1, <1>2, <1>3, <1>4

\* No call, whether it returns, throws, resets or closes, breaks StreamInv.
LEMMA StreamStep == StreamInv /\ [Next]_vars => StreamInv'
<1> SUFFICES ASSUME StreamInv, [Next]_vars PROVE StreamInv' OBVIOUS
<1>0. LogTypes /\ LogTimes /\ OnlyLateFramesRefused /\ ClosedIsEmpty
    BY DEF StreamInv
<1>n. NoTime = -1 /\ NoTime \notin Stamps /\ \A n \in Stamps : n \in Int
    BY ConsensusAssumption DEF NoTime, EmissionFilter!NoTime, Stamps
\* A step that leaves the log, what it is compared with and the answer alone.
<1>1. ASSUME UNCHANGED <<sessionVars, out, log>>,
             clock' \in Stamps, clock' >= clock, DOMAIN pending' = Threads,
             \A th \in Threads : Recognizing(th)' => pending'[th].at \in Stamps
      PROVE  StreamInv'
  <2>1. UNCHANGED <<history, last_emitted, last_timestamp, closed, out, log>>
      BY <1>1 DEF sessionVars
  <2>2. LogTypes' BY <1>0, <1>1, <2>1 DEF LogTypes
  <2>3. LogTimes'
      BY <1>0, <1>1, <1>n, <2>1 DEF LogTimes, LogTypes
  <2>4. OnlyLateFramesRefused' /\ ClosedIsEmpty'
      BY <1>0, <2>1 DEF OnlyLateFramesRefused, LateOnlyIfOvertaken, ClockCallsAreInOrder,
          ClosedIsEmpty
  <2> QED BY <2>2, <2>3, <2>4 DEF StreamInv
\* A call that returns: no call has begun.
<1>p. ASSUME NEW th \in Threads, NEW end, Return(th, end)
      PROVE  /\ DOMAIN pending' = Threads
             /\ \A u \in Threads : Recognizing(u)' => pending'[u].at \in Stamps
             /\ clock' = clock /\ out'.end = end
             /\ out'.op = pending[th].op /\ out'.at = Timestamp(th)
  <2>1. \A u \in Threads : pending'[u] = NoCall \/ pending'[u] = pending[u]
      BY <1>0, <1>p DEF Return, LogTypes
  <2> QED BY <1>0, <1>p, <2>1 DEF Return, LogTypes, Recognizing, NoCall
<1>2. CASE Tick
    BY <1>0, <1>1, <1>2, ConsensusAssumption DEF Tick, LogTypes, Stamps, Recognizing
<1>3. ASSUME NEW th \in Threads, NEW op \in Operations, NEW at \in Stamps, Call(th, op, at)
      PROVE  StreamInv'
  <2>1. /\ pending' = [pending EXCEPT ![th] = [op |-> op, at |-> at]]
        /\ UNCHANGED <<sessionVars, clock, out, log>>
      BY <1>3 DEF Call
  <2>2. \A u \in Threads : Recognizing(u)' => pending'[u].at \in Stamps
      BY <1>0, <2>1 DEF LogTypes, Recognizing
  <2> QED BY <1>0, <1>1, <1>n, <2>1, <2>2 DEF LogTypes
\* A call that throws leaves the session alone; when it is late, the last frame
\* of the log is later, and stamped by its caller if the clock is not.
<1>4. ASSUME NEW th \in Threads, NEW error, Throw(th, error),
             error = "late" => ThrowLate(th)
      PROVE  StreamInv'
  <2>1. /\ UNCHANGED <<history, last_emitted, last_timestamp, closed, log>>
        /\ Return(th, error)
      BY <1>4 DEF Throw, sessionVars
  <2>2. LogTypes'
      BY <1>0, <1>p, <2>1 DEF LogTypes
  <2>3. LogTimes' /\ ClosedIsEmpty'
      BY <1>0, <1>p, <2>1 DEF LogTimes, ClosedIsEmpty
  <2>4. OnlyLateFramesRefused'
    <3> SUFFICES ASSUME error = "late"
                 PROVE  /\ \E i \in DOMAIN log : log[i].at > Timestamp(th)
                        /\ pending[th].op = "recognize" =>
                             \E i \in DOMAIN log : log[i].op = "recognize_at"
        BY <1>p, <2>1 DEF OnlyLateFramesRefused, LateOnlyIfOvertaken, ClockCallsAreInOrder
    <3>1. Recognizing(th) /\ last_timestamp # NoTime /\ Timestamp(th) < last_timestamp
        BY <1>4 DEF ThrowLate, Late
    <3>2. log # <<>> /\ last_timestamp = log[Len(log)].at
        BY <1>0, <3>1 DEF LogTimes
    <3>3. Len(log) \in DOMAIN log
      <4>1. log \in Seq(Range(log)) BY <1>0 DEF LogTypes
      <4> HIDE DEF Range
      <4> QED BY <3>2, <4>1
    <3>4. Timestamp(th) \in Stamps /\ log[Len(log)].at \in Stamps
        BY <1>0, <3>1, <3>3 DEF LogTypes, Timestamp
    <3>5. log[Len(log)].at > Timestamp(th)
        BY <1>n, <3>1, <3>2, <3>4
    <3>6. CASE pending[th].op = "recognize"
      <4>1. Timestamp(th) = clock BY <3>6 DEF Timestamp
      <4>2. log[Len(log)].op # "recognize"
          BY <1>0, <1>n, <3>3, <3>4, <3>5, <4>1 DEF LogTimes
      <4> QED BY <1>0, <3>3, <3>5, <4>2 DEF LogTypes
    <3> QED BY <3>3, <3>5, <3>6
  <2> QED BY <2>2, <2>3, <2>4 DEF StreamInv
\* A frame is completed in order and with a time the clock has reached.
<1>5. ASSUME NEW th \in Threads, NEW recognitions, NEW reading,
             MayRecognize(th), Complete(th, recognitions, reading)
      PROVE  StreamInv'
  <2> DEFINE entry == LogEntry(th, recognitions, reading)
  <2>1. /\ last_timestamp' = Timestamp(th) /\ log' = Append(log, entry)
        /\ Return(th, "ok") /\ ~closed /\ closed' = closed
        /\ Recognizing(th)
      BY <1>5 DEF Complete, MayRecognize
  <2>2. /\ entry.at = Timestamp(th) /\ entry.op = pending[th].op
        /\ Timestamp(th) \in Stamps
        /\ pending[th].op \in {"recognize", "recognize_at"}
        /\ entry.op = "recognize" => entry.at = clock
      BY <1>0, <2>1 DEF LogEntry, Timestamp, LogTypes, Recognizing
  <2> HIDE DEF entry
  <2>3. /\ log' \in Seq(Range(log')) /\ log' # <<>> /\ log'[Len(log')] = entry
        /\ \A i \in DOMAIN log' : (i \in DOMAIN log /\ log'[i] = log[i]) \/ log'[i] = entry
      BY <1>0, <2>1, LogGrows DEF LogTypes
  <2>4. LogTypes'
      BY <1>0, <1>p, <2>1, <2>2, <2>3 DEF LogTypes
  <2>5. LogTimes'
      BY <1>0, <1>n, <1>p, <2>1, <2>2, <2>3 DEF LogTimes, LogTypes
  <2>6. OnlyLateFramesRefused' /\ ClosedIsEmpty'
      BY <1>p, <2>1 DEF OnlyLateFramesRefused, LateOnlyIfOvertaken, ClockCallsAreInOrder,
          ClosedIsEmpty
  <2> QED BY <2>4, <2>5, <2>6 DEF StreamInv
\* reset and close leave nothing behind.
<1>6. ASSUME NEW th \in Threads, ForgetStream, Return(th, "ok")
      PROVE  StreamInv'
  <2>1. /\ log' = <<>> /\ last_timestamp' = NoTime /\ history' = <<>>
        /\ last_emitted' = NoPlate
      BY <1>6 DEF ForgetStream, ResetConsensus, EmissionFilter!ResetFilter, NoPlate,
          EmissionFilter!NoPlate
  <2>2. LogTypes'
      BY <1>0, <1>p, <1>6, <2>1 DEF LogTypes, Range
  <2>3. LogTimes' /\ ClosedIsEmpty'
      BY <2>1 DEF LogTimes, ClosedIsEmpty
  <2>4. OnlyLateFramesRefused'
      BY <1>p, <1>6 DEF OnlyLateFramesRefused, LateOnlyIfOvertaken, ClockCallsAreInOrder
  <2> QED BY <2>2, <2>3, <2>4 DEF StreamInv
<1>7. ASSUME NEW th \in Threads,
             \/ ThrowClosed(th) \/ ThrowLate(th) \/ PipelineThrows(th)
             \/ \E recognitions \in {"none", "several"} : UnusableFrame(th, recognitions)
             \/ \E reading \in Frames : SinglePlateFrame(th, reading)
             \/ Reset(th) \/ Close(th)
      PROVE  StreamInv'
  <2>1. CASE ThrowClosed(th)
      BY <1>4, <2>1 DEF ThrowClosed
  <2>2. CASE ThrowLate(th)
      BY <1>4, <2>2 DEF ThrowLate
  <2>3. CASE PipelineThrows(th)
      BY <1>4, <2>3 DEF PipelineThrows
  <2>4. CASE \E recognitions \in {"none", "several"} : UnusableFrame(th, recognitions)
      BY <1>5, <2>4 DEF UnusableFrame
  <2>5. CASE \E reading \in Frames : SinglePlateFrame(th, reading)
      BY <1>5, <2>5 DEF SinglePlateFrame
  <2>6. CASE Reset(th)
      BY <1>6, <2>6 DEF Reset
  <2>7. CASE Close(th) /\ ~closed
      BY <1>6, <2>7 DEF Close
  <2>8. CASE Close(th) /\ closed
    <3>1. Throw(th, "ok")
        BY <2>8 DEF Close, Throw
    <3> QED BY <1>4, <3>1
  <2> QED BY <1>7, <2>1, <2>2, <2>3, <2>4, <2>5, <2>6, <2>7, <2>8
<1>8. CASE UNCHANGED vars
  <2>1. UNCHANGED <<sessionVars, clock, pending, out, log>>
      BY <1>8 DEF vars
  <2> QED BY <1>0, <1>1, <1>n, <2>1 DEF LogTypes, Recognizing
<1> QED BY <1>2, <1>3, <1>7, <1>8 DEF Next, Stamps

-----------------------------------------------------------------------------
(* Windows of a log.                                                       *)

\* A log of n frames, completed in order of time.
OrderedLog(l, n) ==
    /\ n \in Nat /\ DOMAIN l = 1..n
    /\ \A i \in 1..n : l[i].at \in 0..MaxTime /\ l[i].result \in PlateRecognitionResult
    /\ \A i, j \in 1..n : i <= j => l[i].at <= l[j].at

\* The frames of a log that the consensus has seen, those it still admits at frame
\* k, those it remembers after the whole log, and what it remembers of them.
ObservedIn(l) == {i \in DOMAIN l : l[i].recognitions = "one"}
WindowIn(l, k) ==
    {i \in ObservedIn(l) : /\ i <= k /\ l[k].at - l[i].at <= history_ttl
                           /\ Cardinality({j \in ObservedIn(l) : i < j /\ j <= k})
                                < max_history}
Kept(l) == IF ObservedIn(l) = {} THEN {} ELSE WindowIn(l, Max(ObservedIn(l)))
EntriesOf(l, s) ==
    [i \in DOMAIN s |-> [result |-> l[s[i]].result, timestamp |-> l[s[i]].at]]

\* l with one more frame.
Extends(l2, l, n) ==
    /\ DOMAIN l2 = 1..(n + 1)
    /\ \A i \in 1..n : l2[i] = l[i]

\* Before its m-th element, b is a from index s on.
Continues(b, m, a, s) == \A i \in 1..(m - 1) : b[i] = a[s + i - 1]

\* What a has from index s on, and x.
EndAnd(a, s, n, x) == {a[t] : t \in s..n} \cup {x}

\* The end of an ascending list, and a number above all of it.
LEMMA SuffixAscends ==
    ASSUME NEW S, S \subseteq Int, NEW n \in Nat, NEW a, Ascends(a, n, S),
           NEW x \in Int, \A y \in S : y < x, NEW s \in 1..(n + 1),
           NEW m, m = n + 2 - s,
           NEW X, NEW b \in [1..m -> X], b[m] = x,
           Continues(b, m, a, s)
    PROVE  Ascends(b, m, EndAnd(a, s, n, x))
<1> DEFINE D == EndAnd(a, s, n, x)
<1>0. \A y : y \in D <=> y = x \/ \E t \in s..n : y = a[t]
    BY DEF EndAnd
<1> HIDE DEF D
<1>1. /\ m \in Nat /\ m >= 1 /\ s \in Int /\ s >= 1
      /\ \A t \in s..n : t \in 1..n
  <2>1. s \in Int /\ s >= 1 /\ s <= n + 1
      OBVIOUS
  <2> QED BY ONLY <2>1, n \in Nat, m = n + 2 - s
<1>2. \A i \in 1..m : i = m \/ (i \in 1..(m - 1) /\ s + i - 1 \in s..n /\ s + i - 1 \in 1..n)
  <2>1. s \in Int /\ s >= 1 /\ s <= n + 1
      OBVIOUS
  <2> QED BY ONLY <2>1, n \in Nat, m = n + 2 - s
<1>3. \A t \in 1..n : a[t] \in S /\ a[t] \in Int /\ a[t] < x
    BY DEF Ascends
<1>4. b[m] = x /\ m \in 1..m /\ \A i \in 1..(m - 1) : b[i] = a[s + i - 1] /\ i \in 1..m
  <2>1. m \in 1..m /\ \A i \in 1..(m - 1) : i \in 1..m
      BY ONLY <1>1
  <2> QED BY <2>1 DEF Continues
<1>5. b \in [1..m -> D]
  <2>1. \A i \in 1..m : b[i] \in D
    <3> SUFFICES ASSUME NEW i \in 1..m PROVE b[i] \in D
        OBVIOUS
    <3>1. CASE i = m
        BY <1>0, <1>4, <3>1
    <3>2. CASE i # m
      <4>1. b[i] = a[s + i - 1] /\ s + i - 1 \in s..n
          BY <1>2, <1>4, <3>2
      <4> QED BY <1>0, <4>1
    <3> QED BY <3>1, <3>2
  <2> QED BY ONLY <2>1, b \in [1..m -> X]
<1>6. ASSUME NEW i \in 1..m, NEW j \in 1..m, i < j PROVE b[i] < b[j]
  <2>1. i # m
    <3> QED BY ONLY <1>1, <1>6, i \in 1..m, j \in 1..m
  <2>2. i \in 1..(m - 1) /\ s + i - 1 \in 1..n
      BY <1>2, <2>1
  <2>3. b[i] = a[s + i - 1]
      BY <1>4, <2>2
  <2>4. CASE j = m
      BY <1>3, <1>4, <2>2, <2>3, <2>4
  <2>5. CASE j # m
    <3>1. j \in 1..(m - 1) /\ s + j - 1 \in 1..n
        BY <1>2, <2>5
    <3>2. b[j] = a[s + j - 1]
        BY <1>4, <3>1
    <3>3. s + i - 1 < s + j - 1
      <4>1. i \in Int /\ j \in Int
          BY ONLY <1>1, i \in 1..m, j \in 1..m
      <4> QED BY ONLY <1>1, <1>6, <4>1
    <3> QED BY <2>2, <2>3, <3>1, <3>2, <3>3 DEF Ascends
  <2> QED BY <2>4, <2>5
<1>7. \A y \in D : \E i \in 1..m : b[i] = y
  <2> SUFFICES ASSUME NEW y \in D, y # x PROVE \E i \in 1..m : b[i] = y
      BY <1>4
  <2>1. PICK t \in s..n : y = a[t]
      BY <1>0
  <2>2. t - s + 1 \in 1..(m - 1) /\ s + (t - s + 1) - 1 = t
    <3>1. t \in Int /\ t >= s /\ t <= n
        BY ONLY <1>1, n \in Nat, t \in s..n
    <3> QED BY ONLY <1>1, <3>1, n \in Nat, m = n + 2 - s
  <2>3. t - s + 1 \in 1..m /\ b[t - s + 1] = a[s + (t - s + 1) - 1]
      BY <1>4, <2>2
  <2> QED BY <2>1, <2>2, <2>3
<1> QED BY <1>5, <1>6, <1>7 DEF Ascends, D

\* What the consensus has seen and still keeps are frames of the log.
LEMMA KeptFrames ==
    ASSUME NEW l, NEW n, OrderedLog(l, n)
    PROVE  /\ n \in Nat /\ IsFiniteSet(1..n) /\ 1..n \subseteq Int
           /\ ObservedIn(l) \subseteq 1..n /\ IsFiniteSet(ObservedIn(l))
           /\ Kept(l) \subseteq ObservedIn(l) /\ IsFiniteSet(Kept(l))
           /\ Kept(l) \subseteq Int /\ ObservedIn(l) \subseteq Int
           /\ ObservedIn(l) # {} =>
                /\ Max(ObservedIn(l)) \in ObservedIn(l)
                /\ \A j \in ObservedIn(l) : j <= Max(ObservedIn(l))
<1>1. n \in Nat /\ IsFiniteSet(1..n) /\ 1..n \subseteq Int
  <2>1. n \in Nat
      BY DEF OrderedLog
  <2> QED BY <2>1, FS_Interval
<1>2. ObservedIn(l) \subseteq 1..n
    BY DEF ObservedIn, OrderedLog
<1>3. IsFiniteSet(ObservedIn(l)) /\ ObservedIn(l) \subseteq Int
    BY <1>1, <1>2, FS_Subset
<1>4. Kept(l) \subseteq ObservedIn(l)
    BY DEF Kept, WindowIn
<1>5. IsFiniteSet(Kept(l)) /\ Kept(l) \subseteq Int
    BY <1>3, <1>4, FS_Subset
<1>6. ASSUME ObservedIn(l) # {}
      PROVE  /\ Max(ObservedIn(l)) \in ObservedIn(l)
             /\ \A j \in ObservedIn(l) : j <= Max(ObservedIn(l))
  <2>1. PICK x \in ObservedIn(l) : \A y \in ObservedIn(l) : y <= x
      BY <1>3, <1>6, HasMax
  <2>2. Max(ObservedIn(l)) = x
      BY <1>3, <2>1, LargestIs
  <2> QED BY <2>1, <2>2
<1> QED BY <1>1, <1>2, <1>3, <1>4, <1>5, <1>6

\* Of the frames seen, the ones kept are the last ones.
LEMMA KeptAreLast ==
    ASSUME NEW l, NEW n, OrderedLog(l, n), NEW i \in Kept(l), NEW j \in ObservedIn(l), i <= j
    PROVE  j \in Kept(l)
<1> DEFINE k == Max(ObservedIn(l))
           above(x) == {u \in ObservedIn(l) : x < u /\ u <= k}
<1>1. /\ ObservedIn(l) # {} /\ i \in ObservedIn(l) /\ l[k].at - l[i].at <= history_ttl
      /\ Cardinality(above(i)) < max_history /\ Kept(l) = WindowIn(l, k)
    BY DEF Kept, WindowIn
<1>2. k \in ObservedIn(l) /\ j <= k /\ IsFiniteSet(ObservedIn(l)) /\ ObservedIn(l) \subseteq Int
    BY <1>1, KeptFrames
<1> HIDE DEF k
<1>3. i \in Int /\ j \in Int /\ i \in 1..n /\ j \in 1..n /\ k \in 1..n
    BY <1>1, <1>2, KeptFrames
<1>4. l[k].at - l[j].at <= history_ttl
  <2>1. l[i].at <= l[j].at /\ l[i].at \in Int /\ l[j].at \in Int /\ l[k].at \in Int
      BY <1>3 DEF OrderedLog
  <2>2. history_ttl \in Int
      BY ConsensusAssumption
  <2> QED BY <1>1, <2>1, <2>2
<1>5. Cardinality(above(j)) < max_history
  <2>1. above(j) \subseteq above(i)
      BY <1>2, <1>3
  <2>2. IsFiniteSet(above(i))
      BY <1>2, FS_Subset
  <2> HIDE DEF above
  <2>3. /\ Cardinality(above(j)) <= Cardinality(above(i))
        /\ Cardinality(above(i)) \in Nat /\ Cardinality(above(j)) \in Nat
      BY <2>1, <2>2, FS_Subset, FS_CardinalityType
  <2>4. max_history \in Nat
      BY ConsensusAssumption
  <2> QED BY <1>1, <2>3, <2>4
<1> QED BY <1>1, <1>2, <1>4, <1>5 DEF WindowIn

\* One more frame leaves the windows of the earlier ones as they are.
LEMMA WindowsStay ==
    ASSUME NEW l, NEW n, OrderedLog(l, n), NEW l2, Extends(l2, l, n), NEW k \in 1..n
    PROVE  /\ WindowIn(l2, k) = WindowIn(l, k)
           /\ EntriesOf(l2, Ascending(WindowIn(l2, k))) = EntriesOf(l, Ascending(WindowIn(l, k)))
<1>1. n \in Nat /\ \A i \in 1..(n + 1) : i <= k => i \in 1..n
    BY DEF OrderedLog
<1>2. \A i \in 1..n : l2[i] = l[i] /\ i \in 1..(n + 1)
    BY <1>1 DEF Extends
<1>3. \A i : i <= k => (i \in ObservedIn(l2) <=> i \in ObservedIn(l))
    BY <1>1, <1>2 DEF ObservedIn, Extends, OrderedLog
<1>4. \A i : {j \in ObservedIn(l2) : i < j /\ j <= k} = {j \in ObservedIn(l) : i < j /\ j <= k}
    BY <1>3
<1>5. \A i \in ObservedIn(l) : l2[i] = l[i]
    BY <1>2 DEF ObservedIn, OrderedLog
<1>6. WindowIn(l2, k) = WindowIn(l, k)
    BY <1>2, <1>3, <1>4, <1>5 DEF WindowIn
<1>7. IsFiniteSet(WindowIn(l, k)) /\ WindowIn(l, k) \subseteq ObservedIn(l)
      /\ WindowIn(l, k) \subseteq Int
    BY KeptFrames, FS_Subset DEF WindowIn
<1>8. \A i \in DOMAIN Ascending(WindowIn(l, k)) : Ascending(WindowIn(l, k))[i] \in ObservedIn(l)
    BY <1>7, AscendingAscends DEF Ascends
<1> QED BY <1>5, <1>6, <1>8 DEF EntriesOf

\* The window of a new frame: of what was kept, the part its own bounds admit, and
\* the frame.
LEMMA WindowGrows ==
    ASSUME NEW l, NEW n, OrderedLog(l, n), NEW l2, Extends(l2, l, n), OrderedLog(l2, n + 1),
           l2[n + 1].recognitions = "one",
           NEW s \in 1..(Cardinality(Kept(l)) + 1),
           \A t \in 1..Cardinality(Kept(l)) :
              t >= s <=> /\ ~(l2[n + 1].at - l[Ascending(Kept(l))[t]].at > history_ttl)
                         /\ Cardinality(Kept(l)) - t + 1 < max_history
    PROVE  WindowIn(l2, n + 1) =
              {Ascending(Kept(l))[t] : t \in s..Cardinality(Kept(l))} \cup {n + 1}
<1> DEFINE a == Ascending(Kept(l))
           c == Cardinality(Kept(l))
           K == n + 1
           above(i) == {j \in ObservedIn(l2) : i < j /\ j <= K}
<1>1. /\ n \in Nat /\ IsFiniteSet(1..n) /\ Kept(l) \subseteq ObservedIn(l)
      /\ ObservedIn(l) \subseteq 1..n /\ IsFiniteSet(Kept(l)) /\ Kept(l) \subseteq Int
    BY KeptFrames
<1>2. c \in Nat /\ Ascends(a, c, Kept(l))
    BY <1>1, AscendingAscends
<1> HIDE DEF a, c
<1>3. ObservedIn(l2) = ObservedIn(l) \cup {K}
  <2>1. DOMAIN l2 = 1..K /\ DOMAIN l = 1..n /\ 1..K = (1..n) \cup {K}
      BY <1>1 DEF OrderedLog, Extends
  <2> HIDE DEF K
  <2>2. l2[K].recognitions = "one"
      BY DEF K
  <2> QED BY <2>1, <2>2 DEF ObservedIn, Extends
<1>4. /\ \A t \in 1..c : a[t] \in Kept(l) /\ a[t] \in ObservedIn(l) /\ a[t] \in 1..n
      /\ \A x \in Kept(l) : \E t \in 1..c : a[t] = x
      /\ \A t, u \in 1..c : t < u => a[t] < a[u]
    BY <1>1, <1>2 DEF Ascends
<1>5. \A x \in 1..n : x < K /\ x <= K /\ x # K /\ x \in Int
    BY <1>1
<1>6. \A x \in 1..n : l2[x] = l[x]
    BY DEF Extends
<1>7. /\ IsFiniteSet(ObservedIn(l2)) /\ \A i : IsFiniteSet(above(i))
      /\ \A i : Cardinality(above(i)) \in Nat
  <2>1. IsFiniteSet(ObservedIn(l2))
      BY KeptFrames
  <2>2. \A i : above(i) \subseteq ObservedIn(l2)
      OBVIOUS
  <2> HIDE DEF above
  <2> QED BY <2>1, <2>2, FS_Subset, FS_CardinalityType
<1>8. max_history \in Nat /\ max_history >= 1 /\ history_ttl \in Nat /\ K \in Int
    BY <1>1, ConsensusAssumption
<1>9. \A x \in 1..K : l2[x].at \in Int /\ l2[x].at <= l2[K].at
  <2>1. K \in 1..K /\ \A x \in 1..K : x <= K
      BY <1>1
  <2> HIDE DEF K
  <2>2. OrderedLog(l2, K)
      BY DEF K
  <2>3. \A x \in 1..K : l2[x].at \in 0..MaxTime
      BY <2>2 DEF OrderedLog
  <2> QED BY <2>1, <2>2, <2>3, ConsensusAssumption DEF OrderedLog
\* The number of frames after one that is kept.
<1>10. ASSUME NEW t \in 1..c PROVE Cardinality(above(a[t])) = c - t + 1
  <2> DEFINE D == {a[u] : u \in (t + 1)..c} \cup {K}
             m == c - t + 1
             b == [i \in 1..m |-> IF i = m THEN K ELSE a[(t + 1) + i - 1]]
  <2>1. t + 1 \in 1..(c + 1) /\ t \in Int /\ \A u \in (t + 1)..c : u \in 1..c /\ t < u
      BY ONLY <1>2, t \in 1..c
  <2>2. \A y \in Kept(l) : y < K
      BY <1>1, <1>5
  <2>5. m \in Nat /\ m >= 1 /\ m = c + 2 - (t + 1) /\ m \in 1..m
        /\ \A i \in 1..(m - 1) : i \in 1..m /\ i # m
    <3>1. m \in Nat /\ m >= 1 /\ m = c + 2 - (t + 1)
        BY ONLY <1>2, t \in 1..c
    <3> HIDE DEF m
    <3> QED BY ONLY <3>1
  <2> HIDE DEF m
  <2>3. Ascends(b, m, D)
    <3>1. /\ b \in [1..m -> {b[i] : i \in 1..m}] /\ b[m] = K
          /\ Continues(b, m, a, t + 1)
        BY <2>5 DEF Continues
    <3>2. D = EndAnd(a, t + 1, c, K)
        BY DEF EndAnd
    <3> HIDE DEF K, D, b
    <3> QED BY ONLY <1>1, <1>2, <1>8, <2>1, <2>2, <2>5, <3>1, <3>2, SuffixAscends
  <2>4. D \subseteq Int
      BY <1>4, <1>5, <1>8, <2>1
  <2>6. Cardinality(D) = m
    <3> HIDE DEF b, D
    <3> QED BY ONLY <2>3, <2>4, <2>5, AscendsCounts
  <2>7. above(a[t]) \subseteq D
    <3> SUFFICES ASSUME NEW j \in ObservedIn(l2), a[t] < j, j # K
                 PROVE  \E u \in (t + 1)..c : j = a[u]
        OBVIOUS
    <3>1. j \in ObservedIn(l) /\ j \in Int /\ a[t] \in Kept(l) /\ a[t] \in Int /\ a[t] <= j
        BY <1>1, <1>3, <1>4, <1>5
    <3>2. j \in Kept(l)
        BY <3>1, KeptAreLast
    <3>3. PICK u \in 1..c : a[u] = j
        BY <1>4, <3>2
    <3>4. t \in Int /\ u \in Int /\ u <= c
        BY ONLY <1>2, t \in 1..c, u \in 1..c
    <3>5. ~(u < t) /\ u # t
        BY <1>4, <3>1, <3>3
    <3>6. u \in (t + 1)..c
        BY ONLY <1>2, <3>4, <3>5
    <3> QED BY <3>3, <3>6
  <2>8. D \subseteq above(a[t])
    <3>1. a[t] \in 1..n /\ a[t] < K /\ K <= K
        BY <1>4, <1>5, <1>8
    <3>2. K \in above(a[t])
        BY <1>3, <3>1
    <3>3. \A u \in (t + 1)..c : a[u] \in above(a[t])
        BY <1>3, <1>4, <1>5, <2>1
    <3> QED BY <3>2, <3>3
  <2> HIDE DEF D, above
  <2>9. above(a[t]) = D
      BY <2>7, <2>8
  <2> QED BY <2>6, <2>9 DEF m
\* A frame that was given up before is not admitted again.
<1>11. ASSUME NEW i \in WindowIn(l2, K), i # K PROVE i \in Kept(l)
  <2> DEFINE k == Max(ObservedIn(l))
  <2>1. /\ i \in ObservedIn(l) /\ l2[K].at - l2[i].at <= history_ttl
        /\ Cardinality(above(i)) < max_history
      BY <1>3, <1>11 DEF WindowIn
  <2>2. k \in ObservedIn(l) /\ i <= k /\ ObservedIn(l) # {} /\ k \in 1..n /\ i \in 1..n
      BY <1>1, <2>1, KeptFrames
  <2> HIDE DEF k
  <2>3. l[k].at - l[i].at <= history_ttl
    <3>1. k \in 1..K /\ i \in 1..K /\ K \in 1..K
        BY <1>1, <2>2
    <3>2. l2[k] = l[k] /\ l2[i] = l[i]
        BY <1>6, <2>2
    <3>3. l2[k].at \in Int /\ l2[i].at \in Int /\ l2[K].at \in Int /\ l2[k].at <= l2[K].at
      <4> HIDE DEF K
      <4> QED BY <1>9, <3>1
    <3> HIDE DEF K
    <3> QED BY ONLY <1>8, <2>1, <3>2, <3>3
  <2>4. Cardinality({j \in ObservedIn(l) : i < j /\ j <= k}) < max_history
    <3> DEFINE B == {j \in ObservedIn(l) : i < j /\ j <= k}
    <3>1. B \subseteq above(i)
        BY <1>1, <1>3, <1>5
    <3> HIDE DEF B, above
    <3>2. Cardinality(B) <= Cardinality(above(i)) /\ Cardinality(B) \in Nat
        BY <1>7, <3>1, FS_Subset, FS_CardinalityType
    <3>3. Cardinality(B) < max_history
        BY ONLY <1>7, <1>8, <2>1, <3>2
    <3> QED BY <3>3 DEF B
  <2> QED BY <2>1, <2>2, <2>3, <2>4 DEF Kept, WindowIn, k
<1>12. K \in WindowIn(l2, K)
  <2>1. above(K) = {}
    <3>1. ~ \E j \in ObservedIn(l2) : K < j /\ j <= K
      <4>1. \A j \in ObservedIn(l2) : j \in Int
          BY <1>1, <1>3, <1>8
      <4> QED BY <1>8, <4>1
    <3> QED BY <3>1
  <2>2. Cardinality(above(K)) = 0
    <3> HIDE DEF above
    <3> QED BY <2>1, FS_EmptySet
  <2>3. K \in 1..K
      BY <1>1
  <2>4. l2[K].at - l2[K].at <= history_ttl
    <3>1. l2[K].at \in Int
        BY <1>9, <2>3
    <3> HIDE DEF K
    <3> QED BY ONLY <1>8, <3>1
  <2>5. K <= K /\ 0 < max_history
      BY <1>8
  <2> QED BY <1>3, <2>2, <2>4, <2>5 DEF WindowIn
<1>13. ASSUME NEW t \in 1..c PROVE a[t] \in WindowIn(l2, K) <=> t >= s
  <2>1. /\ a[t] \in ObservedIn(l2) /\ a[t] <= K /\ l2[a[t]] = l[a[t]]
        /\ Cardinality(above(a[t])) = c - t + 1
      BY <1>3, <1>4, <1>5, <1>6, <1>10
  <2>2. t >= s <=> ~(l2[K].at - l[a[t]].at > history_ttl) /\ c - t + 1 < max_history
      BY DEF a, c
  <2>3. l2[K].at - l[a[t]].at \in Int
    <3>1. a[t] \in 1..K /\ K \in 1..K
        BY <1>1, <1>4
    <3>2. l2[a[t]].at \in Int /\ l2[K].at \in Int
        BY <1>9, <3>1
    <3> HIDE DEF K
    <3> QED BY ONLY <2>1, <3>2
  <2> HIDE DEF K
  <2>4. ~(l2[K].at - l[a[t]].at > history_ttl) <=> l2[K].at - l[a[t]].at <= history_ttl
      BY ONLY <1>8, <2>3
  <2> QED BY <2>1, <2>2, <2>4 DEF WindowIn
<1>14. \A t \in 1..c : t >= s <=> t \in s..c
    BY <1>2 DEF c
<1>15. \A t \in s..c : t \in 1..c
    BY <1>2 DEF c
<1> HIDE DEF K
<1>16. WindowIn(l2, K) = {a[t] : t \in s..c} \cup {K}
  <2>1. ASSUME NEW i \in WindowIn(l2, K), i # K PROVE \E t \in s..c : i = a[t]
      BY <1>4, <1>11, <1>13, <1>14, <2>1
  <2>2. \A t \in s..c : a[t] \in WindowIn(l2, K)
      BY <1>13, <1>14, <1>15
  <2> QED BY <1>12, <2>1, <2>2
<1> QED BY <1>16 DEF a, c, K

\* What observe makes of a history that is what the consensus remembers of the log.
LEMMA RememberIsWindow ==
    ASSUME NEW l, NEW n, OrderedLog(l, n), NEW l2, Extends(l2, l, n), OrderedLog(l2, n + 1),
           l2[n + 1].recognitions = "one"
    PROVE  /\ Remember(EntriesOf(l, Ascending(Kept(l))), l2[n + 1].result, l2[n + 1].at) =
                 EntriesOf(l2, Ascending(WindowIn(l2, n + 1)))
           /\ EntriesOf(l2, Ascending(WindowIn(l2, n + 1))) \in Seq(Observation)
<1> DEFINE a == Ascending(Kept(l))
           c == Cardinality(Kept(l))
           K == n + 1
           h == EntriesOf(l, a)
           entry(i) == [result |-> l2[i].result, timestamp |-> l2[i].at]
<1>1. /\ n \in Nat /\ Kept(l) \subseteq ObservedIn(l) /\ Kept(l) \subseteq 1..n
      /\ ObservedIn(l) \subseteq 1..n /\ IsFiniteSet(Kept(l)) /\ Kept(l) \subseteq Int
  <2>1. Kept(l) \subseteq ObservedIn(l) /\ ObservedIn(l) \subseteq 1..n
      BY KeptFrames
  <2> QED BY <2>1, KeptFrames
<1>2. c \in Nat /\ Ascends(a, c, Kept(l)) /\ DOMAIN a = 1..c
    BY <1>1, AscendingAscends
<1> HIDE DEF a, c
<1>3. /\ \A t \in 1..c : a[t] \in 1..n /\ l2[a[t]] = l[a[t]]
      /\ \A t, u \in 1..c : t <= u => a[t] <= a[u]
  <2>1. \A t \in 1..c : a[t] \in Kept(l) /\ a[t] \in Int
      BY <1>1, <1>2 DEF Ascends
  <2>2. \A t, u \in 1..c : t <= u => t = u \/ t < u
      BY ONLY <1>2
  <2>3. \A t, u \in 1..c : t < u => a[t] < a[u]
      BY <1>2 DEF Ascends
  <2>4. \A t \in 1..c : a[t] \in 1..n
      BY <1>1, <2>1
  <2> QED BY <2>1, <2>2, <2>3, <2>4 DEF Extends
<1>4. K \in 1..K /\ K \in Int /\ \A i \in 1..n : i \in 1..K /\ i < K /\ i # K
    BY <1>1
<1>5. \A i \in 1..K : entry(i) \in Observation /\ l2[i].at \in Int
  <2> HIDE DEF K
  <2>1. OrderedLog(l2, K)
      BY DEF K
  <2>2. \A i \in 1..K : l2[i].at \in 0..MaxTime /\ l2[i].result \in PlateRecognitionResult
      BY <2>1 DEF OrderedLog
  <2> QED BY <2>2, ConsensusAssumption DEF Observation
<1>6. h = [t \in 1..c |-> entry(a[t])]
    BY <1>2, <1>3 DEF EntriesOf
<1> HIDE DEF h
<1>7. h \in Seq(Observation) /\ Len(h) = c /\ DOMAIN h = 1..c
  <2>1. \A t \in 1..c : entry(a[t]) \in Observation
      BY <1>3, <1>4, <1>5
  <2> HIDE DEF entry
  <2> QED BY <1>2, <1>6, <2>1
<1>8. \A t \in 1..c : h[t] = entry(a[t]) /\ h[t].timestamp = l2[a[t]].at
    BY <1>6
<1>9. InOrder(h)
  <2> SUFFICES ASSUME NEW i \in 1..c, NEW j \in 1..c, i <= j
               PROVE  h[i].timestamp <= h[j].timestamp
      BY <1>7 DEF InOrder
  <2>1. a[i] \in 1..n /\ a[j] \in 1..n /\ a[i] <= a[j]
      BY <1>3
  <2>2. l[a[i]].at <= l[a[j]].at
      BY <2>1 DEF OrderedLog
  <2> QED BY <1>3, <1>8, <2>2
<1>10. l2[K].at \in Int /\ [result |-> l2[K].result, timestamp |-> l2[K].at] \in Observation
    BY <1>4, <1>5
<1> DEFINE R == Remember(h, l2[K].result, l2[K].at)
<1>11. PICK s \in 1..(c + 1) :
              EndsWith(R, h, s, entry(K), c) /\ AdmittedFrom(h, l2[K].at, s, c)
  <2>1. /\ entry(K) \in Observation /\ entry(K).result = l2[K].result
        /\ entry(K).timestamp = l2[K].at
      BY <1>10
  <2> HIDE DEF K, entry
  <2> QED BY <1>7, <1>9, <2>1, RememberKeeps
<1> DEFINE m == c + 2 - s
           b == [i \in 1..m |-> IF i = m THEN K ELSE a[s + i - 1]]
           W == WindowIn(l2, K)
<1>12. \A t \in 1..c : t >= s <=> /\ ~(l2[K].at - l[a[t]].at > history_ttl)
                                 /\ c - t + 1 < max_history
    BY <1>3, <1>8, <1>11 DEF Expired, AdmittedFrom
<1>13. W = {a[t] : t \in s..c} \cup {K}
    BY <1>12, WindowGrows DEF a, c
<1>14. /\ m \in Nat /\ m >= 1 /\ m \in 1..m
       /\ \A i \in 1..m : i = m \/ (i \in 1..(m - 1) /\ s + i - 1 \in 1..c)
       /\ \A i \in 1..(m - 1) : i \in 1..m /\ i # m
  <2>1. s \in Int /\ s >= 1 /\ s <= c + 1
      BY ONLY <1>2, s \in 1..(c + 1)
  <2>2. m \in Nat /\ m >= 1 /\ s + m = c + 2
      BY ONLY <1>2, <2>1
  <2> HIDE DEF m
  <2> QED BY ONLY <1>2, <2>1, <2>2
<1>15. /\ R \in Seq(Observation) /\ Len(R) = m
       /\ \A i \in 1..m : R[i] = IF i = m THEN entry(K) ELSE h[s + i - 1]
    BY <1>11 DEF EndsWith
<1>16. m = c + 2 - s
    OBVIOUS
<1> HIDE DEF m, R
<1>17. Ascends(b, m, W)
  <2>1. \A y \in Kept(l) : y < K
      BY <1>1, <1>4
  <2>2. /\ b \in [1..m -> {b[i] : i \in 1..m}] /\ b[m] = K
        /\ Continues(b, m, a, s)
      BY <1>14 DEF Continues
  <2>3. W = EndAnd(a, s, c, K)
    <3> HIDE DEF W, K
    <3> QED BY <1>13 DEF EndAnd
  <2> HIDE DEF K, W, b
  <2> QED BY ONLY <1>1, <1>2, <1>4, <1>16, <2>1, <2>2, <2>3, s \in 1..(c + 1), SuffixAscends
<1>18. W \subseteq 1..K /\ W \subseteq Int
  <2>1. \A t \in s..c : t \in 1..c
    <3>1. s \in Int /\ s >= 1
        BY ONLY <1>2, s \in 1..(c + 1)
    <3> QED BY ONLY <1>2, <3>1
  <2>2. \A t \in s..c : a[t] \in 1..K
      BY <1>3, <1>4, <2>1
  <2> QED BY <1>1, <1>4, <1>13, <2>2
<1>19. Ascending(W) = b
  <2> HIDE DEF b, W
  <2> QED BY <1>14, <1>17, <1>18, AscendingIs
<1> DEFINE N == EntriesOf(l2, b)
<1>20. N = [i \in 1..m |-> N[i]] /\ \A i \in 1..m : N[i] = entry(b[i])
    BY DEF EntriesOf
<1>21. \A i \in 1..m : N[i] = R[i]
  <2> SUFFICES ASSUME NEW i \in 1..m PROVE N[i] = R[i]
      OBVIOUS
  <2>1. b[i] = IF i = m THEN K ELSE a[s + i - 1]
      OBVIOUS
  <2>2. i # m => h[s + i - 1] = entry(a[s + i - 1])
      BY <1>8, <1>14
  <2> HIDE DEF entry, b, K, N
  <2> QED BY <1>15, <1>20, <2>1, <2>2
<1> HIDE DEF N, b
<1>22. R = N
  <2>1. R = [i \in 1..m |-> R[i]]
      BY ONLY <1>14, <1>15
  <2> QED BY <1>20, <1>21, <2>1
<1>23. R = EntriesOf(l2, Ascending(WindowIn(l2, K))) /\ R \in Seq(Observation)
    BY <1>15, <1>19, <1>22 DEF N, W
<1> QED BY <1>23 DEF R, h, a

-----------------------------------------------------------------------------
(* What the answers owe to the log.                                        *)

\* The history that a log leaves.
HistoryOf(l) ==
    IF ObservedIn(l) = {} THEN <<>>
    ELSE EntriesOf(l, Ascending(WindowIn(l, Max(ObservedIn(l)))))

\* The frames of a log that emitted a plate, and those that suppressed one.
EmissionsIn(l) == {i \in DOMAIN l : l[i].emitted # NoPlate}
SuppressedIn(l) == {i \in DOMAIN l : l[i].suppressed}

\* The answers of the log are readings and plates of the model; nothing is
\* emitted but the stable plate.
AnswerTypes ==
    /\ emission_stats \in [emitted : Nat, suppressed : Nat]
    /\ \A i \in DOMAIN log :
         /\ log[i].result \in PlateRecognitionResult
         /\ log[i].stable \in Plates \cup {NoPlate}
         /\ log[i].emitted \in {NoPlate, log[i].stable}

\* Frames are completed in order of time.
LogInOrder == \A i, j \in DOMAIN log : i <= j => log[i].at <= log[j].at

\* The filter remembers the last emission of the log.
LastEmission ==
    IF EmissionsIn(log) = {} THEN last_emitted = NoPlate
    ELSE /\ last_emitted = log[Max(EmissionsIn(log))].emitted
         /\ last_emitted_at = log[Max(EmissionsIn(log))].at

\* The invariant of the answers.
AnswerInv ==
    /\ AnswerTypes /\ LogInOrder /\ LastEmission
    /\ HistoryIsWindow /\ StableIffJustified /\ CooldownHonoured

\* When nothing is kept nothing is remembered.
LEMMA HistoryIsKept ==
    ASSUME NEW l, NEW n, OrderedLog(l, n)
    PROVE  HistoryOf(l) = EntriesOf(l, Ascending(Kept(l)))
<1>1. CASE ObservedIn(l) = {}
  <2>1. Ascends(<<>>, 0, {})
      BY DEF Ascends
  <2>2. {} \subseteq Int /\ 0 \in Nat
      OBVIOUS
  <2>3. Ascending({}) = <<>>
      BY ONLY <2>1, <2>2, AscendingIs
  <2>4. EntriesOf(l, <<>>) = <<>>
      BY DEF EntriesOf
  <2> QED BY <1>1, <2>3, <2>4 DEF HistoryOf, Kept
<1>2. CASE ObservedIn(l) # {}
    BY <1>2 DEF HistoryOf, Kept
<1> QED BY <1>1, <1>2

\* A frame with one plate.
LEMMA FrameSeen ==
    ASSUME NEW l, NEW n, OrderedLog(l, n), NEW l2, Extends(l2, l, n), OrderedLog(l2, n + 1),
           l2[n + 1].recognitions = "one"
    PROVE  /\ HistoryOf(l2) = Remember(HistoryOf(l), l2[n + 1].result, l2[n + 1].at)
           /\ HistoryOf(l2) = EntriesOf(l2, Ascending(WindowIn(l2, n + 1)))
           /\ HistoryOf(l2) \in Seq(Observation)
           /\ n + 1 \in ObservedIn(l2)
<1>1. n \in Nat /\ DOMAIN l2 = 1..(n + 1)
    BY DEF OrderedLog
<1>2. n + 1 \in ObservedIn(l2)
    BY <1>1 DEF ObservedIn
<1>3. ObservedIn(l2) \subseteq Int /\ \A j \in ObservedIn(l2) : j <= n + 1
    BY <1>1 DEF ObservedIn
<1>4. Max(ObservedIn(l2)) = n + 1
    BY <1>2, <1>3, LargestIs
<1>5. HistoryOf(l2) = EntriesOf(l2, Ascending(WindowIn(l2, n + 1)))
    BY <1>2, <1>4 DEF HistoryOf
<1> QED BY <1>2, <1>5, HistoryIsKept, RememberIsWindow

\* Any other frame.
LEMMA FrameUnseen ==
    ASSUME NEW l, NEW n, OrderedLog(l, n), NEW l2, Extends(l2, l, n),
           l2[n + 1].recognitions # "one"
    PROVE  HistoryOf(l2) = HistoryOf(l) /\ n + 1 \notin ObservedIn(l2)
<1>1. n \in Nat /\ DOMAIN l = 1..n /\ DOMAIN l2 = 1..(n + 1)
    BY DEF OrderedLog, Extends
<1>2. 1..(n + 1) = (1..n) \cup {n + 1} /\ n + 1 \notin 1..n
    BY <1>1
<1>3. ObservedIn(l2) = ObservedIn(l) /\ n + 1 \notin ObservedIn(l2)
    BY <1>1, <1>2 DEF ObservedIn, Extends
<1>4. ObservedIn(l) # {} => Max(ObservedIn(l)) \in 1..n
    BY KeptFrames
<1>5. ObservedIn(l) # {} => EntriesOf(l2, Ascending(WindowIn(l2, Max(ObservedIn(l)))))
                              = EntriesOf(l, Ascending(WindowIn(l, Max(ObservedIn(l)))))
    BY <1>4, WindowsStay
<1> QED BY <1>3, <1>5 DEF HistoryOf

\* Counting the frames of a log: A gives the frames in question.
LEMMA FramesCounted ==
    ASSUME NEW n \in Nat, NEW F \in SUBSET (1..n)
    PROVE  /\ IsFiniteSet(F) /\ F \subseteq Int /\ n + 1 \notin F
           /\ Cardinality(F) \in Nat /\ Cardinality(F \cup {n + 1}) = Cardinality(F) + 1
           /\ Max(F \cup {n + 1}) = n + 1
           /\ F # {} => Max(F) \in F /\ \A i \in F : i <= Max(F)
<1>1. IsFiniteSet(1..n)
    BY FS_Interval
<1>2. IsFiniteSet(F)
    BY <1>1, FS_Subset
<1>3. F \subseteq Int /\ n + 1 \notin F /\ \A i \in F : i <= n + 1
    BY ONLY n \in Nat, F \in SUBSET (1..n)
<1>4. Cardinality(F) \in Nat /\ Cardinality(F \cup {n + 1}) = Cardinality(F) + 1
    BY <1>2, <1>3, FS_AddElement, FS_CardinalityType
<1>5. Max(F \cup {n + 1}) = n + 1
  <2> DEFINE G == F \cup {n + 1}
  <2>1. G \subseteq Int /\ n + 1 \in G /\ \A i \in G : i <= n + 1
      BY <1>3
  <2> HIDE DEF G
  <2>2. Max(G) = n + 1
      BY <2>1, LargestIs
  <2> QED BY <2>2 DEF G
<1>6. ASSUME F # {} PROVE Max(F) \in F /\ \A i \in F : i <= Max(F)
  <2>1. PICK x \in F : \A y \in F : y <= x
      BY <1>2, <1>3, <1>6, HasMax
  <2>2. Max(F) = x
      BY <1>3, <2>1, LargestIs
  <2> QED BY <2>1, <2>2
<1> QED BY <1>2, <1>3, <1>4, <1>5, <1>6


\* A new session owes nothing.
LEMMA EmptyLogAnswers ==
    ASSUME NEW l, l = <<>>
    PROVE  /\ DOMAIN l = {} /\ ObservedIn(l) = {} /\ EmissionsIn(l) = {} /\ SuppressedIn(l) = {}
           /\ HistoryOf(l) = <<>>
<1>1. DOMAIN l = {}
    OBVIOUS
<1> QED BY <1>1 DEF ObservedIn, EmissionsIn, SuppressedIn, HistoryOf

\* What is said of the log and the filter is said of them in these terms.
LEMMA AnswerInvIs ==
    /\ HistoryIsWindow <=> history = HistoryOf(log)
    /\ StableIffJustified <=>
         \A k \in DOMAIN log, p \in Plates :
            log[k].stable = p <=>
               /\ k \in ObservedIn(log)
               /\ Justified(EntriesOf(log, Ascending(WindowIn(log, k))), p)
    /\ emission_stats.emitted = Cardinality({k \in DOMAIN log : log[k].emitted # NoPlate})
         <=> emission_stats.emitted = Cardinality(EmissionsIn(log))
    /\ emission_stats.suppressed = Cardinality({k \in DOMAIN log : log[k].suppressed})
         <=> emission_stats.suppressed = Cardinality(SuppressedIn(log))
<1>1. Observed = ObservedIn(log) /\ \A k : Window(k) = WindowIn(log, k)
    BY DEF Observed, ObservedIn, Window, WindowIn
<1>2. \A k : WindowEntries(k) = EntriesOf(log, Ascending(WindowIn(log, k)))
    BY <1>1 DEF WindowEntries, EntriesOf
<1>3. /\ HistoryIsWindow <=> history = HistoryOf(log)
      /\ StableIffJustified <=>
           \A k \in DOMAIN log, p \in Plates :
              log[k].stable = p <=>
                 /\ k \in ObservedIn(log)
                 /\ Justified(EntriesOf(log, Ascending(WindowIn(log, k))), p)
    BY <1>1, <1>2 DEF HistoryIsWindow, HistoryOf, StableIffJustified
<1> QED BY <1>3 DEF EmissionsIn, SuppressedIn

\* The same of the state after a step.
LEMMA AnswerInvIsAfter ==
    /\ HistoryIsWindow' <=> history' = HistoryOf(log')
    /\ StableIffJustified' <=>
         \A k \in DOMAIN log', p \in Plates :
            log'[k].stable = p <=>
               /\ k \in ObservedIn(log')
               /\ Justified(EntriesOf(log', Ascending(WindowIn(log', k))), p)
    /\ emission_stats'.emitted = Cardinality({k \in DOMAIN log' : log'[k].emitted # NoPlate})
         <=> emission_stats'.emitted = Cardinality(EmissionsIn(log'))
    /\ emission_stats'.suppressed = Cardinality({k \in DOMAIN log' : log'[k].suppressed})
         <=> emission_stats'.suppressed = Cardinality(SuppressedIn(log'))
<1>1. Observed' = ObservedIn(log') /\ \A k : Window(k)' = WindowIn(log', k)
    BY DEF Observed, ObservedIn, Window, WindowIn
<1>2. \A k : WindowEntries(k)' = EntriesOf(log', Ascending(WindowIn(log', k)))
    BY <1>1 DEF WindowEntries, EntriesOf
<1>3. HistoryIsWindow' <=> history' = HistoryOf(log')
    BY <1>1, <1>2 DEF HistoryIsWindow, HistoryOf
<1>4. StableIffJustified' <=>
         \A k \in DOMAIN log', p \in Plates :
            log'[k].stable = p <=>
               /\ k \in ObservedIn(log')
               /\ Justified(EntriesOf(log', Ascending(WindowIn(log', k))), p)
    BY <1>1, <1>2 DEF StableIffJustified
<1> QED BY <1>3, <1>4 DEF EmissionsIn, SuppressedIn

\* What the cooldown asks of frame k of log l.
RepeatedAt(l, k) ==
    LET emissions == {i \in DOMAIN l : i < k /\ l[i].emitted # NoPlate}
    IN  /\ emissions # {}
        /\ l[Max(emissions)].emitted = l[k].stable
        /\ l[k].at - l[Max(emissions)].at < duplicate_cooldown
HonouredAt(l, k) ==
    l[k].stable # NoPlate =>
        /\ l[k].suppressed <=> RepeatedAt(l, k)
        /\ l[k].emitted = IF RepeatedAt(l, k) THEN NoPlate ELSE l[k].stable

\* It asks the same of the earlier frames when one more is completed.
LEMMA HonouredStays ==
    ASSUME NEW l, NEW n, OrderedLog(l, n), NEW l2, Extends(l2, l, n), NEW k \in 1..n
    PROVE  HonouredAt(l2, k) <=> HonouredAt(l, k)
<1>1. n \in Nat /\ DOMAIN l = 1..n /\ DOMAIN l2 = 1..(n + 1) /\ \A i \in 1..n : l2[i] = l[i]
    BY DEF OrderedLog, Extends
<1> DEFINE E == {i \in DOMAIN l : i < k /\ l[i].emitted # NoPlate}
<1>2. {i \in DOMAIN l2 : i < k /\ l2[i].emitted # NoPlate} = E
  <2>1. \A i \in 1..(n + 1) : i < k => i \in 1..n
      BY <1>1
  <2>2. \A i \in 1..n : i \in 1..(n + 1)
      BY <1>1
  <2> QED BY <1>1, <2>1, <2>2
<1>3. E # {} => Max(E) \in 1..n
  <2>1. E \in SUBSET (1..n)
      BY <1>1
  <2> HIDE DEF E
  <2>2. E # {} => Max(E) \in E
      BY <1>1, <2>1, FramesCounted
  <2> QED BY <2>1, <2>2
<1>4. RepeatedAt(l2, k) <=> RepeatedAt(l, k)
  <2> HIDE DEF E
  <2>1. RepeatedAt(l2, k) <=> /\ E # {} /\ l2[Max(E)].emitted = l2[k].stable
                              /\ l2[k].at - l2[Max(E)].at < duplicate_cooldown
      BY <1>2 DEF RepeatedAt
  <2>2. RepeatedAt(l, k) <=> /\ E # {} /\ l[Max(E)].emitted = l[k].stable
                             /\ l[k].at - l[Max(E)].at < duplicate_cooldown
      BY DEF RepeatedAt, E
  <2> QED BY <1>1, <1>3, <2>1, <2>2
<1> QED BY <1>1, <1>4 DEF HonouredAt

\* The new frame is compared with the last emission of all.
LEMMA HonouredNow ==
    ASSUME NEW l, NEW n, OrderedLog(l, n), NEW l2, Extends(l2, l, n)
    PROVE  RepeatedAt(l2, n + 1) <=>
              /\ EmissionsIn(l) # {}
              /\ l[Max(EmissionsIn(l))].emitted = l2[n + 1].stable
              /\ l2[n + 1].at - l[Max(EmissionsIn(l))].at < duplicate_cooldown
<1>1. n \in Nat /\ DOMAIN l = 1..n /\ DOMAIN l2 = 1..(n + 1) /\ \A i \in 1..n : l2[i] = l[i]
    BY DEF OrderedLog, Extends
<1>2. {i \in DOMAIN l2 : i < n + 1 /\ l2[i].emitted # NoPlate} = EmissionsIn(l)
  <2>1. \A i \in 1..(n + 1) : i < n + 1 <=> i \in 1..n
      BY <1>1
  <2>2. \A i \in 1..n : i \in 1..(n + 1)
      BY <1>1
  <2> QED BY <1>1, <2>1, <2>2 DEF EmissionsIn
<1>3. EmissionsIn(l) # {} => Max(EmissionsIn(l)) \in 1..n
  <2>1. EmissionsIn(l) \in SUBSET (1..n)
      BY <1>1 DEF EmissionsIn
  <2>2. EmissionsIn(l) # {} => Max(EmissionsIn(l)) \in EmissionsIn(l)
      BY <1>1, <2>1, FramesCounted
  <2> QED BY <2>1, <2>2
<1>4. RepeatedAt(l2, n + 1) <=>
              /\ EmissionsIn(l) # {}
              /\ l2[Max(EmissionsIn(l))].emitted = l2[n + 1].stable
              /\ l2[n + 1].at - l2[Max(EmissionsIn(l))].at < duplicate_cooldown
    BY <1>2 DEF RepeatedAt
<1> QED BY <1>1, <1>3, <1>4

-----------------------------------------------------------------------------
(* One more frame.                                                         *)

\* A frame past the checks of recognize_locked, with what the consensus and the
\* filter made of it.
FrameDone(th, recognitions, result) ==
    /\ MayRecognize(th) /\ Complete(th, recognitions, result)
    /\ result \in PlateRecognitionResult
    /\ IF recognitions = "one" THEN Observe(result, Timestamp(th))
       ELSE history' = history /\ temporal'.stable.plate = NoPlate
    /\ EmissionFilter!Filter(temporal'.stable.plate, Timestamp(th))

\* The log after such a frame.
LEMMA FrameLogged ==
    ASSUME StreamInv, AnswerInv, NEW th \in Threads, NEW recognitions, NEW result,
           FrameDone(th, recognitions, result)
    PROVE  /\ OrderedLog(log, Len(log)) /\ Extends(log', log, Len(log))
           /\ OrderedLog(log', Len(log) + 1)
           /\ log'[Len(log) + 1] = LogEntry(th, recognitions, result)
           /\ Timestamp(th) \in 0..MaxTime
           /\ \A i \in DOMAIN log : log[i].at \in 0..MaxTime /\ log[i].at <= Timestamp(th)
<1> DEFINE n == Len(log)
           e == LogEntry(th, recognitions, result)
<1>0. LogTypes /\ LogTimes /\ AnswerTypes /\ LogInOrder
    BY DEF StreamInv, AnswerInv
<1>1. /\ log' = Append(log, e) /\ Recognizing(th) /\ ~Late(th)
      /\ result \in PlateRecognitionResult
    BY DEF FrameDone, Complete, MayRecognize
<1>2. e.at = Timestamp(th) /\ e.result = result
    BY DEF LogEntry
<1>3. Timestamp(th) \in 0..MaxTime
    BY <1>0, <1>1 DEF Timestamp, LogTypes, Stamps
<1> HIDE DEF e
<1>4. /\ n \in Nat /\ DOMAIN log = 1..n /\ DOMAIN log' = 1..(n + 1)
      /\ log'[n + 1] = e /\ \A i \in 1..n : log'[i] = log[i]
  <2>1. log \in Seq(Range(log))
      BY <1>0 DEF LogTypes
  <2> DEFINE X == Range(log) \cup {e}
  <2>2. log \in Seq(X)
    <3>1. Range(log) \subseteq X
        OBVIOUS
    <3> HIDE DEF X, Range
    <3> QED BY <2>1, <3>1
  <2>3. e \in X
      OBVIOUS
  <2> HIDE DEF X
  <2> QED BY <1>1, <2>2, <2>3
<1>5. \A i \in 1..n : log[i].at \in 0..MaxTime /\ log[i].at <= Timestamp(th)
  <2> SUFFICES ASSUME NEW i \in 1..n
               PROVE  log[i].at \in 0..MaxTime /\ log[i].at <= Timestamp(th)
      OBVIOUS
  <2>1. n \in 1..n /\ i <= n /\ log # <<>>
      BY <1>4
  <2>2. log[i].at \in 0..MaxTime /\ log[n].at \in 0..MaxTime
      BY <1>0, <1>4, <2>1 DEF LogTypes, Stamps
  <2>3. log[i].at <= log[n].at
      BY <1>0, <1>4, <2>1 DEF LogInOrder
  <2>4. last_timestamp = log[n].at
      BY <1>0, <2>1 DEF LogTimes
  <2>5. log[n].at # NoTime
      BY <2>2, ConsensusAssumption DEF NoTime, EmissionFilter!NoTime
  <2>6. ~(Timestamp(th) < log[n].at)
      BY <1>1, <2>4, <2>5 DEF Late
  <2> QED BY ONLY <1>3, <2>2, <2>3, <2>6, ConsensusAssumption
<1> HIDE DEF n
<1>6. OrderedLog(log, n)
    BY <1>0, <1>4, <1>5 DEF OrderedLog, AnswerTypes, LogInOrder
<1>7. Extends(log', log, n)
    BY <1>4 DEF Extends
<1>8. OrderedLog(log', n + 1)
  <2>1. \A i \in 1..(n + 1) : i \in 1..n \/ i = n + 1
      BY <1>4
  <2>2. n + 1 \in Nat
      BY <1>4
  <2>3. \A i \in 1..(n + 1) : log'[i].at \in 0..MaxTime /\ log'[i].result \in PlateRecognitionResult
      BY <1>1, <1>2, <1>3, <1>4, <1>6, <2>1 DEF OrderedLog
  <2>4. ASSUME NEW i \in 1..(n + 1), NEW j \in 1..(n + 1), i <= j PROVE log'[i].at <= log'[j].at
    <3>1. CASE i = n + 1
      <4>1. j = n + 1
          BY ONLY <1>4, <2>4, <3>1, j \in 1..(n + 1)
      <4> QED BY <1>2, <1>3, <1>4, <3>1, <4>1, ConsensusAssumption
    <3>2. CASE i \in 1..n /\ j = n + 1
        BY <1>2, <1>4, <1>5, <3>2
    <3>3. CASE i \in 1..n /\ j \in 1..n
        BY <1>4, <1>6, <2>4, <3>3 DEF OrderedLog
    <3> QED BY <2>1, <3>1, <3>2, <3>3
  <2> QED BY <1>4, <2>2, <2>3, <2>4 DEF OrderedLog
<1> QED BY <1>3, <1>4, <1>5, <1>6, <1>7, <1>8 DEF n, e

\* The consensus after such a frame.
LEMMA FrameVoted ==
    ASSUME StreamInv, AnswerInv, NEW th \in Threads, NEW recognitions, NEW result,
           FrameDone(th, recognitions, result)
    PROVE  /\ history' = HistoryOf(log')
           /\ temporal'.stable.plate \in Plates \cup {NoPlate}
           /\ \A p \in Plates : temporal'.stable.plate = p <=>
                 /\ Len(log) + 1 \in ObservedIn(log')
                 /\ Justified(EntriesOf(log', Ascending(WindowIn(log', Len(log) + 1))), p)
<1> DEFINE n == Len(log)
           e == LogEntry(th, recognitions, result)
<1>1. /\ OrderedLog(log, n) /\ Extends(log', log, n) /\ OrderedLog(log', n + 1)
      /\ log'[n + 1] = e
    BY FrameLogged
<1>2. e.at = Timestamp(th) /\ e.result = result /\ e.recognitions = recognitions
    BY DEF LogEntry
<1>3. history = HistoryOf(log)
    BY AnswerInvIs DEF AnswerInv
<1>4. NoPlate \notin Plates
    BY ConsensusAssumption
<1> HIDE DEF n, e
<1>5. CASE recognitions = "one"
  <2>1. history' = Remember(history, result, Timestamp(th)) /\ temporal' = Consensus(history')
      BY <1>5 DEF FrameDone, Observe
  <2>2. /\ HistoryOf(log') = Remember(HistoryOf(log), e.result, e.at)
        /\ HistoryOf(log') = EntriesOf(log', Ascending(WindowIn(log', n + 1)))
        /\ HistoryOf(log') \in Seq(Observation)
        /\ n + 1 \in ObservedIn(log')
      BY <1>1, <1>2, <1>5, FrameSeen
  <2>3. history' = HistoryOf(log')
      BY <1>2, <1>3, <2>1, <2>2
  <2>4. /\ temporal'.stable.plate \in Plates \cup {NoPlate}
        /\ \A p \in Plates : temporal'.stable.plate = p <=> Justified(history', p)
      BY <2>1, <2>2, <2>3, ConsensusIsJustified
  <2> QED BY <2>2, <2>3, <2>4 DEF n
<1>6. CASE recognitions # "one"
  <2>1. history' = history /\ temporal'.stable.plate = NoPlate
      BY <1>6 DEF FrameDone
  <2>2. HistoryOf(log') = HistoryOf(log) /\ n + 1 \notin ObservedIn(log')
      BY <1>1, <1>2, <1>6, FrameUnseen
  <2> QED BY <1>3, <1>4, <2>1, <2>2 DEF n
<1> QED BY <1>5, <1>6

\* The filter after such a frame.
LEMMA FrameFiltered ==
    ASSUME StreamInv, AnswerInv, NEW th \in Threads, NEW recognitions, NEW result,
           FrameDone(th, recognitions, result)
    PROVE  /\ LastEmission' /\ HonouredAt(log', Len(log) + 1)
           /\ log'[Len(log) + 1].emitted \in {NoPlate, log'[Len(log) + 1].stable}
           /\ emission_stats' \in [emitted : Nat, suppressed : Nat]
           /\ emission_stats'.emitted = Cardinality(EmissionsIn(log'))
           /\ emission_stats'.suppressed = Cardinality(SuppressedIn(log'))
<1> DEFINE n == Len(log)
           e == LogEntry(th, recognitions, result)
           plate == temporal'.stable.plate
           ts == Timestamp(th)
           E == EmissionsIn(log)
           S == SuppressedIn(log)
           k == Max(E)
           repeated == /\ E # {} /\ log[k].emitted = plate
                       /\ ts - log[k].at < duplicate_cooldown
<1>1. /\ OrderedLog(log, n) /\ Extends(log', log, n) /\ OrderedLog(log', n + 1)
      /\ log'[n + 1] = e /\ ts \in 0..MaxTime
      /\ \A i \in DOMAIN log : log[i].at \in 0..MaxTime /\ log[i].at <= ts
    BY FrameLogged
<1>2. /\ e.at = ts /\ e.stable = plate /\ e.emitted = emission'.emitted_result
      /\ e.suppressed = emission'.duplicate_suppressed
    BY DEF LogEntry
<1>3. /\ n \in Nat /\ DOMAIN log = 1..n /\ DOMAIN log' = 1..(n + 1)
      /\ \A i \in 1..n : log'[i] = log[i]
      /\ 1..(n + 1) = (1..n) \cup {n + 1} /\ n + 1 \notin 1..n
  <2>1. n \in Nat /\ DOMAIN log = 1..n /\ DOMAIN log' = 1..(n + 1)
        /\ \A i \in 1..n : log'[i] = log[i]
      BY <1>1 DEF OrderedLog, Extends
  <2> HIDE DEF n
  <2> QED BY <2>1
<1>4. /\ EmissionFilter!Filter(plate, ts) /\ LastEmission
      /\ emission_stats \in [emitted : Nat, suppressed : Nat]
      /\ emission_stats.emitted = Cardinality(E) /\ emission_stats.suppressed = Cardinality(S)
    BY AnswerInvIs DEF FrameDone, AnswerInv, AnswerTypes, CooldownHonoured
<1> HIDE DEF n, e, plate, ts
<1>5. /\ EmissionsIn(log') = IF e.emitted = NoPlate THEN E ELSE E \cup {n + 1}
      /\ SuppressedIn(log') = IF e.suppressed THEN S \cup {n + 1} ELSE S
      /\ E \in SUBSET (1..n) /\ S \in SUBSET (1..n)
    BY <1>1, <1>3 DEF EmissionsIn, SuppressedIn
<1>6. HonouredAt(log', n + 1) <=>
         (plate # NoPlate => /\ e.suppressed <=> repeated
                             /\ e.emitted = IF repeated THEN NoPlate ELSE plate)
  <2>1. RepeatedAt(log', n + 1) <=> repeated
      BY <1>1, <1>2, HonouredNow
  <2> HIDE DEF repeated
  <2> QED BY <1>1, <1>2, <2>1 DEF HonouredAt
<1>7. E # {} => /\ k \in 1..n /\ log[k].emitted # NoPlate
                /\ last_emitted = log[k].emitted /\ last_emitted_at = log[k].at
  <2>1. E # {} => k \in E
      BY <1>3, <1>5, FramesCounted
  <2>2. E # {} => last_emitted = log[k].emitted /\ last_emitted_at = log[k].at
      BY <1>4 DEF LastEmission
  <2> QED BY <1>3, <2>1, <2>2 DEF EmissionsIn
<1>8. E = {} => last_emitted = NoPlate
    BY <1>4 DEF LastEmission
<1>9. plate # NoPlate => (EmissionFilter!InsideCooldown(plate, ts) <=> repeated)
  <2>1. CASE E = {}
      BY <1>8, <2>1 DEF EmissionFilter!InsideCooldown, EmissionFilter!NoPlate, NoPlate
  <2>2. CASE E # {}
    <3>1. log[k].at <= ts /\ log[k].at \in 0..MaxTime
        BY <1>1, <1>3, <1>7, <2>2
    <3>2. ts >= log[k].at
        BY ONLY <1>1, <3>1, ConsensusAssumption
    <3> QED BY <1>7, <2>2, <3>2 DEF EmissionFilter!InsideCooldown, EmissionFilter!NoPlate, NoPlate
  <2> QED BY <2>1, <2>2
<1>10. /\ Cardinality(E) \in Nat /\ Cardinality(E \cup {n + 1}) = Cardinality(E) + 1
       /\ Cardinality(S) \in Nat /\ Cardinality(S \cup {n + 1}) = Cardinality(S) + 1
       /\ Max(E \cup {n + 1}) = n + 1
    BY <1>3, <1>5, FramesCounted
<1> HIDE DEF repeated, E, S, k
<1>11. ASSUME e.emitted = NoPlate, UNCHANGED <<last_emitted, last_emitted_at>>
       PROVE  LastEmission'
  <2>1. EmissionsIn(log') = E
      BY <1>5, <1>11
  <2>2. E # {} => Max(E) \in 1..n /\ log'[Max(E)] = log[Max(E)]
      BY <1>3, <1>7 DEF k
  <2> QED BY <1>4, <1>11, <2>1, <2>2 DEF LastEmission, E
<1>12. CASE EmissionFilter!NothingStable(plate)
  <2>1. /\ plate = NoPlate /\ e.emitted = NoPlate /\ e.suppressed = FALSE
        /\ UNCHANGED <<last_emitted, last_emitted_at, emission_stats>>
      BY <1>2, <1>12 DEF EmissionFilter!NothingStable, EmissionFilter!NothingEmitted,
          EmissionFilter!NoPlate, NoPlate
  <2> QED BY <1>1, <1>4, <1>5, <1>6, <1>11, <2>1 DEF n
<1>13. CASE EmissionFilter!Suppress(plate, ts)
  <2>1. /\ plate # NoPlate /\ repeated /\ e.emitted = NoPlate /\ e.suppressed = TRUE
        /\ UNCHANGED <<last_emitted, last_emitted_at>>
      BY <1>2, <1>9, <1>13 DEF EmissionFilter!Suppress, EmissionFilter!NothingEmitted,
          EmissionFilter!NoPlate, NoPlate
  <2>2. emission_stats' = [emission_stats EXCEPT !.suppressed = emission_stats.suppressed + 1]
      BY <1>13 DEF EmissionFilter!Suppress
  <2>3. /\ emission_stats'.suppressed = emission_stats.suppressed + 1
        /\ emission_stats'.emitted = emission_stats.emitted
        /\ emission_stats' \in [emitted : Nat, suppressed : Nat]
      BY <1>4, <2>2
  <2> QED BY <1>1, <1>4, <1>5, <1>6, <1>10, <1>11, <2>1, <2>3 DEF n
<1>14. CASE EmissionFilter!Emit(plate, ts)
  <2>1. /\ plate # NoPlate /\ ~repeated /\ e.emitted = plate /\ e.suppressed = FALSE
        /\ last_emitted' = plate /\ last_emitted_at' = ts
      BY <1>2, <1>9, <1>14 DEF EmissionFilter!Emit, EmissionFilter!NothingEmitted,
          EmissionFilter!NoPlate, NoPlate
  <2>2. emission_stats' = [emission_stats EXCEPT !.emitted = emission_stats.emitted + 1]
      BY <1>14 DEF EmissionFilter!Emit
  <2>4. /\ emission_stats'.emitted = emission_stats.emitted + 1
        /\ emission_stats'.suppressed = emission_stats.suppressed
        /\ emission_stats' \in [emitted : Nat, suppressed : Nat]
      BY <1>4, <2>2
  <2>3. LastEmission'
      BY <1>1, <1>2, <1>5, <1>10, <2>1 DEF LastEmission
  <2> QED BY <1>1, <1>2, <1>4, <1>5, <1>6, <1>10, <2>1, <2>3, <2>4 DEF n
<1> QED BY <1>4, <1>12, <1>13, <1>14 DEF EmissionFilter!Filter

\* A completed frame, with one plate or not.
LEMMA FrameAnswered ==
    ASSUME StreamInv, AnswerInv, NEW th \in Threads, NEW recognitions, NEW result,
           FrameDone(th, recognitions, result)
    PROVE  AnswerInv'
<1> DEFINE n == Len(log)
           e == LogEntry(th, recognitions, result)
<1>1. /\ OrderedLog(log, n) /\ Extends(log', log, n) /\ OrderedLog(log', n + 1)
      /\ log'[n + 1] = e
    BY FrameLogged
<1>2. /\ n \in Nat /\ DOMAIN log = 1..n /\ DOMAIN log' = 1..(n + 1)
      /\ \A i \in 1..n : log'[i] = log[i]
      /\ \A i \in 1..(n + 1) : i \in 1..n \/ i = n + 1
  <2>1. n \in Nat /\ DOMAIN log = 1..n /\ DOMAIN log' = 1..(n + 1)
        /\ \A i \in 1..n : log'[i] = log[i]
      BY <1>1 DEF OrderedLog, Extends
  <2> HIDE DEF n
  <2> QED BY <2>1
<1>3. /\ history' = HistoryOf(log') /\ e.stable \in Plates \cup {NoPlate}
      /\ \A p \in Plates : e.stable = p <=>
            /\ n + 1 \in ObservedIn(log')
            /\ Justified(EntriesOf(log', Ascending(WindowIn(log', n + 1))), p)
    BY FrameVoted DEF LogEntry
<1>4. /\ LastEmission' /\ HonouredAt(log', n + 1) /\ e.emitted \in {NoPlate, e.stable}
      /\ emission_stats' \in [emitted : Nat, suppressed : Nat]
      /\ emission_stats'.emitted = Cardinality(EmissionsIn(log'))
      /\ emission_stats'.suppressed = Cardinality(SuppressedIn(log'))
    BY <1>1, FrameFiltered
<1>5. /\ AnswerTypes /\ StableIffJustified
      /\ \A k \in DOMAIN log : HonouredAt(log, k)
    BY DEF AnswerInv, CooldownHonoured, HonouredAt, RepeatedAt
<1> HIDE DEF n, e
<1>6. AnswerTypes'
  <2>1. \A i \in 1..(n + 1) : log'[i].result \in PlateRecognitionResult
      BY <1>1 DEF OrderedLog
  <2>2. \A i \in 1..(n + 1) : /\ log'[i].stable \in Plates \cup {NoPlate}
                              /\ log'[i].emitted \in {NoPlate, log'[i].stable}
      BY <1>1, <1>2, <1>3, <1>4, <1>5 DEF AnswerTypes
  <2> QED BY <1>2, <1>4, <2>1, <2>2 DEF AnswerTypes
<1>7. LogInOrder'
    BY <1>1, <1>2 DEF LogInOrder, OrderedLog
<1>8. HistoryIsWindow'
    BY <1>3, AnswerInvIsAfter
<1>9. StableIffJustified'
  <2> SUFFICES ASSUME NEW k \in 1..(n + 1), NEW p \in Plates
               PROVE  log'[k].stable = p <=>
                         /\ k \in ObservedIn(log')
                         /\ Justified(EntriesOf(log', Ascending(WindowIn(log', k))), p)
      BY <1>2, AnswerInvIsAfter
  <2>1. CASE k = n + 1
      BY <1>1, <1>3, <2>1
  <2>2. CASE k \in 1..n
    <3>1. log[k].stable = p <=>
             /\ k \in ObservedIn(log)
             /\ Justified(EntriesOf(log, Ascending(WindowIn(log, k))), p)
        BY <1>2, <1>5, <2>2, AnswerInvIs
    <3>2. EntriesOf(log', Ascending(WindowIn(log', k))) = EntriesOf(log, Ascending(WindowIn(log, k)))
        BY <1>1, <2>2, WindowsStay
    <3>3. k \in ObservedIn(log') <=> k \in ObservedIn(log)
        BY <1>2, <2>2 DEF ObservedIn
    <3> QED BY <1>2, <2>2, <3>1, <3>2, <3>3
  <2> QED BY <1>2, <2>1, <2>2
<1>10. CooldownHonoured'
  <2>1. \A k \in 1..n : HonouredAt(log', k)
      BY <1>1, <1>2, <1>5, HonouredStays
  <2>2. \A k \in DOMAIN log' : HonouredAt(log', k)
      BY <1>2, <1>4, <2>1
  <2> QED BY <1>4, <2>2, AnswerInvIsAfter DEF CooldownHonoured, HonouredAt, RepeatedAt
<1> QED BY <1>4, <1>6, <1>7, <1>8, <1>9, <1>10 DEF AnswerInv

\* A session with no frame, new, reset or closed.
LEMMA NothingAnswered ==
    ASSUME log = <<>>, history = <<>>, last_emitted = NoPlate,
           emission_stats = [emitted |-> 0, suppressed |-> 0]
    PROVE  AnswerInv
<1>1. /\ DOMAIN log = {} /\ EmissionsIn(log) = {} /\ SuppressedIn(log) = {}
      /\ HistoryOf(log) = <<>>
    BY EmptyLogAnswers
<1>2. Cardinality({}) = 0
    BY FS_EmptySet
<1>3. AnswerTypes /\ LogInOrder /\ LastEmission
    BY <1>1 DEF AnswerTypes, LogInOrder, LastEmission
<1>4. HistoryIsWindow /\ StableIffJustified
    BY <1>1, AnswerInvIs
<1>5. CooldownHonoured
    BY <1>1, <1>2, AnswerInvIs DEF CooldownHonoured
<1> QED BY <1>3, <1>4, <1>5 DEF AnswerInv

\* The same after a step.
LEMMA NothingAnsweredAfter ==
    ASSUME log' = <<>>, history' = <<>>, last_emitted' = NoPlate,
           emission_stats' = [emitted |-> 0, suppressed |-> 0]
    PROVE  AnswerInv'
<1>1. /\ DOMAIN log' = {} /\ EmissionsIn(log') = {} /\ SuppressedIn(log') = {}
      /\ HistoryOf(log') = <<>>
    BY EmptyLogAnswers
<1>2. Cardinality({}) = 0
    BY FS_EmptySet
<1>3. AnswerTypes' /\ LogInOrder' /\ LastEmission'
    BY <1>1 DEF AnswerTypes, LogInOrder, LastEmission
<1>4. HistoryIsWindow' /\ StableIffJustified'
    BY <1>1, AnswerInvIsAfter
<1>5. CooldownHonoured'
    BY <1>1, <1>2, AnswerInvIsAfter DEF CooldownHonoured
<1> QED BY <1>3, <1>4, <1>5 DEF AnswerInv

\* What a step that completes no frame and forgets nothing leaves as it is.
answerVars == <<history, last_emitted, last_emitted_at, emission_stats, log>>

\* Such a step keeps the invariant.
LEMMA AnswersStay == AnswerInv /\ UNCHANGED answerVars => AnswerInv'
<1> SUFFICES ASSUME AnswerInv, UNCHANGED answerVars PROVE AnswerInv' OBVIOUS
<1>1. UNCHANGED <<history, last_emitted, last_emitted_at, emission_stats, log>>
    BY DEF answerVars
<1>2. AnswerTypes' /\ LogInOrder' /\ LastEmission'
    BY <1>1 DEF AnswerInv, AnswerTypes, LogInOrder, LastEmission
<1>3. HistoryIsWindow' /\ StableIffJustified'
    BY <1>1, AnswerInvIs, AnswerInvIsAfter DEF AnswerInv
<1>4. CooldownHonoured'
    BY <1>1 DEF AnswerInv, CooldownHonoured
<1> QED BY <1>2, <1>3, <1>4 DEF AnswerInv

\* Nothing is stable in an empty history.
LEMMA NothingStableAtFirst == Consensus(<<>>).stable.plate = NoPlate
<1>1. <<>> \in Seq(Observation)
    OBVIOUS
<1>2. \A p \in Plates : ~ Justified(<<>>, p)
  <2> SUFFICES ASSUME NEW p \in Plates PROVE ~ (Support(<<>>, p) > 0)
      BY DEF Justified
  <2>1. Votes(<<>>, p) = {}
      BY DEF Votes
  <2>2. Support(<<>>, p) = 0
      BY <1>1, <2>1, SupportIs
  <2> QED BY <2>2
<1> QED BY <1>1, <1>2, ConsensusIsJustified

\* No call breaks AnswerInv.
LEMMA AnswerStep == StreamInv /\ AnswerInv /\ [Next]_vars => AnswerInv'
<1> SUFFICES ASSUME StreamInv, AnswerInv, [Next]_vars PROVE AnswerInv' OBVIOUS
<1>1. ASSUME NEW th \in Threads, ForgetStream PROVE AnswerInv'
    BY <1>1, NothingAnsweredAfter DEF ForgetStream, ResetConsensus, EmissionFilter!ResetFilter,
        EmissionFilter!NoPlate, NoPlate
<1>2. CASE Tick
    BY <1>2, AnswersStay DEF Tick, sessionVars, answerVars
<1>3. ASSUME NEW th \in Threads, NEW op \in Operations, NEW at \in 0..MaxTime, Call(th, op, at)
      PROVE  AnswerInv'
    BY <1>3, AnswersStay DEF Call, sessionVars, answerVars
<1>4. ASSUME NEW th \in Threads, ThrowClosed(th) \/ ThrowLate(th) \/ PipelineThrows(th)
      PROVE  AnswerInv'
    BY <1>4, AnswersStay DEF ThrowClosed, ThrowLate, PipelineThrows, Throw, sessionVars, answerVars
<1>5. ASSUME NEW th \in Threads, NEW recognitions \in {"none", "several"},
             UnusableFrame(th, recognitions)
      PROVE  AnswerInv'
  <2>1. NoReading \in PlateRecognitionResult
      BY ConsensusAssumption DEF NoReading, PlateRecognitionResult, Statuses
  <2>2. temporal'.stable.plate = NoPlate
    <3>1. temporal' = [Consensus(<<>>) EXCEPT !.history_size = Len(history)]
        BY <1>5 DEF UnusableFrame
    <3>2. temporal'.stable = Consensus(<<>>).stable
      <4>1. \E x, y, z : Consensus(<<>>) = [stable |-> x, history_size |-> y, supporting_frames |-> z]
          BY Zenon DEF Consensus
      <4>2. PICK x, y, z : Consensus(<<>>) = [stable |-> x, history_size |-> y, supporting_frames |-> z]
          BY <4>1
      <4> QED BY <3>1, <4>2
    <3> QED BY <3>2, NothingStableAtFirst
  <2>3. EmissionFilter!Filter(temporal'.stable.plate, Timestamp(th))
      BY <1>5, <2>2 DEF UnusableFrame, EmissionFilter!Filter, EmissionFilter!NothingStable,
          EmissionFilter!NoPlate, NoPlate
  <2>4. FrameDone(th, recognitions, NoReading)
      BY <1>5, <2>1, <2>2, <2>3 DEF FrameDone, UnusableFrame
  <2> QED BY <2>4, FrameAnswered
<1>6. ASSUME NEW th \in Threads, NEW result \in Frames, SinglePlateFrame(th, result)
      PROVE  AnswerInv'
  <2>1. FrameDone(th, "one", result)
      BY <1>6, ConsensusAssumption DEF FrameDone, SinglePlateFrame
  <2> QED BY <2>1, FrameAnswered
<1>7. ASSUME NEW th \in Threads, Reset(th) PROVE AnswerInv'
    BY <1>1, <1>7 DEF Reset
<1>8. ASSUME NEW th \in Threads, Close(th) PROVE AnswerInv'
  <2>1. CASE closed
      BY <1>8, <2>1, AnswersStay DEF Close, sessionVars, answerVars
  <2> QED BY <1>1, <1>8, <2>1 DEF Close
<1>9. CASE UNCHANGED vars
    BY <1>9, AnswersStay DEF vars, sessionVars, answerVars
<1> QED BY <1>2, <1>3, <1>4, <1>5, <1>6, <1>7, <1>8, <1>9 DEF Next

\* The votes of a window are those of its frames.
LEMMA EmissionsBacked == StreamInv /\ AnswerInv => EmissionBacked
<1> SUFFICES ASSUME StreamInv, AnswerInv, NEW k \in DOMAIN log, log[k].emitted # NoPlate
             PROVE  Cardinality({i \in Window(k) :
                                   /\ log[i].result.plate = log[k].emitted
                                   /\ log[i].result.status = "accepted"
                                   /\ log[i].result.confidence >= minimum_frame_confidence})
                       >= minimum_supporting_frames
    BY DEF EmissionBacked
<1> DEFINE p == log[k].emitted
           W == WindowIn(log, k)
           a == Ascending(W)
           h == EntriesOf(log, a)
           V == Votes(h, p)
           B == {i \in W : /\ log[i].result.plate = p
                           /\ log[i].result.status = "accepted"
                           /\ log[i].result.confidence >= minimum_frame_confidence}
<1>1. p \in Plates /\ log[k].stable = p
    BY DEF AnswerInv, AnswerTypes
<1>2. Justified(h, p)
    BY <1>1, AnswerInvIs DEF AnswerInv
<1>3. Cardinality(V) >= minimum_supporting_frames
    BY <1>2 DEF Justified
<1>4. /\ IsFiniteSet(W) /\ W \subseteq Int
      /\ Window(k) = W
  <2>1. OrderedLog(log, Len(log))
    <3>1. log \in Seq(Range(log)) /\ \A i \in DOMAIN log : log[i].at \in 0..MaxTime
        BY DEF StreamInv, LogTypes, Stamps
    <3>2. Len(log) \in Nat /\ DOMAIN log = 1..Len(log)
      <4> HIDE DEF Range
      <4> QED BY ONLY <3>1
    <3> QED BY <3>1, <3>2 DEF OrderedLog, AnswerInv, AnswerTypes, LogInOrder
  <2>2. IsFiniteSet(ObservedIn(log)) /\ ObservedIn(log) \subseteq Int
      BY <2>1, KeptFrames
  <2>3. W \subseteq ObservedIn(log)
      BY DEF WindowIn
  <2>4. Window(k) = W
      BY DEF Window, WindowIn, Observed, ObservedIn
  <2> HIDE DEF W
  <2> QED BY <2>2, <2>3, <2>4, FS_Subset
<1>5. Ascends(a, Cardinality(W), W) /\ DOMAIN a = 1..Cardinality(W) /\ Cardinality(W) \in Nat
    BY <1>4, AscendingAscends
<1>6. DOMAIN h = DOMAIN a /\ \A i \in DOMAIN a : h[i].result = log[a[i]].result
    BY DEF EntriesOf
<1>7. V \subseteq DOMAIN a /\ \A i \in V : Eligible(log[a[i]].result) /\ log[a[i]].result.plate = p
  <2>1. V = {i \in DOMAIN h : Eligible(h[i].result) /\ h[i].result.plate = p}
      BY DEF Votes
  <2> HIDE DEF V, h, a, p
  <2>2. V \subseteq DOMAIN a
      BY <1>6, <2>1
  <2>3. ASSUME NEW i \in V PROVE Eligible(log[a[i]].result) /\ log[a[i]].result.plate = p
    <3>1. Eligible(h[i].result) /\ h[i].result.plate = p
        BY <2>1
    <3>2. h[i].result = log[a[i]].result
        BY <1>6, <2>2
    <3> QED BY ONLY <3>1, <3>2, Zenon
  <2> QED BY ONLY <2>2, <2>3
<1> HIDE DEF W, a, h, V, p
<1>8. \A i \in DOMAIN a : a[i] \in W /\ a[i] \in Int /\ i \in Int
  <2> DEFINE c == Cardinality(W)
  <2>1. DOMAIN a = 1..c /\ c \in Nat /\ a \in [1..c -> W]
      BY <1>5 DEF Ascends
  <2> HIDE DEF c
  <2>2. \A i \in DOMAIN a : a[i] \in W
      BY ONLY <2>1
  <2>3. \A i \in DOMAIN a : i \in Int
      BY ONLY <2>1
  <2>4. \A i \in DOMAIN a : a[i] \in Int
      BY ONLY <1>4, <2>2
  <2> QED BY ONLY <2>2, <2>3, <2>4
<1>9. \A i, j \in DOMAIN a : a[i] = a[j] => i = j
  <2> SUFFICES ASSUME NEW i \in DOMAIN a, NEW j \in DOMAIN a, a[i] = a[j], i # j PROVE FALSE
      OBVIOUS
  <2>1. i \in Int /\ j \in Int /\ a[i] \in Int /\ a[j] \in Int
      BY <1>8
  <2>2. i < j \/ j < i
      BY ONLY <2>1, i # j
  <2>3. a[i] < a[j] \/ a[j] < a[i]
      BY <1>5, <2>2 DEF Ascends
  <2> QED BY ONLY <2>1, <2>3, a[i] = a[j]
<1>10. \A i \in V : a[i] \in B
  <2> SUFFICES ASSUME NEW i \in V PROVE a[i] \in B OBVIOUS
  <2>1. a[i] \in W /\ Eligible(log[a[i]].result) /\ log[a[i]].result.plate = p
      BY <1>7, <1>8
  <2>2. log[a[i]].result.confidence >= minimum_frame_confidence
      BY <2>1, ConsensusAssumption DEF Eligible
  <2> QED BY <2>1, <2>2 DEF Eligible
<1> DEFINE f == [i \in V |-> a[i]]
<1>11. f \in Injection(V, B)
    BY <1>7, <1>9, <1>10 DEF Injection, IsInjective
<1>12. IsFiniteSet(B)
    BY <1>4, FS_Subset
<1> HIDE DEF f, B
<1>13. Cardinality(V) <= Cardinality(B) /\ IsFiniteSet(V)
    BY <1>11, <1>12, FS_Injection
<1>14. Cardinality(V) \in Nat /\ Cardinality(B) \in Nat /\ minimum_supporting_frames \in Int
    BY <1>12, <1>13, FS_CardinalityType, ConsensusAssumption
<1>15. Cardinality(B) >= minimum_supporting_frames
    BY ONLY <1>3, <1>13, <1>14
<1> QED BY <1>4, <1>15 DEF B, p

\* A new session satisfies the invariant.
LEMMA AnswerInvInit == Init => AnswerInv
BY NothingAnswered DEF Init, ConsensusInit, EmissionFilter!FilterInit, EmissionFilter!NoPlate,
   NoPlate

-----------------------------------------------------------------------------
(* The theorems.                                                           *)

\* A closed session stays closed and empty, and a call is turned away for its
\* order only when a later frame has been completed, which for a call that takes
\* the time itself only a caller's own timestamp can be.
THEOREM WaitersTreatedRight == Spec => WaitersAreTreatedRight
<1>1. StreamInv => OnlyLateFramesRefused
    BY DEF StreamInv
<1>2. StreamInv /\ StreamInv' /\ [Next]_vars =>
        [closed => /\ closed' /\ history' = <<>>
                   /\ last_emitted' = NoPlate /\ last_timestamp' = NoTime]_vars
  <2> SUFFICES ASSUME StreamInv, StreamInv', [Next]_vars, closed PROVE closed'
      BY DEF StreamInv, ClosedIsEmpty
  <2> QED BY DEF Next, vars, sessionVars, Tick, Call, ThrowClosed, ThrowLate, PipelineThrows,
          Throw, UnusableFrame, SinglePlateFrame, Complete, Reset, Close
<1> QED BY StreamInvInit, StreamStep, <1>1, <1>2, PTL DEF Spec, WaitersAreTreatedRight,
      ClosedStaysEmpty

\* After any frames, resets and calls turned away, the history is what its bounds
\* admit of the frames completed, frames with several or no plates aside, and each
\* frame was answered with the plate its window justified, or with none: nothing
\* that expire and trim gave up, nor the order the frames were compared in, changes
\* an answer.
THEOREM VoteRight == Spec => []VoteIsOfWindow
<1>1. AnswerInv => VoteIsOfWindow
    BY DEF AnswerInv, VoteIsOfWindow
<1> QED BY <1>1, StreamInvInit, StreamStep, AnswerInvInit, AnswerStep, PTL DEF Spec

\* Every plate emitted is backed by enough accepted readings that its window still
\* holds, and a stable plate is held back exactly if it is the one emitted last and
\* that was less than the cooldown before; the statistics count just that.
THEOREM EmissionsOwed == Spec => []EmissionsAreOwed
<1>1. StreamInv /\ AnswerInv => EmissionsAreOwed
    BY EmissionsBacked DEF AnswerInv, EmissionsAreOwed
<1> QED BY <1>1, StreamInvInit, StreamStep, AnswerInvInit, AnswerStep, PTL DEF Spec
================================================================================
