----------------------------- MODULE RecencyCache -----------------------------
(***************************************************************************)
(* What a bounded cache of answers promises: which of its keys were used   *)
(* more recently than which others, the least recently used given up       *)
(* first.  Once storing an entry has failed half way, only the bound is    *)
(* left: any entry may be given up, and one failure may leave one entry    *)
(* too many until the next store.                                          *)
(***************************************************************************)
EXTENDS Naturals, FiniteSets

CONSTANTS Keys, Answers, capacity

VARIABLES
    answers,    \* key -> its answer
    newer,      \* the pairs of keys of which the first was used after the second
    lossy       \* a store has failed

vars == <<answers, newer, lossy>>

Cached == DOMAIN answers

-----------------------------------------------------------------------------
Init == answers = <<>> /\ newer = {} /\ lossy = FALSE

\* k has been used and the keys of K are kept: k was used after all others, and
\* these as before.
Use(k, K) == newer' = {p \in K \X K : p[2] # k /\ (p[1] = k \/ p \in newer)}

\* A hit makes its entry the most recently used one.
Hit(k) == k \in Cached /\ Use(k, Cached) /\ UNCHANGED <<answers, lossy>>

\* a is stored for k, and of the other keys those of K are kept.
Keep(k, a, K) == Use(k, K) /\ answers' = [l \in K |-> IF l = k THEN a ELSE answers[l]]

\* No more is given up than there is no room for, and nothing before what was used
\* less recently.
LeastRecent(k, K) ==
    LET all == Cached \cup {k} IN
    /\ Cardinality(K) = IF Cardinality(all) <= capacity THEN Cardinality(all) ELSE capacity
    /\ \A l \in all \ K, m \in K : m = k \/ <<m, l>> \in newer

Put(k, a) ==
    \E K \in SUBSET (Cached \cup {k}) :
        /\ Keep(k, a, K) /\ UNCHANGED lossy
        /\ IF lossy THEN Cardinality(K) <= capacity \/ Cardinality(K) <= Cardinality(Cached)
                    ELSE LeastRecent(k, K)

\* A store that fails may have added its entry and given up some others.
FailedPut(k, a) == lossy' = TRUE /\ \E K \in SUBSET (Cached \cup {k}) : Keep(k, a, K)

Next == \E k \in Keys : Hit(k) \/ \E a \in Answers : Put(k, a) \/ FailedPut(k, a)

Spec == Init /\ [][Next]_vars
===============================================================================
