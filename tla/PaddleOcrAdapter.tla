--------------------------- MODULE PaddleOcrAdapter ---------------------------
(***************************************************************************)
(* The PaddleOCR adapter: calls of several threads that encode a crop,     *)
(* look its digest up in a cache of answers and, on a miss, ask an         *)
(* external worker under a deadline of their own.  The cache is a list of  *)
(* keys in the order of use (lru) and a map (cache) whose entries hold an  *)
(* iterator to their node of the list; both are touched under one mutex,   *)
(* so each of the two operations is one step.  Memory may run out inside   *)
(* the second one.                                                         *)
(***************************************************************************)
EXTENDS Naturals, FiniteSets, SequencesExt

CONSTANTS
    Callers,
    Keys,               \* digests of the payloads
    Answers,            \* readings the worker may give
    capacity,           \* PaddleOcrProviderConfig::cache_capacity
    MaxLookups, MaxFailures

ASSUME AdapterAssumption == capacity \in Nat

VARIABLES
    lru,        \* nodes [id, key], most recently used first
    cache,      \* key -> [evidence, node]
    place, key, answer, \* per thread: where it is, its payload's digest, the answer
    expired,            \* per thread: its context has gone bad
    lookups, failures

callVars == <<place, key, answer, expired, lookups>>
cacheVars == <<lru, cache, failures>>
adapterVars == <<callVars, cacheVars>>

None == "none"

AdapterTypeOK ==
    /\ lru \in Seq([id : Nat, key : Keys])
    /\ DOMAIN cache \subseteq Keys
    /\ \A k \in DOMAIN cache : cache[k].evidence \in Answers /\ cache[k].node \in Nat
    /\ place \in [Callers -> {"idle", "encode", "lookup", "ask", "worker", "store"}]
    /\ expired \in [Callers -> BOOLEAN]

AdapterInit ==
    /\ lru = <<>> /\ cache = <<>> /\ failures = 0 /\ lookups = 0
    /\ place = [t \in Callers |-> "idle"]
    /\ key = [t \in Callers |-> None] /\ answer = [t \in Callers |-> None]
    /\ expired = [t \in Callers |-> FALSE]

Go(t, next) == place' = [place EXCEPT ![t] = next] /\ UNCHANGED <<expired, lookups>>

\* The call returns or throws.
End(t) ==
    /\ place' = [place EXCEPT ![t] = "idle"]
    /\ key' = [key EXCEPT ![t] = None] /\ answer' = [answer EXCEPT ![t] = None]
    /\ expired' = [expired EXCEPT ![t] = FALSE]
    /\ UNCHANGED lookups

-----------------------------------------------------------------------------
(* A call.                                                                 *)

\* recognize up to the encoder; it throws at once if its context is bad or the
\* worker is not available.
BeginLookup(t) ==
    /\ place[t] = "idle" /\ lookups < MaxLookups
    /\ lookups' = lookups + 1
    /\ UNCHANGED place \/ place' = [place EXCEPT ![t] = "encode"]
    /\ UNCHANGED <<key, answer, expired, cacheVars>>

\* The encoder returns: the context, then the payload, is looked at, which may be
\* empty or over the limit.
Encoded(t) ==
    /\ place[t] = "encode"
    /\ \/ End(t)
       \/ /\ ~expired[t] /\ Go(t, "lookup")
          /\ \E k \in Keys : key' = [key EXCEPT ![t] = k]
          /\ UNCHANGED answer
    /\ UNCHANGED cacheVars

\* list::splice of the node an entry points to.
NodeAt(id) == CHOOSE i \in DOMAIN lru : lru[i].id = id

\* Mutant: the node is moved to the wrong end.
SplicedLast(id) == RemoveAt(lru, NodeAt(id)) \o <<lru[NodeAt(id)]>>

Spliced(id) == <<lru[NodeAt(id)]>> \o RemoveAt(lru, NodeAt(id))

\* try_get_cached.  A hit ends the call, whatever has become of its context.
Lookup(t) ==
    /\ place[t] = "lookup"
    /\ IF key[t] \in DOMAIN cache
       THEN /\ lru' = Spliced(cache[key[t]].node)
            /\ End(t)
            /\ UNCHANGED <<cache, failures>>
       ELSE Go(t, "ask") /\ UNCHANGED <<key, answer, cacheVars>>

\* child_context starts the adapter's own timeout; the worker is called.
Ask(t) ==
    /\ place[t] = "ask"
    /\ IF expired[t] THEN End(t) ELSE Go(t, "worker") /\ UNCHANGED <<key, answer>>
    /\ UNCHANGED cacheVars

\* The worker returns or throws; a late answer is dropped, a malformed one refused.
Answered(t) ==
    /\ place[t] = "worker"
    /\ \/ End(t)
       \/ /\ ~expired[t]
          /\ \E a \in Answers : answer' = [answer EXCEPT ![t] = a]
          /\ Go(t, "store") /\ UNCHANGED key
    /\ UNCHANGED cacheVars

-----------------------------------------------------------------------------
(* store_cached.                                                           *)

FreshId == CHOOSE i \in 0..Len(lru) : \A j \in DOMAIN lru : lru[j].id # i

\* The cache without the keys of the last n nodes of a list.
Erased(list, entries, n) ==
    LET gone == {list[i].key : i \in Len(list) - n + 1..Len(list)}
    IN  [k \in DOMAIN entries \ gone |-> entries[k]]
Fits(list, entries, n) == Cardinality(DOMAIN Erased(list, entries, n)) <= capacity

\* n rounds of the eviction loop: the entry of the last node's key, if there is
\* one, and the node itself.
Evict(list, entries, n) ==
    /\ cache' = Erased(list, entries, n)
    /\ lru' = SubSeq(list, 1, Len(list) - n)

\* Another call has stored the key since the lookup: its answer is replaced.
ReplaceAnswer(t) ==
    LET e == cache[key[t]] IN
    /\ cache' = [cache EXCEPT ![key[t]].evidence = answer[t]]
    /\ lru' = Spliced(e.node)
    /\ End(t) /\ UNCHANGED failures

\* push_front, emplace, and the loop over the back of the list.  An allocation
\* fails before anything has happened, after push_front, or when the key of the
\* last node is copied: what has been done by then stays done.
Insert(t) ==
    LET list == <<[id |-> FreshId, key |-> key[t]]>> \o lru
        entries == [k \in DOMAIN cache \cup {key[t]} |->
                       IF k = key[t] THEN [evidence |-> answer[t], node |-> FreshId]
                                     ELSE cache[k]]
        rounds == CHOOSE n \in 0..Len(list) :
                      Fits(list, entries, n) /\ \A m \in 0..(n - 1) : ~Fits(list, entries, m)
    IN  \/ Evict(list, entries, rounds) /\ End(t) /\ UNCHANGED failures
        \/ /\ failures < MaxFailures /\ failures' = failures + 1
           /\ End(t)
           /\ \/ UNCHANGED <<lru, cache>>
              \/ lru' = list /\ UNCHANGED cache
              \/ \E n \in 0..(rounds - 1) : Evict(list, entries, n)

Store(t) ==
    /\ place[t] = "store"
    /\ IF capacity = 0 THEN End(t) /\ UNCHANGED cacheVars
       ELSE IF key[t] \in DOMAIN cache THEN ReplaceAnswer(t) ELSE Insert(t)

-----------------------------------------------------------------------------
\* Cancellation, the caller's deadline or, from child_context on, the adapter's
\* own timeout.
Expire(t) ==
    /\ place[t] # "idle" /\ ~expired[t]
    /\ expired' = [expired EXCEPT ![t] = TRUE]
    /\ UNCHANGED <<place, key, answer, lookups, cacheVars>>

AdapterFinished ==
    /\ lookups = MaxLookups /\ \A t \in Callers : place[t] = "idle"
    /\ UNCHANGED adapterVars

AdapterStep(t) ==
    \/ BeginLookup(t) \/ Encoded(t) \/ Lookup(t) \/ Ask(t) \/ Answered(t) \/ Store(t)
    \/ Expire(t)
AdapterNext == AdapterFinished \/ \E t \in Callers : AdapterStep(t)
AdapterSpec == AdapterInit /\ [][AdapterNext]_adapterVars

-----------------------------------------------------------------------------
(* Properties.                                                             *)

\* Every cached entry's iterator points at a node of the list with the entry's
\* key, and the nodes are apart: splice and erase never touch freed memory, even
\* after a store has failed with the key in the list and no entry in the map.
\* The list grows past the capacity by one node for every failure, never more.
IteratorsLive ==
    /\ \A i, j \in DOMAIN lru : lru[i].id = lru[j].id => i = j
    /\ \A k \in DOMAIN cache :
           \E i \in DOMAIN lru : lru[i] = [id |-> cache[k].node, key |-> k]
    /\ Len(lru) <= capacity + failures

\* The cache keeps the answers of the most recently used crops: it implements the
\* abstract cache, where a failed store may lose entries but never mixes them up,
\* and its iterators stay live.  Nodes without an entry are no part of it.
Evidence == [k \in DOMAIN cache |-> cache[k].evidence]
Position(k) == NodeAt(cache[k].node)
Before ==
    {p \in (DOMAIN cache) \X (DOMAIN cache) : Position(p[1]) < Position(p[2])}
Recency == INSTANCE RecencyCache
    WITH answers <- Evidence, newer <- Before, lossy <- failures > 0
ImplementsRecency == Recency!Spec /\ []IteratorsLive

===============================================================================
