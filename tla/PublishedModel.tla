---------------------------- MODULE PublishedModel ----------------------------
(***************************************************************************)
(* What AtomicModelSlot promises to the requests: one atomic register that *)
(* holds a validated model, only ever moves to a model loaded later, and   *)
(* whose reader keeps the model it has read until it lets go of it.        *)
(* Models are numbered in the order in which they were loaded.             *)
(***************************************************************************)
EXTENDS Integers

CONSTANTS Readers, MaxLoads

NoModel == -1
Models == 0..MaxLoads

VARIABLES
    current,       \* the published model, NoModel once the slot is gone
    seen,          \* the snapshot each request works with
    valid          \* the models that passed their self test

registerVars == <<current, seen, valid>>

RegisterInit ==
    /\ current = 0
    /\ seen = [r \in Readers |-> NoModel]
    /\ valid = {0}

Take(r) ==
    /\ current # NoModel /\ seen[r] = NoModel
    /\ seen' = [seen EXCEPT ![r] = current]
    /\ UNCHANGED <<current, valid>>

LetGo(r) ==
    /\ seen' = [seen EXCEPT ![r] = NoModel]
    /\ UNCHANGED <<current, valid>>

Accept(m) ==
    /\ valid' = valid \cup {m}
    /\ UNCHANGED <<current, seen>>

Replace(m) ==
    /\ current # NoModel
    /\ m \in valid /\ m > current
    /\ current' = m
    /\ UNCHANGED <<seen, valid>>

Retire ==
    /\ current' = NoModel
    /\ UNCHANGED <<seen, valid>>

RegisterNext ==
    \/ \E r \in Readers : Take(r) \/ LetGo(r)
    \/ \E m \in Models : Accept(m) \/ Replace(m)
    \/ Retire

RegisterSpec == RegisterInit /\ [][RegisterNext]_registerVars
==============================================================================
