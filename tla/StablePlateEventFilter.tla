----------------------- MODULE StablePlateEventFilter -----------------------
(***************************************************************************)
(* Suppression of repeated stable plates                                   *)
(* (src/application/stable_plate_event_filter.cpp).  The filter remembers  *)
(* one emission, the last.  last_emitted and last_emitted_at are set and   *)
(* reset together.                                                         *)
(***************************************************************************)
EXTENDS Integers

CONSTANTS Plates, duplicate_cooldown

NoPlate == 0
NoTime == -1

VARIABLES last_emitted, last_emitted_at, emission_stats, emission

filterVars == <<last_emitted, last_emitted_at, emission_stats, emission>>

NothingEmitted == [emitted_result |-> NoPlate, duplicate_suppressed |-> FALSE]

FilterInit ==
    /\ last_emitted = NoPlate
    /\ last_emitted_at = NoTime
    /\ emission_stats = [emitted |-> 0, suppressed |-> 0]
    /\ emission = NothingEmitted

InsideCooldown(plate, timestamp) ==
    /\ last_emitted # NoPlate /\ last_emitted = plate
    /\ timestamp >= last_emitted_at
    /\ timestamp - last_emitted_at < duplicate_cooldown

NothingStable(plate) ==
    /\ plate = NoPlate
    /\ emission' = NothingEmitted
    /\ UNCHANGED <<last_emitted, last_emitted_at, emission_stats>>

\* Mutant: a suppressed repetition prolongs the cooldown.
SuppressSliding(plate, timestamp) ==
    /\ plate # NoPlate /\ InsideCooldown(plate, timestamp)
    /\ emission' = [NothingEmitted EXCEPT !.duplicate_suppressed = TRUE]
    /\ emission_stats' = [emission_stats EXCEPT !.suppressed = @ + 1]
    /\ last_emitted_at' = timestamp
    /\ UNCHANGED last_emitted

Suppress(plate, timestamp) ==
    /\ plate # NoPlate /\ InsideCooldown(plate, timestamp)
    /\ emission' = [NothingEmitted EXCEPT !.duplicate_suppressed = TRUE]
    /\ emission_stats' = [emission_stats EXCEPT !.suppressed = @ + 1]
    /\ UNCHANGED <<last_emitted, last_emitted_at>>

Emit(plate, timestamp) ==
    /\ plate # NoPlate /\ ~InsideCooldown(plate, timestamp)
    /\ last_emitted' = plate
    /\ last_emitted_at' = timestamp
    /\ emission' = [NothingEmitted EXCEPT !.emitted_result = plate]
    /\ emission_stats' = [emission_stats EXCEPT !.emitted = @ + 1]

\* observe: plate is the stable plate of the consensus, or NoPlate.
Filter(plate, timestamp) ==
    NothingStable(plate) \/ Suppress(plate, timestamp) \/ Emit(plate, timestamp)

ResetFilter ==
    /\ last_emitted' = NoPlate
    /\ last_emitted_at' = NoTime
    /\ emission_stats' = [emitted |-> 0, suppressed |-> 0]
==============================================================================
