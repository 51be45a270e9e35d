---------------------- MODULE MCRecognitionStreamSession ----------------------
(* TLC instances of RecognitionStreamSession.  The pipeline of this         *)
(* repository sends a degraded reading to review, so no accepted reading is *)
(* degraded here.                                                           *)
EXTENDS RecognitionStreamSession, TLC

Reading(p, c) == [plate |-> p, status |-> "accepted", confidence |-> c, degraded |-> FALSE]

\* Readings of three rival plates, one of them weak, one of them no probability,
\* and one sent to review.
MCFrames ==
    {Reading(1, 3), Reading(2, 4), Reading(3, 2), Reading(3, 1), Reading(2, 5),
     [Reading(1, 4) EXCEPT !.status = "review", !.degraded = TRUE]}

\* A single plate, enough to follow the timestamps.
MCOneFrame == {Reading(1, 3)}

Symmetry == Permutations(Threads)
==============================================================================
