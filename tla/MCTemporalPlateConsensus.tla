----------------------- MODULE MCTemporalPlateConsensus -----------------------
(* TLC instances of TemporalPlateConsensus.                                *)
EXTENDS TemporalPlateConsensus

Accepted(p, c, d) ==
    [plate |-> p, status |-> "accepted", confidence |-> c, degraded |-> d]

\* A degraded reading and a better normal one of the same plate.
MCDegradedFrames == {Accepted(1, 3, TRUE), Accepted(1, 4, FALSE), Accepted(2, 4, FALSE)}
==============================================================================
