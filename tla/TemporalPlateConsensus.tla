----------------------- MODULE TemporalPlateConsensus -----------------------
(***************************************************************************)
(* Cross-frame consensus over the recognition results of one stream        *)
(* (src/application/temporal_plate_consensus.cpp): a bounded history of    *)
(* results, expired by age, and a confidence-weighted vote over it.        *)
(*                                                                         *)
(* A plate is a positive number, ordered as the strings are; NoPlate is    *)
(* both the empty string and an absent result.  A probability is a number  *)
(* of Scale-ths, so that the ratios the code compares are compared exactly *)
(* by cross-multiplication; Scale + 1 stands for every confidence that is  *)
(* not a probability.  Of a result the vote reads plate, status,           *)
(* confidence; degraded is carried along.                                  *)
(***************************************************************************)
EXTENDS Integers, Sequences, FiniteSets, SequencesExt

CONSTANTS
    Plates, Scale,
    max_history, history_ttl, minimum_supporting_frames,
    minimum_frame_confidence, stable_confidence_threshold, conflict_margin,
    Frames,        \* the frame results that may be observed
    MaxTime        \* timestamps are 0..MaxTime

NoPlate == 0

Statuses == {"accepted", "review", "rejected"}

PlateRecognitionResult ==
    [plate : Plates \cup {NoPlate}, status : Statuses, confidence : 0..(Scale + 1),
     degraded : BOOLEAN]

\* The constructor's checks (the upper bound 1024 of max_history only limits size).
ASSUME ConsensusAssumption ==
    /\ Plates \subseteq Nat \ {NoPlate} /\ IsFiniteSet(Plates)
    /\ Scale \in Nat \ {0}
    /\ max_history \in Nat \ {0}
    /\ history_ttl \in Nat \ {0}
    /\ minimum_supporting_frames \in 1..max_history
    /\ {minimum_frame_confidence, stable_confidence_threshold, conflict_margin}
         \subseteq 0..Scale
    /\ Frames \subseteq PlateRecognitionResult
    /\ MaxTime \in Nat

VARIABLES
    history,       \* history_, oldest first
    temporal       \* the result of the last observe

consensusVars == <<history, temporal>>

-----------------------------------------------------------------------------
(* The history.                                                            *)

Expired(observation, now) == now - observation.timestamp > history_ttl

\* expire: pop from the front up to the first entry still alive.
Expire(h, now) ==
    LET alive == {i \in DOMAIN h : ~Expired(h[i], now)}
    IN  IF alive = {} THEN <<>> ELSE SubSeq(h, Min(alive), Len(h))

Trim(h) == SubSeq(h, Max({1, Len(h) - max_history + 1}), Len(h))

Remember(h, result, timestamp) ==
    Trim(Append(Expire(h, timestamp), [result |-> result, timestamp |-> timestamp]))

-----------------------------------------------------------------------------
(* The vote.                                                               *)

Eligible(result) ==
    /\ result.plate # NoPlate /\ result.status = "accepted"
    /\ result.confidence \in minimum_frame_confidence..Scale

\* The entries of h that vote for plate, as indices.
Votes(h, plate) ==
    {i \in DOMAIN h : Eligible(h[i].result) /\ h[i].result.plate = plate}

Support(h, plate) ==
    SumFunction([i \in Votes(h, plate) |-> h[i].result.confidence])

\* The members of a set of numbers, the smallest first.
Ascending(S) ==
    CHOOSE s \in [1..Cardinality(S) -> S] : \A i, j \in DOMAIN s : i < j => s[i] < s[j]

\* The keys of the map of aggregates, in its order.
Candidates(h) == Ascending({p \in Plates : Votes(h, p) # {}})

TotalWeight(h) == SumFunction([p \in Plates |-> Support(h, p)])

\* aggregate.best: the earliest of the entries with the highest confidence.
Best(h, plate) ==
    CHOOSE i \in Votes(h, plate) : \A j \in Votes(h, plate) \ {i} :
        \/ h[i].result.confidence > h[j].result.confidence
        \/ h[i].result.confidence = h[j].result.confidence /\ i < j

\* Mutant: the runner-up is forgotten when a new winner overtakes it.
MeetForgetful(h, acc, p) ==
    IF Support(h, p) > Support(h, acc.winner)
      THEN [winner |-> p, runner_up |-> acc.runner_up]
    ELSE IF p # acc.winner
      THEN [winner |-> acc.winner, runner_up |-> Max({acc.runner_up, Support(h, p)})]
    ELSE acc

\* The next candidate becomes the winner, or may become the runner-up.
Meet(h, acc, p) ==
    IF Support(h, p) > Support(h, acc.winner)
      THEN [winner |-> p, runner_up |-> Max({acc.runner_up, Support(h, acc.winner)})]
    ELSE IF p # acc.winner
      THEN [winner |-> acc.winner, runner_up |-> Max({acc.runner_up, Support(h, p)})]
    ELSE acc

\* One pass over the candidates keeps the winner and the best support of the
\* others; on a tie the smaller plate, met first, stays.
Scan(h) ==
    FoldLeft(LAMBDA acc, p : Meet(h, acc, p),
             [winner |-> Head(Candidates(h)), runner_up |-> 0], Candidates(h))

NoResult == [plate |-> NoPlate, degraded |-> FALSE]

\* What observe returns for history h.
Consensus(h) ==
    IF TotalWeight(h) = 0
      THEN [stable |-> NoResult, history_size |-> Len(h), supporting_frames |-> 0]
      ELSE LET winner == Scan(h).winner
               support == Support(h, winner)
               frames == Cardinality(Votes(h, winner))
               stands == /\ frames >= minimum_supporting_frames
                         /\ support * Scale >= stable_confidence_threshold * TotalWeight(h)
                         /\ (support - Scan(h).runner_up) * Scale
                              >= conflict_margin * TotalWeight(h)
           IN  [stable |-> IF stands
                             THEN [plate |-> winner,
                                   degraded |-> h[Best(h, winner)].result.degraded]
                             ELSE NoResult,
                history_size |-> Len(h),
                supporting_frames |-> frames]

-----------------------------------------------------------------------------
(* The class on its own: any caller may observe and reset; its contract    *)
(* asks for timestamps in order.                                           *)

Observe(result, timestamp) ==
    /\ history' = Remember(history, result, timestamp)
    /\ temporal' = Consensus(history')

ResetConsensus == history' = <<>>

ConsensusInit ==
    /\ history = <<>>
    /\ temporal = Consensus(<<>>)

ConsensusNext ==
    \/ \E result \in Frames, timestamp \in 0..MaxTime :
          /\ history # <<>> => timestamp >= history[Len(history)].timestamp
          /\ Observe(result, timestamp)
    \/ ResetConsensus /\ temporal' = Consensus(<<>>)

ConsensusSpec == ConsensusInit /\ [][ConsensusNext]_consensusVars

-----------------------------------------------------------------------------
(* Properties.                                                             *)

\* Every variable has its type, and the history its bound.
ConsensusTypeOK ==
    /\ Len(history) <= max_history
    /\ \A i \in DOMAIN history :
          history[i] \in [result : PlateRecognitionResult, timestamp : 0..MaxTime]
    /\ temporal.stable.plate \in Plates \cup {NoPlate}
    /\ temporal.stable.degraded \in BOOLEAN
    /\ temporal.history_size = Len(history)
    /\ temporal.supporting_frames \in 0..Len(history)

\* What observe is meant to decide, without the scan: plate p has its minimum
\* of votes and its share, leads every other plate by the margin, and precedes
\* every plate of equal support.
Justified(h, p) ==
    /\ Cardinality(Votes(h, p)) >= minimum_supporting_frames
    /\ Support(h, p) > 0
    /\ Support(h, p) * Scale >= stable_confidence_threshold * TotalWeight(h)
    /\ \A q \in Plates \ {p} :
          /\ (Support(h, p) - Support(h, q)) * Scale >= conflict_margin * TotalWeight(h)
          /\ Support(h, p) = Support(h, q) => p < q

\* PRODUCT.md, section 7: a stable result produced from degraded accepted
\* observations is degraded.
StableKeepsDegraded ==
    \A p \in Plates :
        /\ temporal.stable.plate = p
        /\ \E i \in Votes(history, p) : history[i].result.degraded
        => temporal.stable.degraded
==============================================================================
