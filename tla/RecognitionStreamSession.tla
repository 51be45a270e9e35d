---------------------- MODULE RecognitionStreamSession ----------------------
(***************************************************************************)
(* A recognition stream session                                            *)
(* (src/application/recognition_stream_session.cpp): the pipeline, then    *)
(* the consensus, then the emission filter, for one camera, called by any  *)
(* number of threads.                                                      *)
(*                                                                         *)
(* Every method runs from start to end under mutex_, so a call is two      *)
(* steps: Call, and the whole body once the mutex is granted.  Between the *)
(* two, other calls may run, time may pass and the session may close.      *)
(* The pipeline is another component; a frame makes it throw, or return    *)
(* no recognition, one, or several.                                        *)
(*                                                                         *)
(* log is a history variable: the frames completed since the last reset,   *)
(* with what the session answered.                                         *)
(***************************************************************************)
EXTENDS TemporalPlateConsensus

CONSTANTS
    Threads,
    Operations,          \* the methods the threads call
    duplicate_cooldown,
    MaxFrames            \* bound on the frames between two resets

VARIABLES
    last_emitted, last_emitted_at, emission_stats, emission,  \* emission_filter_
    last_timestamp, closed,
    clock,               \* Clock::now()
    pending,             \* the call each thread waits in, or NoCall
    out,                 \* how the last recognition call ended
    log

EmissionFilter == INSTANCE StablePlateEventFilter
NoTime == EmissionFilter!NoTime

sessionVars == <<history, last_emitted, last_emitted_at, emission_stats,
                 last_timestamp, closed>>
vars == <<sessionVars, temporal, emission, clock, pending, out, log>>

\* The filter's constructor asks for a cooldown that is not negative (24 hours is
\* the upper bound); the methods and the frame bound are the model's.
ASSUME SessionAssumption ==
    /\ Operations \subseteq {"recognize", "recognize_at", "reset", "close"}
    /\ duplicate_cooldown \in Nat
    /\ MaxFrames \in Nat

NoCall == [op |-> "none", at |-> NoTime]

Init ==
    /\ ConsensusInit /\ EmissionFilter!FilterInit
    /\ last_timestamp = NoTime
    /\ closed = FALSE
    /\ clock = 0
    /\ pending = [th \in Threads |-> NoCall]
    /\ out = [op |-> "none", at |-> NoTime, end |-> "none"]
    /\ log = <<>>

-----------------------------------------------------------------------------

Recognizing(th) == pending[th].op \in {"recognize", "recognize_at"}

\* A thread calls a method; recognize_at carries the caller's timestamp.  For
\* the other methods at is the time of the call, which the code does not read.
Call(th, op, at) ==
    /\ pending[th] = NoCall
    /\ op # "recognize_at" => at = clock
    /\ op \in {"recognize", "recognize_at"} =>
         Len(log) + Cardinality({u \in Threads : Recognizing(u)}) < MaxFrames
    /\ pending' = [pending EXCEPT ![th] = [op |-> op, at |-> at]]
    /\ UNCHANGED <<sessionVars, temporal, emission, clock, out, log>>

Tick ==
    /\ clock < MaxTime
    /\ clock' = clock + 1
    /\ UNCHANGED <<sessionVars, temporal, emission, pending, out, log>>

\* recognize reads the clock under the mutex.
Timestamp(th) == IF pending[th].op = "recognize" THEN clock ELSE pending[th].at

Return(th, end) ==
    /\ pending' = [pending EXCEPT ![th] = NoCall]
    /\ out' = [op |-> pending[th].op, at |-> Timestamp(th), end |-> end]
    /\ UNCHANGED clock

Throw(th, error) ==
    /\ Return(th, error)
    /\ UNCHANGED <<sessionVars, temporal, emission, log>>

ThrowClosed(th) ==
    /\ Recognizing(th) \/ pending[th].op = "reset"
    /\ closed
    /\ Throw(th, "closed")

Late(th) == last_timestamp # NoTime /\ Timestamp(th) < last_timestamp

ThrowLate(th) ==
    /\ Recognizing(th) /\ ~closed
    /\ Late(th)
    /\ Throw(th, "late")

\* Mutant: recognize_locked does not look at closed_.
MayIgnoringClose(th) == Recognizing(th) /\ ~Late(th)

\* Past the two checks of recognize_locked.
MayRecognize(th) == Recognizing(th) /\ ~closed /\ ~Late(th)

\* A frame the pipeline cannot process leaves no trace, not even its timestamp.
PipelineThrows(th) == MayRecognize(th) /\ Throw(th, "pipeline")

\* What the log keeps of a frame.
LogEntry(th, recognitions, result) ==
    [at |-> Timestamp(th), op |-> pending[th].op, recognitions |-> recognitions,
     result |-> result, stable |-> temporal'.stable.plate,
     emitted |-> emission'.emitted_result, suppressed |-> emission'.duplicate_suppressed]

Complete(th, recognitions, result) ==
    /\ Return(th, "ok")
    /\ last_timestamp' = Timestamp(th)
    /\ log' = Append(log, LogEntry(th, recognitions, result))
    /\ UNCHANGED closed

NoReading == [plate |-> NoPlate, status |-> "rejected", confidence |-> 0, degraded |-> FALSE]

\* No plate or several in the frame: neither the consensus nor the filter sees it.
UnusableFrame(th, recognitions) ==
    /\ MayRecognize(th) /\ recognitions # "one"
    /\ temporal' = [Consensus(<<>>) EXCEPT !.history_size = Len(history)]
    /\ emission' = EmissionFilter!NothingEmitted
    /\ UNCHANGED <<history, last_emitted, last_emitted_at, emission_stats>>
    /\ Complete(th, recognitions, NoReading)

SinglePlateFrame(th, result) ==
    /\ MayRecognize(th)
    /\ Observe(result, Timestamp(th))
    /\ EmissionFilter!Filter(temporal'.stable.plate, Timestamp(th))
    /\ Complete(th, "one", result)

\* What reset and close both clear.
ForgetStream ==
    /\ ResetConsensus
    /\ EmissionFilter!ResetFilter
    /\ last_timestamp' = NoTime
    /\ log' = <<>>
    /\ temporal' = Consensus(<<>>)
    /\ emission' = EmissionFilter!NothingEmitted

Reset(th) ==
    /\ pending[th].op = "reset" /\ ~closed
    /\ ForgetStream
    /\ Return(th, "ok")
    /\ UNCHANGED closed

Close(th) ==
    /\ pending[th].op = "close"
    /\ IF closed
         THEN UNCHANGED <<sessionVars, temporal, emission, log>>
         ELSE ForgetStream /\ closed' = TRUE
    /\ Return(th, "ok")

Next ==
    \/ Tick
    \/ \E th \in Threads :
          \/ \E op \in Operations, at \in 0..MaxTime : Call(th, op, at)
          \/ ThrowClosed(th) \/ ThrowLate(th) \/ PipelineThrows(th)
          \/ \E recognitions \in {"none", "several"} : UnusableFrame(th, recognitions)
          \/ \E result \in Frames : SinglePlateFrame(th, result)
          \/ Reset(th) \/ Close(th)

Spec == Init /\ [][Next]_vars

-----------------------------------------------------------------------------
(* Properties.                                                             *)

\* Every variable has its type.
TypeOK ==
    /\ ConsensusTypeOK
    /\ last_emitted \in Plates \cup {NoPlate}
    /\ last_emitted_at \in 0..MaxTime \cup {NoTime}
    /\ last_emitted = NoPlate <=> last_emitted_at = NoTime
    /\ emission_stats \in [emitted : Nat, suppressed : Nat]
    /\ last_timestamp \in 0..MaxTime \cup {NoTime}
    /\ closed \in BOOLEAN /\ clock \in 0..MaxTime
    /\ pending \in [Threads -> [op : Operations, at : 0..MaxTime] \cup {NoCall}]

\* The frames of the log that the consensus has seen, and among those up to
\* index k the ones that its bounds still admit when it sees frame k.
Observed == {i \in DOMAIN log : log[i].recognitions = "one"}
Window(k) ==
    {i \in Observed : /\ i <= k /\ log[k].at - log[i].at <= history_ttl
                      /\ Cardinality({j \in Observed : i < j /\ j <= k}) < max_history}

WindowEntries(k) ==
    LET seen == Ascending(Window(k))
    IN  [i \in DOMAIN seen |->
            [result |-> log[seen[i]].result, timestamp |-> log[seen[i]].at]]

\* Since frames are admitted in order of time, popping expired and surplus
\* entries from the front leaves exactly the frames inside the time and the
\* size window, in order; frames with several plates are never among them.
HistoryIsWindow ==
    history = IF Observed = {} THEN <<>> ELSE WindowEntries(Max(Observed))

\* The one-pass scan with its running runner-up decides as the definition does,
\* and on the right frames: a plate is stable after a frame iff the window of
\* that frame justifies it, and a frame without a single plate has none.
StableIffJustified ==
    \A k \in DOMAIN log, p \in Plates :
        log[k].stable = p <=> k \in Observed /\ Justified(WindowEntries(k), p)

\* Every emitted plate was read, accepted and with enough confidence, on at
\* least minimum_supporting_frames frames of this stream, not too old, not too
\* many frames ago, and after the last reset.
EmissionBacked ==
    \A k \in DOMAIN log : log[k].emitted # NoPlate =>
        Cardinality({i \in Window(k) :
                        /\ log[i].result.plate = log[k].emitted
                        /\ log[i].result.status = "accepted"
                        /\ log[i].result.confidence >= minimum_frame_confidence})
            >= minimum_supporting_frames

\* A stable plate is suppressed exactly when the most recent emission of this
\* stream was of the same plate and the cooldown since it, not since a later
\* suppressed repetition, is still running; otherwise it is emitted.  The
\* emission statistics count the answers given since the last reset.
CooldownHonoured ==
  /\ \A k \in DOMAIN log : log[k].stable # NoPlate =>
        LET emissions == {i \in DOMAIN log : i < k /\ log[i].emitted # NoPlate}
            repeated == /\ emissions # {}
                        /\ log[Max(emissions)].emitted = log[k].stable
                        /\ log[k].at - log[Max(emissions)].at < duplicate_cooldown
        IN  /\ log[k].suppressed <=> repeated
            /\ log[k].emitted = IF repeated THEN NoPlate ELSE log[k].stable
  /\ emission_stats.emitted = Cardinality({k \in DOMAIN log : log[k].emitted # NoPlate})
  /\ emission_stats.suppressed = Cardinality({k \in DOMAIN log : log[k].suppressed})

\* A recognition call is turned away as out of order only when a frame with a
\* later timestamp has been completed since the last reset: a frame that made
\* the pipeline throw does not count, nor does one from before the reset.
LateOnlyIfOvertaken ==
    out.end = "late" => \E i \in DOMAIN log : log[i].at > out.at

\* Threads that let the session take the time never turn each other away: a
\* recognize is late only after a recognize_at with a time still to come.
ClockCallsAreInOrder ==
    out.end = "late" /\ out.op = "recognize" =>
        \E i \in DOMAIN log : log[i].op = "recognize_at"

\* Both: the session turns frames away for their order and for nothing else.
OnlyLateFramesRefused == LateOnlyIfOvertaken /\ ClockCallsAreInOrder

\* A closed session stays closed and empty, whatever calls were waiting for the
\* mutex when it closed.
ClosedStaysEmpty ==
    [][closed => /\ closed' /\ history' = <<>>
                 /\ last_emitted' = NoPlate /\ last_timestamp' = NoTime]_vars

\* Consensus: the history is the window and the vote on it is the right one.
VoteIsOfWindow == HistoryIsWindow /\ StableIffJustified

\* Event filter: what is emitted is backed by the window, and what is stable is
\* emitted unless the last emission was just the same.
EmissionsAreOwed == EmissionBacked /\ CooldownHonoured

\* Calls that wait for the mutex are turned away for their order only, and fill
\* nothing once the session is closed.
WaitersAreTreatedRight == []OnlyLateFramesRefused /\ ClosedStaysEmpty

\* docs/stream-recognition-api.md: history size and time lifetime are bounded
\* by the consensus configuration.
HistoryLifetimeBounded ==
    \A i \in DOMAIN history : last_timestamp - history[i].timestamp <= history_ttl
==============================================================================
