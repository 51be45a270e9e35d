----------------------------- MODULE ResultBuffer -----------------------------
(***************************************************************************)
(* The result buffer of the C API: the records of a result and the texts   *)
(* they refer to are laid out in one buffer of the caller, each record     *)
(* with the offsets of what it owns.  What the serializers do is the       *)
(* sequence of their steps, which the writer runs twice: without a buffer, *)
(* for the size, and then into it.  A text is an identity and a length,    *)
(* the numbers of a record are sound or not, a part of the result (a text  *)
(* or an array) is named by the way to it, and memory is a set of cells.   *)
(***************************************************************************)
EXTENDS Naturals, Sequences, FiniteSets, SequencesExt

CONSTANT max_result_bytes

wire_alignment == 4
RootBytes == 32
PlateBytes == 140
EvidenceBytes == 32
CandidateBytes == 32
ReasonBytes == 4

Fits == "fits"
Exhausted == "resource exhausted"
Unsound == "provider error"

-----------------------------------------------------------------------------
(* The steps of the serializers.                                           *)

ToReserve(part, bytes) == [do |-> "reserve", part |-> part, bytes |-> bytes]
ToCheck(sound) == [do |-> "check", sound |-> sound]
\* Element i of a part, with what it holds itself and the parts it owns, by field.
ToWrite(part, i, size, holds, owns) ==
    [do |-> "write", part |-> part, skip |-> (i - 1) * size, size |-> size,
     holds |-> holds, owns |-> owns]

\* append_text.
TextSteps(part, text) ==
    IF text.length = 0 THEN <<>>
    ELSE <<ToReserve(part, text.length), ToWrite(part, 1, text.length, text, <<>>)>>

\* Room for all elements, and then, one by one, what an element owns and itself.
ArraySteps(part, size, elements) ==
    IF elements = <<>> THEN <<>>
    ELSE <<ToReserve(part, Len(elements) * size)>> \o FlattenSeq(elements)

CandidateSteps(part, candidates) ==
    LET element(i) ==
            TextSteps(part \o <<i, "text">>, candidates[i].text)
              \o <<ToCheck(candidates[i].sound),
                   ToWrite(part, i, CandidateBytes,
                           [length |-> candidates[i].text.length],
                           [text |-> part \o <<i, "text">>])>>
    IN  ArraySteps(part, CandidateBytes, [i \in DOMAIN candidates |-> element(i)])

\* The candidates come before the name of their source.
EvidenceSteps(part, evidence) ==
    LET element(i) ==
            CandidateSteps(part \o <<i, "candidates">>, evidence[i].candidates)
              \o TextSteps(part \o <<i, "source">>, evidence[i].source)
              \o <<ToCheck(evidence[i].sound),
                   ToWrite(part, i, EvidenceBytes,
                           [length |-> evidence[i].source.length,
                            candidates |-> Len(evidence[i].candidates)],
                           [source |-> part \o <<i, "source">>,
                            candidates |-> part \o <<i, "candidates">>])>>
    IN  ArraySteps(part, EvidenceBytes, [i \in DOMAIN evidence |-> element(i)])

ReasonSteps(part, reasons) ==
    ArraySteps(part, ReasonBytes,
        [i \in DOMAIN reasons |->
            <<ToWrite(part, i, ReasonBytes, [reason |-> reasons[i]], <<>>)>>])

\* serialize_plate and its entry in the array of recognitions.
PlateSteps(part, i, plate) ==
    LET own(field) == part \o <<i, field>>
    IN  TextSteps(own("plate"), plate.plate) \o <<ToCheck(plate.sound)>>
          \o EvidenceSteps(own("evidence"), plate.evidence)
          \o CandidateSteps(own("alternatives"), plate.alternatives)
          \o ReasonSteps(own("reasons"), plate.decision_reasons)
          \o <<ToWrite(part, i, PlateBytes,
                   [length |-> plate.plate.length, evidence |-> Len(plate.evidence),
                    alternatives |-> Len(plate.alternatives),
                    reasons |-> Len(plate.decision_reasons)],
                   [field \in {"plate", "evidence", "alternatives", "reasons"} |-> own(field)])>>

\* serialize_impl.
ResultSteps(result) ==
    LET path == <<"recognitions">>
        plate(i) == PlateSteps(path, i, result.recognitions[i])
    IN  <<ToReserve(<<>>, RootBytes)>>
          \o ArraySteps(path, PlateBytes, [i \in DOMAIN result.recognitions |-> plate(i)])
          \o <<ToCheck(result.sound),
               ToWrite(<<>>, 1, RootBytes, [recognitions |-> Len(result.recognitions)],
                       [recognitions |-> path])>>

-----------------------------------------------------------------------------
(* BufferWriter.  A writer that has thrown does nothing any more.          *)

Sizing ==
    [position |-> 0, buffer |-> FALSE, capacity |-> 0, error |-> Fits,
     offsets |-> <<>>, memory |-> {}]
Writing(capacity) == [Sizing EXCEPT !.buffer = TRUE, !.capacity = capacity]

AlignPosition(n) == n + ((wire_alignment - (n % wire_alignment)) % wire_alignment)

\* Mutant: the padding before a reservation is not counted in.
EndUnpadded(w, bytes) == w.position + bytes
End(w, bytes) == AlignPosition(w.position) + bytes

Reserve(w, step) ==
    IF End(w, step.bytes) > max_result_bytes \/ (w.buffer /\ End(w, step.bytes) > w.capacity)
    THEN [w EXCEPT !.error = Exhausted]
    ELSE [w EXCEPT !.position = End(w, step.bytes),
                   !.offsets = [p \in DOMAIN @ \cup {step.part} |->
                       IF p = step.part THEN AlignPosition(w.position) ELSE @[p]]]

OffsetOf(w, part) == IF part \in DOMAIN w.offsets THEN w.offsets[part] ELSE 0

Write(w, step) ==
    LET cell == [at |-> OffsetOf(w, step.part) + step.skip, size |-> step.size,
                 holds |-> step.holds,
                 offset |-> [f \in DOMAIN step.owns |-> OffsetOf(w, step.owns[f])]]
    IN  IF ~w.buffer THEN w
        ELSE IF cell.at + cell.size > w.capacity THEN [w EXCEPT !.error = Exhausted]
        ELSE [w EXCEPT !.memory = @ \cup {cell}]

Run(w, step) ==
    IF w.error # Fits THEN w
    ELSE IF step.do = "reserve" THEN Reserve(w, step)
    ELSE IF step.do = "write" THEN Write(w, step)
    ELSE IF step.sound THEN w ELSE [w EXCEPT !.error = Unsound]

Serialize(w, steps) == FoldLeft(Run, w, steps)

-----------------------------------------------------------------------------
\* serialize_result_v1 into a buffer [present, aligned, capacity].
Answer(status, required, memory) ==
    [status |-> status, required |-> required, memory |-> memory]
Outcome(sized, written, buffer) ==
    IF sized.error # Fits THEN Answer(sized.error, 0, {})
    ELSE IF ~buffer.present \/ buffer.capacity < sized.position
         THEN Answer("buffer too small", sized.position, {})
    ELSE IF ~buffer.aligned THEN Answer("configuration error", sized.position, {})
    ELSE Answer(IF written.error # Fits THEN written.error
                ELSE IF written.position = sized.position THEN "ok" ELSE "internal error",
                sized.position, written.memory)
SerializeResult(result, buffer) ==
    Outcome(Serialize(Sizing, ResultSteps(result)),
            Serialize(Writing(buffer.capacity), ResultSteps(result)), buffer)

-----------------------------------------------------------------------------
(* What a reader of the buffer sees, by the contract of the header.        *)

Cell(memory, at, size) == CHOOSE c \in memory : c.at = at /\ c.size = size
ReadText(memory, at, length) ==
    IF length = 0 THEN [id |-> 0, length |-> 0] ELSE Cell(memory, at, length).holds
ReadArray(memory, at, n, size, Read(_)) ==
    [i \in 1..n |-> Read(Cell(memory, at + (i - 1) * size, size))]

ReadCandidates(memory, at, n) ==
    LET read(c) == ReadText(memory, c.offset.text, c.holds.length)
    IN  ReadArray(memory, at, n, CandidateBytes, read)
ReadEvidence(memory, at, n) ==
    LET read(e) ==
            <<ReadText(memory, e.offset.source, e.holds.length),
              ReadCandidates(memory, e.offset.candidates, e.holds.candidates)>>
    IN  ReadArray(memory, at, n, EvidenceBytes, read)
ReadPlates(memory, at, n) ==
    LET reason(r) == r.holds.reason
        read(p) ==
            <<ReadText(memory, p.offset.plate, p.holds.length),
              ReadEvidence(memory, p.offset.evidence, p.holds.evidence),
              ReadCandidates(memory, p.offset.alternatives, p.holds.alternatives),
              ReadArray(memory, p.offset.reasons, p.holds.reasons, ReasonBytes, reason)>>
    IN  ReadArray(memory, at, n, PlateBytes, read)
===============================================================================
