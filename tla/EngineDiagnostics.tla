--------------------------- MODULE EngineDiagnostics ---------------------------
(***************************************************************************)
(* The figures of an engine.  Finished calls publish their result one      *)
(* record after the other: the counters are atomics without an order       *)
(* between them, the stage latencies and everything the startup sets are   *)
(* behind a mutex.  A snapshot loads the four counters one by one and then *)
(* copies the rest under the mutex, while calls go on publishing.  Of a    *)
(* stage's latencies only the count is kept.                               *)
(***************************************************************************)
EXTENDS Naturals, FiniteSets, SequencesExt

CONSTANTS
    Publishers,         \* threads whose calls finish
    Results,            \* [statuses, failures, timings]: statuses and stages in order
    Stages,
    MaxResults, MaxSnapshots

\* An engine has finitely many callers; no stage has the name of a counter, or of
\* anything else in a snapshot.
ASSUME DiagnosticsAssumption ==
    /\ IsFiniteSet(Publishers)
    /\ Stages \cap {"accepted", "review", "rejected", "failures", "rest",
                    "readiness", "models"} = {}
    /\ \A r \in Results : /\ r.statuses \in Seq({"accepted", "review", "rejected"})
                         /\ r.failures \in Nat /\ r.timings \in Seq(Stages)

VARIABLES
    recorded,           \* measure -> the counter, or the count of the stage's latencies
    metadata,           \* [readiness, models]
    result,             \* per publisher: the records of the result it publishes
    done,               \* per publisher: how many of them it has made
    reading,            \* what a snapshot still has to load
    shown,              \* the snapshot, as far as it has been taken
    begun, finished,    \* totals of the results whose publishing has begun, has ended
    floor,              \* `finished` when the snapshot began
    published, snapshots

countVars == <<recorded, result, done, begun, finished, published>>
snapshotVars == <<reading, shown, floor, snapshots>>

Counters == <<"accepted", "review", "rejected", "failures">>
Measures == ToSet(Counters) \cup Stages
Rest == "rest"
Nothing == [m \in Measures |-> 0]
Unset == [readiness |-> "failed", models |-> {}]

DiagnosticsInit ==
    /\ recorded = Nothing /\ begun = Nothing /\ finished = Nothing /\ floor = Nothing
    /\ metadata = Unset
    /\ result = [p \in Publishers |-> <<>>] /\ done = [p \in Publishers |-> 0]
    /\ reading = <<>> /\ shown = [figures |-> Nothing, metadata |-> Unset]
    /\ published = 0 /\ snapshots = 0

-----------------------------------------------------------------------------
(* Publishing.                                                             *)

\* publish_diagnostics: what a result records, in order, as <<measure, amount>>.
RecordsOf(r) ==
    LET once(s) == [i \in DOMAIN s |-> <<s[i], 1>>]
    IN  once(r.statuses) \o <<<<"failures", r.failures>>>> \o once(r.timings)

\* Mutant: a review falls through to the next case and counts as rejected too.
AddedFallingThrough(f, r) ==
    [m \in Measures |-> IF m = r[1] \/ (r[1] = "review" /\ m = "rejected") THEN f[m] + r[2] ELSE f[m]]

\* record_recognition, record_provider_failures or record_stage_latency.
Added(f, r) == [m \in Measures |-> IF m = r[1] THEN f[m] + r[2] ELSE f[m]]

Total(records, m) ==
    SumFunction([i \in DOMAIN records |-> IF records[i][1] = m THEN records[i][2] ELSE 0])
Plus(f, records) == [m \in Measures |-> f[m] + Total(records, m)]

BeginPublish(p, r) ==
    /\ done[p] = Len(result[p]) /\ published < MaxResults
    /\ published' = published + 1
    /\ result' = [result EXCEPT ![p] = RecordsOf(r)] /\ done' = [done EXCEPT ![p] = 0]
    /\ begun' = Plus(begun, RecordsOf(r))
    /\ UNCHANGED <<recorded, finished, metadata, snapshotVars>>

Record(p) ==
    /\ done[p] < Len(result[p])
    /\ done' = [done EXCEPT ![p] = @ + 1]
    /\ recorded' = Added(recorded, result[p][done'[p]])
    /\ finished' = IF done'[p] = Len(result[p]) THEN Plus(finished, result[p]) ELSE finished
    /\ UNCHANGED <<result, begun, published, metadata, snapshotVars>>

\* set_readiness, set_models: the assignments of the startup.
Set(field, value) ==
    /\ metadata' = [metadata EXCEPT ![field] = value]
    /\ UNCHANGED <<countVars, snapshotVars>>

-----------------------------------------------------------------------------
(* snapshot.                                                               *)

BeginSnapshot ==
    /\ reading = <<>> /\ snapshots < MaxSnapshots
    /\ snapshots' = snapshots + 1
    /\ reading' = Append(Counters, Rest)
    /\ shown' = [figures |-> Nothing, metadata |-> Unset]
    /\ floor' = finished
    /\ UNCHANGED <<countVars, metadata>>

\* The figures that one read of the snapshot brings.
ReadWith(m) == IF m = Rest THEN Stages ELSE {m}

\* A relaxed load of a counter, or the copy of everything under the mutex.
Load ==
    /\ reading # <<>> /\ reading' = Tail(reading)
    /\ LET now == Head(reading) IN
       shown' = [figures |-> [m \in Measures |->
                                IF m \in ReadWith(now) THEN recorded[m] ELSE shown.figures[m]],
                 metadata |-> IF now = Rest THEN metadata ELSE shown.metadata]
    /\ UNCHANGED <<countVars, metadata, floor, snapshots>>

-----------------------------------------------------------------------------
(* Properties.                                                             *)

\* A snapshot is taken while calls publish, without a lock over the counters: it
\* still shows every record of every call that had ended before, and never one of
\* a call that has not begun, though of a call in between it may show any part.
SnapshotCoversEndedCalls ==
    reading = <<>> => \A m \in Measures :
        floor[m] <= shown.figures[m] /\ shown.figures[m] <= begun[m]
=============================================================================
