-------------------------- MODULE LprPipeline_proofs --------------------------
(***************************************************************************)
(* Proofs about LprPipeline for any recognizers, any bounds and any number *)
(* of concurrent calls.                                                    *)
(*                                                                         *)
(* Calls share only the counters, so the inductive invariant is a          *)
(* statement about each call on its own: the types of its locals (Types)   *)
(* and CallInv, which ties the failures noted in the detection, in the     *)
(* ensemble and in the result to each other, to the caller's stop and      *)
(* deadline, and to the place in recognize the call has reached.           *)
(***************************************************************************)
EXTENDS LprPipeline, CountsAndSums

Stages == {"called", "detection", "geometry", "alignment", "crop_generation", "crop",
           "recognition", "layout", "decision", "publish", "returned"}
Outcomes == {"none", "ok", "cancelled", "timeout", "provider", "other"}
Ensembles == [next : Nat \ {0}, degraded : BOOLEAN, failures : Seq(Failures),
              evidence : BOOLEAN]
Works == [detections : Int, crops : Int, detection : Detections,
          ensemble : Ensembles, published : Nat]
Results == [recognitions : Seq(Recognitions), failures : Seq(Failures), count : Nat,
            degraded : BOOLEAN]

Types ==
    /\ stopped \in [Calls -> BOOLEAN] /\ overdue \in [Calls -> BOOLEAN]
    /\ pc \in [Calls -> Stages]
    /\ outcome \in [Calls -> Outcomes]
    /\ work \in [Calls -> Works]
    /\ result \in [Calls -> Results]
    /\ late \in [Calls -> Nat]

\* The failures in the ensemble's result while a crop is being read.
Pending(p, e) == IF p = "recognition" THEN Len(e.failures) ELSE 0

\* The decision context knows of every provider that was asked and did not
\* answer, and is degraded by them alone.
ContextExact(p, w) ==
    /\ w.detection.degraded <=> w.detection.failures > 0
    /\ w.ensemble.degraded <=> Len(w.ensemble.failures) > 0
    /\ p # "returned" =>
         w.detection.asked
           = w.detection.answered + w.detection.failures + Pending(p, w.ensemble)

\* What has been decided is degraded by its failures, and then not accepted.
DecidedRightly(r) ==
    \A k \in DOMAIN r.recognitions :
        /\ r.recognitions[k].degraded <=> r.recognitions[k].failures > 0
        /\ r.recognitions[k].status = "accepted" => r.recognitions[k].failures = 0

\* A required recognizer's failure is never noted.
OptionalOnly(failures) ==
    \A k \in DOMAIN failures : failures[k].provider \notin Required

NoneCancelled(failures) ==
    \A k \in DOMAIN failures : failures[k].code # "cancelled"

\* A provider is noted as cancelled only between the crop's two checks, and only
\* if the caller has asked for it.
CancelledInside(p, w, r, s, o) ==
    /\ p = "recognition" => NoneCancelled(w.ensemble.failures) \/ s
    /\ p = "layout" => NoneCancelled(r.failures) \/ s
    /\ p \notin {"layout", "returned"} => NoneCancelled(r.failures)
    /\ o = "ok" => NoneCancelled(r.failures)

Ended(p, o, s, v) ==
    /\ p # "returned" => o = "none"
    /\ o = "timeout" => v
    /\ o = "cancelled" => s

\* Providers are called late only on the crop in progress, one after another.
LateInside(p, w, n, stop) ==
    /\ n > 0 => stop
    /\ p \notin {"recognition", "layout", "returned"} => n = 0
    /\ p = "recognition" =>
         IF w.ensemble.next <= Len(Active) THEN n < w.ensemble.next
         ELSE n = 0 \/ n < Len(Active)
    /\ n <= IF Active = <<>> THEN 1 ELSE Len(Active)

CallInv(c) ==
    /\ ContextExact(pc[c], work[c])
    /\ DecidedRightly(result[c])
    /\ OptionalOnly(work[c].ensemble.failures) /\ OptionalOnly(result[c].failures)
    /\ CancelledInside(pc[c], work[c], result[c], stopped[c], outcome[c])
    /\ Ended(pc[c], outcome[c], stopped[c], overdue[c])
    /\ LateInside(pc[c], work[c], late[c], stopped[c] \/ overdue[c])

PipelineInv == Types /\ \A c \in Calls : CallInv(c)

-----------------------------------------------------------------------------

\* Initially the invariant holds.
LEMMA PipelineInvInit == Init => PipelineInv
<1> SUFFICES ASSUME Init PROVE PipelineInv OBVIOUS
<1>1. Types
  <2>1. NoEnsemble \in Ensembles /\ Fresh \in Detections
      BY DEF NoEnsemble, Ensembles, Fresh, Detections
  <2>2. work \in [Calls -> Works]
      BY <2>1 DEF Init, Works
  <2>3. result \in [Calls -> Results]
      BY DEF Init, Results
  <2> QED BY <2>2, <2>3 DEF Init, Types, Stages, Outcomes
<1>2. ASSUME NEW c \in Calls PROVE CallInv(c)
  <2>1. Len(Active) \in Nat
      BY RecognizerAssumption
  <2>2. /\ work[c].ensemble = NoEnsemble /\ work[c].detection = Fresh
        /\ result[c].failures = <<>> /\ result[c].recognitions = <<>>
        /\ pc[c] = "called" /\ outcome[c] = "none" /\ late[c] = 0
        /\ ~stopped[c] /\ ~overdue[c]
      BY DEF Init
  <2>3. Active # <<>> => Len(Active) > 0
      BY RecognizerAssumption
  <2> QED BY <2>1, <2>2, <2>3 DEF CallInv, ContextExact, DecidedRightly, OptionalOnly,
          CancelledInside, NoneCancelled, Ended, LateInside, Pending, NoEnsemble, Fresh
<1> QED BY <1>1, <1>2 DEF PipelineInv
-----------------------------------------------------------------------------
(* How a call moves on.                                                    *)

\* A stage ends at the next one with the context in order, or returns an error.
Passed(c, stage) ==
    /\ pc'[c] = stage /\ outcome'[c] = outcome[c] /\ ~stopped[c] /\ ~overdue[c]

Thrown(c) ==
    /\ pc'[c] = "returned" /\ outcome'[c] # "ok"
    /\ outcome'[c] = "timeout" => overdue[c]
    /\ outcome'[c] = "cancelled" => stopped[c]

Moved(c) ==
    /\ pc' \in [Calls -> Stages] /\ outcome' \in [Calls -> Outcomes]
    /\ \A d \in Calls \ {c} : pc'[d] = pc[d] /\ outcome'[d] = outcome[d]

\* An error other than the caller's may always be returned, the caller's own two
\* only when they are true.
LEMMA AbortMoves ==
    ASSUME Types, NEW c \in Calls, NEW e \in Outcomes \ {"ok"}, Abort(c, e),
           e = "timeout" => overdue[c], e = "cancelled" => stopped[c]
    PROVE  Moved(c) /\ Thrown(c)
BY DEF Types, Abort, Moved, Thrown, Stages

\* check_context lets a call pass only while the context is good, and otherwise
\* tells the truth about it.
LEMMA CheckMoves ==
    ASSUME Types, NEW c \in Calls, NEW stage \in Stages, CheckThenGoto(c, stage)
    PROVE  Moved(c) /\ (Passed(c, stage) \/ Thrown(c))
<1>1. CASE Check(c) = "none"
    BY <1>1 DEF Types, CheckThenGoto, Check, Goto, Moved, Passed
<1>2. CASE Check(c) # "none"
  <2>1. /\ Check(c) \in Outcomes \ {"ok"} /\ Abort(c, Check(c))
        /\ Check(c) = "timeout" => overdue[c]
        /\ Check(c) = "cancelled" => stopped[c]
      BY <1>2 DEF CheckThenGoto, Check, Outcomes
  <2> QED BY <2>1, AbortMoves
<1> QED BY <1>1, <1>2

\* What a provider that was given the context may throw is as truthful, and
\* nothing catches it.
LEMMA ThrowsMoves ==
    ASSUME Types, NEW c \in Calls, NEW errors, Throws(c, errors),
           errors \subseteq Errors(c)
    PROVE  Moved(c) /\ Thrown(c) /\ UNCHANGED <<work, result>>
<1>1. PICK e \in errors : Abort(c, e) /\ UNCHANGED locals
    BY DEF Throws
<1>2. /\ e \in Outcomes \ {"ok"} /\ Abort(c, e)
      /\ e = "timeout" => overdue[c]
      /\ e = "cancelled" => stopped[c]
    BY <1>1 DEF Errors, Outcomes
<1> QED BY <1>1, <1>2, AbortMoves DEF locals

-----------------------------------------------------------------------------
(* What each step makes of the call's locals.                              *)

\* CallInv without the count of late calls.
CoreInv(c) ==
    /\ ContextExact(pc[c], work[c])
    /\ DecidedRightly(result[c])
    /\ OptionalOnly(work[c].ensemble.failures) /\ OptionalOnly(result[c].failures)
    /\ CancelledInside(pc[c], work[c], result[c], stopped[c], outcome[c])
    /\ Ended(pc[c], outcome[c], stopped[c], overdue[c])

Sound(c) ==
    /\ Moved(c)
    /\ work' \in [Calls -> Works] /\ result' \in [Calls -> Results]
    /\ \A d \in Calls \ {c} : work'[d] = work[d] /\ result'[d] = result[d]
    /\ CoreInv(c)'

\* A call that throws takes its locals with it.
LEMMA ThrownSound ==
    ASSUME PipelineInv, UNCHANGED <<stopped, overdue>>, NEW c \in Calls, pc[c] # "returned",
           Moved(c), Thrown(c), UNCHANGED <<work, result>>
    PROVE  Sound(c)
BY DEF PipelineInv, Types, CallInv, CoreInv, Sound, Moved, Thrown, ContextExact, Pending,
       DecidedRightly, OptionalOnly, CancelledInside, Ended

\* Nothing was noted and the call goes on, or the context is no longer good.
LEMMA CheckedSound ==
    ASSUME PipelineInv, UNCHANGED <<stopped, overdue>>, NEW c \in Calls,
           pc[c] \notin {"recognition", "returned"},
           NEW stage \in Stages \ {"recognition", "returned"}, CheckThenGoto(c, stage),
           work' \in [Calls -> Works],
           \A d \in Calls \ {c} : work'[d] = work[d],
           work'[c].detection = work[c].detection, work'[c].ensemble = work[c].ensemble,
           result' = result
    PROVE  Sound(c)
<1>1. Types
    BY DEF PipelineInv
<1>2. Moved(c) /\ (Passed(c, stage) \/ Thrown(c))
    BY <1>1, CheckMoves
<1> QED BY <1>2 DEF PipelineInv, Types, CallInv, CoreInv, Sound, Moved, Passed, Thrown,
      ContextExact, Pending, DecidedRightly, OptionalOnly, CancelledInside, Ended

\* The checks at the start of recognize note nothing.
LEMMA BeginSound ==
    ASSUME PipelineInv, UNCHANGED <<stopped, overdue>>, NEW c \in Calls, Begin(c)
    PROVE  Sound(c)
<1>1. Types /\ pc[c] = "called"
    BY DEF PipelineInv, Begin
<1>2. CASE CheckThenGoto(c, "detection") /\ UNCHANGED locals
    BY <1>1, <1>2, CheckedSound DEF Types, Stages, locals
<1>3. CASE Throws(c, {"other"})
    BY <1>1, <1>3, ThrowsMoves, ThrownSound DEF Errors
<1> QED BY <1>2, <1>3 DEF Begin

\* The detector's answer notes nothing.
LEMMA DetectSound ==
    ASSUME PipelineInv, UNCHANGED <<stopped, overdue>>, NEW c \in Calls, Detect(c)
    PROVE  Sound(c)
<1>1. Types /\ pc[c] = "detection" /\ work[c] \in Works
    BY DEF PipelineInv, Detect, Types
<1>2. ASSUME NEW n \in 0..MaxDetections, work' = [work EXCEPT ![c].detections = n],
             result' = result,
             CheckThenGoto(c, IF n = 0 THEN "publish" ELSE "geometry")
      PROVE  Sound(c)
  <2>1. work'[c] = [work[c] EXCEPT !.detections = n] /\ work'[c] \in Works
      BY <1>1, <1>2 DEF Types, Works
  <2>2. /\ work' \in [Calls -> Works]
        /\ \A d \in Calls \ {c} : work'[d] = work[d]
      BY <1>1, <1>2, <2>1 DEF Types
  <2>3. /\ work'[c].detection = work[c].detection
        /\ work'[c].ensemble = work[c].ensemble
      BY <1>1, <2>1 DEF Works
  <2>4. (IF n = 0 THEN "publish" ELSE "geometry") \in Stages \ {"recognition", "returned"}
      BY DEF Stages
  <2> QED BY <1>1, <1>2, <2>2, <2>3, <2>4, CheckedSound
<1>3. CASE Throws(c, Errors(c))
    BY <1>1, <1>3, ThrowsMoves, ThrownSound
<1> QED BY <1>2, <1>3 DEF Detect

\* Nor does the crop generator's.
LEMMA GenerateCropsSound ==
    ASSUME PipelineInv, UNCHANGED <<stopped, overdue>>, NEW c \in Calls, GenerateCrops(c)
    PROVE  Sound(c)
<1>1. Types /\ pc[c] = "crop_generation" /\ work[c] \in Works
    BY DEF PipelineInv, GenerateCrops, Types
<1>2. ASSUME NEW n \in 0..MaxCrops, work' = [work EXCEPT ![c].crops = n],
             result' = result,
             CheckThenGoto(c, IF n = 0 THEN "decision" ELSE "crop")
      PROVE  Sound(c)
  <2>1. work'[c] = [work[c] EXCEPT !.crops = n] /\ work'[c] \in Works
      BY <1>1, <1>2 DEF Types, Works
  <2>2. /\ work' \in [Calls -> Works]
        /\ \A d \in Calls \ {c} : work'[d] = work[d]
      BY <1>1, <1>2, <2>1 DEF Types
  <2>3. /\ work'[c].detection = work[c].detection
        /\ work'[c].ensemble = work[c].ensemble
      BY <1>1, <2>1 DEF Works
  <2>4. (IF n = 0 THEN "decision" ELSE "crop") \in Stages \ {"recognition", "returned"}
      BY DEF Stages
  <2> QED BY <1>1, <1>2, <2>2, <2>3, <2>4, CheckedSound
<1>3. CASE Throws(c, Errors(c))
    BY <1>1, <1>3, ThrowsMoves, ThrownSound
<1> QED BY <1>2, <1>3 DEF GenerateCrops

\* What the detection's context becomes is all that changes of the locals.
LEMMA DetectionChanges ==
    ASSUME Types, NEW c \in Calls, NEW x \in Detections,
           work' = [work EXCEPT ![c].detection = x]
    PROVE  /\ work' \in [Calls -> Works]
           /\ \A d \in Calls \ {c} : work'[d] = work[d]
           /\ work'[c].detection = x /\ work'[c].ensemble = work[c].ensemble
<1>1. work[c] \in Works /\ work \in [Calls -> Works]
    BY DEF Types
<1>2. work'[c] = [work[c] EXCEPT !.detection = x]
    BY <1>1
<1>3. /\ work'[c] \in Works
      /\ work'[c].detection = x /\ work'[c].ensemble = work[c].ensemble
    BY <1>1, <1>2 DEF Works
<1> QED BY <1>1, <1>3

\* Two lists of failures, one after the other.
LEMMA Concatenated ==
    ASSUME NEW s \in Seq(Failures), NEW t \in Seq(Failures)
    PROVE  /\ s \o t \in Seq(Failures)
           /\ OptionalOnly(s) /\ OptionalOnly(t) => OptionalOnly(s \o t)
           /\ NoneCancelled(s) /\ NoneCancelled(t) => NoneCancelled(s \o t)
<1>1. /\ s \o t \in Seq(Failures)
      /\ \A k \in DOMAIN (s \o t) : \/ k \in DOMAIN s /\ (s \o t)[k] = s[k]
                                    \/ k - Len(s) \in DOMAIN t /\ (s \o t)[k] = t[k - Len(s)]
    OBVIOUS
<1> QED BY <1>1 DEF OptionalOnly, NoneCancelled

\* The tolerated failures join those in the result, in order.
LEMMA FailuresAdded ==
    ASSUME Types, NEW c \in Calls, NEW failures \in Seq(Failures), AddFailures(c, failures)
    PROVE  /\ result' \in [Calls -> Results]
           /\ \A d \in Calls \ {c} : result'[d] = result[d]
           /\ result'[c].failures = result[c].failures \o failures
           /\ result'[c].recognitions = result[c].recognitions
<1>1. result[c] \in Results /\ result \in [Calls -> Results] /\ Len(failures) \in Nat
    BY DEF Types
<1>2. result'[c] = [result[c] EXCEPT !.failures = @ \o failures,
                                     !.count = @ + Len(failures),
                                     !.degraded = @ \/ failures # <<>>]
    BY <1>1 DEF AddFailures
<1>3. result[c].failures \o failures \in Seq(Failures)
    BY <1>1, Concatenated DEF Results
<1>4. result[c].count + Len(failures) \in Nat
    BY <1>1 DEF Results
<1>5. /\ result'[c] \in Results
      /\ result'[c].failures = result[c].failures \o failures
      /\ result'[c].recognitions = result[c].recognitions
    BY <1>1, <1>2, <1>3, <1>4 DEF Results
<1>6. result' = [result EXCEPT ![c] = result'[c]]
    BY <1>1, <1>2 DEF AddFailures
<1> QED BY <1>1, <1>5, <1>6

\* The fields of a context may be set one by one.
LEMMA ContextFields ==
    ASSUME NEW d \in Detections, NEW asked \in Nat, NEW answered \in Nat,
           NEW failures \in Nat, NEW b \in BOOLEAN
    PROVE  /\ [d EXCEPT !.asked = asked, !.answered = answered] \in Detections
           /\ [d EXCEPT !.asked = asked, !.degraded = b, !.failures = failures] \in Detections
           /\ [d EXCEPT !.geometryFailed = b] \in Detections
BY DEF Detections

\* A provider that answers leaves the context as degraded as it was; one that
\* fails degrades it.
LEMMA ContextMoves ==
    ASSUME NEW d \in Detections
    PROVE  /\ Answered(d) \in Detections
           /\ Answered(d).degraded = d.degraded /\ Answered(d).failures = d.failures
           /\ Answered(d).asked = d.asked + 1 /\ Answered(d).answered = d.answered + 1
           /\ Failed(d) \in Detections
           /\ Failed(d).degraded = TRUE /\ Failed(d).failures = d.failures + 1
           /\ Failed(d).asked = d.asked + 1 /\ Failed(d).answered = d.answered
<1>1. d.asked + 1 \in Nat /\ d.answered + 1 \in Nat /\ d.failures + 1 \in Nat
    BY DEF Detections
<1>2. Answered(d) \in Detections /\ Failed(d) \in Detections
    BY <1>1, ContextFields DEF Answered, Failed
<1>3. /\ Answered(d).degraded = d.degraded /\ Answered(d).failures = d.failures
      /\ Answered(d).asked = d.asked + 1 /\ Answered(d).answered = d.answered + 1
    BY DEF Answered, Detections
<1>4. /\ Failed(d).degraded = TRUE /\ Failed(d).failures = d.failures + 1
      /\ Failed(d).asked = d.asked + 1 /\ Failed(d).answered = d.answered
    BY DEF Failed, Detections
<1> QED BY <1>2, <1>3, <1>4

\* The geometry flag of a context says nothing of its failures.
LEMMA GeometryNoted ==
    ASSUME NEW d \in Detections, NEW g \in BOOLEAN,
           NEW x, x = [d EXCEPT !.geometryFailed = @ \/ g]
    PROVE  /\ x \in Detections /\ x.degraded = d.degraded /\ x.failures = d.failures
           /\ x.asked = d.asked /\ x.answered = d.answered
<1> DEFINE b == d.geometryFailed \/ g
<1>1. b \in BOOLEAN /\ x = [d EXCEPT !.geometryFailed = b]
    OBVIOUS
<1> HIDE DEF b
<1>2. x \in Detections
    BY <1>1, ContextFields
<1> QED BY <1>1, <1>2 DEF Detections

\* geometry, alignment, layout: one more answer, or one more failure noted both
\* for the decision and in the result.
LEMMA TolerantSound ==
    ASSUME PipelineInv, UNCHANGED <<stopped, overdue>>, NEW c \in Calls,
           pc[c] \notin {"recognition", "returned"},
           NEW provider \in {"geometry", "alignment", "layout"},
           NEW next \in Stages \ {"recognition", "returned", "layout"},
           Tolerant(c, provider, next)
    PROVE  Sound(c)
<1> DEFINE d == work[c].detection
<1>0. /\ Types /\ work[c] \in Works /\ d \in Detections /\ result[c] \in Results
      /\ CallInv(c) /\ next \in Stages
    BY DEF PipelineInv, Types, Works
<1>1. CASE /\ work' = [work EXCEPT ![c].detection = Answered(d)]
           /\ UNCHANGED result /\ CheckThenGoto(c, next)
  <2>1. Moved(c) /\ (Passed(c, next) \/ Thrown(c))
      BY <1>0, <1>1, CheckMoves
  <2>2. /\ Answered(d) \in Detections
        /\ Answered(d).degraded = d.degraded /\ Answered(d).failures = d.failures
        /\ Answered(d).asked = d.asked + 1 /\ Answered(d).answered = d.answered + 1
      BY <1>0, ContextMoves
  <2>3. /\ work' \in [Calls -> Works] /\ work'[c].detection = Answered(d)
        /\ work'[c].ensemble = work[c].ensemble
        /\ \A e \in Calls \ {c} : work'[e] = work[e]
      BY <1>0, <1>1, <2>2, DetectionChanges
  <2> HIDE DEF d
  <2> QED BY <1>0, <1>1, <2>1, <2>2, <2>3 DEF Types, CallInv, CoreInv, Sound, Moved, Passed,
          Thrown, ContextExact, Pending, DecidedRightly, OptionalOnly, CancelledInside,
          Ended, Detections, d
<1>2. ASSUME NEW x, x = [Failed(d) EXCEPT !.geometryFailed = @ \/ provider = "geometry"],
             work' = [work EXCEPT ![c].detection = x],
             AddFailures(c, <<[provider |-> provider, code |-> "provider"]>>),
             CheckThenGoto(c, next)
      PROVE  Sound(c)
  <2> DEFINE f == [provider |-> provider, code |-> "provider"]
  <2>1. Moved(c) /\ (Passed(c, next) \/ Thrown(c))
      BY <1>0, <1>2, CheckMoves
  <2>2. /\ x \in Detections /\ x.degraded = TRUE /\ x.failures = d.failures + 1
        /\ x.asked = d.asked + 1 /\ x.answered = d.answered
    <3>1. (provider = "geometry") \in BOOLEAN
        OBVIOUS
    <3> HIDE DEF d
    <3>2. /\ Failed(d) \in Detections /\ Failed(d).degraded = TRUE
          /\ Failed(d).failures = d.failures + 1
          /\ Failed(d).asked = d.asked + 1 /\ Failed(d).answered = d.answered
        BY <1>0, ContextMoves
    <3> QED BY <1>2, <3>1, <3>2, GeometryNoted
  <2>3. /\ work' \in [Calls -> Works] /\ work'[c].detection = x
        /\ work'[c].ensemble = work[c].ensemble
        /\ \A e \in Calls \ {c} : work'[e] = work[e]
      BY <1>0, <1>2, <2>2, DetectionChanges
  <2>4. <<f>> \in Seq(Failures) /\ OptionalOnly(<<f>>) /\ NoneCancelled(<<f>>)
      BY RecognizerAssumption DEF Failures, Providers, Codes, OptionalOnly, NoneCancelled
  <2>5. /\ result' \in [Calls -> Results]
        /\ \A e \in Calls \ {c} : result'[e] = result[e]
        /\ result'[c].recognitions = result[c].recognitions
        /\ OptionalOnly(result[c].failures) => OptionalOnly(result'[c].failures)
        /\ NoneCancelled(result[c].failures) => NoneCancelled(result'[c].failures)
    <3>1. /\ result' \in [Calls -> Results]
          /\ \A e \in Calls \ {c} : result'[e] = result[e]
          /\ result'[c].failures = result[c].failures \o <<f>>
          /\ result'[c].recognitions = result[c].recognitions
        BY <1>0, <1>2, <2>4, FailuresAdded
    <3>2. result[c].failures \in Seq(Failures)
        BY <1>0 DEF Results
    <3> QED BY <2>4, <3>1, <3>2, Concatenated
  <2> HIDE DEF d, f
  <2>6. ContextExact(pc[c], work[c])' /\ DecidedRightly(result[c])'
    <3>1. /\ d.asked \in Nat /\ d.answered \in Nat /\ d.failures \in Nat
          /\ d.asked = d.answered + d.failures + Pending(pc[c], work[c].ensemble)
          /\ Pending(pc[c], work[c].ensemble) = 0
        BY <1>0 DEF CallInv, ContextExact, Pending, Detections, d
    <3>2. /\ x.degraded <=> x.failures > 0
          /\ x.asked = x.answered + x.failures
        BY <2>2, <3>1
    <3>3. pc'[c] # "recognition"
        BY <2>1 DEF Passed, Thrown
    <3>4. x.answered + x.failures + 0 = x.answered + x.failures
        BY <2>2, <3>1
    <3>5. ContextExact(pc[c], work[c])'
        BY <1>0, <2>3, <3>2, <3>3, <3>4 DEF CallInv, ContextExact, Pending
    <3> QED BY <1>0, <2>5, <3>5 DEF CallInv, DecidedRightly
  <2>7. /\ OptionalOnly(work[c].ensemble.failures)' /\ OptionalOnly(result[c].failures)'
        /\ CancelledInside(pc[c], work[c], result[c], stopped[c], outcome[c])'
        /\ Ended(pc[c], outcome[c], stopped[c], overdue[c])'
      BY <1>0, <2>1, <2>3, <2>5 DEF CallInv, OptionalOnly, CancelledInside, Ended, Passed,
          Thrown, Types
  <2> QED BY <2>1, <2>3, <2>5, <2>6, <2>7 DEF CoreInv, Sound
<1>3. CASE Throws(c, Errors(c) \ {"provider"})
    BY <1>0, <1>3, ThrowsMoves, ThrownSound
<1> QED BY <1>1, <1>2, <1>3 DEF Tolerant

\* The ensemble starts on a crop with nothing noted.
LEMMA EnterEnsembleSound ==
    ASSUME PipelineInv, UNCHANGED <<stopped, overdue>>, NEW c \in Calls, EnterEnsemble(c)
    PROVE  Sound(c)
<1>0. /\ Types /\ work \in [Calls -> Works] /\ work[c] \in Works
      /\ pc[c] = "crop" /\ CallInv(c)
    BY DEF PipelineInv, EnterEnsemble, Types
<1>1. CASE /\ work' = [work EXCEPT ![c].ensemble = NoEnsemble]
           /\ UNCHANGED result /\ CheckThenGoto(c, "recognition")
  <2>1. Moved(c) /\ (Passed(c, "recognition") \/ Thrown(c))
      BY <1>0, <1>1, CheckMoves DEF Stages
  <2>2. /\ NoEnsemble \in Ensembles /\ Len(NoEnsemble.failures) = 0
        /\ ~NoEnsemble.degraded /\ DOMAIN NoEnsemble.failures = {}
      BY DEF NoEnsemble, Ensembles
  <2>3. /\ work'[c] = [work[c] EXCEPT !.ensemble = NoEnsemble]
        /\ \A d \in Calls \ {c} : work'[d] = work[d]
      BY <1>0, <1>1
  <2>4. /\ work'[c] \in Works /\ work'[c].ensemble = NoEnsemble
        /\ work'[c].detection = work[c].detection
      BY <1>0, <2>2, <2>3 DEF Works
  <2>5. work' \in [Calls -> Works]
      BY <1>0, <1>1, <2>3, <2>4
  <2>6. ContextExact(pc[c], work[c])'
    <3>1. Pending(pc'[c], NoEnsemble) = 0
        BY <2>2 DEF Pending
    <3>2. Pending(pc[c], work[c].ensemble) = 0
        BY <1>0 DEF Pending
    <3> QED BY <1>0, <2>2, <2>4, <3>1, <3>2 DEF CallInv, ContextExact
  <2>7. /\ OptionalOnly(work[c].ensemble.failures)'
        /\ NoneCancelled(work[c].ensemble.failures)'
      BY <2>2, <2>4 DEF OptionalOnly, NoneCancelled
  <2>8. /\ CancelledInside(pc[c], work[c], result[c], stopped[c], outcome[c])'
        /\ Ended(pc[c], outcome[c], stopped[c], overdue[c])'
      BY <1>0, <1>1, <2>1, <2>7 DEF CallInv, CancelledInside, Ended, Passed, Thrown
  <2> QED BY <1>0, <1>1, <2>1, <2>3, <2>5, <2>6, <2>7, <2>8 DEF CoreInv, CallInv, Sound, Types
<1>2. CASE Throws(c, {"other"})
    BY <1>0, <1>2, ThrowsMoves, ThrownSound DEF Errors
<1> QED BY <1>1, <1>2 DEF EnterEnsemble

\* The fields of the ensemble's result may be set one by one.
LEMMA EnsembleFields ==
    ASSUME NEW e \in Ensembles, NEW n \in Nat \ {0}, NEW failures \in Seq(Failures),
           NEW b \in BOOLEAN
    PROVE  /\ [e EXCEPT !.next = n, !.evidence = b] \in Ensembles
           /\ [e EXCEPT !.next = n, !.degraded = b, !.failures = failures] \in Ensembles
BY DEF Ensembles

\* A recognizer that answers is counted as asked and as having answered.
LEMMA RecognizerAnswersSound ==
    ASSUME PipelineInv, UNCHANGED <<stopped, overdue>>, NEW c \in Calls, RecognizerAnswers(c)
    PROVE  Sound(c)
<1> DEFINE d == work[c].detection
           e == work[c].ensemble
           y == [e EXCEPT !.next = @ + 1, !.evidence = TRUE]
<1>0. /\ Types /\ work \in [Calls -> Works] /\ work[c] \in Works /\ CallInv(c)
      /\ pc[c] = "recognition" /\ d \in Detections /\ e \in Ensembles
    BY DEF PipelineInv, RecognizerAnswers, Recognizing, Types, Works
<1>1. work' = [work EXCEPT ![c] = [work[c] EXCEPT !.ensemble = y, !.detection = Answered(d)]]
    BY <1>0 DEF RecognizerAnswers, Works
<1>2. y \in Ensembles /\ y.failures = e.failures /\ y.degraded = e.degraded
  <2>1. e.next + 1 \in Nat \ {0}
      BY <1>0 DEF Ensembles
  <2> QED BY <1>0, <2>1, EnsembleFields DEF Ensembles
<1>3. /\ Answered(d) \in Detections
      /\ Answered(d).degraded = d.degraded /\ Answered(d).failures = d.failures
      /\ Answered(d).asked = d.asked + 1 /\ Answered(d).answered = d.answered + 1
    BY <1>0, ContextMoves
<1> HIDE DEF d, e, y
<1>4. /\ work' \in [Calls -> Works]
      /\ \A a \in Calls \ {c} : work'[a] = work[a]
      /\ work'[c].detection = Answered(d) /\ work'[c].ensemble = y
  <2>1. work'[c] = [work[c] EXCEPT !.ensemble = y, !.detection = Answered(d)]
      BY <1>0, <1>1
  <2>2. /\ work'[c] \in Works
        /\ work'[c].detection = Answered(d) /\ work'[c].ensemble = y
    <3>1. work[c] \in Works /\ y \in Ensembles /\ Answered(d) \in Detections
        BY <1>0, <1>2, <1>3
    <3> QED BY ONLY <2>1, <3>1 DEF Works
  <2> QED BY <1>0, <1>1, <2>2
<1>5. /\ pc' = [pc EXCEPT ![c] = "recognition"] /\ outcome' = outcome /\ result' = result
    BY DEF RecognizerAnswers, Goto
<1>6. Moved(c) /\ pc'[c] = "recognition"
    BY <1>0, <1>5 DEF Moved, Types, Stages
<1>7. ContextExact(pc[c], work[c])'
  <2>1. /\ d.asked \in Nat /\ d.answered \in Nat /\ d.failures \in Nat
        /\ Len(e.failures) \in Nat
      BY <1>0 DEF Detections, Ensembles
  <2>2. d.asked = d.answered + d.failures + Len(e.failures)
      BY <1>0 DEF CallInv, ContextExact, Pending, d, e
  <2>3. d.asked + 1 = (d.answered + 1) + d.failures + Len(e.failures)
      BY <2>1, <2>2
  <2> QED BY <1>0, <1>2, <1>3, <1>4, <1>6, <2>3 DEF CallInv, ContextExact, Pending, d, e
<1>8. CoreInv(c)'
    BY <1>0, <1>2, <1>4, <1>5, <1>6, <1>7 DEF CoreInv, CallInv, DecidedRightly,
        OptionalOnly, CancelledInside, NoneCancelled, Ended, e
<1> QED BY <1>0, <1>4, <1>5, <1>6, <1>8 DEF Sound, Types

\* An optional recognizer's failure is noted by the ensemble, and counted for
\* the decision when the ensemble returns.
LEMMA OptionalFailsSound ==
    ASSUME PipelineInv, UNCHANGED <<stopped, overdue>>, NEW c \in Calls,
           Recognizing(c), NEW p \in Enabled \ Required, NEW error \in RecognizerErrors(c),
           OptionalFails(c, p, error)
    PROVE  Sound(c)
<1> DEFINE d == work[c].detection
           e == work[c].ensemble
           f == [provider |-> p, code |-> error]
           x == [d EXCEPT !.asked = @ + 1]
           y == Noted(e, f)
<1>0. /\ Types /\ work \in [Calls -> Works] /\ work[c] \in Works /\ CallInv(c)
      /\ pc[c] = "recognition" /\ d \in Detections /\ e \in Ensembles
      /\ e.failures \in Seq(Failures) /\ Len(e.failures) \in Nat
  <2>1. Types /\ work \in [Calls -> Works] /\ CallInv(c)
      BY DEF PipelineInv, Types
  <2>2. pc[c] = "recognition"
      BY DEF Recognizing
  <2>3. work[c] \in Works
      BY <2>1
  <2>4. d \in Detections /\ e \in Ensembles
      BY ONLY <2>3 DEF Works
  <2>5. e.failures \in Seq(Failures) /\ Len(e.failures) \in Nat
    <3> HIDE DEF e
    <3> QED BY ONLY <2>4 DEF Ensembles
  <2> QED BY <2>1, <2>2, <2>3, <2>4, <2>5
<1>1. work' = [work EXCEPT ![c] = [work[c] EXCEPT !.ensemble = y, !.detection = x]]
  <2>1. work' = [work EXCEPT ![c].ensemble = y, ![c].detection.asked = @ + 1]
      BY DEF OptionalFails
  <2> HIDE DEF y, e
  <2> QED BY ONLY <1>0, <2>1, c \in Calls DEF Works
<1>2. /\ f \in Failures /\ <<f>> \in Seq(Failures) /\ OptionalOnly(<<f>>)
      /\ NoneCancelled(<<f>>) \/ stopped[c]
    BY DEF RecognizerErrors, Failures, Providers, Codes, OptionalOnly, NoneCancelled
<1>3. /\ Append(e.failures, f) = e.failures \o <<f>>
      /\ Append(e.failures, f) \in Seq(Failures)
      /\ Len(Append(e.failures, f)) = Len(e.failures) + 1
  <2> HIDE DEF e, f
  <2> QED BY <1>0, <1>2
<1>4. y \in Ensembles /\ y.failures = Append(e.failures, f) /\ y.degraded = TRUE
  <2>1. e.next + 1 \in Nat \ {0}
      BY <1>0 DEF Ensembles
  <2> HIDE DEF f
  <2> QED BY <1>0, <1>3, <2>1, EnsembleFields DEF Ensembles, Noted
<1>5. /\ x \in Detections /\ x.degraded = d.degraded /\ x.failures = d.failures
      /\ x.asked = d.asked + 1 /\ x.answered = d.answered
    BY <1>0 DEF Detections
<1> HIDE DEF d, e, f, x, y
<1>6. /\ work' \in [Calls -> Works]
      /\ \A a \in Calls \ {c} : work'[a] = work[a]
      /\ work'[c].detection = x /\ work'[c].ensemble = y
  <2>1. work'[c] = [work[c] EXCEPT !.ensemble = y, !.detection = x]
      BY <1>0, <1>1
  <2>2. /\ work'[c] \in Works
        /\ work'[c].detection = x /\ work'[c].ensemble = y
    <3>1. work[c] \in Works /\ y \in Ensembles /\ x \in Detections
        BY <1>0, <1>4, <1>5
    <3> QED BY ONLY <2>1, <3>1 DEF Works
  <2> QED BY <1>0, <1>1, <2>2
<1>7. /\ pc' = [pc EXCEPT ![c] = "recognition"] /\ outcome' = outcome /\ result' = result
    BY DEF OptionalFails, Goto
<1>8. Moved(c) /\ pc'[c] = "recognition"
    BY <1>0, <1>7 DEF Moved, Types, Stages
<1>9. ContextExact(pc[c], work[c])'
  <2>1. d.asked \in Nat /\ d.answered \in Nat /\ d.failures \in Nat
      BY <1>0 DEF Detections
  <2>2. d.asked = d.answered + d.failures + Len(e.failures)
      BY <1>0 DEF CallInv, ContextExact, Pending, d, e
  <2>3. d.asked + 1 = d.answered + d.failures + (Len(e.failures) + 1)
      BY <1>0, <2>1, <2>2
  <2>4. Len(y.failures) = Len(e.failures) + 1 /\ Len(y.failures) > 0
      BY <1>0, <1>3, <1>4
  <2> QED BY <1>0, <1>4, <1>5, <1>6, <1>8, <2>3, <2>4 DEF CallInv, ContextExact, Pending,
          d, e
<1>10. /\ OptionalOnly(work[c].ensemble.failures)'
       /\ NoneCancelled(work[c].ensemble.failures)' \/ stopped[c]'
  <2>1. OptionalOnly(e.failures) /\ (NoneCancelled(e.failures) \/ stopped[c])
      BY <1>0 DEF CallInv, CancelledInside, e
  <2>2. OptionalOnly(y.failures) /\ (NoneCancelled(y.failures) \/ stopped[c])
      BY <1>0, <1>2, <1>3, <1>4, <2>1, Concatenated
  <2> QED BY <1>6, <2>2
<1>11. CoreInv(c)'
    BY <1>0, <1>7, <1>8, <1>9, <1>10 DEF CoreInv, CallInv, CancelledInside, Ended
<1> QED BY <1>0, <1>6, <1>7, <1>8, <1>11 DEF Sound, Types

\* Only an optional recognizer's failure is noted; a required one's ends the call.
LEMMA RecognizerThrowsSound ==
    ASSUME PipelineInv, UNCHANGED <<stopped, overdue>>, NEW c \in Calls, RecognizerThrows(c)
    PROVE  Sound(c)
<1> DEFINE p == Active[work[c].ensemble.next]
<1>1. /\ Recognizing(c) /\ Types /\ pc[c] = "recognition"
    BY DEF PipelineInv, RecognizerThrows, Recognizing
<1>2. p \in Enabled
  <2>1. work[c].ensemble.next \in Nat \ {0} /\ work[c].ensemble.next <= Len(Active)
      BY <1>1 DEF Types, Works, Ensembles, Recognizing
  <2> QED BY <2>1, RecognizerAssumption
<1>3. CASE p \in Required /\ Throws(c, {"provider"})
    BY <1>1, <1>3, ThrowsMoves, ThrownSound DEF Errors
<1>4. ASSUME p \notin Required, NEW e \in RecognizerErrors(c), OptionalFails(c, p, e)
      PROVE  Sound(c)
    BY <1>1, <1>2, <1>4, OptionalFailsSound
<1> QED BY <1>3, <1>4 DEF RecognizerThrows

\* The ensemble's notes become the decision's and the result's.
LEMMA EnsembleReturnsSound ==
    ASSUME PipelineInv, UNCHANGED <<stopped, overdue>>, NEW c \in Calls, EnsembleReturns(c)
    PROVE  Sound(c)
<1> DEFINE d == work[c].detection
           e == work[c].ensemble
           x == Merge(d, e)
<1>0. /\ Types /\ work \in [Calls -> Works] /\ work[c] \in Works /\ CallInv(c)
      /\ pc[c] = "recognition" /\ d \in Detections /\ e \in Ensembles
      /\ e.failures \in Seq(Failures) /\ Len(e.failures) \in Nat
      /\ result[c] \in Results /\ result[c].failures \in Seq(Failures)
  <2>1. /\ Types /\ CallInv(c) /\ pc[c] = "recognition"
      BY DEF PipelineInv, EnsembleReturns
  <2>2. work \in [Calls -> Works] /\ work[c] \in Works /\ result[c] \in Results
      BY <2>1 DEF Types
  <2>3. d \in Detections /\ e \in Ensembles
      BY <2>2 DEF Works
  <2>4. e.failures \in Seq(Failures) /\ result[c].failures \in Seq(Failures)
      BY <2>2, <2>3 DEF Ensembles, Results
  <2>5. Len(e.failures) \in Nat
      BY ONLY <2>4
  <2> QED BY <2>1, <2>2, <2>3, <2>4, <2>5
<1>1. CASE /\ work' = [work EXCEPT ![c].detection = x, ![c].crops = @ - 1]
           /\ AddFailures(c, e.failures) /\ Goto(c, "layout")
  <2>1. /\ x \in Detections /\ x.failures = d.failures + Len(e.failures)
        /\ x.asked = d.asked /\ x.answered = d.answered
        /\ x.degraded <=> d.degraded \/ e.degraded
    <3>1. /\ d.failures + Len(e.failures) \in Nat
          /\ (d.degraded \/ e.degraded) \in BOOLEAN /\ (d.evidence \/ e.evidence) \in BOOLEAN
        BY <1>0 DEF Detections
    <3> HIDE DEF d, e
    <3> QED BY <1>0, <3>1 DEF Merge, Detections
  <2>2. /\ work' \in [Calls -> Works]
        /\ \A a \in Calls \ {c} : work'[a] = work[a]
        /\ work'[c].detection = x /\ work'[c].ensemble = e
    <3>1. work'[c] = [work[c] EXCEPT !.detection = x, !.crops = @ - 1]
        BY <1>0, <1>1 DEF Works
    <3>2. work[c].crops - 1 \in Int
        BY <1>0 DEF Works
    <3>3. work'[c] \in Works /\ work'[c].detection = x /\ work'[c].ensemble = e
      <4> HIDE DEF x
      <4> QED BY <1>0, <2>1, <3>1, <3>2 DEF Works
    <3>4. \A a \in Calls \ {c} : work'[a] = work[a]
        BY <1>0, <1>1
    <3> QED BY <1>0, <1>1, <3>3, <3>4
  <2>3. /\ result' \in [Calls -> Results]
        /\ \A a \in Calls \ {c} : result'[a] = result[a]
        /\ result'[c].failures = result[c].failures \o e.failures
        /\ result'[c].recognitions = result[c].recognitions
      BY <1>0, <1>1, FailuresAdded
  <2>4. /\ pc' = [pc EXCEPT ![c] = "layout"] /\ outcome' = outcome
      BY <1>1 DEF Goto
  <2>5. Moved(c) /\ pc'[c] = "layout"
      BY <1>0, <2>4 DEF Moved, Types, Stages
  <2> HIDE DEF d, e, x
  <2>6. ContextExact(pc[c], work[c])'
    <3>1. d.asked \in Nat /\ d.answered \in Nat /\ d.failures \in Nat
        BY <1>0 DEF Detections
    <3>2. /\ d.asked = d.answered + d.failures + Len(e.failures)
          /\ d.degraded <=> d.failures > 0
          /\ e.degraded <=> Len(e.failures) > 0
        BY <1>0 DEF CallInv, ContextExact, Pending, d, e
    <3>3. x.degraded <=> x.failures > 0
        BY <1>0, <2>1, <3>1, <3>2
    <3>4. x.asked = x.answered + x.failures + 0
        BY <1>0, <2>1, <3>1, <3>2
    <3>5. Pending(pc'[c], work'[c].ensemble) = 0
        BY <2>5 DEF Pending
    <3> QED BY <2>2, <3>2, <3>3, <3>4, <3>5 DEF ContextExact
  <2>7. /\ OptionalOnly(work[c].ensemble.failures)' /\ OptionalOnly(result[c].failures)'
        /\ NoneCancelled(result[c].failures)' \/ stopped[c]'
    <3>1. /\ OptionalOnly(e.failures) /\ (NoneCancelled(e.failures) \/ stopped[c])
          /\ OptionalOnly(result[c].failures) /\ NoneCancelled(result[c].failures)
        BY <1>0 DEF CallInv, CancelledInside, e
    <3> QED BY <1>0, <2>2, <2>3, <3>1, Concatenated
  <2>8. CoreInv(c)'
      BY <1>0, <2>3, <2>4, <2>5, <2>6, <2>7 DEF CoreInv, CallInv, DecidedRightly,
          CancelledInside, Ended
  <2> QED BY <2>2, <2>3, <2>5, <2>8 DEF Sound
<1>2. CASE Throws(c, {"provider"})
    BY <1>0, <1>2, ThrowsMoves, ThrownSound DEF Errors
<1> QED BY <1>1, <1>2 DEF EnsembleReturns

\* A degraded detection is never accepted.
LEMMA DegradedNotAccepted ==
    ASSUME NEW detector, NEW geometry, NEW quality, NEW valid
    PROVE  Decide(detector, geometry, quality, valid, TRUE) # "accepted"
BY DEF Decide, Review

\* Every decision is one of the three statuses.
LEMMA DecideIsStatus ==
    ASSUME NEW detector, NEW geometry, NEW quality, NEW valid, NEW degraded
    PROVE  Decide(detector, geometry, quality, valid, degraded) \in Statuses
BY DEF Decide, Statuses

\* The decision is taken with the failures of its own detection, and the next
\* detection starts with none.
LEMMA DecideSound ==
    ASSUME PipelineInv, UNCHANGED <<stopped, overdue>>, NEW c \in Calls, DecideDetection(c)
    PROVE  Sound(c)
<1> DEFINE d == work[c].detection
           degraded == d.degraded \/ d.failures > 0
           next == IF work[c].detections = 1 THEN "publish" ELSE "geometry"
<1>0. /\ Types /\ work \in [Calls -> Works] /\ work[c] \in Works /\ CallInv(c)
      /\ pc[c] = "decision" /\ d \in Detections
      /\ result \in [Calls -> Results] /\ result[c] \in Results
    BY DEF PipelineInv, DecideDetection, Types, Works
<1>1. PICK detector \in Scores, geometry \in Scores, quality \in Scores, valid \in Fused :
        /\ d.geometryFailed => geometry = 0
        /\ ~d.evidence => quality = 0 /\ valid = <<>>
        /\ result' = [result EXCEPT ![c].recognitions = Append(@,
             [status |-> Decide(detector, geometry, quality, valid, degraded),
              degraded |-> degraded, failures |-> d.asked - d.answered])]
        /\ work' = [work EXCEPT ![c].detections = @ - 1, ![c].detection = Fresh]
        /\ CheckThenGoto(c, next)
  <2>1. DecideOn(c, Fresh)
      BY DEF DecideDetection
  <2> QED BY <2>1, Zenon DEF DecideOn
<1> DEFINE r == [status |-> Decide(detector, geometry, quality, valid, degraded),
                 degraded |-> degraded, failures |-> d.asked - d.answered]
<1>2. Moved(c) /\ (Passed(c, next) \/ Thrown(c))
  <2>1. next \in Stages
      BY DEF Stages
  <2> QED BY <1>0, <1>1, <2>1, CheckMoves
<1>3. /\ d.asked \in Nat /\ d.answered \in Nat /\ d.failures \in Nat
      /\ d.degraded <=> d.failures > 0
      /\ d.asked - d.answered = d.failures
  <2>1. d.asked \in Nat /\ d.answered \in Nat /\ d.failures \in Nat
      BY <1>0 DEF Detections
  <2>2. /\ d.degraded <=> d.failures > 0
        /\ d.asked = d.answered + d.failures + 0
      BY <1>0 DEF CallInv, ContextExact, Pending
  <2> QED BY <2>1, <2>2
<1>4. /\ r \in Recognitions /\ (r.degraded <=> r.failures > 0)
      /\ r.status = "accepted" => r.failures = 0
  <2>1. degraded \in BOOLEAN /\ (degraded <=> d.failures > 0)
      BY <1>3
  <2> HIDE DEF degraded, d
  <2>2. r.status = Decide(detector, geometry, quality, valid, degraded)
      OBVIOUS
  <2>3. r.status \in Statuses
      BY <2>2, DecideIsStatus
  <2>4. r.failures = d.failures /\ (r.degraded <=> degraded)
      BY <1>3
  <2>5. r.status = "accepted" => ~degraded
    <3> SUFFICES ASSUME degraded PROVE r.status # "accepted"
        OBVIOUS
    <3>1. degraded = TRUE
        BY <2>1
    <3> QED BY <2>2, <3>1, DegradedNotAccepted
  <2>6. r \in Recognitions
      BY <1>3, <2>1, <2>3, <2>4, DecideIsStatus DEF Recognitions
  <2> QED BY <1>3, <2>1, <2>4, <2>5, <2>6
<1> HIDE DEF r, degraded, next
<1>5. /\ result' = [result EXCEPT ![c].recognitions = Append(@, r)]
      /\ work' = [work EXCEPT ![c].detections = @ - 1, ![c].detection = Fresh]
    BY <1>1 DEF r
<1>6. /\ work' \in [Calls -> Works]
      /\ \A a \in Calls \ {c} : work'[a] = work[a]
      /\ work'[c].detection = Fresh /\ work'[c].ensemble = work[c].ensemble
  <2>1. work'[c] = [work[c] EXCEPT !.detections = @ - 1, !.detection = Fresh]
      BY <1>0, <1>5 DEF Works
  <2>2. work[c].detections - 1 \in Int /\ Fresh \in Detections
      BY <1>0 DEF Works, Fresh, Detections
  <2>3. /\ work'[c] \in Works
        /\ work'[c].detection = Fresh /\ work'[c].ensemble = work[c].ensemble
      BY <1>0, <2>1, <2>2 DEF Works
  <2>4. \A a \in Calls \ {c} : work'[a] = work[a]
      BY <1>0, <1>5
  <2> QED BY <1>0, <1>5, <2>3, <2>4
<1>7. /\ result' \in [Calls -> Results]
      /\ \A a \in Calls \ {c} : result'[a] = result[a]
      /\ result'[c].recognitions = Append(result[c].recognitions, r)
      /\ result'[c].failures = result[c].failures
  <2>1. result'[c] = [result[c] EXCEPT !.recognitions = Append(@, r)]
      BY <1>0, <1>5
  <2>2. Append(result[c].recognitions, r) \in Seq(Recognitions)
    <3>1. result[c].recognitions \in Seq(Recognitions)
        BY <1>0 DEF Results
    <3> QED BY <1>4, <3>1
  <2>3. /\ result'[c] \in Results /\ result'[c].failures = result[c].failures
        /\ result'[c].recognitions = Append(result[c].recognitions, r)
      BY <1>0, <2>1, <2>2 DEF Results
  <2>4. \A a \in Calls \ {c} : result'[a] = result[a]
      BY <1>0, <1>5
  <2> QED BY <1>0, <1>5, <2>3, <2>4
<1>8. DecidedRightly(result[c])'
  <2>1. result[c].recognitions \in Seq(Recognitions) /\ DecidedRightly(result[c])
      BY <1>0 DEF Results, CallInv
  <2>2. \A k \in DOMAIN Append(result[c].recognitions, r) :
            \/ /\ k \in DOMAIN result[c].recognitions
               /\ Append(result[c].recognitions, r)[k] = result[c].recognitions[k]
            \/ Append(result[c].recognitions, r)[k] = r
      BY <1>4, <2>1
  <2> QED BY <1>4, <1>7, <2>1, <2>2 DEF DecidedRightly
<1>9. ContextExact(pc[c], work[c])'
  <2>1. /\ ~Fresh.degraded /\ Fresh.failures = 0 /\ Fresh.asked = 0 /\ Fresh.answered = 0
      BY DEF Fresh
  <2>2. pc'[c] # "recognition"
      BY <1>2 DEF Passed, Thrown, next
  <2>3. Pending(pc'[c], work'[c].ensemble) = 0
      BY <2>2 DEF Pending
  <2> QED BY <1>0, <1>6, <2>1, <2>3 DEF CallInv, ContextExact
<1>10. CoreInv(c)'
    BY <1>0, <1>2, <1>6, <1>7, <1>8, <1>9 DEF CoreInv, CallInv, OptionalOnly,
        CancelledInside, Ended, Passed, Thrown, next
<1> QED BY <1>2, <1>6, <1>7, <1>10 DEF Sound

\* Nothing is noted while the counters of the engine are brought up to date.
LEMMA PublishSound ==
    ASSUME PipelineInv, NEW c \in Calls, PublishRecognition(c) \/ PublishFailures(c)
    PROVE  Sound(c)
<1>0. /\ Types /\ work \in [Calls -> Works] /\ work[c] \in Works /\ CallInv(c)
      /\ pc[c] = "publish" /\ result[c] \in Results
    BY DEF PipelineInv, PublishRecognition, PublishFailures, Types
<1>1. CASE PublishRecognition(c)
  <2> DEFINE k == work[c].published + 1
  <2>1. /\ work' = [work EXCEPT ![c].published = k] /\ k \in Nat
        /\ UNCHANGED <<stopped, overdue, pc, result, outcome>>
      BY <1>0, <1>1 DEF PublishRecognition, Works
  <2> HIDE DEF k
  <2>2. work'[c] = [work[c] EXCEPT !.published = k]
      BY <1>0, <2>1
  <2>3. /\ work'[c] \in Works
        /\ work'[c].detection = work[c].detection /\ work'[c].ensemble = work[c].ensemble
      BY <1>0, <2>1, <2>2 DEF Works
  <2>4. work' \in [Calls -> Works] /\ \A a \in Calls \ {c} : work'[a] = work[a]
      BY <1>0, <2>1, <2>3
  <2>5. CoreInv(c)'
      BY <1>0, <2>1, <2>3 DEF CoreInv, CallInv, ContextExact, OptionalOnly, CancelledInside
  <2> QED BY <1>0, <2>1, <2>4, <2>5 DEF Sound, Moved, Types
<1>2. CASE PublishFailures(c)
  <2>1. /\ pc' = [pc EXCEPT ![c] = "returned"] /\ outcome' = [outcome EXCEPT ![c] = "ok"]
        /\ UNCHANGED <<stopped, overdue, work, result>>
      BY <1>2 DEF PublishFailures, Abort, locals
  <2>2. Moved(c) /\ pc'[c] = "returned" /\ outcome'[c] = "ok"
      BY <1>0, <2>1 DEF Moved, Types, Stages, Outcomes
  <2>3. CoreInv(c)'
      BY <1>0, <2>1, <2>2 DEF CoreInv, CallInv, ContextExact, CancelledInside, Ended
  <2> QED BY <1>0, <2>1, <2>2, <2>3 DEF Sound, Types
<1> QED BY <1>1, <1>2

\* The caller's stop and deadline only ever go from no to yes.
LEMMA CallerSound ==
    ASSUME PipelineInv, NEW c \in Calls, RequestStop(c) \/ DeadlinePasses(c)
    PROVE  Sound(c)
<1>0. Types /\ CallInv(c) /\ UNCHANGED <<pc, work, result, outcome>>
    BY DEF PipelineInv, RequestStop, DeadlinePasses, locals
<1>1. (stopped[c] => stopped'[c]) /\ (overdue[c] => overdue'[c])
    BY <1>0 DEF RequestStop, DeadlinePasses, Types
<1>2. CoreInv(c)'
    BY <1>0, <1>1 DEF CoreInv, CallInv, CancelledInside, Ended
<1> QED BY <1>0, <1>2 DEF Sound, Moved, Types

-----------------------------------------------------------------------------
(* The providers called after the call was stopped.                        *)

\* How a step moves the call between providers: out, on with the context in
\* order, into the ensemble, to the next recognizer, to the layout analyzer, or
\* not at all.
Moves(c) ==
    LET next == work[c].ensemble.next
        later == work'[c].ensemble.next
        good == ~stopped[c] /\ ~overdue[c]
    IN  \/ pc'[c] = "returned"
        \/ good /\ pc'[c] \notin {"recognition", "layout", "returned"}
        \/ good /\ pc'[c] = "recognition" /\ later = 1
        \/ /\ pc[c] = "recognition" /\ pc'[c] = "recognition"
           /\ next <= Len(Active) /\ later = next + 1
        \/ pc[c] = "recognition" /\ pc'[c] = "layout" /\ ~(next <= Len(Active))
        \/ pc'[c] = pc[c] /\ later = next

\* The steps of recognize that check the context go on with it in order, or out.
LEMMA CheckMovesOn ==
    ASSUME Types, NEW c \in Calls, CheckThenGoto(c, "detection") \/ CheckThenGoto(c, "geometry")
             \/ CheckThenGoto(c, "alignment") \/ CheckThenGoto(c, "crop_generation")
             \/ CheckThenGoto(c, "crop") \/ CheckThenGoto(c, "decision")
             \/ CheckThenGoto(c, "publish")
    PROVE  Moves(c)
<1>1. ASSUME NEW stage \in Stages \ {"recognition", "layout", "returned"},
             CheckThenGoto(c, stage)
      PROVE  Moves(c)
    BY <1>1, CheckMoves DEF Passed, Thrown, Moves
<1> QED BY <1>1 DEF Stages

\* An error leaves recognize.
LEMMA ThrowsMoveOut ==
    ASSUME NEW c \in Calls, Types, NEW errors, Throws(c, errors)
    PROVE  Moves(c)
BY DEF Throws, Abort, Moves, Types

\* A tolerated provider is followed by a check of the context.
LEMMA TolerantMoves ==
    ASSUME Types, NEW c \in Calls, NEW provider, NEW next,
           next \in {"alignment", "crop_generation", "decision", "crop"},
           Tolerant(c, provider, next)
    PROVE  Moves(c)
<1>1. CASE CheckThenGoto(c, next)
    BY <1>1, CheckMovesOn
<1>2. CASE Throws(c, Errors(c) \ {"provider"})
    BY <1>2, ThrowsMoveOut
<1> QED BY <1>1, <1>2 DEF Tolerant

\* Each stage moves the call in one of the ways of Moves.
LEMMA StageMoves ==
    ASSUME PipelineInv, NEW c \in Calls, Stage(c)
    PROVE  Moves(c)
<1>0. /\ Types /\ work[c] \in Works /\ work \in [Calls -> Works]
      /\ pc \in [Calls -> Stages]
    BY DEF PipelineInv, Types
<1>1. CASE Begin(c)
    BY <1>0, <1>1, CheckMovesOn, ThrowsMoveOut DEF Begin
<1>2. CASE Detect(c)
  <2>1. \/ CheckThenGoto(c, "publish") \/ CheckThenGoto(c, "geometry")
        \/ Throws(c, Errors(c))
      BY <1>2 DEF Detect
  <2> QED BY <1>0, <2>1, CheckMovesOn, ThrowsMoveOut
<1>3. CASE Geometry(c)
    BY <1>0, <1>3, TolerantMoves DEF Geometry
<1>4. CASE Align(c)
    BY <1>0, <1>4, TolerantMoves DEF Align
<1>5. CASE GenerateCrops(c)
  <2>1. \/ CheckThenGoto(c, "decision") \/ CheckThenGoto(c, "crop")
        \/ Throws(c, Errors(c))
      BY <1>5 DEF GenerateCrops
  <2> QED BY <1>0, <2>1, CheckMovesOn, ThrowsMoveOut
<1>6. CASE EnterEnsemble(c)
  <2>1. CASE /\ work' = [work EXCEPT ![c].ensemble = NoEnsemble]
             /\ CheckThenGoto(c, "recognition")
    <3>1. work'[c].ensemble.next = 1
        BY <1>0, <2>1 DEF Works, NoEnsemble
    <3>2. Passed(c, "recognition") \/ Thrown(c)
        BY <1>0, <2>1, CheckMoves DEF Stages
    <3> QED BY <3>1, <3>2 DEF Moves, Passed, Thrown
  <2>2. CASE Throws(c, {"other"})
      BY <1>0, <2>2, ThrowsMoveOut
  <2> QED BY <1>6, <2>1, <2>2 DEF EnterEnsemble
<1>7. CASE RecognizerAnswers(c)
  <2>1. /\ pc[c] = "recognition" /\ work[c].ensemble.next <= Len(Active)
        /\ pc' = [pc EXCEPT ![c] = "recognition"]
      BY <1>7 DEF RecognizerAnswers, Recognizing, Goto
  <2>2. work'[c].ensemble.next = work[c].ensemble.next + 1
      BY <1>0, <1>7 DEF RecognizerAnswers, Works, Ensembles
  <2> QED BY <1>0, <2>1, <2>2 DEF Moves
<1>8. CASE RecognizerThrows(c)
  <2>1. pc[c] = "recognition" /\ work[c].ensemble.next <= Len(Active)
      BY <1>8 DEF RecognizerThrows, Recognizing
  <2>2. ASSUME NEW p, NEW e, OptionalFails(c, p, e)
        PROVE  Moves(c)
    <3>1. /\ pc' = [pc EXCEPT ![c] = "recognition"]
        BY <2>2 DEF OptionalFails, Goto
    <3>2. work'[c].ensemble.next = work[c].ensemble.next + 1
        BY <1>0, <2>2 DEF OptionalFails, Noted, Works, Ensembles
    <3> QED BY <1>0, <2>1, <3>1, <3>2 DEF Moves
  <2> QED BY <1>0, <1>8, <2>2, ThrowsMoveOut DEF RecognizerThrows
<1>9. CASE EnsembleReturns(c)
  <2>1. pc[c] = "recognition" /\ ~(work[c].ensemble.next <= Len(Active))
      BY <1>9 DEF EnsembleReturns, Recognizing
  <2>2. CASE Goto(c, "layout")
      BY <1>0, <2>1, <2>2 DEF Goto, Moves
  <2> QED BY <1>0, <1>9, <2>2, ThrowsMoveOut DEF EnsembleReturns
<1>10. CASE Layout(c)
    BY <1>0, <1>10, TolerantMoves DEF Layout
<1>11. CASE DecideDetection(c)
  <2>1. DecideOn(c, Fresh)
      BY <1>11 DEF DecideDetection
  <2>2. CheckThenGoto(c, "publish") \/ CheckThenGoto(c, "geometry")
      BY <2>1 DEF DecideOn
  <2> QED BY <1>0, <2>2, CheckMovesOn
<1> QED BY <1>1, <1>2, <1>3, <1>4, <1>5, <1>6, <1>7, <1>8, <1>9, <1>10, <1>11 DEF Stage

\* So does every step, and a stopped call stays stopped.
LEMMA StepMoves ==
    ASSUME PipelineInv, NEW c \in Calls, Step(c)
    PROVE  Moves(c) /\ (stopped[c] \/ overdue[c] => stopped'[c] \/ overdue'[c])
<1>0. /\ Types /\ work[c] \in Works /\ work \in [Calls -> Works]
    BY DEF PipelineInv, Types
<1>1. CASE Stage(c)
    BY <1>1, StageMoves DEF Stage
<1>2. CASE PublishRecognition(c)
    BY <1>0, <1>2 DEF PublishRecognition, Moves, Works
<1>3. CASE PublishFailures(c)
    BY <1>0, <1>3 DEF PublishFailures, Abort, Moves, Types
<1>4. CASE RequestStop(c) \/ DeadlinePasses(c)
    BY <1>0, <1>4 DEF RequestStop, DeadlinePasses, locals, Moves, Types
<1> QED BY <1>1, <1>2, <1>3, <1>4 DEF Step

\* Outside the stages named for a provider, and past the last recognizer, no
\* provider is running.
LEMMA OutsideProviders ==
    ASSUME NEW p, NEW w,
           \/ p \notin {"detection", "geometry", "alignment", "crop_generation",
                        "recognition", "layout"}
           \/ p = "recognition" /\ ~(w.ensemble.next <= Len(Active))
    PROVE  Inside(p, w)[1] = "none"
BY DEF Inside

\* Late calls are counted one by one, and only those of the crop in progress.
LEMMA LateStep ==
    ASSUME PipelineInv, NEW c \in Calls, Step(c), pc' \in [Calls -> Stages],
           late' = [late EXCEPT ![c] =
                      IF Calling(c) /\ (stopped[c] \/ overdue[c]) THEN @ + 1 ELSE @]
    PROVE  /\ late' \in [Calls -> Nat]
           /\ \A d \in Calls \ {c} : late'[d] = late[d]
           /\ LateInside(pc[c], work[c], late[c], stopped[c] \/ overdue[c])'
<1> DEFINE next == work[c].ensemble.next
           later == work'[c].ensemble.next
           n == late[c]
           m == late'[c]
           stop == stopped[c] \/ overdue[c]
<1>0. /\ late \in [Calls -> Nat] /\ n \in Nat /\ work[c] \in Works
      /\ LateInside(pc[c], work[c], n, stop)
    BY DEF PipelineInv, Types, CallInv
<1>l. Len(Active) \in Nat /\ (Active = <<>> <=> Len(Active) = 0)
    BY RecognizerAssumption
<1>x. next \in Nat \ {0}
    BY <1>0 DEF Works, Ensembles
<1>1. /\ late' \in [Calls -> Nat] /\ \A d \in Calls \ {c} : late'[d] = late[d]
      /\ m = n \/ (m = n + 1 /\ stop /\ Calling(c))
    BY <1>0
<1>2. Moves(c) /\ (stop => stopped'[c] \/ overdue'[c])
    BY StepMoves
<1>3. Calling(c) => /\ Inside(pc'[c], work'[c])[1] # "none"
                    /\ Inside(pc'[c], work'[c]) # Inside(pc[c], work[c])
    BY DEF Calling
<1>4. n > 0 => stop
    BY <1>0 DEF LateInside
<1> HIDE DEF n, m, next, later, stop
<1>5. CASE pc'[c] = "returned"
  <2>1. m = n
      BY <1>1, <1>3, <1>5, OutsideProviders
  <2> QED BY <1>0, <1>1, <1>2, <1>5, <2>1 DEF LateInside, n, m, stop
<1>6. CASE ~stop /\ pc'[c] \notin {"recognition", "layout", "returned"}
  <2>1. m = n /\ n = 0
      BY <1>0, <1>1, <1>4, <1>6
  <2> QED BY <1>0, <1>1, <1>6, <1>l, <2>1 DEF LateInside, m
<1>7. CASE ~stop /\ pc'[c] = "recognition" /\ later = 1
  <2>1. m = n /\ n = 0
      BY <1>0, <1>1, <1>4, <1>7
  <2> QED BY <1>0, <1>1, <1>7, <1>l, <2>1 DEF LateInside, m, later
<1>8. CASE /\ pc[c] = "recognition" /\ pc'[c] = "recognition"
           /\ next <= Len(Active) /\ later = next + 1
  <2>1. n < next
      BY <1>0, <1>8 DEF LateInside, next
  <2>2. ~(later <= Len(Active)) => m = n
      BY <1>1, <1>3, <1>8, OutsideProviders DEF later
  <2>3. IF later <= Len(Active) THEN m < later ELSE m = 0 \/ m < Len(Active)
      BY <1>0, <1>1, <1>8, <1>l, <1>x, <2>1, <2>2
  <2>4. m <= Len(Active) /\ Active # <<>>
      BY <1>0, <1>1, <1>8, <1>l, <1>x, <2>1
  <2>5. m > 0 => stopped'[c] \/ overdue'[c]
      BY <1>0, <1>1, <1>2, <1>4
  <2>6. pc'[c] \in {"recognition", "layout", "returned"}
      BY <1>8
  <2> QED BY <1>1, <1>8, <2>3, <2>4, <2>5, <2>6 DEF LateInside, m, later
<1>9. CASE pc[c] = "recognition" /\ pc'[c] = "layout" /\ ~(next <= Len(Active))
  <2>1. n = 0 \/ n < Len(Active)
      BY <1>0, <1>9 DEF LateInside, next
  <2>2. m <= IF Active = <<>> THEN 1 ELSE Len(Active)
      BY <1>0, <1>1, <1>l, <2>1
  <2>3. m > 0 => stopped'[c] \/ overdue'[c]
      BY <1>0, <1>1, <1>2, <1>4
  <2>4. pc'[c] \notin {"recognition"} /\ pc'[c] \in {"recognition", "layout", "returned"}
      BY <1>9
  <2> QED BY <1>1, <2>2, <2>3, <2>4 DEF LateInside, m
<1>10. CASE pc'[c] = pc[c] /\ later = next
  <2>1. Inside(pc'[c], work'[c]) = Inside(pc[c], work[c])
      BY <1>10 DEF Inside, next, later
  <2>2. m = n
      BY <1>1, <1>3, <2>1
  <2> QED BY <1>0, <1>1, <1>2, <1>10, <2>2 DEF LateInside, m, n, next, later, stop
<1> QED BY <1>1, <1>2, <1>5, <1>6, <1>7, <1>8, <1>9, <1>10 DEF Moves, next, later, stop

-----------------------------------------------------------------------------
(* The invariant, and the properties that follow from it.                  *)

\* Every stage keeps what the call knows of its failures right.
LEMMA StageSound ==
    ASSUME PipelineInv, UNCHANGED <<stopped, overdue>>, NEW c \in Calls, Stage(c)
    PROVE  Sound(c)
<1>1. CASE Geometry(c)
    BY <1>1, TolerantSound DEF Geometry, Stages
<1>2. CASE Align(c)
    BY <1>2, TolerantSound DEF Align, Stages
<1>3. CASE Layout(c)
  <2>1. (IF work[c].crops = 0 THEN "decision" ELSE "crop")
          \in Stages \ {"recognition", "returned", "layout"}
      BY DEF Stages
  <2> QED BY <1>3, <2>1, TolerantSound DEF Layout
<1> QED BY <1>1, <1>2, <1>3, BeginSound, DetectSound, GenerateCropsSound, EnterEnsembleSound,
      RecognizerAnswersSound, RecognizerThrowsSound, EnsembleReturnsSound, DecideSound
      DEF Stage

\* A step of one call keeps the invariant of that call, and of every other.
LEMMA PipelineStep == PipelineInv /\ [Next]_vars => PipelineInv'
<1> SUFFICES ASSUME PipelineInv, [Next]_vars PROVE PipelineInv' OBVIOUS
<1>1. ASSUME NEW c \in Calls, Step(c),
             late' = [late EXCEPT ![c] =
                        IF Calling(c) /\ (stopped[c] \/ overdue[c]) THEN @ + 1 ELSE @]
      PROVE  PipelineInv'
  <2>0. Types /\ \A d \in Calls : CallInv(d)
      BY DEF PipelineInv
  <2>1. Sound(c)
      BY <1>1, StageSound, PublishSound, CallerSound DEF Step, Stage
  <2>2. /\ stopped' \in [Calls -> BOOLEAN] /\ overdue' \in [Calls -> BOOLEAN]
        /\ \A d \in Calls \ {c} : stopped'[d] = stopped[d] /\ overdue'[d] = overdue[d]
    <3>1. \/ stopped' = stopped /\ overdue' = overdue
          \/ stopped' = [stopped EXCEPT ![c] = TRUE] /\ overdue' = overdue
          \/ stopped' = stopped /\ overdue' = [overdue EXCEPT ![c] = TRUE]
        BY <1>1 DEF Step, Stage, PublishRecognition, PublishFailures, RequestStop,
            DeadlinePasses
    <3> QED BY <2>0, <3>1 DEF Types
  <2>3. /\ late' \in [Calls -> Nat] /\ \A d \in Calls \ {c} : late'[d] = late[d]
        /\ LateInside(pc[c], work[c], late[c], stopped[c] \/ overdue[c])'
      BY <1>1, <2>1, LateStep DEF Sound, Moved
  <2>4. Types'
      BY <2>1, <2>2, <2>3 DEF Types, Sound, Moved
  <2>5. CallInv(c)'
      BY <2>1, <2>3 DEF Sound, CoreInv, CallInv
  <2>6. ASSUME NEW d \in Calls \ {c} PROVE CallInv(d)'
    <3>1. /\ pc'[d] = pc[d] /\ outcome'[d] = outcome[d] /\ work'[d] = work[d]
          /\ result'[d] = result[d] /\ stopped'[d] = stopped[d]
          /\ overdue'[d] = overdue[d] /\ late'[d] = late[d]
        BY <2>1, <2>2, <2>3 DEF Sound, Moved
    <3> QED BY <2>0, <3>1 DEF CallInv
  <2> QED BY <2>4, <2>5, <2>6 DEF PipelineInv
<1>2. CASE UNCHANGED vars
  <2>1. UNCHANGED <<stopped, overdue, pc, work, result, outcome, late>>
      BY <1>2 DEF vars, locals
  <2> QED BY <2>1 DEF PipelineInv, Types, CallInv
<1> QED BY <1>1, <1>2 DEF Next, Work, Done

\* PipelineInv is inductive, and so an invariant of concurrent recognize calls.
THEOREM PipelineInvariant == Spec => []PipelineInv
BY PipelineInvInit, PipelineStep, PTL DEF Spec

\* The failures of a recognition decide about it and only they: it is degraded
\* exactly by the providers that failed its own detection, on whatever crop and
\* however the ensemble passed them on, and it is not accepted with any.
THEOREM FailuresAreDecisive == Spec => []FailuresDecide
<1>1. PipelineInv => FailuresDecide
    BY DEF PipelineInv, CallInv, DecidedRightly, FailuresDecide, DegradedForItsOwnFailures,
        AcceptedOnFullEvidence
<1> QED BY PipelineInvariant, <1>1, PTL

\* A call that is cancelled or out of time says so truthfully and soon: no result
\* blames a provider for the caller's cancellation, an error of the caller is the
\* caller's, a required recognizer is never made up for, and at most the rest of
\* one crop's providers are still called.
THEOREM StopsHonoured == Spec => []StopsAreHonoured
<1>1. PipelineInv => StopsAreHonoured
  <2> SUFFICES ASSUME PipelineInv PROVE StopsAreHonoured OBVIOUS
  <2>1. CancellationNotBlamedOnProvider
      BY DEF PipelineInv, CallInv, CancelledInside, NoneCancelled,
          CancellationNotBlamedOnProvider
  <2>2. ErrorIsTheCallers
      BY DEF PipelineInv, CallInv, Ended, ErrorIsTheCallers
  <2>3. RequiredNeverMissing
      BY DEF PipelineInv, CallInv, OptionalOnly, RequiredNeverMissing
  <2>4. FewCallsAfterStop
      BY DEF PipelineInv, CallInv, LateInside, FewCallsAfterStop
  <2> QED BY <2>1, <2>2, <2>3, <2>4 DEF StopsAreHonoured, CallEndsTruthfully
<1> QED BY PipelineInvariant, <1>1, PTL

-----------------------------------------------------------------------------
(* The failures and the recognitions, counted.                             *)

\* Stages with no detection in progress.
Idle == {"called", "detection", "publish"}

\* The result's list, count and flag agree, and they cover the recognitions made
\* and the detection in progress; the recognitions are published in order, at the
\* end, and all of them or the call is not over.
Counted(c) ==
    /\ result[c].count = Len(result[c].failures)
    /\ result[c].degraded <=> result[c].count > 0
    /\ pc[c] # "returned" => result[c].count = Total(c) + work[c].detection.failures
    /\ pc[c] \in Idle => work[c].detection.failures = 0
    /\ outcome[c] = "ok" => /\ pc[c] = "returned"
                            /\ result[c].count = Total(c)
                            /\ work[c].published = Len(result[c].recognitions)
    /\ pc[c] = "publish" \/ outcome[c] = "ok" \/ work[c].published = 0
    /\ work[c].published <= Len(result[c].recognitions)

\* The recognitions of a call with a status that are in the counters already.
Published(c, s) ==
    Cardinality({k \in 1..work[c].published : result[c].recognitions[k].status = s})

PublishedFailures(c) == IF outcome[c] = "ok" THEN result[c].count ELSE 0

\* Every counter is the sum over all calls of what each has published.
Tallied ==
    /\ DOMAIN diagnostics = Statuses \cup {"provider_failures"}
    /\ \A s \in Statuses :
         diagnostics[s] = SumFunctionOnSet([c \in Calls |-> Published(c, s)], Calls)
    /\ diagnostics["provider_failures"]
         = SumFunctionOnSet([c \in Calls |-> PublishedFailures(c)], Calls)

CountingInv == PipelineInv /\ Tallied /\ \A c \in Calls : Counted(c)

\* What the steps do to the counts: nothing is counted, ...
Uncounted(c) ==
    /\ pc[c] \notin {"publish", "returned"} /\ outcome'[c] # "ok"
    /\ result'[c] = result[c] /\ work'[c].published = work[c].published
    /\ pc'[c] # "returned" =>
         /\ work'[c].detection.failures = work[c].detection.failures
         /\ pc'[c] \in Idle => pc[c] \in Idle

\* ... k failures are, for the caller and for the decision, ...
CountsFailures(c, k) ==
    /\ pc[c] \notin {"publish", "returned"} /\ outcome'[c] # "ok" /\ pc'[c] \notin Idle
    /\ result'[c].failures \in Seq(Failures)
    /\ Len(result'[c].failures) = Len(result[c].failures) + k
    /\ result'[c].count = result[c].count + k
    /\ result'[c].degraded <=> result[c].degraded \/ k > 0
    /\ result'[c].recognitions = result[c].recognitions
    /\ work'[c].published = work[c].published
    /\ work'[c].detection.failures = work[c].detection.failures + k

\* ... or the failures of the detection become those of its recognition.
CountsRecognition(c, r) ==
    /\ pc[c] \notin {"publish", "returned"} /\ outcome'[c] # "ok"
    /\ result'[c].recognitions = Append(result[c].recognitions, r)
    /\ r.failures = work[c].detection.failures
    /\ result'[c].failures = result[c].failures
    /\ result'[c].count = result[c].count
    /\ result'[c].degraded = result[c].degraded
    /\ work'[c].published = work[c].published
    /\ work'[c].detection.failures = 0

Effect(c) ==
    \/ UNCHANGED <<pc, work, result, outcome>>
    \/ Uncounted(c)
    \/ \E k \in Nat : CountsFailures(c, k)
    \/ \E r \in Recognitions : CountsRecognition(c, r)

\* An error of a provider counts for nothing.
LEMMA ThrowsEffect ==
    ASSUME PipelineInv, NEW c \in Calls, pc[c] \notin {"publish", "returned"},
           NEW errors, Throws(c, errors), errors \subseteq Errors(c)
    PROVE  Effect(c)
<1>1. Thrown(c) /\ UNCHANGED <<work, result>>
    BY ThrowsMoves DEF PipelineInv
<1> QED BY <1>1 DEF Effect, Uncounted, Thrown

\* A check of the context ends a call or lets it on, and never ends it well.
LEMMA CheckKeepsOutcome ==
    ASSUME PipelineInv, NEW c \in Calls, pc[c] # "returned",
           NEW stage \in Stages \ {"returned"}, CheckThenGoto(c, stage)
    PROVE  outcome'[c] # "ok" /\ (pc'[c] = stage \/ pc'[c] = "returned")
<1>1. Types /\ outcome[c] = "none"
    BY DEF PipelineInv, CallInv, Ended
<1>2. Passed(c, stage) \/ Thrown(c)
    BY <1>1, CheckMoves
<1> QED BY <1>1, <1>2 DEF Passed, Thrown

\* The detector and the crop generator count nothing.
LEMMA QuietEffect ==
    ASSUME PipelineInv, NEW c \in Calls, Begin(c) \/ Detect(c) \/ GenerateCrops(c)
    PROVE  Effect(c)
<1>0. /\ Types /\ work[c] \in Works /\ work \in [Calls -> Works]
    BY DEF PipelineInv, Types
<1>1. CASE Begin(c)
  <2>1. CASE CheckThenGoto(c, "detection") /\ UNCHANGED locals
    <3>1. pc[c] = "called" /\ "detection" \in Stages \ {"returned"}
        BY <1>1 DEF Begin, Stages
    <3>2. outcome'[c] # "ok" /\ (pc'[c] = "detection" \/ pc'[c] = "returned")
        BY <2>1, <3>1, CheckKeepsOutcome
    <3> QED BY <2>1, <3>1, <3>2 DEF Effect, Uncounted, locals, Idle
  <2>2. CASE Throws(c, {"other"})
      BY <1>1, <2>2, ThrowsEffect DEF Begin, Errors
  <2> QED BY <1>1, <2>1, <2>2 DEF Begin
<1>2. CASE Detect(c)
  <2>1. ASSUME NEW n \in 0..MaxDetections, work' = [work EXCEPT ![c].detections = n],
               result' = result,
               CheckThenGoto(c, IF n = 0 THEN "publish" ELSE "geometry")
        PROVE  Effect(c)
    <3>1. /\ pc[c] = "detection"
          /\ (IF n = 0 THEN "publish" ELSE "geometry") \in Stages \ {"returned"}
        BY <1>2 DEF Detect, Stages
    <3>2. outcome'[c] # "ok"
        BY <2>1, <3>1, CheckKeepsOutcome
    <3>3. /\ work'[c].published = work[c].published
          /\ work'[c].detection = work[c].detection
        BY <1>0, <2>1 DEF Works
    <3> QED BY <2>1, <3>1, <3>2, <3>3 DEF Effect, Uncounted, Idle
  <2> QED BY <1>2, <2>1, ThrowsEffect DEF Detect
<1>3. CASE GenerateCrops(c)
  <2>1. ASSUME NEW n \in 0..MaxCrops, work' = [work EXCEPT ![c].crops = n],
               result' = result,
               CheckThenGoto(c, IF n = 0 THEN "decision" ELSE "crop")
        PROVE  Effect(c)
    <3>1. /\ pc[c] = "crop_generation"
          /\ (IF n = 0 THEN "decision" ELSE "crop") \in Stages \ {"returned"}
        BY <1>3 DEF GenerateCrops, Stages
    <3>2. outcome'[c] # "ok" /\ pc'[c] \notin Idle
        BY <2>1, <3>1, CheckKeepsOutcome DEF Idle
    <3>3. /\ work'[c].published = work[c].published
          /\ work'[c].detection = work[c].detection
        BY <1>0, <2>1 DEF Works
    <3> QED BY <2>1, <3>1, <3>2, <3>3 DEF Effect, Uncounted
  <2> QED BY <1>3, <2>1, ThrowsEffect DEF GenerateCrops
<1> QED BY <1>1, <1>2, <1>3

\* The ensemble counts nothing while it runs.
LEMMA EnsembleEffect ==
    ASSUME PipelineInv, NEW c \in Calls,
           EnterEnsemble(c) \/ RecognizerAnswers(c) \/ RecognizerThrows(c)
    PROVE  Effect(c)
<1>0. /\ Types /\ work[c] \in Works /\ work \in [Calls -> Works] /\ pc \in [Calls -> Stages]
      /\ work[c].detection \in Detections
      /\ pc[c] \in {"crop", "recognition"} /\ outcome[c] = "none"
    BY DEF PipelineInv, Types, Works, EnterEnsemble, RecognizerAnswers, RecognizerThrows,
        Recognizing, CallInv, Ended
<1>1. CASE EnterEnsemble(c)
  <2>1. CASE /\ work' = [work EXCEPT ![c].ensemble = NoEnsemble]
             /\ UNCHANGED result /\ CheckThenGoto(c, "recognition")
    <3>1. outcome'[c] # "ok" /\ pc'[c] \notin Idle
        BY <1>0, <2>1, CheckKeepsOutcome DEF Stages, Idle
    <3>2. /\ work'[c].published = work[c].published
          /\ work'[c].detection = work[c].detection
        BY <1>0, <2>1 DEF Works
    <3> QED BY <1>0, <2>1, <3>1, <3>2 DEF Effect, Uncounted
  <2>2. CASE Throws(c, {"other"})
      BY <1>0, <2>2, ThrowsEffect DEF Errors
  <2> QED BY <1>1, <2>1, <2>2 DEF EnterEnsemble
<1>2. CASE RecognizerAnswers(c)
  <2>1. /\ pc' = [pc EXCEPT ![c] = "recognition"] /\ UNCHANGED <<outcome, result>>
        /\ work' = [work EXCEPT ![c].ensemble.next = @ + 1,
                                ![c].ensemble.evidence = TRUE,
                                ![c].detection = Answered(@)]
      BY <1>2 DEF RecognizerAnswers, Goto
  <2>2. /\ work'[c].published = work[c].published
        /\ work'[c].detection = Answered(work[c].detection)
      BY <1>0, <2>1 DEF Works
  <2>3. work'[c].detection.failures = work[c].detection.failures
      BY <1>0, <2>2, ContextMoves
  <2> QED BY <1>0, <2>1, <2>2, <2>3 DEF Effect, Uncounted, Idle
<1>3. CASE RecognizerThrows(c)
  <2>1. ASSUME NEW p, NEW e, OptionalFails(c, p, e)
        PROVE  Effect(c)
    <3>1. /\ pc' = [pc EXCEPT ![c] = "recognition"] /\ UNCHANGED <<outcome, result>>
          /\ work' = [work EXCEPT ![c].ensemble = Noted(@, [provider |-> p, code |-> e]),
                                  ![c].detection.asked = @ + 1]
        BY <2>1 DEF OptionalFails, Goto
    <3>2. /\ work'[c].published = work[c].published
          /\ work'[c].detection.failures = work[c].detection.failures
        BY <1>0, <3>1 DEF Works, Detections
    <3> QED BY <1>0, <3>1, <3>2 DEF Effect, Uncounted, Idle
  <2> QED BY <1>0, <1>3, <2>1, ThrowsEffect DEF RecognizerThrows, Errors
<1> QED BY <1>1, <1>2, <1>3

\* What AddFailures adds to the result.
LEMMA AddFailuresCounts ==
    ASSUME Types, NEW c \in Calls, NEW failures \in Seq(Failures), AddFailures(c, failures)
    PROVE  /\ result'[c].failures \in Seq(Failures)
           /\ Len(result'[c].failures) = Len(result[c].failures) + Len(failures)
           /\ result'[c].count = result[c].count + Len(failures)
           /\ result'[c].degraded <=> result[c].degraded \/ Len(failures) > 0
           /\ result'[c].recognitions = result[c].recognitions
<1>1. result \in [Calls -> Results] /\ result[c] \in Results
    BY DEF Types
<1>2. result'[c] = [result[c] EXCEPT !.failures = @ \o failures,
                                     !.count = @ + Len(failures),
                                     !.degraded = @ \/ failures # <<>>]
    BY <1>1 DEF AddFailures
<1>3. /\ result'[c].failures = result[c].failures \o failures
      /\ result'[c].count = result[c].count + Len(failures)
      /\ result'[c].degraded = (result[c].degraded \/ failures # <<>>)
      /\ result'[c].recognitions = result[c].recognitions
    BY <1>1, <1>2 DEF Results
<1>4. result[c].failures \in Seq(Failures)
    BY <1>1 DEF Results
<1>5. /\ result[c].failures \o failures \in Seq(Failures)
      /\ Len(result[c].failures \o failures) = Len(result[c].failures) + Len(failures)
      /\ failures # <<>> <=> Len(failures) > 0
    BY ONLY <1>4, failures \in Seq(Failures)
<1> QED BY <1>3, <1>5

\* Geometry, alignment and layout count the failure that they survive, once for
\* the caller and once for the decision.
LEMMA TolerantEffect ==
    ASSUME PipelineInv, NEW c \in Calls, pc[c] \notin {"publish", "returned"},
           NEW provider \in {"geometry", "alignment", "layout"},
           NEW next \in Stages \ ({"returned"} \cup Idle),
           Tolerant(c, provider, next)
    PROVE  Effect(c)
<1> DEFINE d == work[c].detection
<1>0. /\ Types /\ work[c] \in Works /\ work \in [Calls -> Works] /\ d \in Detections
    BY DEF PipelineInv, Types, Works
<1>c. CheckThenGoto(c, next) => outcome'[c] # "ok" /\ pc'[c] \notin Idle
    BY CheckKeepsOutcome DEF Idle
<1>1. CASE /\ work' = [work EXCEPT ![c].detection = Answered(d)]
           /\ UNCHANGED result /\ CheckThenGoto(c, next)
  <2>1. /\ work'[c].published = work[c].published
        /\ work'[c].detection = Answered(d)
      BY <1>0, <1>1 DEF Works
  <2>2. work'[c].detection.failures = work[c].detection.failures
      BY <1>0, <2>1, ContextMoves
  <2> QED BY <1>c, <1>1, <2>1, <2>2 DEF Effect, Uncounted
<1>2. ASSUME NEW x, x = [Failed(d) EXCEPT !.geometryFailed = @ \/ provider = "geometry"],
             work' = [work EXCEPT ![c].detection = x],
             AddFailures(c, <<[provider |-> provider, code |-> "provider"]>>),
             CheckThenGoto(c, next)
      PROVE  Effect(c)
  <2> DEFINE f == [provider |-> provider, code |-> "provider"]
  <2>1. x.failures = d.failures + 1
    <3>1. (provider = "geometry") \in BOOLEAN
        OBVIOUS
    <3> HIDE DEF d
    <3>2. Failed(d) \in Detections /\ Failed(d).failures = d.failures + 1
        BY <1>0, ContextMoves
    <3> QED BY <1>2, <3>1, <3>2, GeometryNoted
  <2>2. /\ work'[c].published = work[c].published /\ work'[c].detection = x
      BY <1>0, <1>2 DEF Works
  <2>3. <<f>> \in Seq(Failures) /\ Len(<<f>>) = 1
      BY DEF Failures, Providers, Codes
  <2> HIDE DEF f
  <2>4. AddFailures(c, <<f>>)
      BY <1>2 DEF f
  <2>5. CountsFailures(c, 1)
    <3>1. /\ result'[c].failures \in Seq(Failures)
          /\ Len(result'[c].failures) = Len(result[c].failures) + 1
          /\ result'[c].count = result[c].count + 1
          /\ result'[c].degraded <=> result[c].degraded \/ 1 > 0
          /\ result'[c].recognitions = result[c].recognitions
        BY <1>0, <2>3, <2>4, AddFailuresCounts
    <3> QED BY <1>c, <1>2, <2>1, <2>2, <3>1 DEF CountsFailures
  <2> QED BY <2>5 DEF Effect
<1>3. CASE Throws(c, Errors(c) \ {"provider"})
    BY <1>3, ThrowsEffect
<1> QED BY <1>1, <1>2, <1>3 DEF Tolerant

\* The ensemble's failures are counted together, on both sides.
LEMMA EnsembleReturnsEffect ==
    ASSUME PipelineInv, NEW c \in Calls, EnsembleReturns(c)
    PROVE  Effect(c)
<1> DEFINE d == work[c].detection
           e == work[c].ensemble
<1>0. /\ Types /\ work[c] \in Works /\ work \in [Calls -> Works] /\ pc \in [Calls -> Stages]
      /\ d \in Detections /\ e \in Ensembles /\ e.failures \in Seq(Failures)
      /\ Len(e.failures) \in Nat
      /\ pc[c] = "recognition" /\ outcome[c] = "none"
  <2>1. Types /\ pc[c] = "recognition" /\ outcome[c] = "none"
      BY DEF PipelineInv, EnsembleReturns, CallInv, Ended
  <2>2. work[c] \in Works /\ work \in [Calls -> Works] /\ pc \in [Calls -> Stages]
      BY <2>1 DEF Types
  <2>3. d \in Detections /\ e \in Ensembles
      BY <2>2 DEF Works
  <2>4. e.failures \in Seq(Failures)
      BY <2>3 DEF Ensembles
  <2>5. Len(e.failures) \in Nat
      BY ONLY <2>4
  <2> QED BY <2>1, <2>2, <2>3, <2>4, <2>5
<1>1. CASE /\ work' = [work EXCEPT ![c].detection = Merge(@, e), ![c].crops = @ - 1]
           /\ AddFailures(c, e.failures) /\ Goto(c, "layout")
  <2>1. /\ work'[c].published = work[c].published /\ work'[c].detection = Merge(d, e)
      BY <1>0, <1>1 DEF Works
  <2>2. Merge(d, e).failures = d.failures + Len(e.failures)
    <3> HIDE DEF d, e
    <3> QED BY <1>0 DEF Merge, Detections
  <2>3. pc'[c] = "layout" /\ outcome'[c] = "none"
      BY <1>0, <1>1 DEF Goto
  <2>4. CountsFailures(c, Len(e.failures))
    <3>1. /\ result'[c].failures \in Seq(Failures)
          /\ Len(result'[c].failures) = Len(result[c].failures) + Len(e.failures)
          /\ result'[c].count = result[c].count + Len(e.failures)
          /\ result'[c].degraded <=> result[c].degraded \/ Len(e.failures) > 0
          /\ result'[c].recognitions = result[c].recognitions
        BY <1>0, <1>1, AddFailuresCounts
    <3> QED BY <1>0, <2>1, <2>2, <2>3, <3>1 DEF CountsFailures, Idle
  <2> QED BY <1>0, <2>4 DEF Effect
<1>2. CASE Throws(c, {"provider"})
    BY <1>0, <1>2, ThrowsEffect DEF Errors
<1> QED BY <1>1, <1>2 DEF EnsembleReturns

\* The recognition takes over the failures of its detection.
LEMMA DecideEffect ==
    ASSUME PipelineInv, NEW c \in Calls, DecideDetection(c)
    PROVE  Effect(c)
<1> DEFINE d == work[c].detection
           degraded == d.degraded \/ d.failures > 0
           next == IF work[c].detections = 1 THEN "publish" ELSE "geometry"
<1>0. /\ Types /\ work[c] \in Works /\ work \in [Calls -> Works] /\ d \in Detections
      /\ pc[c] = "decision" /\ CallInv(c)
      /\ result \in [Calls -> Results] /\ result[c] \in Results
    BY DEF PipelineInv, DecideDetection, Types, Works
<1>1. PICK detector \in Scores, geometry \in Scores, quality \in Scores, valid \in Fused :
        /\ d.geometryFailed => geometry = 0
        /\ ~d.evidence => quality = 0 /\ valid = <<>>
        /\ result' = [result EXCEPT ![c].recognitions = Append(@,
             [status |-> Decide(detector, geometry, quality, valid, degraded),
              degraded |-> degraded, failures |-> d.asked - d.answered])]
        /\ work' = [work EXCEPT ![c].detections = @ - 1, ![c].detection = Fresh]
        /\ CheckThenGoto(c, next)
  <2>1. DecideOn(c, Fresh)
      BY DEF DecideDetection
  <2> QED BY <2>1, Zenon DEF DecideOn
<1> DEFINE status == Decide(detector, geometry, quality, valid, degraded)
           r == [status |-> status, degraded |-> degraded, failures |-> d.asked - d.answered]
<1>2. degraded \in BOOLEAN /\ status \in Statuses
  <2>1. degraded \in BOOLEAN
      BY <1>0 DEF Detections
  <2> QED BY <2>1, DecideIsStatus
<1>3. d.asked - d.answered = d.failures /\ d.failures \in Nat
  <2>1. d.asked \in Nat /\ d.answered \in Nat /\ d.failures \in Nat
      BY <1>0 DEF Detections
  <2>2. d.asked = d.answered + d.failures + 0
      BY <1>0 DEF CallInv, ContextExact, Pending
  <2> QED BY <2>1, <2>2
<1> HIDE DEF status, degraded
<1>4. r \in Recognitions /\ r.failures = d.failures
    BY <1>2, <1>3 DEF Recognitions
<1>5. /\ result' = [result EXCEPT ![c].recognitions = Append(@, r)]
    BY <1>1 DEF status
<1> HIDE DEF r
<1>6. /\ result'[c].recognitions = Append(result[c].recognitions, r)
      /\ result'[c].failures = result[c].failures
      /\ result'[c].count = result[c].count
      /\ result'[c].degraded = result[c].degraded
  <2>1. result'[c] = [result[c] EXCEPT !.recognitions = Append(@, r)]
      BY <1>0, <1>5
  <2> QED BY <1>0, <2>1 DEF Results
<1>7. /\ work'[c].published = work[c].published
      /\ work'[c].detection.failures = 0
    BY <1>0, <1>1 DEF Works, Fresh
<1>8. outcome'[c] # "ok"
  <2>1. next \in Stages \ {"returned"}
      BY DEF Stages
  <2> QED BY <1>0, <1>1, <2>1, CheckKeepsOutcome
<1>9. CountsRecognition(c, r)
    BY <1>0, <1>4, <1>6, <1>7, <1>8 DEF CountsRecognition
<1> QED BY <1>4, <1>9 DEF Effect

\* Every stage counts in one of the four ways.
LEMMA StageEffect ==
    ASSUME PipelineInv, NEW c \in Calls, Stage(c)
    PROVE  Effect(c)
<1>1. CASE Geometry(c)
    BY <1>1, TolerantEffect DEF Geometry, Stages, Idle
<1>2. CASE Align(c)
    BY <1>2, TolerantEffect DEF Align, Stages, Idle
<1>3. CASE Layout(c)
  <2>1. (IF work[c].crops = 0 THEN "decision" ELSE "crop") \in Stages \ ({"returned"} \cup Idle)
      BY DEF Stages, Idle
  <2> QED BY <1>3, <2>1, TolerantEffect DEF Layout
<1> QED BY <1>1, <1>2, <1>3, QuietEffect, EnsembleEffect, EnsembleReturnsEffect, DecideEffect
      DEF Stage

\* So does every step but the two that publish.
LEMMA StepEffect ==
    ASSUME PipelineInv, NEW c \in Calls, Step(c)
    PROVE  \/ Effect(c) /\ UNCHANGED diagnostics
           \/ PublishRecognition(c) \/ PublishFailures(c)
<1>1. CASE Stage(c)
    BY <1>1, StageEffect DEF Stage
<1>2. CASE RequestStop(c) \/ DeadlinePasses(c)
    BY <1>2 DEF RequestStop, DeadlinePasses, locals, Effect
<1> QED BY <1>1, <1>2 DEF Step

\* The failures that a list of recognitions stands for.
FailuresOf(s) == SumFunctionOnSet([k \in DOMAIN s |-> s[k].failures], DOMAIN s)

\* One more recognition adds its failures to the total.
LEMMA FailuresOfAppended ==
    ASSUME NEW s \in Seq(Recognitions), NEW r \in Recognitions
    PROVE  /\ FailuresOf(Append(s, r)) = FailuresOf(s) + r.failures
           /\ FailuresOf(s) \in Nat
<1> DEFINE t == Append(s, r)
           f == [k \in DOMAIN s |-> s[k].failures]
           g == [k \in DOMAIN t |-> t[k].failures]
           n == Len(s)
<1>1. /\ n \in Nat /\ DOMAIN s = 1..n /\ DOMAIN t = 1..(n + 1)
      /\ \A k \in 1..n : t[k] = s[k] /\ s[k] \in Recognitions
      /\ t[n + 1] = r
    OBVIOUS
<1> HIDE DEF t, n
<1>2. /\ \A k \in 1..(n + 1) : t[k] \in Recognitions
      /\ \A k \in 1..n : k \in 1..(n + 1)
      /\ n + 1 \in 1..(n + 1)
    BY <1>1
<1>3. /\ \A k \in 1..(n + 1) : g[k] \in Nat
      /\ \A k \in 1..n : f[k] = g[k]
      /\ g[n + 1] = r.failures
    BY <1>1, <1>2 DEF Recognitions
<1> HIDE DEF f, g
<1>4. /\ SumFunctionOnSet(g, 1..(n + 1)) = SumFunctionOnSet(f, 1..n) + g[n + 1]
      /\ SumFunctionOnSet(f, 1..n) \in Nat
    BY <1>1, <1>3, SumUpTo
<1> QED BY <1>1, <1>3, <1>4 DEF FailuresOf, f, g, t

\* The total is a natural number.
LEMMA FailuresOfSeq ==
    ASSUME NEW s \in Seq(Recognitions)
    PROVE  FailuresOf(s) \in Nat
<1> DEFINE f == [k \in DOMAIN s |-> s[k].failures]
<1>1. Len(s) \in Nat /\ DOMAIN s = 1..Len(s) /\ \A k \in DOMAIN s : s[k] \in Recognitions
    OBVIOUS
<1>2. IsFiniteSet(DOMAIN s)
    BY <1>1, FS_Interval
<1>3. \A k \in DOMAIN s : f[k] \in Nat
    BY <1>1 DEF Recognitions
<1> HIDE DEF f
<1> QED BY <1>2, <1>3, SumNat DEF FailuresOf, f

\* Total is that of the call's recognitions, before a step and after it.
LEMMA TotalIs ==
    ASSUME NEW c \in Calls
    PROVE  /\ Total(c) = FailuresOf(result[c].recognitions)
           /\ Total(c)' = FailuresOf(result'[c].recognitions)
BY DEF Total, FailuresOf

\* Whatever a step of a call does, its result and its decisions count the same
\* failures.
LEMMA CountedStep ==
    ASSUME PipelineInv, NEW c \in Calls, Counted(c), Step(c), work'[c] \in Works,
           result'[c] \in Results
    PROVE  Counted(c)'
<1> DEFINE n == work[c].detection.failures
           R == result[c].recognitions
           F == result[c].failures
<1>0. /\ work[c] \in Works /\ work \in [Calls -> Works] /\ result[c] \in Results
      /\ n \in Nat /\ work[c].published \in Nat
      /\ R \in Seq(Recognitions) /\ F \in Seq(Failures)
      /\ result[c].count \in Nat /\ result[c].degraded \in BOOLEAN
      /\ pc \in [Calls -> Stages] /\ outcome \in [Calls -> Outcomes]
    BY DEF PipelineInv, Types, Works, Detections, Results
<1>t. Len(F) \in Nat /\ Len(R) \in Nat
    BY ONLY <1>0
<1>s. /\ Total(c) = FailuresOf(R)
      /\ Total(c)' = FailuresOf(result'[c].recognitions)
    BY TotalIs
<1>f. pc[c] # "returned" => outcome[c] = "none"
    BY DEF PipelineInv, CallInv, Ended
<1>1. CASE UNCHANGED <<pc, work, result, outcome>>
    BY <1>1, <1>s DEF Counted
<1>2. CASE Uncounted(c)
  <2>1. /\ result[c].count = Total(c) + n
        /\ pc[c] \in Idle => n = 0
        /\ work[c].published = 0
      BY <1>2, <1>f DEF Counted, Uncounted
  <2>2. /\ result'[c] = result[c] /\ work'[c].published = 0 /\ outcome'[c] # "ok"
        /\ pc'[c] # "returned" => /\ work'[c].detection.failures = n
                                  /\ pc'[c] \in Idle => pc[c] \in Idle
      BY <1>2, <2>1 DEF Uncounted
  <2>3. pc'[c] \in Idle => pc'[c] # "returned"
      BY DEF Idle
  <2>4. Total(c)' = Total(c)
      BY <1>s, <2>2
  <2> HIDE DEF n, R, F
  <2> QED BY <1>t, <2>1, <2>2, <2>3, <2>4 DEF Counted, n, R, F
<1>3. ASSUME NEW k \in Nat, CountsFailures(c, k) PROVE Counted(c)'
  <2>1. /\ result[c].count = Len(F) /\ (result[c].degraded <=> Len(F) > 0)
        /\ result[c].count = Total(c) + n
        /\ work[c].published = 0
      BY <1>3, <1>f DEF Counted, CountsFailures
  <2>2. Total(c)' = Total(c) /\ Total(c) \in Int
    <3>1. result'[c].recognitions = R
        BY <1>3 DEF CountsFailures
    <3>2. FailuresOf(R) \in Nat
        BY <1>0, FailuresOfSeq
    <3> QED BY <1>s, <3>1, <3>2
  <2>3. /\ result'[c].count = Len(F) + k /\ Len(result'[c].failures) = Len(F) + k
        /\ result'[c].degraded <=> Len(F) > 0 \/ k > 0
        /\ work'[c].detection.failures = n + k
        /\ outcome'[c] # "ok" /\ pc'[c] \notin Idle
        /\ work'[c].published = 0 /\ result'[c].recognitions = R
      BY <1>3, <2>1 DEF CountsFailures
  <2>4. /\ Len(F) + k = Total(c)' + (n + k)
        /\ Len(F) + k > 0 <=> Len(F) > 0 \/ k > 0
    <3>1. n \in Nat /\ Len(F) \in Nat /\ Total(c) \in Int /\ Len(F) = Total(c) + n
        BY <1>0, <1>t, <2>1, <2>2
    <3>2. Len(F) + k = Total(c) + (n + k)
      <4> HIDE DEF n, F
      <4> QED BY ONLY <3>1, k \in Nat
    <3>3. Len(F) + k > 0 <=> Len(F) > 0 \/ k > 0
      <4> HIDE DEF F
      <4> QED BY ONLY <3>1, k \in Nat
    <3> QED BY <2>2, <3>2, <3>3
  <2>5. /\ result'[c].count = Len(result'[c].failures)
        /\ result'[c].degraded <=> result'[c].count > 0
        /\ result'[c].count = Total(c)' + work'[c].detection.failures
        /\ work'[c].published <= Len(result'[c].recognitions)
    <3> HIDE DEF n, R, F
    <3> QED BY <1>t, <2>3, <2>4
  <2> QED BY <2>3, <2>5 DEF Counted
<1>4. ASSUME NEW r \in Recognitions, CountsRecognition(c, r) PROVE Counted(c)'
  <2>1. /\ result[c].count = Len(F) /\ (result[c].degraded <=> result[c].count > 0)
        /\ result[c].count = Total(c) + n
        /\ work[c].published = 0
      BY <1>4, <1>f DEF Counted, CountsRecognition
  <2>2. /\ result'[c].recognitions = Append(R, r) /\ r.failures = n
        /\ result'[c].count = result[c].count /\ result'[c].failures = F
        /\ result'[c].degraded = result[c].degraded
        /\ work'[c].published = 0 /\ outcome'[c] # "ok"
        /\ work'[c].detection.failures = 0
      BY <1>4, <2>1 DEF CountsRecognition
  <2>3. Total(c)' = Total(c) + n /\ Total(c) \in Nat
      BY <1>0, <1>s, <2>2, FailuresOfAppended
  <2>4. Total(c) + n = Total(c)' + 0
      BY <1>0, <2>3
  <2>5. Len(Append(R, r)) = Len(R) + 1 /\ 0 <= Len(R) + 1
      BY ONLY <1>0, <1>t, r \in Recognitions
  <2> HIDE DEF n, R, F
  <2> QED BY <2>1, <2>2, <2>4, <2>5 DEF Counted, F
<1>5. CASE PublishRecognition(c)
  <2>1. /\ pc[c] = "publish" /\ work[c].published + 1 <= Len(R)
        /\ work' = [work EXCEPT ![c].published = work[c].published + 1]
        /\ UNCHANGED <<pc, result, outcome>>
      BY <1>5 DEF PublishRecognition
  <2>2. /\ work'[c].published = work[c].published + 1
        /\ work'[c].detection = work[c].detection
      BY <1>0, <2>1 DEF Works
  <2> QED BY <1>s, <1>f, <2>1, <2>2 DEF Counted
<1>6. CASE PublishFailures(c)
  <2>1. /\ pc[c] = "publish" /\ work[c].published = Len(R)
        /\ pc' = [pc EXCEPT ![c] = "returned"] /\ outcome' = [outcome EXCEPT ![c] = "ok"]
        /\ UNCHANGED <<work, result>>
      BY <1>6 DEF PublishFailures, Abort, locals
  <2>2. n = 0 /\ result[c].count = Total(c) + n /\ Total(c) \in Nat
      BY <1>0, <1>s, <2>1, FailuresOfSeq DEF Counted, Idle
  <2>3. result[c].count = Total(c)
      BY <2>2
  <2>4. pc'[c] = "returned" /\ outcome'[c] = "ok"
      BY <1>0, <2>1
  <2> QED BY <1>s, <2>1, <2>3, <2>4 DEF Counted, Idle
<1> QED BY <1>1, <1>2, <1>3, <1>4, <1>5, <1>6, StepEffect DEF Effect

\* How many of the first n recognitions in R have status s.
FirstWith(R, n, s) == Cardinality({k \in 1..n : R[k].status = s})

\* One more recognition counts for its own status and for no other.
LEMMA FirstWithGrows ==
    ASSUME NEW R, NEW n \in Nat, NEW s
    PROVE  /\ FirstWith(R, n, s) \in Nat
           /\ FirstWith(R, 0, s) = 0
           /\ FirstWith(R, n + 1, s)
                = FirstWith(R, n, s) + IF R[n + 1].status = s THEN 1 ELSE 0
<1> DEFINE A == {k \in 1..n : R[k].status = s}
           B == {k \in 1..(n + 1) : R[k].status = s}
<1>1. IsFiniteSet(A) /\ n + 1 \notin A
  <2>1. IsFiniteSet(1..n) /\ A \subseteq 1..n
      BY FS_Interval
  <2>2. IsFiniteSet(A)
      BY ONLY <2>1, FS_Subset
  <2> QED BY <2>2
<1>2. B = IF R[n + 1].status = s THEN A \cup {n + 1} ELSE A
    OBVIOUS
<1>3. {k \in 1..0 : R[k].status = s} = {}
    OBVIOUS
<1> HIDE DEF A, B
<1>4. Cardinality(A) \in Nat /\ Cardinality({}) = 0
    BY <1>1, FS_CardinalityType, FS_EmptySet
<1>5. Cardinality(A \cup {n + 1}) = Cardinality(A) + 1
    BY <1>1, FS_AddElement
<1>6. Cardinality(B) = Cardinality(A) + IF R[n + 1].status = s THEN 1 ELSE 0
    BY <1>2, <1>4, <1>5
<1> QED BY <1>3, <1>4, <1>6 DEF FirstWith, A, B

\* It is a number.
LEMMA FirstWithNumber ==
    ASSUME NEW R, NEW n \in Nat, NEW s
    PROVE  FirstWith(R, n, s) \in Nat
BY FirstWithGrows

\* None of no recognitions has any status.
LEMMA FirstWithNone ==
    ASSUME NEW R, NEW s
    PROVE  FirstWith(R, 0, s) = 0
BY FirstWithGrows, 0 \in Nat

\* What a call has published, before a step and after it.
LEMMA PublishedIs ==
    ASSUME PipelineInv, NEW c \in Calls, NEW s
    PROVE  /\ Published(c, s) = FirstWith(result[c].recognitions, work[c].published, s)
           /\ Published(c, s)' = FirstWith(result'[c].recognitions, work'[c].published, s)
           /\ Published(c, s) \in Nat
<1>1. work[c].published \in Nat
    BY DEF PipelineInv, Types, Works
<1>2. /\ Published(c, s) = FirstWith(result[c].recognitions, work[c].published, s)
      /\ Published(c, s)' = FirstWith(result'[c].recognitions, work'[c].published, s)
    BY DEF Published, FirstWith
<1>3. FirstWith(result[c].recognitions, work[c].published, s) \in Nat
    BY <1>1, FirstWithNumber
<1> QED BY <1>2, <1>3

\* A step that counts for the result or the decision publishes nothing.
LEMMA EffectPublishesNothing ==
    ASSUME PipelineInv, NEW c \in Calls, Counted(c), Effect(c)
    PROVE  /\ \A s : Published(c, s)' = Published(c, s)
           /\ PublishedFailures(c)' = PublishedFailures(c)
<1>0. pc[c] # "returned" => outcome[c] = "none"
    BY DEF PipelineInv, CallInv, Ended
<1>1. CASE UNCHANGED <<pc, work, result, outcome>>
    BY <1>1 DEF Published, PublishedFailures
<1>2. ASSUME pc[c] \notin {"publish", "returned"}, outcome'[c] # "ok",
             work'[c].published = work[c].published
      PROVE  /\ \A s : Published(c, s)' = Published(c, s)
             /\ PublishedFailures(c)' = PublishedFailures(c)
  <2>1. work[c].published = 0 /\ work'[c].published = 0 /\ outcome[c] # "ok"
      BY <1>0, <1>2 DEF Counted
  <2>2. ASSUME NEW s PROVE Published(c, s)' = Published(c, s)
      BY <2>1, PublishedIs, FirstWithNone
  <2> QED BY <1>2, <2>1, <2>2 DEF PublishedFailures
<1> QED BY <1>1, <1>2 DEF Effect, Uncounted, CountsFailures, CountsRecognition

\* The counters stay the sums over the calls.
LEMMA TallyStep ==
    ASSUME CountingInv, PipelineInv', NEW c \in Calls, Step(c), Sound(c)
    PROVE  Tallied'
<1> DEFINE f(s) == [d \in Calls |-> Published(d, s)]
           g(s) == [d \in Calls |-> Published(d, s)']
           p == [d \in Calls |-> PublishedFailures(d)]
           q == [d \in Calls |-> PublishedFailures(d)']
<1>0. /\ PipelineInv /\ Counted(c) /\ Tallied /\ IsFiniteSet(Calls)
      /\ result[c] \in Results /\ result'[c] \in Results
      /\ work \in [Calls -> Works] /\ work[c] \in Works /\ work[c].published \in Nat
    BY CallsAssumption DEF CountingInv, PipelineInv, Types, Works
<1>1. ASSUME NEW d \in Calls \ {c}
      PROVE  /\ \A s : Published(d, s)' = Published(d, s)
             /\ PublishedFailures(d)' = PublishedFailures(d)
    BY DEF Sound, Moved, Published, PublishedFailures
<1>2. ASSUME NEW s PROVE \A d \in Calls : f(s)[d] \in Nat /\ g(s)[d] \in Nat
  <2>1. ASSUME NEW d \in Calls PROVE Published(d, s) \in Nat /\ Published(d, s)' \in Nat
    <3>1. Published(d, s) \in Nat
        BY <1>0, PublishedIs
    <3>2. Published(d, s)' = FirstWith(result'[d].recognitions, work'[d].published, s)
        BY <1>0, PublishedIs
    <3>3. work'[d].published \in Nat
        BY DEF PipelineInv, Types, Works
    <3>4. FirstWith(result'[d].recognitions, work'[d].published, s) \in Nat
        BY <3>3, FirstWithNumber
    <3> QED BY <3>1, <3>2, <3>4
  <2> QED BY <2>1
<1>3. \A d \in Calls : p[d] \in Nat /\ q[d] \in Nat
  <2>1. \A d \in Calls : result[d].count \in Nat /\ result'[d].count \in Nat
      BY <1>0 DEF PipelineInv, Types, Results
  <2> QED BY <2>1 DEF PublishedFailures
<1>4. /\ DOMAIN diagnostics = Statuses \cup {"provider_failures"}
      /\ \A s \in Statuses : diagnostics[s] = SumFunctionOnSet(f(s), Calls)
      /\ diagnostics["provider_failures"] = SumFunctionOnSet(p, Calls)
    BY <1>0 DEF Tallied
<1>5. SUFFICES
      /\ DOMAIN diagnostics' = Statuses \cup {"provider_failures"}
      /\ \A s \in Statuses : diagnostics'[s] = SumFunctionOnSet(g(s), Calls)
      /\ diagnostics'["provider_failures"] = SumFunctionOnSet(q, Calls)
    BY DEF Tallied
<1>6. ASSUME \A s : Published(c, s)' = Published(c, s)
      PROVE  \A s : f(s) = g(s)
    BY <1>1, <1>6
<1>7. ASSUME PublishedFailures(c)' = PublishedFailures(c)
      PROVE  p = q
    BY <1>1, <1>7
<1>8. CASE Effect(c) /\ UNCHANGED diagnostics
  <2>1. /\ \A s : Published(c, s)' = Published(c, s)
        /\ PublishedFailures(c)' = PublishedFailures(c)
      BY <1>0, <1>8, EffectPublishesNothing
  <2>2. p = q /\ \A s : f(s) = g(s)
      BY <1>6, <1>7, <2>1
  <2> HIDE DEF f, g, p, q
  <2> QED BY <1>4, <1>8, <2>2
<1>9. CASE PublishRecognition(c)
  <2> DEFINE n == work[c].published
             status == result[c].recognitions[n + 1].status
  <2>1. /\ n + 1 <= Len(result[c].recognitions)
        /\ diagnostics' = [diagnostics EXCEPT ![status] = @ + 1]
        /\ work' = [work EXCEPT ![c].published = n + 1]
        /\ result' = result /\ outcome' = outcome
      BY <1>9 DEF PublishRecognition
  <2>2. work'[c].published = n + 1
      BY <1>0, <2>1 DEF Works
  <2>3. status \in Statuses /\ status # "provider_failures"
    <3>1. result[c].recognitions \in Seq(Recognitions)
        BY <1>0 DEF Results
    <3>2. result[c].recognitions[n + 1] \in Recognitions
        BY <1>0, <2>1, <3>1
    <3>3. status \in Statuses
        BY <3>2 DEF Recognitions
    <3> QED BY <3>3 DEF Statuses
  <2>4. p = q
    <3>1. PublishedFailures(c)' = PublishedFailures(c)
        BY <2>1 DEF PublishedFailures
    <3> QED BY <1>7, <3>1
  <2>5. ASSUME NEW s \in Statuses
        PROVE  diagnostics'[s] = SumFunctionOnSet(g(s), Calls)
    <3>1. g(s)[c] = f(s)[c] + IF status = s THEN 1 ELSE 0
        BY <1>0, <2>1, <2>2, PublishedIs, FirstWithGrows
    <3>2. \A d \in Calls \ {c} : f(s)[d] = g(s)[d]
        BY <1>1
    <3>3. \A d \in Calls : f(s)[d] \in Nat /\ g(s)[d] \in Nat
        BY <1>2
    <3>4. diagnostics'[s] = diagnostics[s] + IF status = s THEN 1 ELSE 0
      <4>1. diagnostics[s] = SumFunctionOnSet(f(s), Calls) /\ s \in DOMAIN diagnostics
          BY <1>4
      <4>2. SumFunctionOnSet(f(s), Calls) \in Nat
        <5> HIDE DEF f
        <5> QED BY <1>0, <3>3, SumNat
      <4>3. diagnostics'[s] = IF status = s THEN diagnostics[s] + 1 ELSE diagnostics[s]
        <5> HIDE DEF status
        <5> QED BY <2>1, <4>1
      <4> HIDE DEF f, status
      <4> QED BY <4>1, <4>2, <4>3
    <3> HIDE DEF f, g, status
    <3>5. /\ SumFunctionOnSet(g(s), Calls) + f(s)[c] = SumFunctionOnSet(f(s), Calls) + g(s)[c]
          /\ SumFunctionOnSet(f(s), Calls) \in Nat /\ SumFunctionOnSet(g(s), Calls) \in Nat
      <4> DEFINE F == f(s)
                 H == g(s)
      <4>1. /\ IsFiniteSet(Calls) /\ \A d \in Calls : F[d] \in Nat /\ H[d] \in Nat
            /\ \A d \in Calls \ {c} : F[d] = H[d]
          BY <1>0, <3>2, <3>3
      <4> HIDE DEF F, H
      <4>2. /\ SumFunctionOnSet(H, Calls) + F[c] = SumFunctionOnSet(F, Calls) + H[c]
            /\ SumFunctionOnSet(F, Calls) \in Nat /\ SumFunctionOnSet(H, Calls) \in Nat
          BY ONLY <4>1, c \in Calls, SumUpdate
      <4> QED BY <4>2 DEF F, H
    <3>6. f(s)[c] \in Nat /\ diagnostics[s] = SumFunctionOnSet(f(s), Calls)
        BY <1>4, <3>3
    <3> QED BY <3>1, <3>4, <3>5, <3>6
  <2>6. /\ DOMAIN diagnostics' = DOMAIN diagnostics
        /\ diagnostics'["provider_failures"] = diagnostics["provider_failures"]
      BY <1>4, <2>1, <2>3
  <2> HIDE DEF f, g, p, q
  <2> QED BY <1>4, <2>4, <2>5, <2>6
<1>10. CASE PublishFailures(c)
  <2>1. /\ diagnostics' = [diagnostics EXCEPT !["provider_failures"] = @ + result[c].count]
        /\ pc[c] = "publish" /\ outcome' = [outcome EXCEPT ![c] = "ok"]
        /\ work' = work /\ result' = result
      BY <1>10 DEF PublishFailures, Abort, locals
  <2>2. \A s : f(s) = g(s)
      BY <2>1 DEF Published
  <2>3. p[c] = 0 /\ q[c] = result[c].count /\ \A d \in Calls \ {c} : p[d] = q[d]
    <3>1. outcome[c] = "none" /\ outcome \in [Calls -> Outcomes]
        BY <1>0, <2>1 DEF PipelineInv, Types, CallInv, Ended
    <3>2. outcome'[c] = "ok"
        BY <2>1, <3>1
    <3> QED BY <1>1, <2>1, <3>1, <3>2 DEF PublishedFailures
  <2>4. /\ DOMAIN diagnostics' = DOMAIN diagnostics
        /\ \A s \in Statuses : diagnostics'[s] = diagnostics[s]
        /\ diagnostics'["provider_failures"] = diagnostics["provider_failures"] + result[c].count
      BY <1>4, <2>1 DEF Statuses
  <2> HIDE DEF f, g, p, q
  <2>5. /\ SumFunctionOnSet(q, Calls) + p[c] = SumFunctionOnSet(p, Calls) + q[c]
        /\ SumFunctionOnSet(p, Calls) \in Nat /\ SumFunctionOnSet(q, Calls) \in Nat
      BY <1>0, <1>3, <2>3, SumUpdate
  <2>6. diagnostics'["provider_failures"] = SumFunctionOnSet(q, Calls)
      BY <1>4, <2>3, <2>4, <2>5
  <2> QED BY <1>4, <2>2, <2>4, <2>6
<1> QED BY <1>0, <1>8, <1>9, <1>10, StepEffect

\* Nothing is counted before the first step.
LEMMA CountingInit == Init => CountingInv
<1> SUFFICES ASSUME Init PROVE CountingInv OBVIOUS
<1>1. PipelineInv
    BY PipelineInvInit
<1>2. ASSUME NEW c \in Calls
      PROVE  /\ pc[c] = "called" /\ outcome[c] = "none" /\ work[c].published = 0
             /\ work[c].detection.failures = 0
             /\ result[c].failures = <<>> /\ result[c].recognitions = <<>>
             /\ result[c].count = 0 /\ ~result[c].degraded
    BY DEF Init, Fresh
<1>3. ASSUME NEW c \in Calls PROVE Counted(c)
  <2>1. FailuresOf(<<>>) = 0
    <3>1. DOMAIN <<>> = {}
        OBVIOUS
    <3> QED BY <3>1, SumEmpty DEF FailuresOf
  <2>2. Total(c) = 0
      BY <1>2, <2>1, TotalIs
  <2>3. Len(result[c].failures) = 0 /\ Len(result[c].recognitions) = 0
      BY <1>2
  <2>4. result[c].count = Total(c) + work[c].detection.failures
      BY <1>2, <2>2
  <2> QED BY <1>2, <2>3, <2>4 DEF Counted
<1>4. Tallied
  <2>1. IsFiniteSet(Calls)
      BY CallsAssumption
  <2>2. ASSUME NEW s
        PROVE  SumFunctionOnSet([c \in Calls |-> Published(c, s)], Calls) = 0
    <3>1. ASSUME NEW c \in Calls PROVE Published(c, s) = 0
      <4>1. Published(c, s) = FirstWith(result[c].recognitions, work[c].published, s)
          BY <1>1, PublishedIs
      <4> QED BY <1>2, <4>1, FirstWithNone
    <3> QED BY <2>1, <3>1, SumZero
  <2>3. SumFunctionOnSet([c \in Calls |-> PublishedFailures(c)], Calls) = 0
    <3>1. \A c \in Calls : PublishedFailures(c) = 0
        BY <1>2 DEF PublishedFailures
    <3> QED BY <2>1, <3>1, SumZero
  <2>4. diagnostics = [k \in Statuses \cup {"provider_failures"} |-> 0]
      BY DEF Init
  <2> QED BY <2>2, <2>3, <2>4 DEF Tallied
<1> QED BY <1>1, <1>3, <1>4 DEF CountingInv

\* CountingInv is inductive.
LEMMA CountingStep == CountingInv /\ [Next]_vars => CountingInv'
<1> SUFFICES ASSUME CountingInv, [Next]_vars PROVE CountingInv' OBVIOUS
<1>1. PipelineInv /\ PipelineInv'
    BY PipelineStep DEF CountingInv
<1>2. ASSUME NEW c \in Calls, Step(c) PROVE CountingInv'
  <2>1. Sound(c)
      BY <1>1, <1>2, StageSound, PublishSound, CallerSound DEF Step, Stage
  <2>2. Tallied'
      BY <1>1, <1>2, <2>1, TallyStep
  <2>3. Counted(c)'
      BY <1>1, <1>2, <2>1, CountedStep DEF Sound, CountingInv
  <2>4. ASSUME NEW d \in Calls \ {c} PROVE Counted(d)'
    <3>1. /\ pc'[d] = pc[d] /\ outcome'[d] = outcome[d] /\ work'[d] = work[d]
          /\ result'[d] = result[d]
        BY <2>1 DEF Sound, Moved
    <3>2. Total(d)' = Total(d)
        BY <3>1, TotalIs
    <3> QED BY <3>1, <3>2 DEF CountingInv, Counted
  <2> QED BY <1>1, <2>2, <2>3, <2>4 DEF CountingInv
<1>3. CASE UNCHANGED vars
  <2>1. UNCHANGED <<pc, work, result, outcome, diagnostics>>
      BY <1>3 DEF vars, locals
  <2>2. Tallied'
      BY <2>1 DEF CountingInv, Tallied, Published, PublishedFailures
  <2>3. ASSUME NEW c \in Calls PROVE Counted(c)'
      BY <2>1, TotalIs DEF CountingInv, Counted
  <2> QED BY <1>1, <2>2, <2>3 DEF CountingInv
<1> QED BY <1>2, <1>3 DEF Next, Work, Done

\* With no call publishing, what has been published is what was handed out.
LEMMA AllPublished ==
    ASSUME CountingInv, \A c \in Calls : pc[c] # "publish"
    PROVE  DiagnosticsMatchResults
<1> DEFINE Returning == {c \in Calls : Returned(c)}
<1>0. IsFiniteSet(Calls) /\ IsFiniteSet(Returning) /\ Returning \in SUBSET Calls
    BY CallsAssumption, FS_Subset
<1>1. ASSUME NEW c \in Calls
      PROVE  /\ c \notin Returning => work[c].published = 0 /\ outcome[c] # "ok"
             /\ c \in Returning => /\ work[c].published = Len(result[c].recognitions)
                                   /\ result[c].count = Len(result[c].failures)
                                   /\ outcome[c] = "ok"
             /\ result[c].count \in Nat
             /\ DOMAIN result[c].recognitions = 1..Len(result[c].recognitions)
  <2>1. result[c] \in Results
      BY DEF CountingInv, PipelineInv, Types
  <2>2. result[c].recognitions \in Seq(Recognitions) /\ result[c].count \in Nat
      BY <2>1 DEF Results
  <2> QED BY <2>2 DEF CountingInv, Counted, Returned
<1>2. ASSUME NEW s \in Statuses
      PROVE  diagnostics[s] = SumFunctionOnSet([c \in Calls |-> WithStatus(c, s)], Returning)
  <2> DEFINE f == [c \in Calls |-> Published(c, s)]
             g == [c \in Calls |-> WithStatus(c, s)]
  <2>1. diagnostics[s] = SumFunctionOnSet(f, Calls)
      BY DEF CountingInv, Tallied
  <2>2. \A c \in Calls : f[c] \in Nat
      BY PublishedIs DEF CountingInv
  <2>3. \A c \in Calls \ Returning : f[c] = 0
      BY <1>1, PublishedIs, FirstWithNone DEF CountingInv
  <2>4. \A c \in Returning : f[c] = g[c]
      BY <1>1 DEF Published, WithStatus
  <2> HIDE DEF f, g, Returning
  <2>5. SumFunctionOnSet(f, Calls) = SumFunctionOnSet(f, Returning)
      BY <1>0, <2>2, <2>3, SumSupport
  <2>6. SumFunctionOnSet(f, Returning) = SumFunctionOnSet(g, Returning)
      BY <1>0, <2>4, SumSame
  <2> QED BY <2>1, <2>5, <2>6 DEF g
<1>3. diagnostics["provider_failures"]
        = SumFunctionOnSet([c \in Calls |-> Len(result[c].failures)], Returning)
  <2> DEFINE f == [c \in Calls |-> PublishedFailures(c)]
             g == [c \in Calls |-> Len(result[c].failures)]
  <2>1. diagnostics["provider_failures"] = SumFunctionOnSet(f, Calls)
      BY DEF CountingInv, Tallied
  <2>2. \A c \in Calls : f[c] \in Nat
      BY <1>1 DEF PublishedFailures
  <2>3. \A c \in Calls \ Returning : f[c] = 0
      BY <1>1 DEF PublishedFailures
  <2>4. \A c \in Returning : f[c] = g[c]
      BY <1>1 DEF PublishedFailures
  <2> HIDE DEF f, g, Returning
  <2>5. SumFunctionOnSet(f, Calls) = SumFunctionOnSet(f, Returning)
      BY <1>0, <2>2, <2>3, SumSupport
  <2>6. SumFunctionOnSet(f, Returning) = SumFunctionOnSet(g, Returning)
      BY <1>0, <2>4, SumSame
  <2> QED BY <2>1, <2>5, <2>6 DEF g
<1> QED BY <1>2, <1>3 DEF DiagnosticsMatchResults

\* Every tolerated failure is counted once: in the list, the count and the flag
\* that the caller gets, in the decision on its own detection, and in the counters
\* of the engine, whichever calls run at the same time.
THEOREM FailuresCountedOnce == Spec => []FailuresCounted
<1>1. Spec => []CountingInv
    BY CountingInit, CountingStep, PTL DEF Spec
<1>2. CountingInv => FailuresCounted
  <2> SUFFICES ASSUME CountingInv PROVE FailuresCounted OBVIOUS
  <2>1. FailuresAccountedFor
      BY DEF CountingInv, Counted, FailuresAccountedFor
  <2>2. DiagnosticsMatchResults
      BY AllPublished DEF DiagnosticsMatchResults
  <2> QED BY <2>1, <2>2 DEF FailuresCounted
<1> QED BY <1>1, <1>2, PTL
==============================================================================
