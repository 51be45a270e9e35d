---------------------------- MODULE OnnxInference ----------------------------
(***************************************************************************)
(* Inference through a shared ONNX session: the plate detector             *)
(* (YoloPoseOnnxDetector::detect) and the recognizer                       *)
(* (GenericOnnxOcrRecognizer::recognize with the LPRNet adapter) are the   *)
(* same protocol.  Calls of several threads validate their image, wait for *)
(* the execution mutex and, under it, preprocess the image into the one    *)
(* workspace of the provider, run the session on a view of it and parse    *)
(* the output with what preprocessing remembered of the image.  Every      *)
(* exception releases the mutex.  The recognizer's adapter looks at the    *)
(* context in each of its two calls as well.                               *)
(***************************************************************************)
EXTENDS Naturals

CONSTANTS
    Threads, NoThread,
    AdapterChecks,      \* the provider's adapter looks at the context itself
    MaxCalls

ASSUME InferenceAssumption == NoThread \notin Threads /\ AdapterChecks \in BOOLEAN

VARIABLES
    lock,           \* who holds execution_mutex_
    workspace,      \* the call whose tensor is in workspace_, 0 while it is torn
    pc,
    call,           \* per thread: the number of its call
    output,         \* per thread: the call whose tensor the session has read
    stopped,        \* per thread: where its call was when its context went bad
    calls

vars == <<lock, workspace, pc, call, output, stopped, calls>>

Places == {"idle", "waiting", "locked", "writing", "built", "ran"}
Holding == {"locked", "writing", "built", "ran"}
InTime == "good"

TypeOK ==
    /\ lock \in Threads \cup {NoThread}
    /\ workspace \in Nat /\ calls \in Nat
    /\ pc \in [Threads -> Places]
    /\ call \in [Threads -> Nat] /\ output \in [Threads -> Nat]
    /\ stopped \in [Threads -> Places \cup {InTime}]

Init ==
    /\ lock = NoThread /\ workspace = 0 /\ calls = 0
    /\ pc = [t \in Threads |-> "idle"]
    /\ call = [t \in Threads |-> 0] /\ output = [t \in Threads |-> 0]
    /\ stopped = [t \in Threads |-> InTime]

Good(t) == stopped[t] = InTime
Forget(t) ==
    /\ pc' = [pc EXCEPT ![t] = "idle"]
    /\ call' = [call EXCEPT ![t] = 0] /\ output' = [output EXCEPT ![t] = 0]
    /\ stopped' = [stopped EXCEPT ![t] = InTime]
Move(t, from, to) == pc[t] = from /\ pc' = [pc EXCEPT ![t] = to]

-----------------------------------------------------------------------------
\* check_context and validate_image, before the mutex; either may throw.
Begin(t) ==
    /\ calls < MaxCalls /\ calls' = calls + 1
    /\ \/ /\ Move(t, "idle", "waiting")
          /\ call' = [call EXCEPT ![t] = calls']
       \/ pc[t] = "idle" /\ UNCHANGED <<pc, call>>
    /\ UNCHANGED <<lock, workspace, output, stopped>>

\* Mutant: no second look at the context.
EnterUnchecked(t) ==
    /\ lock = NoThread
    /\ Move(t, "waiting", "locked") /\ lock' = t
    /\ UNCHANGED <<workspace, call, output, stopped, calls>>

\* Mutant: two calls may be inside.
EnterUnlocked(t) ==
    /\ IF Good(t)
       THEN Move(t, "waiting", "locked") /\ lock' = t /\ UNCHANGED <<call, output, stopped>>
       ELSE pc[t] = "waiting" /\ Forget(t) /\ UNCHANGED lock
    /\ UNCHANGED <<workspace, calls>>

\* The mutex is taken without a timeout; a call that has gone bad while it waited
\* leaves at once.
Enter(t) ==
    /\ lock = NoThread
    /\ IF Good(t)
       THEN Move(t, "waiting", "locked") /\ lock' = t /\ UNCHANGED <<call, output, stopped>>
       ELSE pc[t] = "waiting" /\ Forget(t) /\ UNCHANGED lock
    /\ UNCHANGED <<workspace, calls>>

\* Mutant: the mutex stays locked when an exception leaves the provider.
LeaveLocked(t) ==
    /\ pc[t] \in Holding /\ Forget(t)
    /\ UNCHANGED <<lock, workspace, calls>>

\* The call ends: its result is handed on, or something under the mutex throws.
Leave(t) ==
    /\ pc[t] \in Holding /\ Forget(t)
    /\ lock' = NoThread
    /\ UNCHANGED <<workspace, calls>>

\* The preprocessor resizes and fills the workspace piece by piece.
BeginPreprocess(t) ==
    /\ Move(t, "locked", "writing")
    /\ Good(t) \/ ~AdapterChecks
    /\ workspace' = 0
    /\ UNCHANGED <<lock, call, output, stopped, calls>>

EndPreprocess(t) ==
    /\ Move(t, "writing", "built")
    /\ workspace' = call[t]
    /\ UNCHANGED <<lock, call, output, stopped, calls>>

\* session_->run reads the tensor that aliases the workspace.
Run(t) ==
    /\ Move(t, "built", "ran")
    /\ output' = [output EXCEPT ![t] = workspace]
    /\ UNCHANGED <<lock, workspace, call, stopped, calls>>

\* The context is looked at and the output is parsed with the call's letterbox.
Decode(t) == pc[t] = "ran" /\ Good(t) /\ Leave(t)

\* What throws: the context, the adapter, the checks of counts, shapes and types,
\* the session, the parser.  Before preprocessing a detector has nothing to throw.
Fail(t) == (pc[t] = "locked" => AdapterChecks) /\ Leave(t)

\* Cancellation is requested or the deadline passes, at any moment.
GoBad(t) ==
    /\ pc[t] # "idle" /\ Good(t)
    /\ stopped' = [stopped EXCEPT ![t] = pc[t]]
    /\ UNCHANGED <<lock, workspace, pc, call, output, calls>>

Finished == calls = MaxCalls /\ (\A t \in Threads : pc[t] = "idle") /\ UNCHANGED vars

Step(t) == \/ Enter(t) \/ BeginPreprocess(t) \/ EndPreprocess(t) \/ Run(t)
           \/ Decode(t) \/ Fail(t)
Next == Finished \/ \E t \in Threads : Begin(t) \/ Step(t) \/ GoBad(t)

Spec == Init /\ [][Next]_vars
\* Every thread goes on; the mutex need not be fair, for there are finitely many calls.
FairSpec == Spec /\ \A t \in Threads : WF_vars(Step(t))

-----------------------------------------------------------------------------
(* Properties.                                                             *)

\* The session reads the tensor of the call it runs for, whole, though all calls
\* share one workspace and a failed call leaves it torn; so the output is parsed
\* with the letterbox of its own image.
ReadsOwnTensor == \A t \in Threads : pc[t] = "ran" => output[t] = call[t]

\* A call that has gone bad while it waited for the mutex, or earlier, never
\* touches the workspace: waiting costs no inference.
StoppedWaiterLeaves ==
    \A t \in Threads : stopped[t] = "waiting" => pc[t] \in {"waiting", "idle"}

\* A call that has gone bad ends, however many calls are ahead of it at the mutex
\* and whichever of them throw.
StoppedCallsEnd == \A t \in Threads : ~Good(t) ~> pc[t] = "idle"
===============================================================================
