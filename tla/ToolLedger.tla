----------------------------- MODULE ToolLedger -----------------------------
(***************************************************************************)
(* What a step relies on when it hands its tool calls to an executor       *)
(* (ToolExecutor.execute in packages/core/tools/src/executor.ts, and the   *)
(* actions CallTool, ToolResult, ToolsReturn and ToolsThrow of AgentDriver *)
(* in the log's eyes): calls are recorded and answered in model order, one *)
(* result per call; once the step is aborted no further call is started,   *)
(* and those that never were are answered at once; the executor returns    *)
(* only when every call is answered, and may reject only once nothing is   *)
(* running.                                                                *)
(***************************************************************************)
EXTENDS Naturals

CONSTANT NumCalls

VARIABLES called, answered, running, verdict

vars == <<called, answered, running, verdict>>

Init == called = 0 /\ answered = 0 /\ running = {} /\ verdict \in {"open", "cut"}

Open == verdict \in {"open", "cut"}

(* The step's signal is aborted.                                           *)
Cut == /\ verdict = "open" /\ verdict' = "cut"
       /\ UNCHANGED <<called, answered, running>>

Record == /\ verdict = "open" /\ called < NumCalls
          /\ called' = called + 1
          /\ UNCHANGED <<answered, running, verdict>>

Begin == /\ Open
         /\ \E i \in 1 .. called : i > answered /\ running' = running \cup {i}
         /\ UNCHANGED <<called, answered, verdict>>

Finish == /\ \E i \in running : running' = running \ {i}
          /\ UNCHANGED <<called, answered, verdict>>

Answer == /\ Open /\ answered < called /\ answered + 1 \notin running
          /\ answered' = answered + 1
          /\ UNCHANGED <<called, running, verdict>>

(* A call that is never started is recorded and answered in one span.      *)
Skip == /\ verdict = "cut" /\ answered = called /\ called < NumCalls
        /\ called' = called + 1 /\ answered' = answered + 1
        /\ UNCHANGED <<running, verdict>>

Return == /\ Open /\ answered = NumCalls /\ running = {}
          /\ verdict' = "returned"
          /\ UNCHANGED <<called, answered, running>>

Reject == /\ Open /\ running = {}
          /\ verdict' = "rejected"
          /\ UNCHANGED <<called, answered, running>>

Next == Cut \/ Record \/ Begin \/ Finish \/ Answer \/ Skip \/ Return \/ Reject

Spec == Init /\ [][Next]_vars
=============================================================================
