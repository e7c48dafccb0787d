----------------------------- MODULE Transcript -----------------------------
(***************************************************************************)
(* What readers of a session log rely on (the fold in                      *)
(* packages/core/session/src/repair.ts, turnBoundary in                    *)
(* packages/core/agent/src/projection.ts, and the providers that reject a  *)
(* dangling tool call): turns are numbered consecutively and do not nest,  *)
(* steps are numbered from one inside their turn and do not nest, a tool   *)
(* request is answered before its step closes, and a step is closed before *)
(* its turn.  The driver is shown to implement this machine.               *)
(***************************************************************************)
EXTENDS Naturals

CONSTANTS Msgs, Calls

VARIABLES lastTurn, openTurn, lastStep, openStep, pending, userLog

vars == <<lastTurn, openTurn, lastStep, openStep, pending, userLog>>

Unanswered == \E c \in Calls : pending[c] # "none"

Init == /\ lastTurn = 0 /\ openTurn = 0 /\ lastStep = 0 /\ openStep = 0
        /\ pending = [c \in Calls |-> "none"]
        /\ userLog = [m \in Msgs |-> 0]

StartTurn == /\ openTurn = 0 /\ lastStep = 0
             /\ lastTurn' = lastTurn + 1 /\ openTurn' = lastTurn + 1
             /\ UNCHANGED <<lastStep, openStep, pending, userLog>>

(* turn/end; the step counter starts over before the next turn. *)
EndTurn == /\ openTurn # 0 /\ openStep = 0
           /\ openTurn' = 0 /\ lastStep' \in {0, lastStep}
           /\ UNCHANGED <<lastTurn, openStep, pending, userLog>>

ResetSteps == /\ openTurn = 0 /\ lastStep' = 0
              /\ UNCHANGED <<lastTurn, openTurn, openStep, pending, userLog>>

StartStep == /\ openTurn # 0 /\ openStep = 0
             /\ lastStep' = lastStep + 1 /\ openStep' = lastStep + 1
             /\ UNCHANGED <<lastTurn, openTurn, pending, userLog>>

EndStep == /\ openStep # 0 /\ ~Unanswered
           /\ openStep' = 0
           /\ UNCHANGED <<lastTurn, openTurn, lastStep, pending, userLog>>

(* user/message: only in an open step, each identified message once. *)
AdmitMessages == \E S \in SUBSET Msgs :
                   /\ openStep # 0 /\ ~Unanswered
                   /\ \A m \in S : userLog[m] = 0
                   /\ userLog' = [m \in Msgs |-> IF m \in S THEN 1 ELSE userLog[m]]
                   /\ UNCHANGED <<lastTurn, openTurn, lastStep, openStep, pending>>

(* assistant/message with tool calls, in a step with none unanswered. *)
RequestTools == \E C \in SUBSET Calls :
                  /\ openStep # 0 /\ ~Unanswered
                  /\ pending' = [c \in Calls |-> IF c \in C THEN "requested" ELSE "none"]
                  /\ UNCHANGED <<lastTurn, openTurn, lastStep, openStep, userLog>>

RecordCall(c) == /\ openStep # 0 /\ pending[c] = "requested"
                 /\ pending' = [pending EXCEPT ![c] = "started"]
                 /\ UNCHANGED <<lastTurn, openTurn, lastStep, openStep, userLog>>

(* tool/result: one committed result, or the recovery of all of them. *)
AnswerCalls == \E C \in SUBSET Calls :
                 /\ openStep # 0
                 /\ \A c \in C : pending[c] # "none"
                 /\ pending' = [c \in Calls |-> IF c \in C THEN "none" ELSE pending[c]]
                 /\ UNCHANGED <<lastTurn, openTurn, lastStep, openStep, userLog>>

Next == \/ StartTurn \/ EndTurn \/ ResetSteps \/ StartStep \/ EndStep
        \/ AdmitMessages \/ RequestTools \/ AnswerCalls
        \/ \E c \in Calls : RecordCall(c)

Spec == Init /\ [][Next]_vars
=============================================================================
