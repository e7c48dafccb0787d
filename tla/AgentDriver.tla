---------------------------- MODULE AgentDriver ----------------------------
(***************************************************************************)
(* The default agent driver of packages/core/agent-loop: ReactLoopAgent    *)
(* (agent.ts) together with its inbox (inbox.ts) and the failed-step       *)
(* recovery of packages/core/session/src/repair.ts.                        *)
(*                                                                         *)
(* JavaScript is single threaded, so an action is one synchronous span of  *)
(* the driver, from one await (or from one notification whose listeners    *)
(* may call back) to the next. `pc` names the point where the driver       *)
(* rests; whatever callers and listeners do there is an environment action *)
(* (Send, Withdraw, Cancel, BeginMaintenance).  Three synchronous frames   *)
(* can be suspended by a notification: `sending` is a send() between its   *)
(* inbox insertion and its wakeDriver() call, `clearing` is a cancel()     *)
(* whose inbox.clear() notifies the discarded messages' listeners before   *)
(* anything is aborted, `settling` is kick()'s finally between the idle    *)
(* status notification and the replay of a latched wake.                   *)
(*                                                                         *)
(* The session log is kept as the fold its readers compute (open turn,     *)
(* open step, unanswered tool calls, last turn ending), plus the number of *)
(* user/message events per message.  The history variables are read by no  *)
(* guard but one: a message is sent only while its fate is "new".          *)
(***************************************************************************)
EXTENDS Naturals, Sequences, FiniteSets, SequencesExt

CONSTANTS
    Msgs,         \* identified user messages, each delivered at most once
    Calls,        \* tool-call ids one assistant message may carry
    Causes,       \* AgentCancelCause kinds
    Disposed,     \* the cause lifecycle teardown passes
    MaxSteps,     \* bound: last step whose reply may ask for tools and go on
    MaxAttempts   \* bound: request retries a listener may order per step

StepEnds == {"completed", "max-tokens"}
Endings == StepEnds \cup {"blocked", "error"} \cup Causes
Targets == {"next-turn", "next-step"}

ASSUME DriverConstants ==
    /\ Disposed \in Causes
    /\ Causes \cap (StepEnds \cup {"blocked", "error", "null", "live"}) = {}
    /\ MaxSteps \in Nat
    /\ MaxAttempts \in Nat

VARIABLES
    phase, signal, wakeRequested,      \* Phase: kind, abort controller, latch
    turn, step,                        \* phase.turn (lastTurn when idle), phase.step
    nextTurn, nextStep,                \* Inbox; the order inside next-step is abstracted
    pc, target, turnEnds, attempt,     \* kick / turn / step control and locals
    batch, decision,                   \* decision.messages and what is decided
    openTurn, openStep, pending, lastEnd, userLog,   \* folds of the session log
    sending, settling, clearing,       \* suspended synchronous frames
    clearCause, held,                  \* of the cancel(): its cause, a driver below it
    fate, woken, gap, amid, owed, exitedBy,
    disposing, hitMax, ordinary, unread                             \* history

phaseVars == <<phase, signal, wakeRequested, turn, step>>
inboxVars == <<nextTurn, nextStep>>
ctlVars == <<pc, target, turnEnds, attempt, batch, decision>>
logVars == <<openTurn, openStep, pending, lastEnd, userLog>>
clearVars == <<clearing, clearCause, held>>
frameVars == <<sending, settling, clearVars>>
histVars == <<fate, woken, gap, amid, owed, exitedBy, disposing, hitMax, ordinary, unread>>
vars == <<phaseVars, inboxVars, ctlVars, logVars, frameVars, histVars>>

Points == {"none", "opening", "loop", "resolving", "decided", "preparing",
           "streaming", "requestError", "tools", "recovering", "stepFailing", "stepClosed",
           "stopping", "catching", "reporting", "turnEnded", "exit"}

(* Points the driver leaves without an await: a frame below it waits for it. *)
SyncPoints == {"opening", "loop", "catching", "reporting"}

(* Operators named Fault... are single mistakes in the operator after them,*)
(* used to check that the properties can tell the code from a wrong one.   *)

FaultSteeringNotPending == nextTurn # <<>>

HasPending == nextTurn # <<>> \/ nextStep # {}
Aborted == signal # "live"

FaultNoCheckAfterRequest(site) == site = "request" \/ ~Aborted
FaultNoCheckAfterPreStep(site) == site = "preStep" \/ ~Aborted

(* signal.throwIfAborted() at one of the driver's check sites lets it pass.*)
Unaborted(site) == ~Aborted

NoCalls == [c \in Calls |-> "none"]

(* The driver may run at point p: no send() is suspended above it, nor a   *)
(* cancel() that found it there, and off the synchronous points no frame.  *)
At(p) == /\ pc = p
         /\ sending = "none"
         /\ IF p \in SyncPoints THEN clearing = "none" \/ ~held
                               ELSE clearing = "none" /\ settling = "none"

Init ==
    /\ phase = "idle" /\ signal = "live" /\ wakeRequested = FALSE
    /\ turn = 0 /\ step = 0
    /\ nextTurn = <<>> /\ nextStep = {}
    /\ pc = "none" /\ target = "next-turn" /\ turnEnds = "null"
    /\ attempt = 0 /\ batch = {} /\ decision = "none"
    /\ openTurn = 0 /\ openStep = 0 /\ pending = NoCalls /\ lastEnd = "none"
    /\ userLog = [m \in Msgs |-> 0]
    /\ sending = "none" /\ settling = "none"
    /\ clearing = "none" /\ clearCause = Disposed /\ held = FALSE
    /\ fate = [m \in Msgs |-> "new"] /\ woken = {} /\ gap = {} /\ amid = {} /\ owed = {}
    /\ exitedBy = "never" /\ disposing = FALSE /\ hitMax = FALSE /\ ordinary = 0
    /\ unread = FALSE

-----------------------------------------------------------------------------
(* Helpers shared by several operations. *)

Mark(S, f) == fate' = [m \in Msgs |-> IF m \in S THEN f ELSE fate[m]]

QueuedMsgs == ToSet(nextTurn) \cup nextStep

Enqueue(m, to) ==
    \/ to = "next-turn" /\ nextTurn' = Append(nextTurn, m) /\ UNCHANGED nextStep
    \/ to = "next-step" /\ nextStep' = nextStep \cup {m} /\ UNCHANGED nextTurn

(* wakeDriver() from idle: a running phase with a fresh abort controller;  *)
(* the status notification runs before kick() reaches turn().              *)
StartDriver ==
    /\ phase' = "running" /\ signal' = "live" /\ wakeRequested' = FALSE
    /\ step' = 0 /\ pc' = "opening" /\ owed' = {}

FaultAbortedWakeDropped(late) == signal # Disposed /\ phase = "maintenance"

(* Disposal never latches; a live driver claims queued work itself.        *)
Latches(late) == signal # Disposed /\ (phase = "maintenance" \/ late)

(* wakeDriver() behind maintenance or an activity: latch or leave the wake.*)
LatchWake(late) ==
    /\ wakeRequested' = (wakeRequested \/ Latches(late))
    /\ UNCHANGED <<phase, signal, step, pc, owed>>

WakeDriver(late) ==
    /\ UNCHANGED turn
    /\ \/ phase = "idle" /\ StartDriver
       \/ phase # "idle" /\ LatchWake(late)

-----------------------------------------------------------------------------
(* The agent handle: what callers, plugins and listeners may do. *)

WakingAfterAbort(wake) == wake /\ phase # "idle" /\ Aborted

(* send(): the classification is taken before the insertion is published.  *)
Send(m, to, wake) ==
    LET late == WakingAfterAbort(wake) IN
    /\ sending = "none"
    /\ fate[m] = "new"
    /\ Enqueue(m, IF late THEN "next-turn" ELSE to)
    /\ sending' = CASE ~wake -> "none" [] wake /\ late -> "late" [] OTHER -> "live"
    /\ Mark({m}, "queued")
    /\ woken' = IF wake THEN woken \cup {m} ELSE woken
    /\ owed' = IF wake /\ phase # "idle" /\ signal # Disposed
                    /\ (phase = "maintenance" \/ Aborted)
               THEN owed \cup {m} ELSE owed
    /\ gap' = IF pc = "exit" THEN gap \cup {m} ELSE gap
    /\ amid' = IF clearing # "none" THEN amid \cup {m} ELSE amid
    /\ UNCHANGED <<phaseVars, ctlVars, logVars, settling, clearVars,
                   exitedBy, disposing, hitMax, ordinary, unread>>

(* send() after the insertion's listeners returned: wakeDriver().          *)
SendWake ==
    /\ sending # "none"
    /\ WakeDriver(sending = "late")
    /\ sending' = "none"
    /\ UNCHANGED <<inboxVars, target, turnEnds, attempt, batch, decision, logVars,
                   settling, clearVars,
                   fate, woken, gap, amid, exitedBy, disposing, hitMax, ordinary, unread>>

(* inbox.remove(): one pending message is withdrawn.                       *)
Withdraw(m) ==
    /\ sending = "none"
    /\ \/ \E i \in 1 .. Len(nextTurn) :
             /\ nextTurn[i] = m
             /\ nextTurn' = RemoveAt(nextTurn, i)
             /\ UNCHANGED nextStep
       \/ m \in nextStep /\ nextStep' = nextStep \ {m} /\ UNCHANGED nextTurn
    /\ Mark({m}, "discarded")
    /\ UNCHANGED <<phaseVars, ctlVars, logVars, frameVars,
                   woken, gap, amid, owed, exitedBy, disposing, hitMax, ordinary, unread>>

(* cancel() aborts the activity that runs now; `unread` records an abort   *)
(* in the microtask between a decision of preStep() and its use by turn(). *)
AbortActivity(cause) ==
    /\ signal' = IF phase # "idle" /\ ~Aborted THEN cause ELSE signal
    /\ disposing' = (disposing \/ (phase # "idle" /\ cause = Disposed))
    /\ unread' = (unread \/ (phase # "idle" /\ ~Aborted /\ pc = "decided"))

(* cancel() that keeps the inbox, or discards nothing, or runs inside the  *)
(* listeners of a send() or of another cancel(): one span.  Teardown keeps *)
(* the inbox only while publication still holds the agent in maintenance.  *)
Cancel(cause, keepInbox) ==
    /\ cause = Disposed /\ keepInbox => phase # "running"
    /\ keepInbox \/ QueuedMsgs = {} \/ sending # "none" \/ clearing # "none"
    /\ IF keepInbox
       THEN UNCHANGED <<inboxVars, wakeRequested, fate>>
       ELSE /\ nextStep' = {} /\ nextTurn' = <<>>
            /\ wakeRequested' = FALSE
            /\ Mark(QueuedMsgs, "discarded")
    /\ AbortActivity(cause)
    /\ UNCHANGED <<phase, turn, step, ctlVars, logVars, frameVars,
                   woken, gap, amid, owed, exitedBy, hitMax, ordinary>>

(* cancel() that discards input: inbox.clear() empties one list after the  *)
(* other, each before the listeners of its discarded messages run.         *)
CancelClears(cause) ==
    /\ sending = "none" /\ clearing = "none"
    /\ \/ /\ nextStep # {}
          /\ nextStep' = {} /\ Mark(nextStep, "discarded")
          /\ clearing' = "nextTurn" /\ UNCHANGED nextTurn
       \/ /\ nextStep = {} /\ nextTurn # <<>>
          /\ nextTurn' = <<>> /\ Mark(ToSet(nextTurn), "discarded")
          /\ clearing' = "abort" /\ UNCHANGED nextStep
    /\ clearCause' = cause /\ held' = (pc # "none")
    /\ UNCHANGED <<phaseVars, ctlVars, logVars, sending, settling,
                   woken, gap, amid, owed, exitedBy, disposing, hitMax, ordinary, unread>>

(* The listeners returned to cancel(), and a driver they started rests at  *)
(* an await.                                                               *)
ClearReturns == sending = "none" /\ (held \/ pc \notin SyncPoints)

ClearNextTurn ==
    /\ clearing = "nextTurn" /\ nextTurn # <<>> /\ ClearReturns
    /\ nextTurn' = <<>> /\ Mark(ToSet(nextTurn), "discarded")
    /\ clearing' = "abort"
    /\ UNCHANGED <<phaseVars, nextStep, ctlVars, logVars, sending, settling,
                   clearCause, held, woken, gap, amid, owed, exitedBy,
                   disposing, hitMax, ordinary, unread>>

(* ... after clear(): the latch is dropped and the activity aborted.       *)
AbortAfterClear ==
    /\ clearing = "abort" \/ (clearing = "nextTurn" /\ nextTurn = <<>>)
    /\ ClearReturns
    /\ wakeRequested' = FALSE
    /\ AbortActivity(clearCause)
    /\ clearing' = "none" /\ clearCause' = Disposed /\ held' = FALSE
    /\ UNCHANGED <<phase, turn, step, inboxVars, ctlVars, logVars, sending,
                   settling, fate, woken, gap, amid, owed, exitedBy, hitMax,
                   ordinary>>

(* runMaintenance(): claims the idle phase for one non-turn task.          *)
BeginMaintenance ==
    /\ sending = "none" /\ phase = "idle"
    /\ phase' = "maintenance" /\ signal' = "live" /\ wakeRequested' = FALSE
    /\ UNCHANGED <<turn, step, inboxVars, ctlVars, logVars, frameVars, histVars>>

FaultReleaseAfterDisposal == wakeRequested /\ HasPending

(* runMaintenance()'s finally decides whether a latched wake is released.  *)
ReleasesWake == signal # Disposed /\ wakeRequested /\ HasPending

(* The task settles: idle, then a latched wake is released unless disposed.*)
EndMaintenance ==
    /\ sending = "none" /\ settling = "none" /\ clearing = "none"
    /\ phase = "maintenance"
    /\ IF ReleasesWake
       THEN StartDriver
       ELSE /\ phase' = "idle" /\ signal' = "live" /\ wakeRequested' = FALSE
            /\ owed' = IF signal = Disposed THEN {} ELSE owed
            /\ UNCHANGED <<step, pc>>
    /\ exitedBy' = IF Aborted THEN "aborted" ELSE exitedBy
    /\ disposing' = FALSE
    /\ UNCHANGED <<turn, inboxVars, target, turnEnds, attempt, batch, decision,
                   logVars, frameVars, fate, woken, gap, amid, hitMax, ordinary,
                   unread>>

Environment ==
    \/ \E m \in Msgs, to \in Targets, wake \in BOOLEAN : Send(m, to, wake)
    \/ SendWake
    \/ \E m \in Msgs : Withdraw(m)
    \/ \E cause \in Causes, keepInbox \in BOOLEAN : Cancel(cause, keepInbox)
    \/ \E cause \in Causes : CancelClears(cause)
    \/ ClearNextTurn
    \/ AbortAfterClear
    \/ BeginMaintenance
    \/ EndMaintenance

-----------------------------------------------------------------------------
(* The driver: kick(), turn(), preStep(). *)

(* turn(): nothing is opened under an aborted signal; else turn/start.     *)
OpenTurn ==
    /\ At("opening")
    /\ \/ /\ Aborted
          /\ pc' = "exit" /\ exitedBy' = "unopened"
          /\ UNCHANGED <<turn, target, turnEnds, openTurn, lastEnd, hitMax,
                         ordinary>>
       \/ /\ Unaborted("turn")
          /\ turn' = turn + 1 /\ openTurn' = turn + 1
          /\ turnEnds' = "null" /\ target' = "next-turn" /\ pc' = "loop"
          /\ hitMax' = FALSE /\ ordinary' = 0
          /\ UNCHANGED <<lastEnd, exitedBy>>
    /\ UNCHANGED <<phase, signal, wakeRequested, step, inboxVars, attempt,
                   batch, decision, openStep, pending, userLog, frameVars, fate,
                   woken, gap, amid, owed, disposing, unread>>

(* The loop top of turn() and inbox.claim(): all next-step input, plus one *)
(* queued prompt when the boundary is a turn boundary.                     *)
ClaimBatch ==
    LET prompt == target = "next-turn" /\ nextTurn # <<>>
        claimed == nextStep \cup (IF prompt THEN {Head(nextTurn)} ELSE {}) IN
    /\ At("loop") /\ Unaborted("loop")
    /\ batch' = claimed
    /\ nextStep' = {}
    /\ nextTurn' = IF prompt THEN Tail(nextTurn) ELSE nextTurn
    /\ Mark(claimed, "claimed")
    /\ ordinary' = IF prompt THEN ordinary + 1 ELSE ordinary
    /\ pc' = "resolving"
    /\ UNCHANGED <<phaseVars, target, turnEnds, attempt, decision, logVars,
                   frameVars, woken, gap, amid, owed, exitedBy, disposing,
                   hitMax, unread>>

FaultAbortedLoopSpins == At("loop") /\ Aborted /\ UNCHANGED vars

LoopAborted ==
    /\ At("loop") /\ Aborted
    /\ pc' = "catching"
    /\ UNCHANGED <<phaseVars, inboxVars, target, turnEnds, attempt, batch,
                   decision, logVars, frameVars, histVars>>

(* The messages of `batch` that never reached user/message are gone.       *)
DropUnadmitted ==
    /\ Mark({m \in batch : fate[m] = "claimed"}, "dropped")
    /\ batch' = {}

CloseTurn(reason) ==
    /\ openTurn' = 0
    /\ lastEnd' = reason

(* preStep() throws: no model, a failing listener, or the aborted signal.  *)
PreStepThrows ==
    /\ At("resolving")
    /\ DropUnadmitted
    /\ pc' = "catching"
    /\ UNCHANGED <<phaseVars, inboxVars, target, turnEnds, attempt, decision,
                   logVars, frameVars, woken, gap, amid, owed, exitedBy,
                   disposing, hitMax, ordinary, unread>>

(* preStep() returns: agent/pre-step rejected the step, or enters it with  *)
(* `kept` of the claimed messages and possibly a runtime-context message   *)
(* ("messages" with nothing kept).  turn() resumes a microtask later.      *)
PreStepReturns(verdict, kept) ==
    /\ At("resolving") /\ Unaborted("preStep")
    /\ kept \subseteq batch /\ (kept # {} => verdict = "messages")
    /\ batch' = kept /\ Mark(batch \ kept, "dropped")
    /\ decision' = verdict
    /\ pc' = "decided" /\ unread' = FALSE
    /\ UNCHANGED <<phaseVars, inboxVars, target, turnEnds, attempt, logVars,
                   frameVars, woken, gap, amid, owed, exitedBy, disposing,
                   hitMax, ordinary>>

(* turn() goes on with the decision, and reads the signal again only where *)
(* it opens a step.  A rejected step blocks the turn.                      *)
DecisionBlocks ==
    /\ At("decided") /\ decision = "reject"
    /\ turnEnds' = "blocked"
    /\ CloseTurn("blocked")
    /\ pc' = "exit" /\ exitedBy' = "blocked" /\ decision' = "none"
    /\ UNCHANGED <<phaseVars, inboxVars, target, attempt, batch, openStep,
                   pending, userLog, frameVars, fate, woken, gap, amid, owed,
                   disposing, hitMax, ordinary, unread>>

(* An empty step after a step that decided an ending ends the turn.        *)
DecisionEndsTurn ==
    /\ At("decided") /\ decision = "empty" /\ turnEnds # "null"
    /\ CloseTurn(turnEnds)
    /\ pc' = "turnEnded" /\ decision' = "none"
    /\ UNCHANGED <<phaseVars, inboxVars, target, turnEnds, attempt, batch,
                   openStep, pending, userLog, frameVars, histVars>>

(* An empty first step spends no model call.                               *)
DecisionCompletes ==
    /\ At("decided") /\ decision = "empty" /\ turnEnds = "null" /\ step = 0
    /\ turnEnds' = "completed" /\ CloseTurn("completed")
    /\ pc' = "exit" /\ exitedBy' = "emptied" /\ decision' = "none"
    /\ UNCHANGED <<phaseVars, inboxVars, target, attempt, batch, openStep,
                   pending, userLog, frameVars, fate, woken, gap, amid, owed,
                   disposing, hitMax, ordinary, unread>>

EntersStep == decision = "messages" \/ (decision = "empty" /\ turnEnds = "null" /\ step # 0)

OpenStep ==
    /\ At("decided") /\ EntersStep /\ Unaborted("step/start")
    /\ step' = step + 1 /\ openStep' = step + 1
    /\ attempt' = 0
    /\ pc' = "preparing" /\ decision' = "none"
    /\ UNCHANGED <<phase, signal, wakeRequested, turn, inboxVars, target,
                   turnEnds, batch, openTurn, pending, lastEnd, userLog,
                   frameVars, histVars>>

OpenStepThrows ==
    /\ At("decided") /\ EntersStep /\ Aborted
    /\ DropUnadmitted
    /\ pc' = "catching" /\ decision' = "none"
    /\ UNCHANGED <<phaseVars, inboxVars, target, turnEnds, attempt, logVars,
                   frameVars, woken, gap, amid, owed, exitedBy, disposing,
                   hitMax, ordinary, unread>>

-----------------------------------------------------------------------------
(* step() *)

(* Any throw inside step(): turn() first answers the pending tool calls.   *)
StepThrows ==
    /\ pc' = "recovering"
    /\ UNCHANGED <<phaseVars, target, turnEnds, attempt, batch, decision, logVars,
                   frameVars, woken, gap, amid, exitedBy, disposing, hitMax, ordinary, unread>>

(* The entered messages are appended before the first request only.        *)
FirstAttempt == attempt = 0

(* prepareRequest() and the admission that follows it in one span: the     *)
(* entered messages are appended on the first attempt only.                *)
AdmitRequest ==
    /\ At("preparing") /\ Unaborted("request")
    /\ IF FirstAttempt
       THEN /\ userLog' = [m \in Msgs |-> IF m \in batch THEN userLog[m] + 1 ELSE userLog[m]]
            /\ Mark(batch, "admitted")
       ELSE UNCHANGED <<userLog, fate>>
    /\ pc' = "streaming"
    /\ UNCHANGED <<phaseVars, inboxVars, target, turnEnds, attempt, batch,
                   decision, openTurn, openStep, pending, lastEnd, frameVars,
                   woken, gap, amid, owed, exitedBy, disposing, hitMax,
                   ordinary, unread>>

PrepareThrows ==
    /\ At("preparing")
    /\ StepThrows /\ UNCHANGED <<inboxVars, fate, owed>>

(* The stream throws, or the abort is seen between chunks.                 *)
StreamThrows ==
    /\ At("streaming")
    /\ StepThrows /\ UNCHANGED <<inboxVars, fate, owed>>

(* A terminal error finish: assistant/attempt, then agent/request-error.   *)
StreamFails ==
    /\ At("streaming") /\ Unaborted("stream")
    /\ pc' = "requestError"
    /\ UNCHANGED <<phaseVars, inboxVars, target, turnEnds, attempt, batch,
                   decision, logVars, frameVars, histVars>>

RetryRequest ==
    /\ At("requestError") /\ Unaborted("requestError")
    /\ attempt < MaxAttempts
    /\ attempt' = attempt + 1
    /\ pc' = "preparing"
    /\ UNCHANGED <<phaseVars, inboxVars, target, turnEnds, batch, decision,
                   logVars, frameVars, histVars>>

RequestErrorThrows ==
    /\ At("requestError")
    /\ StepThrows /\ UNCHANGED <<inboxVars, fate, owed>>

(* A step that hit the token ceiling decides the turn outcome.             *)
StickyEnd(end) == IF turnEnds = "max-tokens" THEN turnEnds ELSE end

(* step() returns: sticky max-tokens, then step/end.                       *)
StepReturns(end) ==
    /\ turnEnds' = StickyEnd(end)
    /\ hitMax' = (hitMax \/ end = "max-tokens")
    /\ openStep' = 0
    /\ batch' = {}
    /\ pc' = "stepClosed"
    /\ UNCHANGED <<phaseVars, target, attempt, decision, openTurn, lastEnd,
                   userLog, frameVars, woken, gap, amid, owed, exitedBy,
                   disposing, ordinary, unread>>

(* assistant/message without tool calls; a truncated reply loses its calls.*)
ReplyEndsStep(end) ==
    /\ At("streaming") /\ Unaborted("stream")
    /\ StepReturns(end)
    /\ UNCHANGED <<pending, inboxVars, fate>>

(* assistant/message carrying tool calls. *)
ReplyCallsTools(calls) ==
    /\ At("streaming") /\ Unaborted("stream")
    /\ calls # {}
    /\ pending' = [c \in Calls |-> IF c \in calls THEN "requested" ELSE "none"]
    /\ pc' = "tools"
    /\ UNCHANGED <<phaseVars, inboxVars, target, turnEnds, attempt, batch,
                   decision, openTurn, openStep, lastEnd, userLog, frameVars,
                   histVars>>

(* tools.execute(), seen from the log: tool/call, then tool/result.        *)
CallTool(c) ==
    /\ At("tools")
    /\ pending[c] = "requested"
    /\ pending' = [pending EXCEPT ![c] = "started"]
    /\ UNCHANGED <<phaseVars, inboxVars, ctlVars, openTurn, openStep, lastEnd,
                   userLog, frameVars, histVars>>

ToolResult(c) ==
    /\ At("tools")
    /\ pending[c] = "started"
    /\ pending' = [pending EXCEPT ![c] = "none"]
    /\ UNCHANGED <<phaseVars, inboxVars, ctlVars, openTurn, openStep, lastEnd,
                   userLog, frameVars, histVars>>

(* additionalContexts of the committed results join the next-step list.    *)
SpliceContexts(contexts) ==
    /\ contexts \subseteq {m \in Msgs : fate[m] = "new"}
    /\ nextStep' = nextStep \cup contexts
    /\ Mark(contexts, "queued")
    /\ UNCHANGED nextTurn

(* The whole batch is answered: conclude the turn, or ask for another step.*)
ToolsReturn(contexts, concluded) ==
    /\ At("tools")
    /\ pending = NoCalls
    /\ step >= MaxSteps => concluded
    /\ SpliceContexts(contexts)
    /\ StepReturns(IF concluded THEN "completed" ELSE "null")
    /\ UNCHANGED pending

(* ToolBatchExecutionError: the drained batch left calls unanswered.       *)
ToolsThrow(contexts) ==
    /\ At("tools")
    /\ SpliceContexts(contexts)
    /\ StepThrows
    /\ UNCHANGED owed

-----------------------------------------------------------------------------
(* turn() after step(). *)

FaultRecoverStartedOnly ==
    [c \in Calls |-> IF pending[c] = "started" THEN "none" ELSE pending[c]]

(* ToolCallRecovery.results(): a conservative result per unanswered call.  *)
Recovered == NoCalls

RecoverCalls ==
    /\ At("recovering")
    /\ pending' = Recovered
    /\ pc' = "stepFailing"
    /\ UNCHANGED <<phaseVars, inboxVars, target, turnEnds, attempt, batch,
                   decision, openTurn, openStep, lastEnd, userLog, frameVars,
                   histVars>>

CloseFailedStep ==
    /\ At("stepFailing")
    /\ openStep' = 0
    /\ DropUnadmitted
    /\ pc' = "catching"
    /\ UNCHANGED <<phaseVars, inboxVars, target, turnEnds, attempt,
                   decision, openTurn, pending, lastEnd, userLog, frameVars,
                   woken, gap, amid, owed, exitedBy, disposing, hitMax, ordinary, unread>>

FaultContinueAtTurnBoundary == pc' = "loop" /\ UNCHANGED target

(* The bottom of turn()'s loop: the next boundary claims no prompt.        *)
ContinueTurn == pc' = "loop" /\ target' = "next-step"

FaultStopWithoutEnding == nextStep = {}

(* A step decided an ending and no steering waits.                         *)
Stops == turnEnds # "null" /\ nextStep = {}

AfterStep ==
    /\ At("stepClosed")
    /\ \/ Aborted /\ pc' = "catching" /\ UNCHANGED target
       \/ /\ Unaborted("step") /\ Stops
          /\ pc' = "stopping" /\ UNCHANGED target
       \/ /\ Unaborted("step") /\ ~Stops
          /\ ContinueTurn
    /\ UNCHANGED <<phaseVars, inboxVars, turnEnds, attempt, batch, decision,
                   logVars, frameVars, histVars>>

(* agent/turn-stopping settles: steering it caused continues the turn.     *)
StoppingSettles ==
    /\ At("stopping") /\ Unaborted("stopping")
    /\ \/ /\ nextStep = {}
          /\ CloseTurn(turnEnds)
          /\ pc' = "turnEnded" /\ UNCHANGED target
       \/ /\ nextStep # {}
          /\ ContinueTurn
          /\ UNCHANGED <<openTurn, lastEnd>>
    /\ UNCHANGED <<phaseVars, inboxVars, turnEnds, attempt, batch, decision,
                   openStep, pending, userLog, frameVars, histVars>>

FaultStoppingSwallowed == At("stopping") /\ UNCHANGED vars

StoppingThrows ==
    /\ At("stopping")
    /\ pc' = "catching"
    /\ UNCHANGED <<phaseVars, inboxVars, target, turnEnds, attempt, batch,
                   decision, logVars, frameVars, histVars>>

(* The catch of turn(): the cause of an aborted signal, else an error that *)
(* agent/error reports before turn/end is appended.                        *)
CatchTurn ==
    /\ At("catching")
    /\ \/ /\ Aborted
          /\ turnEnds' = signal /\ CloseTurn(signal)
          /\ pc' = "exit" /\ exitedBy' = "aborted"
       \/ /\ ~Aborted
          /\ turnEnds' = "error" /\ pc' = "reporting"
          /\ UNCHANGED <<openTurn, lastEnd, exitedBy>>
    /\ UNCHANGED <<phaseVars, inboxVars, target, attempt, batch, decision,
                   openStep, pending, userLog, frameVars, fate, woken, gap,
                   amid, owed, disposing, hitMax, ordinary, unread>>

ReportError ==
    /\ At("reporting")
    /\ CloseTurn("error")
    /\ pc' = "exit" /\ exitedBy' = "error"
    /\ UNCHANGED <<phaseVars, inboxVars, target, turnEnds, attempt, batch,
                   decision, openStep, pending, userLog, frameVars, fate, woken,
                   gap, amid, owed, disposing, hitMax, ordinary, unread>>

(* After turn/end: a fresh controller for the next queued turn, or false.  *)
AfterTurn ==
    /\ At("turnEnded")
    /\ \/ /\ ~HasPending
          /\ pc' = "exit" /\ exitedBy' = "drained"
          /\ UNCHANGED <<signal, wakeRequested, step, owed>>
       \/ /\ HasPending
          /\ signal' = "live" /\ wakeRequested' = FALSE /\ step' = 0
          /\ pc' = "opening" /\ owed' = {}
          /\ UNCHANGED exitedBy
    /\ UNCHANGED <<phase, turn, inboxVars, target, turnEnds, attempt, batch,
                   decision, logVars, frameVars, fate, woken, gap, amid,
                   disposing, hitMax, ordinary, unread>>

(* kick() resumes a microtask later: idle, announced to listeners.         *)
KickSettles ==
    /\ At("exit")
    /\ phase' = "idle" /\ signal' = "live" /\ wakeRequested' = FALSE
    /\ settling' = IF wakeRequested THEN "wake" ELSE "plain"
    /\ pc' = "none"
    /\ disposing' = FALSE
    /\ UNCHANGED <<turn, step, inboxVars, target, turnEnds, attempt, batch,
                   decision, logVars, sending, clearVars, fate, woken, gap,
                   amid, owed, exitedBy, hitMax, ordinary, unread>>

(* ... and a latched wake is replayed when the queue still holds work.     *)
ReplayWake ==
    /\ settling # "none" /\ sending = "none" /\ clearing = "none"
    /\ pc \notin SyncPoints
    /\ settling' = "none"
    /\ IF settling = "wake" /\ HasPending
       THEN WakeDriver(FALSE)
       ELSE UNCHANGED <<phaseVars, pc, owed>>
    /\ UNCHANGED <<inboxVars, target, turnEnds, attempt, batch, decision,
                   logVars, sending, clearVars, fate, woken, gap, amid,
                   exitedBy, disposing, hitMax, ordinary, unread>>

Verdicts == {"reject", "empty", "messages"}

(* Contexts are bounded to at most one message per batch. *)
ContextChoices == {{}} \cup {{m} : m \in Msgs}

StepActions ==
    \/ AdmitRequest \/ PrepareThrows \/ StreamThrows \/ StreamFails
    \/ RetryRequest \/ RequestErrorThrows
    \/ \E end \in StepEnds : ReplyEndsStep(end)
    \/ \E calls \in SUBSET Calls : ReplyCallsTools(calls)
    \/ \E c \in Calls : CallTool(c) \/ ToolResult(c)
    \/ \E contexts \in ContextChoices, concluded \in BOOLEAN : ToolsReturn(contexts, concluded)
    \/ \E contexts \in ContextChoices : ToolsThrow(contexts)

TurnActions ==
    \/ OpenTurn \/ ClaimBatch \/ LoopAborted
    \/ PreStepThrows
    \/ \E verdict \in Verdicts, kept \in SUBSET Msgs : PreStepReturns(verdict, kept)
    \/ DecisionBlocks \/ DecisionEndsTurn \/ DecisionCompletes
    \/ OpenStep \/ OpenStepThrows
    \/ RecoverCalls \/ CloseFailedStep \/ AfterStep
    \/ StoppingSettles \/ StoppingThrows
    \/ CatchTurn \/ ReportError \/ AfterTurn

Driver == StepActions \/ TurnActions \/ KickSettles \/ ReplayWake

Next == Environment \/ Driver

Spec == Init /\ [][Next]_vars
=============================================================================
