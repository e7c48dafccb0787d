-------------------------- MODULE AgentDriverProps --------------------------
(***************************************************************************)
(* What the agent driver promises: the properties TLC checks on            *)
(* MCAgentDriver and AgentDriverProofs proves.                             *)
(***************************************************************************)
EXTENDS AgentDriver

TypeFlags ==
    /\ wakeRequested \in BOOLEAN /\ disposing \in BOOLEAN /\ hitMax \in BOOLEAN
    /\ held \in BOOLEAN /\ unread \in BOOLEAN

TypeData ==
    /\ phase \in {"idle", "maintenance", "running"}
    /\ signal \in Causes \cup {"live"}
    /\ turn \in Nat /\ step \in Nat
    /\ nextTurn \in Seq(Msgs) /\ nextStep \subseteq Msgs
    /\ pc \in Points /\ target \in Targets
    /\ turnEnds \in Endings \cup {"null"} /\ lastEnd \in Endings \cup {"none"}
    /\ attempt \in Nat /\ batch \subseteq Msgs
    /\ openTurn \in Nat /\ openStep \in Nat
    /\ pending \in [Calls -> {"none", "requested", "started"}]
    /\ userLog \in [Msgs -> Nat]
    /\ sending \in {"none", "live", "late"}
    /\ settling \in {"none", "plain", "wake"}
    /\ clearing \in {"none", "nextTurn", "abort"} /\ clearCause \in Causes
    /\ decision \in Verdicts \cup {"none"}
    /\ fate \in [Msgs -> {"new", "queued", "claimed", "admitted", "dropped", "discarded"}]
    /\ woken \subseteq Msgs /\ gap \subseteq Msgs /\ amid \subseteq Msgs
    /\ owed \subseteq Msgs
    /\ exitedBy \in {"never", "unopened", "aborted", "blocked", "emptied", "error", "drained"}
    /\ ordinary \in Nat

(* The types of the driver's variables; in particular a recorded turn/end  *)
(* always carries an ending ("every exit assigns a turn ending").          *)
TypeOK == TypeFlags /\ TypeData

(* A message delivered to the agent is in exactly one place: queued in one *)
(* inbox list, claimed by the proposed step, or at its end; and the log    *)
(* holds it once if it was admitted and never otherwise, however often the *)
(* model request of its step is retried.                                   *)
MessageAccounting ==
    /\ \A m \in Msgs : fate[m] = "queued" <=> m \in QueuedMsgs
    /\ \A m \in Msgs : fate[m] = "claimed" => m \in batch
    /\ ToSet(nextTurn) \cap nextStep = {}
    /\ \A i, j \in 1 .. Len(nextTurn) : nextTurn[i] = nextTurn[j] => i = j
    /\ \A m \in Msgs : userLog[m] = IF fate[m] = "admitted" THEN 1 ELSE 0

(* A follow-up is the sole ordinary message of its own turn: a turn claims *)
(* at most one prompt from the next-turn list, over all its steps.         *)
SoleOrdinaryMessage == ordinary <= 1

(* The inbox keeps what it was given: every message is in one place, and a *)
(* turn takes at most one prompt.                                          *)
InboxKept == MessageAccounting /\ SoleOrdinaryMessage

(* The driver's log is a transcript its readers accept: consecutive turns  *)
(* and steps, no nesting, no message twice, every tool request answered    *)
(* before its step closes - also when a step fails or is cancelled.        *)
Log == INSTANCE Transcript WITH lastTurn <- turn, lastStep <- step
TranscriptWellFormed == Log!Spec

StartsNoWork ==
    Aborted /\ phase = "running" =>
        /\ openStep' \in {openStep, 0}
        /\ userLog' = userLog
        /\ ~(pc' = "streaming" /\ pc # "streaming")

(* Once cancel() aborted the turn's signal, no step opens, no message is   *)
(* admitted and no model request starts under it (the throwIfAborted()     *)
(* checks after every await).                                              *)
NoWorkUnderAbort == [][StartsNoWork]_vars

ClosesTurn == openTurn # 0 /\ openTurn' = 0

(* turn() resumes a microtask after preStep() took its decision, and does  *)
(* not read the signal again where the decision ends the turn.             *)
DecidedBeforeAbort == pc = "decided" /\ unread

RecordsCancel ==
    ClosesTurn => /\ lastEnd' \in StepEnds \cup {"blocked"}
                        => signal = "live" \/ DecidedBeforeAbort
                  /\ lastEnd' \in Causes => lastEnd' = signal

RecordsTruncation == ClosesTurn /\ hitMax => lastEnd' # "completed"

(* A turn whose signal was aborted while it ran is not recorded as         *)
(* completed, truncated or blocked, but for a cancel in the microtask      *)
(* between the return of preStep() and its use; an aborted ending carries  *)
(* the first cause passed to cancel(); and a turn one of whose steps hit   *)
(* the token ceiling is never completed, whatever its later steps do.      *)
EndingsHonest == [][RecordsCancel /\ RecordsTruncation]_vars

(* A wake that arrives behind maintenance or an aborted activity is not    *)
(* lost: when the agent is idle again (and no frame is suspended), none of *)
(* its messages is still parked in the inbox.  Excepted are the messages   *)
(* that a listener of inbox.clear() sends from inside a cancel(), which    *)
(* drops the latch they set when clear() returns.                          *)
LatchedWakeDelivered ==
    phase = "idle" /\ sending = "none" /\ settling = "none" /\ clearing = "none"
        => owed \cap QueuedMsgs \subseteq amid

(* A latch always stands for a wake sent after the abort or during         *)
(* maintenance: input queued before a keepInbox cancel stays parked.       *)
LatchJustified ==
    wakeRequested \/ (settling = "wake" /\ phase = "idle") => owed # {}

(* The latch is set exactly for the wakes that need it: none is lost but   *)
(* the excepted ones, and none is made up for input parked on purpose.     *)
WakeLatchExact == LatchedWakeDelivered /\ LatchJustified

StaysParked ==
    phase # "idle" /\ signal = Disposed /\ pc # "turnEnded"
        => /\ pc' = "opening" => pc = "opening"
           /\ settling' = "wake" => settling = "wake"

(* After a disposed cancel the activity ends without starting another      *)
(* driver, so teardown's whenIdle() waits for this activity only.          *)
(* (turnEnded is excluded: line 421 may replace the aborted controller.)   *)
DisposedStaysParked == [][StaysParked]_vars

(* A driver that drained its inbox leaves no waking message behind, but    *)
(* for one sent in the microtask between its last look and its exit.       *)
DrainedQueue ==
    phase = "idle" /\ sending = "none" /\ settling = "none" /\ clearing = "none"
        /\ exitedBy \in {"never", "drained"}
        => QueuedMsgs \cap woken \subseteq gap

-----------------------------------------------------------------------------
(* The strengthening the proofs carry: where the driver rests decides what *)
(* is open in the log, which locals are set, and where messages may be.    *)

StepPoints == {"preparing", "streaming", "requestError", "tools", "recovering", "stepFailing"}
TurnPoints ==
    StepPoints \cup {"loop", "resolving", "decided", "stepClosed", "stopping",
                     "catching", "reporting"}

Control ==
    /\ phase = "running" <=> pc # "none"
    /\ phase = "idle" => signal = "live" /\ ~wakeRequested
    /\ openTurn = IF pc \in TurnPoints THEN turn ELSE 0
    /\ openStep = IF pc \in StepPoints THEN step ELSE 0
    /\ pc \in TurnPoints => turn > 0
    /\ pc \in StepPoints \cup {"stepClosed", "stopping"} => step > 0
    /\ pc \in {"opening"} => step = 0
    /\ pending # NoCalls => pc \in {"tools", "recovering"}
    /\ pc = "stopping" => turnEnds # "null"
    /\ pc \in TurnPoints \ {"reporting"} => turnEnds \in StepEnds \cup {"null"}
    /\ pc \in TurnPoints /\ hitMax => step > 0 /\ turnEnds # "completed" /\ turnEnds # "null"
    /\ ordinary <= 1
    /\ pc = "loop" /\ target = "next-turn" => ordinary = 0
    /\ pc = "decided" <=> decision # "none"
    /\ pc = "decided" => signal = "live" \/ unread

(* What cancel() found and clear() already emptied: only messages sent     *)
(* from inside it are there.                                               *)
Clearing ==
    /\ clearing = "nextTurn" => nextStep \subseteq amid
    /\ clearing = "abort" => QueuedMsgs \subseteq amid
    /\ \A m \in amid : fate[m] # "new"

Placement ==
    /\ MessageAccounting
    /\ batch # {} => pc \in StepPoints \cup {"resolving", "decided"}
    /\ decision \in {"reject", "empty"} => batch = {}
    /\ pc \in {"resolving", "decided"} \/ (pc = "preparing" /\ attempt = 0)
           => \A m \in batch : fate[m] = "claimed"
    /\ pc \in {"streaming", "requestError", "tools"} \/ (pc = "preparing" /\ attempt # 0)
           => \A m \in batch : fate[m] = "admitted"
    /\ \A m \in batch : fate[m] \in {"claimed", "admitted"}

(* What a latch, a suspended send() and a suspended kick() stand for.      *)
Latching ==
    /\ wakeRequested => owed # {}
    /\ settling = "wake" /\ phase # "running" => owed # {}
    /\ sending = "late" => phase # "idle" /\ (signal = Disposed \/ owed # {})
    /\ sending = "live" /\ phase = "maintenance" => signal = Disposed \/ owed # {}
    /\ phase = "running" /\ signal = Disposed => ~wakeRequested

(* Who will still serve a queued wake: the first part for wakes sent behind*)
(* maintenance or an abort, the second for all wakes of a driver that left *)
(* (or is leaving) with an empty inbox.                                    *)
WakeAhead ==
    \/ wakeRequested
    \/ settling = "wake" /\ phase # "running"
    \/ phase = "maintenance" /\ (signal = Disposed \/ sending = "live")
    \/ sending = "late" /\ signal # Disposed

Delivery ==
    /\ \A m \in owed \cup woken : fate[m] # "new"
    /\ \A m \in owed \ amid : fate[m] = "queued" => WakeAhead
    /\ exitedBy \in {"never", "drained"} /\ (phase # "running" \/ pc = "exit") =>
          \A m \in woken \ gap : fate[m] = "queued" =>
             \/ sending # "none" /\ phase # "running"
             \/ phase = "maintenance" /\ (wakeRequested \/ Aborted)

IInv == TypeOK /\ Control /\ Placement /\ Clearing /\ Latching /\ Delivery

-----------------------------------------------------------------------------
(* Fairness: a microtask that can run does run; listeners, providers,      *)
(* tools and maintenance tasks settle.                                     *)
FairSpec ==
    /\ Spec
    /\ WF_vars(Driver) /\ WF_vars(EndMaintenance)
    /\ WF_vars(SendWake) /\ WF_vars(ClearNextTurn \/ AbortAfterClear)

(* Every turn that starts is closed by a turn/end.                         *)
TurnCloses == openTurn # 0 ~> openTurn = 0

(* A cancelled activity converges: its signal does not stay aborted.       *)
CancelConverges == Aborted ~> ~Aborted
=============================================================================
