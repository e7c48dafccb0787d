--------------------------- MODULE SessionRepair ---------------------------
(***************************************************************************)
(* A session's log over crashes: what the driver and its tool batch append *)
(* (core/agent-loop/src/agent.ts, core/tools/src/batch.ts), the flushes    *)
(* that session-checkpoint-policy awaits before a request and a tool body, *)
(* the repair on resume (core/session/src/repair.ts, resumeWith() of       *)
(* core/agent-loop/src/index.ts) and fork seeds (core/session/src/fork.ts).*)
(*                                                                         *)
(* The storage is taken at its word (DurableLog): a crash leaves a prefix  *)
(* that holds at least every acknowledged event.  An entry of `log` keeps  *)
(* the event and the fold of the log up to it, as a reader computes it, so *)
(* to read a prefix is to look at its last entry.  The closers that the    *)
(* code appends as one batch are appended one by one: a crash in between   *)
(* leaves what a batch half written leaves.                                *)
(***************************************************************************)
EXTENDS Naturals, Sequences

CONSTANTS
    NumCalls,      \* tool calls a message may carry, in assistant order
    MaxTurns, MaxSteps,
    MaxLog,        \* bound: in a log this long no message carries a call
    MaxFaults      \* bound on crashes and forks

ASSUME RepairConstants ==
    NumCalls \in Nat /\ MaxTurns \in Nat /\ MaxSteps \in Nat /\ MaxLog \in Nat
    /\ MaxFaults \in Nat

CallIds == 1..NumCalls

VARIABLES
    log,           \* entries [ev, at]
    acked,         \* length of the log whose storage was acknowledged
    phase,         \* live, down, repairing (resume) or seeding (fork)
    pc,            \* where the live driver rests
    body, callSeq, \* the batch's calls; sequence numbers of their tool/call
    loaded,        \* length of the log that resume read
    sent, ran,     \* history: steps whose request was sent, calls whose body ran
    faults

driverVars == <<pc, body, callSeq>>
histVars == <<sent, ran>>
vars == <<log, acked, phase, driverVars, loaded, histVars, faults>>

-----------------------------------------------------------------------------
(* Readers of the log.                                                     *)

Event(type, turn, step, call, says, by) ==
    [type |-> type, turn |-> turn, step |-> step, call |-> call, says |-> says, by |-> by]

Boundary(type, turn, step, by) == Event(type, turn, step, 0, "none", by)

Marker == Boundary("session/end-seed", 0, 0, "agent")

NoCalls == [c \in CallIds |-> "none"]

(* lastTurn of the turn boundary; the open turn and step, or 0; the last   *)
(* step of the open turn; ToolCallRecovery.pendingCalls.                   *)
Unread == [last |-> 0, turn |-> 0, step |-> 0, steps |-> 0, pending |-> NoCalls]

(* A request opens its calls, tool/call starts one, and a result of the    *)
(* open step answers it.                                                   *)
Pending(r, e) ==
    [c \in CallIds |->
        CASE e.type \in {"turn/start", "turn/end", "step/end"} -> "none"
          [] e.type = "assistant/message" /\ c <= e.call -> "requested"
          [] e.type = "tool/call" /\ c = e.call /\ r.pending[c] # "none" -> "started"
          [] e.type = "tool/result" /\ c = e.call /\ e.turn = r.turn /\ e.step = r.step -> "none"
          [] OTHER -> r.pending[c]]

Observe(r, e) ==
    [last  |-> IF e.type = "turn/start" THEN e.turn ELSE r.last,
     turn  |-> CASE e.type = "turn/start" -> e.turn
                 [] e.type = "turn/end" -> 0
                 [] OTHER -> r.turn,
     step  |-> CASE e.type = "step/start" -> e.step
                 [] e.type \in {"turn/start", "turn/end", "step/end"} -> 0
                 [] OTHER -> r.step,
     steps |-> CASE e.type = "step/start" -> e.step
                 [] e.type \in {"turn/start", "turn/end"} -> 0
                 [] OTHER -> r.steps,
     pending |-> Pending(r, e)]

ReadTo(n) == IF n = 0 THEN Unread ELSE log[n].at
Reader == ReadTo(Len(log))

Put(e) == log' = Append(log, [ev |-> e, at |-> Observe(Reader, e)])

Requested(c) == Reader.pending[c] = "requested"
Started(c) == Reader.pending[c] = "started"
Answered == Reader.pending = NoCalls
FirstOpen(c) == Reader.pending[c] # "none" /\ \A d \in 1..(c - 1) : Reader.pending[d] = "none"
Balanced == Reader.turn = 0

(* ToolCallRecovery.results(): what is said of a call nobody answered.     *)
Recovered(c, cause) ==
    Event("tool/result", Reader.turn, Reader.step, c,
          IF Started(c) THEN "unknown" ELSE "notStarted", cause)

FaultResultsForgotten == TRUE

StepClosable == Answered

(* The next line of openTurnClosers(): the missing results in assistant    *)
(* order, the open step's end, the turn's end.                             *)
PutCloser(cause) ==
    \/ \E c \in CallIds : FirstOpen(c) /\ Put(Recovered(c, cause))
    \/ /\ StepClosable /\ Reader.step # 0
       /\ Put(Boundary("step/end", Reader.turn, Reader.step, cause))
    \/ /\ Reader.step = 0 /\ Reader.turn # 0
       /\ Put(Boundary("turn/end", Reader.turn, 0, cause))

-----------------------------------------------------------------------------
(* The live driver.                                                        *)

Init ==
    /\ log = <<>> /\ acked = 0
    /\ phase = "live" /\ pc = "idle"
    /\ body = [c \in CallIds |-> "idle"] /\ callSeq = [c \in CallIds |-> 0]
    /\ loaded = 0 /\ sent = {} /\ ran = {} /\ faults = 0

At(p) == phase = "live" /\ pc = p

FaultFlushesNothing == TRUE

(* A flush awaited here has stored everything that was published.          *)
Checkpointed == acked = Len(log)

BeginTurn ==
    /\ At("idle") /\ Reader.last < MaxTurns
    /\ Put(Boundary("turn/start", Reader.last + 1, 0, "agent"))
    /\ pc' = "loop"
    /\ UNCHANGED <<acked, phase, body, callSeq, loaded, histVars, faults>>

(* agent/pre-step flushes, then the step opens.                            *)
BeginStep ==
    /\ At("loop") /\ Checkpointed /\ Reader.steps < MaxSteps
    /\ Put(Boundary("step/start", Reader.turn, Reader.steps + 1, "agent"))
    /\ pc' = "request"
    /\ UNCHANGED <<acked, phase, body, callSeq, loaded, histVars, faults>>

(* llm/stream flushes, then the adapter is called.                         *)
SendRequest ==
    /\ At("request") /\ Checkpointed
    /\ sent' = sent \cup {<<Reader.turn, Reader.step>>}
    /\ pc' = "streaming"
    /\ UNCHANGED <<log, acked, phase, body, callSeq, loaded, ran, faults>>

(* agent/request-error asks for another attempt of the same step.          *)
Retry ==
    /\ At("streaming")
    /\ pc' = "request"
    /\ UNCHANGED <<log, acked, phase, body, callSeq, loaded, histVars, faults>>

(* assistant/message with n tool calls; the ids of other steps come again. *)
Reply(n) ==
    /\ At("streaming") /\ (n = 0 \/ Len(log) + n <= MaxLog)
    /\ Put(Event("assistant/message", Reader.turn, Reader.step, n, "none", "agent"))
    /\ pc' = "tools"
    /\ UNCHANGED <<acked, phase, body, callSeq, loaded, histVars, faults>>

(* startCall(): tool/call, in model order.                                 *)
RecordCall(c) ==
    /\ At("tools")
    /\ Requested(c) /\ \A d \in 1..(c - 1) : ~Requested(d)
    /\ Put(Event("tool/call", Reader.turn, Reader.step, c, "none", "agent"))
    /\ body' = [body EXCEPT ![c] = "recorded"]
    /\ callSeq' = [callSeq EXCEPT ![c] = Len(log) + 1]
    /\ UNCHANGED <<acked, phase, pc, loaded, histVars, faults>>

FaultRunsUnstored(c) == TRUE

CallStored(c) == callSeq[c] <= acked

(* tools/execute flushes, then the body is reached.                        *)
RunBody(c) ==
    /\ At("tools") /\ body[c] = "recorded" /\ CallStored(c)
    /\ body' = [body EXCEPT ![c] = "running"]
    /\ ran' = ran \cup {<<Reader.turn, Reader.step, c>>}
    /\ UNCHANGED <<log, acked, phase, pc, callSeq, loaded, sent, faults>>

(* Policy answers the call, the flush fails, the signal is aborted under   *)
(* it, or the body returns.                                                *)
SettleCall(c) ==
    /\ At("tools") /\ body[c] \in {"recorded", "running"}
    /\ body' = [body EXCEPT ![c] = "settled"]
    /\ UNCHANGED <<log, acked, phase, pc, callSeq, loaded, histVars, faults>>

(* commitReady(): tool/result, in model order.                             *)
CommitCall(c) ==
    /\ At("tools") /\ FirstOpen(c) /\ body[c] = "settled"
    /\ Put(Event("tool/result", Reader.turn, Reader.step, c, "outcome", "agent"))
    /\ body' = [body EXCEPT ![c] = "idle"] /\ callSeq' = [callSeq EXCEPT ![c] = 0]
    /\ UNCHANGED <<acked, phase, pc, loaded, histVars, faults>>

(* settlement.skip() of an aborted batch: tool/call and tool/result of a   *)
(* call that was never started.                                            *)
SkipCall(c) ==
    /\ phase = "live" /\ pc \in {"tools", "skipping"}
    /\ FirstOpen(c) /\ Requested(c)
    /\ LET call == Event("tool/call", Reader.turn, Reader.step, c, "none", "agent")
           result == Event("tool/result", Reader.turn, Reader.step, c, "outcome", "agent")
           called == Observe(Reader, call)
       IN  log' = log \o <<[ev |-> call, at |-> called],
                           [ev |-> result, at |-> Observe(called, result)]>>
    /\ pc' = "skipping"
    /\ UNCHANGED <<acked, phase, body, callSeq, loaded, histVars, faults>>

(* step() returns: step/end, and the loop goes on unless it was aborted.   *)
EndStep ==
    /\ phase = "live" /\ pc \in {"tools", "skipping"} /\ Answered
    /\ Put(Boundary("step/end", Reader.turn, Reader.step, "agent"))
    /\ \/ pc = "tools" /\ pc' = "loop"
       \/ pc' = "closing"
    /\ UNCHANGED <<acked, phase, body, callSeq, loaded, histVars, faults>>

(* step() throws, once every dispatched call has settled.                  *)
StepThrows ==
    /\ phase = "live" /\ pc \in {"request", "streaming", "tools"}
    /\ \A c \in CallIds : body[c] \in {"idle", "settled"}
    /\ pc' = "failing"
    /\ body' = [c \in CallIds |-> "idle"] /\ callSeq' = [c \in CallIds |-> 0]
    /\ UNCHANGED <<log, acked, phase, loaded, histVars, faults>>

(* The catch and finally of the step: results nobody gave, then step/end.  *)
CloseFailedStep ==
    /\ At("failing") /\ Reader.step # 0
    /\ PutCloser("interrupted")
    /\ pc' = IF Answered THEN "closing" ELSE "failing"
    /\ UNCHANGED <<acked, phase, body, callSeq, loaded, histVars, faults>>

(* turn/end, whatever ended the turn.                                      *)
EndTurn ==
    /\ phase = "live" /\ pc \in {"loop", "closing"}
    /\ Put(Boundary("turn/end", Reader.turn, 0, "agent"))
    /\ pc' = "idle"
    /\ UNCHANGED <<acked, phase, body, callSeq, loaded, histVars, faults>>

Batch(c) == RecordCall(c) \/ RunBody(c) \/ SettleCall(c) \/ CommitCall(c) \/ SkipCall(c)

Driver ==
    \/ BeginTurn \/ BeginStep \/ SendRequest \/ Retry
    \/ \E n \in 0..NumCalls : Reply(n)
    \/ \E c \in CallIds : Batch(c)
    \/ EndStep \/ StepThrows \/ CloseFailedStep \/ EndTurn

-----------------------------------------------------------------------------
(* Storage, crashes, resume and fork.                                      *)

(* One more event is stored: a drain or an awaited append.                 *)
Persist ==
    /\ phase # "down" /\ acked < Len(log)
    /\ acked' = acked + 1
    /\ UNCHANGED <<log, phase, driverVars, loaded, histVars, faults>>

FaultKeepsCalls == UNCHANGED callSeq

ForgetsCalls == callSeq' = [c \in CallIds |-> 0]

Stopped ==
    /\ pc' = "idle"
    /\ body' = [c \in CallIds |-> "idle"]
    /\ ForgetsCalls

(* The process dies or closes the session, or resume fails: what was not   *)
(* acknowledged is stored up to anywhere.                                  *)
Crash ==
    /\ phase \in {"live", "repairing"} /\ faults < MaxFaults
    /\ faults' = faults + 1
    /\ \E n \in acked..Len(log) : log' = SubSeq(log, 1, n)
    /\ phase' = "down"
    /\ Stopped
    /\ UNCHANGED <<acked, loaded, histVars>>

(* open() for writing and read(); without a stored event there is no log.  *)
ReadStored ==
    /\ phase = "down" /\ log # <<>>
    /\ phase' = "repairing"
    /\ loaded' = Len(log)
    /\ UNCHANGED <<log, acked, driverVars, histVars, faults>>

Cause == IF phase = "seeding" THEN "forked" ELSE "interrupted"

(* interruptedTurnClosers(), or the closers of a fork seed.                *)
WriteCloser ==
    /\ phase \in {"repairing", "seeding"} /\ ~Balanced
    /\ PutCloser(Cause)
    /\ UNCHANGED <<acked, phase, driverVars, loaded, histVars, faults>>

Awaited == Len(log) = loaded \/ Checkpointed
Marked == log[Len(log)].ev.type = "session/end-seed"

(* The restored Session marks the end of its seed; the marker is stored.   *)
WriteMarker ==
    /\ phase = "repairing" /\ Balanced /\ Awaited /\ ~Marked
    /\ Put(Marker)
    /\ UNCHANGED <<acked, phase, driverVars, loaded, histVars, faults>>

Publish ==
    /\ phase \in {"repairing", "seeding"} /\ Balanced /\ Awaited
    /\ phase = "repairing" => Marked
    /\ phase' = "live" /\ loaded' = 0
    /\ UNCHANGED <<log, acked, driverVars, histVars, faults>>

Opened(n) == {<<log[i].ev.turn, log[i].ev.step>> : i \in {j \in 1..n : log[j].ev.type = "step/start"}}

(* A fork through event n; from here on the model follows the child, whose *)
(* whole seed is its first write (before it there is no child to resume).  *)
Fork(n) ==
    /\ phase \in {"live", "repairing"} /\ faults < MaxFaults
    /\ faults' = faults + 1
    /\ log' = SubSeq(log, 1, n) \o <<[ev |-> Marker, at |-> ReadTo(n)]>>
    /\ acked' = 0 /\ loaded' = 0 /\ phase' = "seeding"
    /\ Stopped
    /\ sent' = {s \in sent : s \in Opened(n)}
    /\ ran' = {x \in ran : <<x[1], x[2]>> \in Opened(n)}

Storage ==
    \/ Persist \/ Crash \/ ReadStored \/ WriteCloser \/ WriteMarker \/ Publish
    \/ \E n \in 1..Len(log) : Fork(n)

Next == Driver \/ Storage

Spec == Init /\ [][Next]_vars
=============================================================================
