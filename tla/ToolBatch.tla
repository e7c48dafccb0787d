----------------------------- MODULE ToolBatch -----------------------------
(***************************************************************************)
(* executeToolBatch of packages/core/tools/src/batch.ts with the stages of *)
(* packages/core/tools/src/pipeline.ts (prepare, dispatch, complete): one  *)
(* assistant step's tool calls, numbered in model order.                   *)
(*                                                                         *)
(* `pc` is the await at which the scheduler rests; an action is the        *)
(* synchronous span to the next await.  Tool bodies run on their own, and  *)
(* the caller's abort and changes of the tool registry may come at any     *)
(* await.  Around-wrappers call the body at most once.  Appends to the log *)
(* may fail where the scheduler itself starts or commits a call.           *)
(***************************************************************************)
EXTENDS Naturals, FiniteSets

CONSTANTS
    NumCalls,      \* the calls of the assistant message
    MaxParallel,   \* the executor's limit
    MaxFlips       \* bound: registry changes during the batch

ASSUME BatchConstants ==
    NumCalls \in Nat /\ MaxParallel \in Nat \ {0} /\ MaxFlips \in Nat

CallIds == 1 .. NumCalls
Modes == {"parallel", "exclusive"}
(* Success; a tool or policy error; cancelled after / before the body ran. *)
Outcomes == {"ok", "error", "aborted", "unrun"}

VARIABLES
    signal,        \* the caller's AbortSignal: "live" or "aborted"
    mode, flips,   \* executionMode() of every call, changed by the registry
    pc,
    base, group,   \* calls of earlier groups; this group's mode
    started, committed,
    aborted, failure,
    inFlight,      \* dispatches the scheduler still waits for
    slot,          \* a call's settled dispatch, or "none"
    body,          \* idle, wrapped (dispatched), running or done
    called, answered, result,   \* tool/call and tool/result appended; outcomes
    invoked,       \* ToolCancellationState.bodyInvoked
    alone          \* history: calls classified exclusive when they started

vars == <<signal, mode, flips, pc, base, group, started, committed, aborted,
          failure, inFlight, slot, body, called, answered, result, alone, invoked>>

schedVars == <<base, group, started, committed, aborted, failure, inFlight>>
callVars == <<slot, body>>
logVars == <<called, answered, result>>
envVars == <<signal, mode, flips>>

Active == {i \in CallIds : body[i] \in {"wrapped", "running"}}
Settled == {i \in inFlight : body[i] = "done"}
Aborted == signal = "aborted"

(* Spans that begin here run without an await: nothing else acts. *)
SyncPoints == {"fill", "commit", "skipping"}
Awaiting == pc \notin SyncPoints

Init ==
    /\ signal \in {"live", "aborted"}
    /\ mode \in [CallIds -> Modes] /\ flips = 0
    /\ pc = "classify"
    /\ base = 0 /\ group = "parallel"
    /\ started = 0 /\ committed = 0
    /\ aborted = FALSE /\ failure = FALSE
    /\ inFlight = {}
    /\ slot = [i \in CallIds |-> "none"] /\ body = [i \in CallIds |-> "idle"]
    /\ called = 0 /\ answered = 0 /\ result = [i \in CallIds |-> "none"]
    /\ invoked = {} /\ alone = {}

-----------------------------------------------------------------------------
(* The environment: the caller's abort and the tool registry. *)

Abort ==
    /\ Awaiting
    /\ signal = "live" /\ signal' = "aborted"
    /\ UNCHANGED <<mode, flips, pc, schedVars, callVars, logVars, alone, invoked>>

Reclassify(i) ==
    /\ Awaiting
    /\ flips < MaxFlips /\ flips' = flips + 1
    /\ mode' = [mode EXCEPT ![i] = IF @ = "parallel" THEN "exclusive" ELSE "parallel"]
    /\ UNCHANGED <<signal, pc, schedVars, callVars, logVars, alone, invoked>>

-----------------------------------------------------------------------------
(* A dispatched call: pipeline.dispatch(). *)

FaultCancelledIsUnrun(i, out) == IF Aborted /\ out = "ok" THEN "unrun" ELSE out

(* Cancellation replaces a success and tells whether the body was invoked. *)
Cancelled(i, out) ==
    IF Aborted /\ out = "ok"
    THEN IF i \in invoked THEN "aborted" ELSE "unrun"
    ELSE out

Settles(i, out) ==
    /\ Awaiting
    /\ slot' = [slot EXCEPT ![i] = Cancelled(i, out)]
    /\ body' = [body EXCEPT ![i] = "done"]
    /\ UNCHANGED <<envVars, pc, schedVars, logVars, alone, invoked>>

(* The around-wrappers reach the body under a live signal. *)
BodyBegins(i) ==
    /\ Awaiting
    /\ body[i] = "wrapped" /\ ~Aborted
    /\ body' = [body EXCEPT ![i] = "running"]
    /\ invoked' = invoked \cup {i}
    /\ UNCHANGED <<envVars, pc, schedVars, slot, logVars, alone>>

(* A wrapper answers or throws, the tool is gone, or the caller's or the   *)
(* wrapper's signal is aborted before the body.                            *)
BodyNotReached(i) ==
    /\ body[i] = "wrapped"
    /\ \E out \in {"ok", "error", "unrun"} : Settles(i, out)

(* The body returns, throws, or the fused signal was aborted under it.     *)
BodySettles(i) ==
    /\ body[i] = "running"
    /\ \E out \in {"ok", "error", "aborted"} : Settles(i, out)

(* dispatch() itself rejects: recorded, not thrown, by the scheduler.      *)
DispatchRejects(i) ==
    /\ Awaiting
    /\ body[i] = "wrapped"
    /\ body' = [body EXCEPT ![i] = "done"]
    /\ failure' = TRUE
    /\ UNCHANGED <<envVars, pc, base, group, started, committed, aborted, inFlight,
                   slot, logVars, alone, invoked>>

-----------------------------------------------------------------------------
(* The scheduler: executeToolBatch's loop and runGroup(). *)

(* executeToolBatch's loop head: classify the next call, form its group,   *)
(* and read the signal (the head of runGroup); or return.                  *)
Classify ==
    /\ pc = "classify"
    /\ base' = started
    /\ \/ /\ started < NumCalls
          /\ group' = mode[started + 1]
          /\ aborted' = Aborted
          /\ pc' = "fill"
       \/ /\ started = NumCalls
          /\ pc' = "returned"
          /\ UNCHANGED <<group, aborted>>
    /\ UNCHANGED <<envVars, started, committed, failure, inFlight, callVars, logVars,
                   alone, invoked>>

GroupEnd == IF group = "parallel" THEN NumCalls ELSE base + 1

PoolHasRoom == Cardinality(inFlight) < MaxParallel

FaultNoReclassification(i) == TRUE

(* A later member of a parallel group is classified again before it starts.*)
StaysParallel(i) == started > base /\ group = "parallel" => mode[i] = "parallel"

MayStart == /\ ~aborted
            /\ started < GroupEnd
            /\ PoolHasRoom
            /\ StaysParallel(started + 1)

(* startCall(): tool/call is appended, then prepare() runs.                *)
StartCall ==
    /\ pc = "fill" /\ MayStart
    /\ called' = called + 1
    /\ started' = started + 1
    /\ alone' = IF mode[started + 1] = "exclusive" THEN alone \cup {started + 1} ELSE alone
    /\ pc' = "preparing"
    /\ UNCHANGED <<envVars, base, group, committed, aborted, failure, inFlight,
                   callVars, answered, result, invoked>>

(* The append of tool/call throws. *)
StartFails ==
    /\ pc = "fill" /\ MayStart
    /\ failure' = TRUE /\ pc' = "draining"
    /\ UNCHANGED <<envVars, base, group, started, committed, aborted, inFlight,
                   callVars, logVars, alone, invoked>>

(* The pool is full or closed: wait for a dispatch, or the group is over.  *)
FillEnds ==
    /\ pc = "fill" /\ ~MayStart
    /\ pc' = IF inFlight # {} THEN "racing" ELSE IF aborted THEN "skipping" ELSE "classify"
    /\ UNCHANGED <<envVars, schedVars, callVars, logVars, alone, invoked>>

FaultGroupIndex == started - base - 1

(* The key of the starting call in the pool. *)
PoolKey == started

(* prepare() settles: a failure recorded meanwhile stops the dispatch;     *)
(* else the call is dispatched, or policy or a cancellation answered it.   *)
Prepared ==
    /\ pc = "preparing"
    /\ \/ /\ failure /\ pc' = "draining"
          /\ UNCHANGED <<inFlight, slot, body>>
       \/ /\ ~failure /\ pc' = "started"
          /\ inFlight' = inFlight \cup {PoolKey}
          /\ body' = [body EXCEPT ![started] = "wrapped"]
          /\ UNCHANGED slot
       \/ /\ ~failure /\ pc' = "started"
          /\ \E out \in {"error", "unrun"} : slot' = [slot EXCEPT ![started] = out]
          /\ UNCHANGED <<inFlight, body>>
    /\ UNCHANGED <<envVars, base, group, started, committed, aborted, failure, logVars,
                   alone, invoked>>

(* A continuation checks for a recorded failure before it goes on.         *)
Resume(point) == pc' = IF failure THEN "draining" ELSE point

AfterStart ==
    /\ pc = "started"
    /\ Resume("commit")
    /\ UNCHANGED <<envVars, schedVars, callVars, logVars, alone, invoked>>

FaultCommitSettled ==
    IF \E i \in CallIds : slot[i] # "none" /\ result[i] = "none"
    THEN CHOOSE i \in CallIds : slot[i] # "none" /\ result[i] = "none"
    ELSE committed + 1

(* The slot commitReady() looks at: the next one in model order.           *)
NextSlot == committed + 1

(* commitReady()'s loop head. *)
CommitHead ==
    /\ pc = "commit"
    /\ pc' = IF committed < GroupEnd /\ slot[NextSlot] # "none"
             THEN "completing" ELSE "committed"
    /\ UNCHANGED <<envVars, schedVars, callVars, logVars, alone, invoked>>

(* complete() settles (post-execute may turn the result into an error, the *)
(* caller's cancellation is looked at again) and tool/result is appended.  *)
CommitCall ==
    /\ pc = "completing"
    /\ \E out \in {slot[NextSlot], "error"} :
          result' = [result EXCEPT ![NextSlot] = Cancelled(NextSlot, out)]
    /\ answered' = answered + 1
    /\ committed' = committed + 1
    /\ pc' = "commit"
    /\ UNCHANGED <<envVars, base, group, started, aborted, failure, inFlight, callVars,
                   called, alone, invoked>>

(* prepare(), complete() or an append throws: the pool is drained.         *)
PrepareOrCommitFails ==
    /\ pc \in {"preparing", "completing"}
    /\ failure' = TRUE /\ pc' = "draining"
    /\ UNCHANGED <<envVars, base, group, started, committed, aborted, inFlight,
                   callVars, logVars, alone, invoked>>

(* The signal is read after every start or commit that awaited.            *)
ReadSignal == aborted' = (aborted \/ Aborted)

AfterCommit ==
    /\ pc = "committed"
    /\ Resume("fill")
    /\ ReadSignal
    /\ UNCHANGED <<envVars, base, group, started, committed, failure, inFlight, callVars,
                   logVars, alone, invoked>>

FaultRaceForgets(i) == UNCHANGED inFlight

Observed(i) == inFlight' = inFlight \ {i}

(* Promise.race: one settled dispatch leaves the pool. *)
RaceSettles(i) ==
    /\ pc = "racing" /\ i \in Settled
    /\ Observed(i)
    /\ Resume("commit")
    /\ UNCHANGED <<envVars, base, group, started, committed, aborted, failure, callVars,
                   logVars, alone, invoked>>

FaultRejectsAtOnce == TRUE

(* Promise.allSettled over the pool. *)
PoolSettled == Settled = inFlight

(* The first failure rejects the batch, once the pool has settled.         *)
Drained ==
    /\ pc = "draining" /\ PoolSettled
    /\ inFlight' = {}
    /\ pc' = "failed"
    /\ UNCHANGED <<envVars, base, group, started, committed, aborted, failure, callVars,
                   logVars, alone, invoked>>

(* settlement.skip(): tool/call and a synthetic tool/result for every call *)
(* that was never started.                                                 *)
SkipCall ==
    /\ pc = "skipping" /\ started < NumCalls
    /\ called' = called + 1 /\ answered' = answered + 1
    /\ result' = [result EXCEPT ![started + 1] = "unrun"]
    /\ started' = started + 1 /\ committed' = committed + 1
    /\ UNCHANGED <<envVars, pc, base, group, aborted, failure, inFlight, callVars,
                   alone, invoked>>

SkipsDone ==
    /\ pc = "skipping" /\ started = NumCalls
    /\ pc' = "returned"
    /\ UNCHANGED <<envVars, schedVars, callVars, logVars, alone, invoked>>

Bodies == \E i \in CallIds : BodyBegins(i) \/ BodyNotReached(i) \/ BodySettles(i)
                             \/ DispatchRejects(i)

Scheduler ==
    \/ Classify \/ StartCall \/ StartFails \/ FillEnds
    \/ Prepared \/ AfterStart \/ CommitHead \/ CommitCall \/ PrepareOrCommitFails
    \/ AfterCommit \/ \E i \in CallIds : RaceSettles(i)
    \/ Drained \/ SkipCall \/ SkipsDone

Next == Abort \/ (\E i \in CallIds : Reclassify(i)) \/ Bodies \/ Scheduler

Spec == Init /\ [][Next]_vars
=============================================================================
