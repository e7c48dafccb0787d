--------------------------- MODULE ToolBatchProps ---------------------------
(***************************************************************************)
(* What executeToolBatch promises the step that calls it.                  *)
(***************************************************************************)
EXTENDS ToolBatch

(* The types of the scheduler's state.                                     *)
TypeOK ==
    /\ signal \in {"live", "aborted"} /\ mode \in [CallIds -> Modes] /\ flips \in Nat
    /\ pc \in {"classify", "fill", "preparing", "started", "commit", "completing",
               "committed", "racing", "draining", "skipping", "returned", "failed"}
    /\ base \in 0 .. NumCalls /\ group \in Modes
    /\ started \in 0 .. NumCalls /\ committed \in 0 .. NumCalls
    /\ aborted \in BOOLEAN /\ failure \in BOOLEAN
    /\ inFlight \subseteq CallIds
    /\ slot \in [CallIds -> Outcomes \cup {"none"}]
    /\ body \in [CallIds -> {"idle", "wrapped", "running", "done"}]
    /\ called \in 0 .. NumCalls /\ answered \in 0 .. NumCalls
    /\ result \in [CallIds -> Outcomes \cup {"none"}]
    /\ invoked \subseteq CallIds /\ alone \subseteq CallIds

(* Results are committed in model order, whatever order the bodies settle  *)
(* in, and never before their call was recorded.                           *)
ResultsInModelOrder ==
    \A i \in CallIds : /\ result[i] # "none" <=> i <= answered
                       /\ result[i] # "none" => i <= called

(* The log side of the batch is the ledger its caller relies on: a batch   *)
(* returns with every call answered and nothing running, rejects only when *)
(* nothing runs, and starts no call after the caller's abort.              *)
Awaited == pc \notin {"returned", "failed"}

Ledger == INSTANCE ToolLedger WITH
    running <- Active,
    verdict <- CASE pc = "returned" -> "returned"
                 [] pc = "failed" -> "rejected"
                 [] Awaited /\ Aborted -> "cut"
                 [] Awaited /\ ~Aborted -> "open"
LedgerKept == Ledger!Spec

AloneInPool == \A i \in alone : body[i] \in {"wrapped", "running"} => Active = {i}

(* At most MaxParallel tool bodies overlap, and a call classified exclusive*)
(* when it starts overlaps with no other, even when the registry           *)
(* reclassifies calls while the batch runs.                                *)
OverlapBounded == Cardinality(Active) <= MaxParallel /\ AloneInPool

(* A result that says the call was cancelled before dispatch belongs to a  *)
(* call whose body never ran, and one that says it was aborted to a call   *)
(* whose body did.                                                         *)
CancellationHonest ==
    \A i \in CallIds : /\ result[i] = "unrun" => i \notin invoked
                       /\ result[i] = "aborted" => i \in invoked

-----------------------------------------------------------------------------
(* The strengthening the proofs carry: how far the scheduler's counters,   *)
(* the pool, the slots and the bodies can be apart.                        *)

Counters ==
    /\ called = started /\ answered = committed
    /\ base <= committed /\ committed <= started
    /\ started <= GroupEnd \/ pc \in {"skipping", "returned"}
    /\ pc \in {"classify", "skipping", "returned"} => inFlight = {} /\ committed = started
    /\ pc = "returned" => started = NumCalls
    /\ pc = "failed" => inFlight = {}
    /\ pc \notin {"classify", "returned"} => base < NumCalls
    /\ pc \in {"preparing", "started", "commit", "completing", "committed"} => started > base
    /\ pc = "preparing" => /\ committed < started /\ started \notin inFlight
                           /\ slot[started] = "none" /\ body[started] = "idle"

(* Every started call has a result, a slot, or a dispatch in the pool; the *)
(* scheduler waits only for calls the pool holds.                          *)
Pool ==
    /\ inFlight \subseteq base + 1 .. started
    /\ Cardinality(inFlight) <= MaxParallel
    /\ pc = "preparing" => Cardinality(inFlight) < MaxParallel
    /\ pc \notin {"draining", "failed"} =>
         \A i \in CallIds : committed < i /\ i <= started =>
            \/ i \in inFlight \/ slot[i] # "none"
            \/ pc = "preparing" /\ i = started
    /\ pc \in {"committed", "fill", "racing"} => committed = started \/ committed + 1 \in inFlight
    /\ pc = "completing" => committed < started /\ slot[committed + 1] # "none"
    /\ \A i \in CallIds : body[i] = "done" => slot[i] # "none" \/ failure

(* The log's prefix, and what has not started has no body and no slot.     *)
Calls ==
    /\ \A i \in CallIds : result[i] # "none" <=> i <= answered
    /\ Active \subseteq inFlight
    /\ \A i \in CallIds : i > started => body[i] = "idle" /\ slot[i] = "none"
    /\ \A i \in CallIds : slot[i] # "none" => body[i] \in {"idle", "done"}
    /\ \A i \in CallIds : result[i] # "none" => body[i] \in {"idle", "done"}

(* The signal and the next call's mode are fresh when a call starts.       *)
Barrier ==
    /\ pc = "fill" /\ Aborted => aborted
    /\ aborted => Aborted
    /\ pc = "skipping" => aborted
    /\ pc = "fill" /\ started = base /\ ~aborted => mode[started + 1] = group
    /\ \A i \in alone : i > base => group = "exclusive"
    /\ alone \subseteq 1 .. started

(* `invoked` is the set of calls whose body ran, and the outcomes agree.   *)
Cancellation ==
    /\ \A i \in CallIds : body[i] \in {"idle", "wrapped"} => i \notin invoked
    /\ \A i \in CallIds : body[i] = "running" => i \in invoked
    /\ \A i \in CallIds : slot[i] = "unrun" \/ result[i] = "unrun" => i \notin invoked
    /\ \A i \in CallIds : slot[i] = "aborted" \/ result[i] = "aborted" => i \in invoked

IInv == TypeOK /\ Counters /\ Pool /\ Calls /\ Barrier /\ Cancellation

-----------------------------------------------------------------------------
(* Fairness: microtasks run, and prepare stages and tool bodies settle.    *)
FairSpec == Spec /\ WF_vars(Scheduler) /\ \A i \in CallIds : WF_vars(BodyNotReached(i) \/ BodySettles(i))

(* Every batch returns or rejects.                                         *)
BatchEnds == <>(pc \in {"returned", "failed"})
=============================================================================
