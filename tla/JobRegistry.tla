---------------------------- MODULE JobRegistry ----------------------------
(***************************************************************************)
(* The process-local job registry of packages/jobs/jobs-local/src/index.ts *)
(* (LocalJobRegistry): registration, kill, waits, settlement, removal, and *)
(* the teardown of one owner (an agent's scope) or of the whole service.   *)
(*                                                                         *)
(* A call of the registry is synchronous up to its first await, but the    *)
(* listeners it notifies may call the registry again.  `stack` holds the   *)
(* calls such a listener interrupts, innermost first: a settle() between   *)
(* its durable record and the release of its waiters, and the loops that   *)
(* cancel or drop the jobs of a teardown.  Promise continuations and       *)
(* timers run when the stack is empty.                                     *)
(*                                                                         *)
(* Starters, cancel hooks and output sources are the producer's; they may  *)
(* throw but do not call the registry.  Outcomes, views and reasons are    *)
(* abstracted to what a caller decides on.                                 *)
(***************************************************************************)
EXTENDS Naturals, Sequences, FiniteSets

CONSTANTS
    Jobs,       \* job ids, each used once
    Waits,      \* calls of wait(), each made once
    Owners,     \* agents
    Unowned,    \* the bucket of jobs without an owner
    Service,    \* the registry itself, as the subject of a teardown
    Limit,      \* maxConcurrentJobsPerOwner
    Outcomes    \* bound: the terminal statuses producers report

Buckets == Owners \cup {Unowned}
Teardowns == Owners \cup {Service}
Terminal == {"completed", "killed", "failed"}
Active == {"running", "stopping"}

ASSUME JobConstants ==
    /\ Unowned \notin Owners /\ Service \notin Buckets
    /\ "none" \notin Buckets
    /\ Limit \in Nat \ {0}
    /\ Outcomes \subseteq Terminal
    /\ IsFiniteSet(Jobs)

VARIABLES
    store,                   \* the ids registered now
    owner, status,           \* of every job; status "new" before registration
    settleCause, cause,      \* recorded by kill or teardown; announced
    producer, cancelled,     \* none, working, reported or done; cancel() returned
    resolvers, settled,      \* waitResolvers; jobs whose settled promise resolved
    announced, recorded,     \* the settled event; durable job/settled events
    wait, waitJob, seen,     \* calls of wait(): state, job, status in the answer
    served,                  \* history: waits that a settlement released
    scope, ownerCleanups,    \* owners' scopes; owners with attached cleanup
    teardown, victims, todo, \* teardown state, its jobs, those its loop has left
    stack

jobVars == <<store, owner, status, settleCause, cause, announced, recorded>>
prodVars == <<producer, cancelled>>
waitVars == <<resolvers, wait, waitJob, seen, served>>
tearVars == <<scope, ownerCleanups, teardown, victims, todo>>
vars == <<jobVars, prodVars, settled, waitVars, tearVars, stack>>

Init ==
    /\ store = {} /\ owner = [j \in Jobs |-> "none"] /\ status = [j \in Jobs |-> "new"]
    /\ settleCause = [j \in Jobs |-> "none"] /\ cause = [j \in Jobs |-> "none"]
    /\ producer = [j \in Jobs |-> "none"] /\ cancelled = {}
    /\ resolvers = [j \in Jobs |-> {}] /\ settled = {}
    /\ announced = [j \in Jobs |-> "none"] /\ recorded = [j \in Jobs |-> 0]
    /\ wait = [w \in Waits |-> "idle"] /\ waitJob = [w \in Waits |-> "none"]
    /\ seen = [w \in Waits |-> "none"] /\ served = {}
    /\ scope = [o \in Owners |-> "open"] /\ ownerCleanups = {}
    /\ teardown = [t \in Teardowns |-> "none"]
    /\ victims = [t \in Teardowns |-> {}] /\ todo = [t \in Teardowns |-> {}]
    /\ stack = <<>>

-----------------------------------------------------------------------------
(* Frames: a settle() of a job, or a loop over the jobs of a teardown.     *)

SettleFrame(j) == [call |-> "settle", on |-> j]
TearFrame(t) == [call |-> "tear", on |-> t]

Push(frame) == stack' = <<frame>> \o stack
Top(frame) == stack # <<>> /\ Head(stack) = frame

(* A listener, or with an empty stack any caller, may call the registry.   *)
(* An unowned job has no session whose observers could interrupt settle(). *)
Callable == stack = <<>> \/ \A j \in Jobs : Top(SettleFrame(j)) => owner[j] # Unowned

Live(j) == j \in store /\ status[j] \in Active

FaultStoppingNotCounted(o) == Cardinality({j \in store : owner[j] = o /\ status[j] = "running"})

(* activeJobCount(). *)
ActiveJobs(o) == Cardinality({j \in store : owner[j] = o /\ status[j] \in Active})

(* ensureOwnerCleanup(): attached already, or the scope still takes it.    *)
CleanupEnsured(o) == o \in Owners => o \in ownerCleanups \/ scope[o] = "open"

(* servesOwner(): controllers depend on the service and unload after the   *)
(* loop of its teardown; that takes microtasks, until the drop at most.    *)
ServesOwner == teardown[Service] \in {"none", "cancelling", "awaiting"}

(* start(): every preflight passes and the starter returns.                *)
Start(j, o) ==
    /\ Callable
    /\ status[j] = "new"
    /\ ServesOwner
    /\ o \in Owners => scope[o] # "gone"
    /\ CleanupEnsured(o)
    /\ ActiveJobs(o) < Limit
    /\ store' = store \cup {j}
    /\ owner' = [owner EXCEPT ![j] = o]
    /\ status' = [status EXCEPT ![j] = "running"]
    /\ producer' = [producer EXCEPT ![j] = "working"]
    /\ ownerCleanups' = IF o \in Owners THEN ownerCleanups \cup {o} ELSE ownerCleanups
    /\ UNCHANGED <<settleCause, cause, announced, recorded, cancelled, settled, waitVars,
                   scope, teardown, victims, todo, stack>>

(* start() whose starter throws: the owner's cleanup is attached already.  *)
StarterThrows(o) ==
    /\ Callable
    /\ ServesOwner
    /\ o \in Owners /\ scope[o] = "open"
    /\ o \notin ownerCleanups
    /\ ownerCleanups' = ownerCleanups \cup {o}
    /\ UNCHANGED <<jobVars, prodVars, settled, waitVars, scope, teardown, victims, todo, stack>>

(* kill() of a live job whose cancel hook returns; if the hook throws, or  *)
(* the job is terminal, nothing changes.                                   *)
Kill(j) ==
    /\ Callable /\ Live(j)
    /\ status' = [status EXCEPT ![j] = "stopping"]
    /\ settleCause' = [settleCause EXCEPT ![j] = "kill"]
    /\ cancelled' = cancelled \cup {j}
    /\ UNCHANGED <<store, owner, cause, announced, recorded, producer, settled, waitVars,
                   tearVars, stack>>

(* drop() of one record.                                                   *)
Drop(j) == store' = store \ {j}

FaultRemoveLive(j) == TRUE

(* Only a terminal job may be removed.                                     *)
Removable(j) == status[j] \in Terminal

(* remove(). *)
Remove(j) ==
    /\ Callable /\ j \in store /\ Removable(j)
    /\ Drop(j)
    /\ UNCHANGED <<owner, status, settleCause, cause, announced, recorded, prodVars, settled,
                   waitVars, tearVars, stack>>

-----------------------------------------------------------------------------
(* wait(). *)

(* A wait registers a resolver unless the job is terminal.                 *)
MustWait(j) == status[j] \notin Terminal

Wait(w, j) ==
    /\ Callable
    /\ wait[w] = "idle" /\ j \in store
    /\ waitJob' = [waitJob EXCEPT ![w] = j]
    /\ \/ /\ MustWait(j)
          /\ wait' = [wait EXCEPT ![w] = "waiting"]
          /\ resolvers' = [resolvers EXCEPT ![j] = @ \cup {w}]
          /\ UNCHANGED seen
       \/ /\ ~MustWait(j)
          /\ wait' = [wait EXCEPT ![w] = "returned"]
          /\ seen' = [seen EXCEPT ![w] = status[j]]
          /\ UNCHANGED resolvers
    /\ UNCHANGED <<jobVars, prodVars, settled, served, tearVars, stack>>

FaultResolverKept(w) == UNCHANGED resolvers

(* onAbort() takes the resolver back. *)
Unregister(w) == resolvers' = [resolvers EXCEPT ![waitJob[w]] = @ \ {w}]

(* The caller's signal aborts, or the deadline fires: a timer.             *)
LeaveWait(w, how) ==
    /\ wait[w] = "waiting"
    /\ how = "timedout" => stack = <<>>
    /\ Callable
    /\ wait' = [wait EXCEPT ![w] = how]
    /\ Unregister(w)
    /\ UNCHANGED <<jobVars, prodVars, settled, waitJob, seen, served, tearVars, stack>>

(* The promise resolved: the answer is the projection of this moment.      *)
WaitReturns(w) ==
    /\ stack = <<>>
    /\ wait[w] \in {"released", "timedout"}
    /\ wait' = [wait EXCEPT ![w] = "returned"]
    /\ seen' = [seen EXCEPT ![w] = status[waitJob[w]]]
    /\ UNCHANGED <<jobVars, prodVars, settled, resolvers, waitJob, served, tearVars, stack>>

-----------------------------------------------------------------------------
(* Settlement. *)

FaultLastOutcomeWins(j) == TRUE

(* settle() returns early on a terminal record: the first outcome wins.    *)
Unsettled(j) == status[j] \notin Terminal

(* settle() up to its durable record. *)
SettleRecords(j, out, by) ==
    /\ status' = [status EXCEPT ![j] = out]
    /\ cause' = [cause EXCEPT ![j] = by]
    /\ recorded' = [recorded EXCEPT ![j] = @ + 1]
    /\ Push(SettleFrame(j))

(* ... and after it: waiters are released, then `settled` is announced.    *)
SettleReleases(j) ==
    /\ Top(SettleFrame(j))
    /\ stack' = Tail(stack)
    /\ wait' = [w \in Waits |-> IF w \in resolvers[j] /\ wait[w] = "waiting"
                                THEN "released" ELSE wait[w]]
    /\ served' = served \cup {w \in resolvers[j] : wait[w] = "waiting"}
    /\ resolvers' = [resolvers EXCEPT ![j] = {}]
    /\ settled' = settled \cup {j}
    /\ announced' = [announced EXCEPT ![j] = IF resolvers[j] # {} THEN "awaited" ELSE "plain"]
    /\ UNCHANGED <<store, owner, status, settleCause, cause, recorded, prodVars,
                   waitJob, seen, tearVars>>

(* The producer's done promise settles. *)
ProducerReports(j) ==
    /\ stack = <<>>
    /\ producer[j] = "working"
    /\ producer' = [producer EXCEPT ![j] = "reported"]
    /\ UNCHANGED <<jobVars, cancelled, settled, waitVars, tearVars, stack>>

(* Its continuation runs after the pump's final drain.                     *)
ProducerSettles(j) ==
    /\ stack = <<>>
    /\ producer[j] = "reported"
    /\ producer' = [producer EXCEPT ![j] = "done"]
    /\ IF Unsettled(j)
       THEN \E out \in Outcomes :
               SettleRecords(j, out, IF settleCause[j] = "none" THEN "producer" ELSE settleCause[j])
       ELSE UNCHANGED <<status, cause, recorded, stack>>
    /\ UNCHANGED <<store, owner, settleCause, announced, cancelled, settled, waitVars, tearVars>>

-----------------------------------------------------------------------------
(* Teardown: disposeOwned() of an owner, disposeAll() of the service.      *)

JobsOf(t) == IF t = Service THEN store ELSE {j \in store : owner[j] = t}

(* The jobs a teardown cancels, awaits and drops. *)
Snapshot(t) == JobsOf(t)

BeginTeardown(t) ==
    /\ teardown' = [teardown EXCEPT ![t] = "cancelling"]
    /\ victims' = [victims EXCEPT ![t] = Snapshot(t)]
    /\ todo' = [todo EXCEPT ![t] = Snapshot(t)]
    /\ Push(TearFrame(t))

FaultCleanupKept(o) == UNCHANGED ownerCleanups

(* The cleanup forgets its attachment before it disposes. *)
ForgetCleanup(o) == ownerCleanups' = ownerCleanups \ {o}

(* The owner's scope unloads: its attached cleanup runs, if there is one.  *)
CloseScope(o) ==
    /\ Callable
    /\ scope[o] = "open"
    /\ \/ /\ o \in ownerCleanups
          /\ scope' = [scope EXCEPT ![o] = "unloading"]
          /\ ForgetCleanup(o)
          /\ BeginTeardown(o)
       \/ /\ o \notin ownerCleanups /\ teardown[o] \in {"none", "done"}
          /\ scope' = [scope EXCEPT ![o] = "gone"]
          /\ UNCHANGED <<ownerCleanups, teardown, victims, todo, stack>>
    /\ UNCHANGED <<jobVars, prodVars, settled, waitVars>>

DisposeService ==
    /\ Callable
    /\ teardown[Service] = "none"
    /\ BeginTeardown(Service)
    /\ UNCHANGED <<jobVars, prodVars, settled, waitVars, scope, ownerCleanups>>

FaultThrowIgnored(j) == UNCHANGED <<status, cause, recorded, cancelled, stack>>

(* The cancel hook throws: the record is forced to fail. *)
ForceFail(j) == SettleRecords(j, "failed", "teardown") /\ UNCHANGED cancelled

(* cancelForTeardown(): one job of the loop. *)
CancelVictim(t, j) ==
    /\ Top(TearFrame(t)) /\ teardown[t] = "cancelling" /\ j \in todo[t]
    /\ todo' = [todo EXCEPT ![t] = @ \ {j}]
    /\ \/ /\ status[j] \in Terminal
          /\ UNCHANGED <<status, settleCause, cause, recorded, cancelled, stack>>
       \/ /\ status[j] \notin Terminal
          /\ settleCause' = [settleCause EXCEPT ![j] = "teardown"]
          /\ \/ /\ status' = [status EXCEPT ![j] = "stopping"]
                /\ cancelled' = cancelled \cup {j}
                /\ UNCHANGED <<cause, recorded, stack>>
             \/ ForceFail(j)
    /\ UNCHANGED <<store, owner, announced, producer, settled, waitVars, scope, ownerCleanups,
                   teardown, victims>>

(* The loop is over: Promise.all over the settled promises.                *)
AllCancelled(t) ==
    /\ Top(TearFrame(t)) /\ teardown[t] = "cancelling" /\ todo[t] = {}
    /\ stack' = Tail(stack)
    /\ teardown' = [teardown EXCEPT ![t] = "awaiting"]
    /\ UNCHANGED <<jobVars, prodVars, settled, waitVars, scope, ownerCleanups, victims, todo>>

VictimsSettled(t) == victims[t] \subseteq settled

BeginDrop(t) ==
    /\ stack = <<>>
    /\ teardown[t] = "awaiting" /\ VictimsSettled(t)
    /\ teardown' = [teardown EXCEPT ![t] = "dropping"]
    /\ todo' = [todo EXCEPT ![t] = victims[t]]
    /\ Push(TearFrame(t))
    /\ UNCHANGED <<jobVars, prodVars, settled, waitVars, scope, ownerCleanups, victims>>

DropVictim(t, j) ==
    /\ Top(TearFrame(t)) /\ teardown[t] = "dropping" /\ j \in todo[t]
    /\ todo' = [todo EXCEPT ![t] = @ \ {j}]
    /\ Drop(j)
    /\ UNCHANGED <<owner, status, settleCause, cause, announced, recorded, prodVars, settled,
                   waitVars, scope, ownerCleanups, teardown, victims, stack>>

(* An owner is gone when its cleanup returns; the service then detaches    *)
(* the cleanups still attached to live owners, which are run one by one.   *)
AllDropped(t) ==
    /\ Top(TearFrame(t)) /\ teardown[t] = "dropping" /\ todo[t] = {}
    /\ stack' = Tail(stack)
    /\ teardown' = [teardown EXCEPT ![t] = "done"]
    /\ scope' = IF t \in Owners /\ scope[t] = "unloading"
                THEN [scope EXCEPT ![t] = "gone"] ELSE scope
    /\ victims' = [victims EXCEPT ![t] = {}]
    /\ UNCHANGED <<jobVars, prodVars, settled, waitVars, ownerCleanups, todo>>

DetachCleanup(o) ==
    /\ teardown[Service] = "done"
    /\ stack = <<>>
    /\ o \in ownerCleanups
    /\ ForgetCleanup(o)
    /\ BeginTeardown(o)
    /\ UNCHANGED <<jobVars, prodVars, settled, waitVars, scope>>

-----------------------------------------------------------------------------
Callers ==
    \/ \E j \in Jobs, o \in Buckets : Start(j, o)
    \/ \E j \in Jobs : Kill(j) \/ Remove(j)
    \/ \E w \in Waits, j \in Jobs : Wait(w, j)
    \/ \E w \in Waits, how \in {"timedout", "aborted"} : LeaveWait(w, how)
    \/ \E o \in Owners : StarterThrows(o) \/ CloseScope(o)
    \/ DisposeService

(* What the registry itself has still to do. *)
Registry ==
    \/ \E w \in Waits : WaitReturns(w)
    \/ \E j \in Jobs : SettleReleases(j) \/ ProducerSettles(j)
    \/ \E t \in Teardowns, j \in Jobs : CancelVictim(t, j) \/ DropVictim(t, j)
    \/ \E t \in Teardowns : AllCancelled(t) \/ BeginDrop(t) \/ AllDropped(t)
    \/ \E o \in Owners : DetachCleanup(o)

Next == Callers \/ Registry \/ \E j \in Jobs : ProducerReports(j)

Spec == Init /\ [][Next]_vars
=============================================================================
