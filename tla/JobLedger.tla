----------------------------- MODULE JobLedger -----------------------------
(***************************************************************************)
(* What the job registry promises (packages/jobs/jobs/src/index.ts): a job *)
(* is registered within its owner's limit, settles once, is listed until   *)
(* it is removed, and an owner leaves no job behind.                       *)
(***************************************************************************)
EXTENDS Naturals, FiniteSets

CONSTANTS Jobs, Owners, Unowned, Limit

VARIABLES
    life,      \* of each job: new, live, settled or removed
    holder,    \* its owner, once registered
    verdict,   \* its terminal status, or "none"
    entries,   \* durable job/settled records
    closed     \* owners whose lifecycle has ended

vars == <<life, holder, verdict, entries, closed>>

Init ==
    /\ life = [j \in Jobs |-> "new"] /\ holder = [j \in Jobs |-> "none"]
    /\ verdict = [j \in Jobs |-> "none"] /\ entries = [j \in Jobs |-> 0]
    /\ closed = {}

(* start(). *)
Register(j, o) ==
    /\ life[j] = "new" /\ o \notin closed
    /\ Cardinality({k \in Jobs : life[k] = "live" /\ holder[k] = o}) < Limit
    /\ life' = [life EXCEPT ![j] = "live"]
    /\ holder' = [holder EXCEPT ![j] = o]
    /\ UNCHANGED <<verdict, entries, closed>>

(* The first outcome is the only one. *)
Settle(j, v) ==
    /\ life[j] = "live"
    /\ life' = [life EXCEPT ![j] = "settled"]
    /\ verdict' = [verdict EXCEPT ![j] = v]
    /\ entries' = [entries EXCEPT ![j] = 1]
    /\ UNCHANGED <<holder, closed>>

Remove(j) ==
    /\ life[j] = "settled"
    /\ life' = [life EXCEPT ![j] = "removed"]
    /\ UNCHANGED <<holder, verdict, entries, closed>>

(* Disposal of an owner ends when none of its jobs is listed any more.     *)
Close(o) ==
    /\ \A j \in Jobs : holder[j] = o => life[j] = "removed"
    /\ closed' = closed \cup {o}
    /\ UNCHANGED <<life, holder, verdict, entries>>

Next ==
    \/ \E j \in Jobs, o \in Owners \cup {Unowned} : Register(j, o)
    \/ \E j \in Jobs, v \in {"completed", "killed", "failed"} : Settle(j, v)
    \/ \E j \in Jobs : Remove(j)
    \/ \E o \in Owners : Close(o)

Spec == Init /\ [][Next]_vars
=============================================================================
