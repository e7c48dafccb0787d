----------------------------- MODULE DurableLog -----------------------------
(***************************************************************************)
(* What packages/session/session-persistence promises of one stored        *)
(* session (handle.ts): an append-only log of events in sequence order,    *)
(* never torn, of which everything acknowledged stays readable until the   *)
(* session is deleted.  Events nobody acknowledged may be found in the log *)
(* after a crash, or be missing from it.                                   *)
(***************************************************************************)
EXTENDS Naturals, Sequences

CONSTANT MaxSeq   \* bound: the last sequence number

VARIABLES log,    \* sequence numbers a reader finds
          acked   \* last sequence number whose append was acknowledged

vars == <<log, acked>>

Numbers(a, b) == [i \in 1..((b + 1) - a) |-> (a - 1) + i]

Init == log = <<>> /\ acked = 0

(* A batch lands at the logical end, acknowledged or not; an earlier one   *)
(* may be acknowledged.                                                    *)
Grow == \E n \in Len(log)..MaxSeq :
           /\ log' = Numbers(1, n)
           /\ \E k \in acked..n : acked' = k

(* The repair of a torn tail: what it takes away was never acknowledged.   *)
Shrink == \E n \in acked..Len(log) : log' = SubSeq(log, 1, n) /\ UNCHANGED acked

Delete == log' = <<>> /\ acked' = 0

Next == Grow \/ Shrink \/ Delete

Spec == Init /\ [][Next]_vars
=============================================================================
