------------------------- MODULE SessionRepairProps -------------------------
(***************************************************************************)
(* What a session's log promises its readers over crashes, repairs and     *)
(* forks.                                                                  *)
(***************************************************************************)
EXTENDS SessionRepair

Types == {"turn/start", "turn/end", "step/start", "step/end", "assistant/message",
          "tool/call", "tool/result", "session/end-seed"}

Events == [type : Types, turn : Nat, step : Nat, call : 0..NumCalls,
           says : {"none", "outcome", "unknown", "notStarted"},
           by : {"agent", "interrupted", "forked"}]

Readers == [last : Nat, turn : Nat, step : Nat, steps : Nat,
            pending : [CallIds -> {"none", "requested", "started"}]]

(* The types of the log and of the processes around it; a call's number    *)
(* is one of the log.                                                      *)
TypeOK ==
    /\ log \in Seq([ev : Events, at : Readers])
    /\ acked \in 0..Len(log)
    /\ phase \in {"live", "down", "repairing", "seeding"}
    /\ pc \in {"idle", "loop", "request", "streaming", "tools", "skipping", "failing", "closing"}
    /\ body \in [CallIds -> {"idle", "recorded", "running", "settled"}]
    /\ callSeq \in [CallIds -> 0..Len(log)]
    /\ loaded \in Nat /\ faults \in 0..MaxFaults
    /\ sent \subseteq Nat \X Nat /\ ran \subseteq Nat \X Nat \X CallIds

(* The stored log, as far as it was acknowledged, evolves as a transcript: *)
(* over every crash and repair turns and steps are numbered and closed, no *)
(* call is answered twice and none is open when its step closes.  A fork   *)
(* starts a log of its own.                                                *)
Stored == INSTANCE Transcript WITH
    Msgs <- {}, Calls <- CallIds, userLog <- <<>>,
    lastTurn <- ReadTo(acked).last, openTurn <- ReadTo(acked).turn,
    lastStep <- ReadTo(acked).steps, openStep <- ReadTo(acked).step,
    pending <- ReadTo(acked).pending

StoredTranscript == Stored!Init /\ [][Stored!Next \/ phase' = "seeding"]_(Stored!vars)

NotStarted(e) == e.type = "tool/result" /\ e.says = "notStarted" /\ e.by = "interrupted"

(* A result that tells the model to retry a call because it never started  *)
(* belongs to a call whose body never ran, in this process or in one that  *)
(* crashed.                                                                *)
RecoveryHonest ==
    \A i \in 1..Len(log) :
        NotStarted(log[i].ev) => <<log[i].ev.turn, log[i].ev.step, log[i].ev.call>> \notin ran

Opens == {<<log'[i].ev.turn, log'[i].ev.step>> :
             i \in {j \in Len(log) + 1..Len(log') : log'[j].ev.type = "step/start"}}

(* The numbers of a step whose request was sent are never used for another *)
(* step, even when the crash took that step's log away.                    *)
StepsFresh == [][phase' # "seeding" => Opens \cap sent = {}]_vars
=============================================================================
