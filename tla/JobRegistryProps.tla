-------------------------- MODULE JobRegistryProps --------------------------
(***************************************************************************)
(* What the job registry promises its callers, owners and reporters.       *)
(***************************************************************************)
EXTENDS JobRegistry

Frames == {SettleFrame(j) : j \in Jobs} \cup {TearFrame(t) : t \in Teardowns}
Statuses == {"new"} \cup Active \cup Terminal

(* The types of the registry's state; one durable settlement per job, also *)
(* when a producer reports after a forced settlement.                      *)
TypeOK ==
    /\ store \subseteq Jobs
    /\ owner \in [Jobs -> Buckets \cup {"none"}] /\ status \in [Jobs -> Statuses]
    /\ settleCause \in [Jobs -> {"none", "kill", "teardown"}]
    /\ cause \in [Jobs -> {"none", "producer", "kill", "teardown"}]
    /\ producer \in [Jobs -> {"none", "working", "reported", "done"}] /\ cancelled \subseteq Jobs
    /\ resolvers \in [Jobs -> SUBSET Waits] /\ settled \subseteq Jobs
    /\ announced \in [Jobs -> {"none", "plain", "awaited"}] /\ recorded \in [Jobs -> {0, 1}]
    /\ wait \in [Waits -> {"idle", "waiting", "released", "timedout", "aborted", "returned"}]
    /\ waitJob \in [Waits -> Jobs \cup {"none"}]
    /\ seen \in [Waits -> Statuses \cup {"none"}] /\ served \subseteq Waits
    /\ scope \in [Owners -> {"open", "unloading", "gone"}] /\ ownerCleanups \subseteq Owners
    /\ teardown \in [Teardowns -> {"none", "cancelling", "awaiting", "dropping", "done"}]
    /\ victims \in [Teardowns -> SUBSET Jobs] /\ todo \in [Teardowns -> SUBSET Jobs]
    /\ stack \in Seq(Frames)

ActiveOf(o) == {j \in store : owner[j] = o /\ status[j] \in Active}

(* No owner or bucket holds more active jobs than the limit, however kills,*)
(* settlements and registrations from listeners interleave.                *)
WithinLimit == \A o \in Buckets : Cardinality(ActiveOf(o)) <= Limit

(* No wait is left on a job whose settlement has been announced.           *)
WaitersReleased == \A w \in Waits : wait[w] = "waiting" => waitJob[w] \notin settled

CollectedBy(j) == {w \in served : waitJob[w] = j}

(* `awaited` in the settled event says exactly whether some wait was still *)
(* owed the terminal projection, and every such wait does return it.       *)
AwaitedMeansServed ==
    /\ \A j \in settled : announced[j] = "awaited" <=> CollectedBy(j) # {}
    /\ \A w \in served : \/ wait[w] = "released" /\ status[waitJob[w]] \in Terminal
                         \/ wait[w] = "returned" /\ seen[w] \in Terminal

(* A wait is released with its job's settlement, and told the truth.       *)
WaitsAnswered == WaitersReleased /\ AwaitedMeansServed

(* An owner whose disposal finished has no job left in the registry, also  *)
(* when a listener tries to start one while its jobs are being stopped.    *)
OwnerLeavesNothing == \A o \in Owners : scope[o] = "gone" => JobsOf(o) = {}

Life(j) == CASE status[j] = "new" -> "new"
             [] status[j] \in Active -> "live"
             [] OTHER -> IF j \in store THEN "settled" ELSE "removed"

(* The registry implements the job ledger: every job settles once, no live *)
(* job is removed, and an owner closes over nothing.                       *)
Ledger == INSTANCE JobLedger WITH
    life <- [j \in Jobs |-> Life(j)],
    holder <- owner,
    verdict <- [j \in Jobs |-> IF status[j] \in Terminal THEN status[j] ELSE "none"],
    entries <- recorded,
    closed <- {o \in Owners : scope[o] = "gone"}
LedgerKept == Ledger!Spec

-----------------------------------------------------------------------------
(* The inductive invariant behind these properties.                        *)

(* How the parts of one record agree.                                      *)
Records ==
    /\ \A j \in Jobs : /\ status[j] = "new" <=> owner[j] = "none"
                       /\ status[j] = "new" <=> producer[j] = "none"
                       /\ status[j] \in Active => j \in store
                       /\ recorded[j] = 1 <=> status[j] \in Terminal
    /\ \A j \in store : status[j] # "new"
    /\ \A j \in settled : status[j] \in Terminal

(* A settle() under way is of a terminal job not yet announced, and alone. *)
Settling ==
    /\ \A i \in DOMAIN stack, j \in Jobs :
          stack[i] = SettleFrame(j) => status[j] \in Terminal /\ j \notin settled
    /\ \A i, k \in DOMAIN stack, j \in Jobs :
          stack[i] = SettleFrame(j) /\ stack[k] = SettleFrame(j) => i = k

(* A waiting call and its resolver belong together; a served one is done.  *)
Waiting ==
    /\ \A w \in Waits : /\ wait[w] # "idle" => waitJob[w] \in Jobs
                        /\ wait[w] = "waiting" => w \in resolvers[waitJob[w]]
    /\ \A j \in Jobs : \A w \in resolvers[j] : wait[w] = "waiting" /\ waitJob[w] = j
    /\ \A w \in served : waitJob[w] \in settled

(* Each stage of a teardown covers every job its owner still has, and no   *)
(* job joins them: the cleanup is spent, and cannot be attached again.     *)
Ownership ==
    \A o \in Owners :
        /\ o \notin ownerCleanups /\ teardown[o] = "none" => JobsOf(o) = {}
        /\ teardown[o] \in {"cancelling", "awaiting"} => JobsOf(o) \subseteq victims[o]
        /\ teardown[o] = "dropping" => JobsOf(o) \subseteq todo[o]
        /\ teardown[o] = "done" => JobsOf(o) = {}
        /\ teardown[o] # "none" =>
              o \notin ownerCleanups /\ (scope[o] # "open" \/ teardown[Service] = "done")

(* A teardown handles registered jobs, and drops none before it settled.   *)
Victims ==
    \A t \in Teardowns :
        /\ \A j \in victims[t] \cup todo[t] : status[j] # "new"
        /\ teardown[t] = "dropping" => todo[t] \subseteq settled

IInv ==
    /\ TypeOK /\ Records /\ Settling /\ Waiting /\ Ownership /\ Victims
    /\ WithinLimit /\ WaitersReleased /\ AwaitedMeansServed /\ OwnerLeavesNothing

-----------------------------------------------------------------------------
(* Fairness: continuations and frames run, and a producer whose cancel     *)
(* hook returned settles its done promise (the contract of JobHooks).      *)
FairSpec ==
    /\ Spec
    /\ WF_vars(Registry)
    /\ \A j \in Jobs : WF_vars(j \in cancelled /\ ProducerReports(j))

(* A teardown that began ends, whatever cancel hooks throw.                *)
TeardownEnds ==
    \A t \in Teardowns : teardown[t] # "none" ~> teardown[t] = "done"
=============================================================================
