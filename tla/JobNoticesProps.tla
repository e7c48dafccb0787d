-------------------------- MODULE JobNoticesProps --------------------------
(***************************************************************************)
(* What the job tools promise the model: a completion reaches it, and each *)
(* job's output reaches it once.                                           *)
(***************************************************************************)
EXTENDS JobNotices, JobRegistryProps

(* The types of the plugin's state; a settlement is withheld only while a  *)
(* released read still claims it.                                          *)
NoticesTypeOK ==
    /\ killedByModel \subseteq Jobs /\ claims \subseteq Waits
    /\ \A j \in suppressed : Claimants(j) # {}
    /\ pending \subseteq Jobs /\ inline \subseteq Jobs /\ held \subseteq pending
    /\ notice \in [Jobs -> {"none", "queued", "logged", "withdrawn", "discarded"}]
    /\ call \in [Waits -> {"idle", "waiting", "reading", "answered", "done"}]
    /\ steered \subseteq Waits /\ aborted \subseteq Waits /\ carries \subseteq Waits
    /\ answer \in [Waits -> {"none", "live", "finished"}]
    /\ taken \subseteq Jobs /\ told \subseteq Jobs /\ shown \in [Jobs -> {0, 1}]

(* A call that still owes its caller the terminal state of j, or gave it.  *)
Covers(w, j) ==
    /\ waitJob[w] = j
    /\ \/ call[w] = "waiting" /\ (w \in claims \/ w \in served)
       \/ answer[w] = "finished"

(* No completion is forgotten: once a job of a live owner has settled, a   *)
(* kill result told it, a notice exists, or a job_output call covers it.   *)
CompletionReaches ==
    \A j \in settled \cap store :
        cause[j] # "teardown" /\ owner[j] \in Owners /\ scope[owner[j]] = "open"
        => j \in told \/ notice[j] # "none" \/ \E w \in Waits : Covers(w, j)

(* Where the text of a finished job is: unread, held, in a result, shown.  *)
Places(j) ==
    (IF j \in taken THEN 0 ELSE 1) + (IF j \in held THEN 1 ELSE 0)
    + Cardinality({w \in carries : waitJob[w] = j}) + shown[j]

(* The output of a finished job is in exactly one place, so it is neither  *)
(* lost nor repeated while reads, waits, claims and notices race.          *)
OutputOnce == \A j \in store : Places(j) = 1

(* A settlement that a released read collected is not announced as well,   *)
(* and a notice of a listed job is logged only if no result covered it.    *)
ToldOnce ==
    [][\A j \in Jobs :
        /\ notice[j] = "none" /\ notice'[j] = "queued"
           => ~\E w \in steered : waitJob[w] = j /\ answer'[w] = "finished"
        /\ notice[j] = "queued" /\ notice'[j] = "logged" /\ j \in store => j \in pending]_allVars

-----------------------------------------------------------------------------
(* The inductive invariant behind these properties.                        *)

(* A terminal job is announced, unless its settle() is under way.          *)
Announced ==
    \A j \in Jobs : status[j] \in Terminal =>
        j \in settled \/ \E i \in DOMAIN stack : stack[i] = SettleFrame(j)

(* A call and its wait() move together; a claim is of a released read that *)
(* has not read yet; a finished answer is of an announced job.             *)
Calls ==
    \A w \in Waits :
        /\ call[w] = "idle" <=> wait[w] = "idle"
        /\ wait[w] = "waiting" => call[w] = "waiting"
        /\ w \in claims => call[w] = "waiting" /\ w \in steered
        /\ w \in steered => call[w] # "idle"
        /\ call[w] \in {"idle", "waiting", "reading"} => answer[w] = "none" /\ w \notin carries
        /\ answer[w] = "finished" => waitJob[w] \in settled

(* The notice of a listed job is pending as long as it is queued; what is  *)
(* suppressed was announced and answered by no released read.              *)
Noticed ==
    /\ \A j \in Jobs : /\ notice[j] # "none" => status[j] # "new"
                       /\ notice[j] = "queued" /\ j \in store => j \in pending
    /\ \A j \in suppressed : /\ j \in settled
                             /\ \A w \in steered : waitJob[w] = j => answer[w] # "finished"

(* The text of a job moves from the registry to one place at a time.       *)
Texts ==
    \A j \in Jobs :
        /\ j \in taken => status[j] # "new"
        /\ j \notin taken \/ j \in held \/ shown[j] = 1 => \A w \in carries : waitJob[w] # j
        /\ j \notin taken \/ j \in held => shown[j] = 0
        /\ j \in held => j \in taken
        /\ \A v, w \in carries : waitJob[v] = j /\ waitJob[w] = j => v = w
        /\ j \in store /\ j \in taken =>
              j \in held \/ shown[j] = 1 \/ \E w \in carries : waitJob[w] = j

(* A call that certainly covers j: it answered, or a settlement served it. *)
Answers(w, j) ==
    waitJob[w] = j /\ (answer[w] = "finished" \/ (call[w] = "waiting" /\ w \in served))

(* A withheld completion is suppressed until somebody else covers it.      *)
Reaching ==
    \A j \in settled \cap store :
        cause[j] # "teardown" /\ owner[j] \in Owners /\ scope[owner[j]] = "open"
        => j \in told \/ notice[j] # "none" \/ j \in suppressed \/ \E w \in Waits : Answers(w, j)

NInv == NoticesTypeOK /\ Announced /\ Calls /\ Noticed /\ Texts /\ Reaching
=============================================================================
