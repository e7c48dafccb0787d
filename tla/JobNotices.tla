----------------------------- MODULE JobNotices -----------------------------
(***************************************************************************)
(* The model's job tools and completion notices                            *)
(* (packages/jobs/tool-jobs/src/index.ts) over the job registry: the       *)
(* settlement listener, job_output, job_kill, and the notices queued in    *)
(* the owner's inbox.  Every wait is a job_output call of one agent.       *)
(*                                                                         *)
(* What is followed is one fact and one text per job: that the job has     *)
(* finished, and the output its first read after settlement consumes.  The *)
(* text is unread in the registry, held in a pending notice, carried by a  *)
(* call's result, or shown.  The inbox and the tool pipeline appear as     *)
(* what they do to notices and results.  A listener calls remove() only    *)
(* for a job whose id was handed to nobody, so the model's jobs leave with *)
(* their owner.                                                            *)
(***************************************************************************)
EXTENDS JobRegistry

VARIABLES
    killedByModel,          \* jobs whose settlement a job_kill result covers
    claims, suppressed,     \* releasedReads, as the set of claiming calls
    pending, inline, held,  \* pending notices; those carrying text; texts held
    notice,                 \* none, queued, logged, withdrawn, discarded
    call, steered, aborted, \* job_output calls; released by input; cancelled
    answer, carries,        \* what a result says; results carrying the text
    taken,                  \* jobs whose text was consumed from the registry
    told, shown             \* history: completions told; times a text was shown

toolVars == <<call, steered, aborted, answer, carries>>
noticeVars == <<killedByModel, claims, suppressed, pending, inline, held, notice>>
factVars == <<taken, told, shown>>
notVars == <<toolVars, noticeVars, factVars>>
allVars == <<vars, notVars>>

NInit ==
    /\ Init
    /\ killedByModel = {} /\ claims = {} /\ suppressed = {}
    /\ pending = {} /\ inline = {} /\ held = {}
    /\ notice = [j \in Jobs |-> "none"]
    /\ call = [w \in Waits |-> "idle"] /\ steered = {} /\ aborted = {}
    /\ answer = [w \in Waits |-> "none"] /\ carries = {}
    /\ taken = {} /\ told = {} /\ shown = [j \in Jobs |-> 0]

Claimants(j) == {w \in claims : waitJob[w] = j}

-----------------------------------------------------------------------------
(* deliverSettlement(): nobody is addressed on teardown, for an unowned    *)
(* job, or when no agent is registered for the owner any more, which may   *)
(* be so from the moment its scope unloads.                                *)
Addressable(j) == cause[j] # "teardown" /\ owner[j] \in Owners /\ scope[owner[j]] # "gone"

(* The notice leaves the text in the registry, carries it, or holds it for *)
(* job_output because the complete notice would not fit.                   *)
QueueNotice(j) ==
    /\ notice' = [notice EXCEPT ![j] = "queued"]
    /\ pending' = pending \cup {j}
    /\ \/ UNCHANGED <<inline, held, taken>>
       \/ /\ j \in store
          /\ taken' = taken \cup {j}
          /\ held' = IF j \in taken THEN held ELSE held \cup {j}
          /\ inline' \in {inline, inline \cup {j}}

Deliver(j) ==
    \/ Addressable(j) /\ QueueNotice(j)
    \/ /\ Addressable(j) => scope[owner[j]] = "unloading" \/ j \notin store
       /\ UNCHANGED <<notice, pending, inline, held, taken>>

(* A released read that has not committed is expected to carry it.         *)
Withheld(j) == Claimants(j) # {}

(* The subscription to `settled`, inside the announcement of settle().     *)
Settled(j) ==
    /\ SettleReleases(j)
    /\ killedByModel' = killedByModel \ {j}
    /\ told' = IF j \in killedByModel THEN told \cup {j} ELSE told
    /\ \/ /\ j \in killedByModel \/ resolvers[j] # {}
          /\ UNCHANGED <<suppressed, notice, pending, inline, held, taken>>
       \/ /\ ~(j \in killedByModel \/ resolvers[j] # {})
          /\ IF Withheld(j)
             THEN /\ suppressed' = suppressed \cup {j}
                  /\ UNCHANGED <<notice, pending, inline, held, taken>>
             ELSE Deliver(j) /\ UNCHANGED suppressed
    /\ UNCHANGED <<toolVars, claims, shown>>

(* ... and to `removed`. *)
Removed(t, j) ==
    /\ DropVictim(t, j)
    /\ killedByModel' = killedByModel \ {j} /\ pending' = pending \ {j}
    /\ held' = held \ {j}
    /\ UNCHANGED <<toolVars, claims, suppressed, inline, notice, factVars>>

-----------------------------------------------------------------------------
(* The inbox of the owner. *)

FaultInlineKept(j) == UNCHANGED <<pending, held>>

(* session/event: a logged notice keeps only a text it did not carry.      *)
SpendNotice(j) ==
    IF j \in inline \/ j \notin held
    THEN pending' = pending \ {j} /\ held' = held \ {j}
    ELSE UNCHANGED <<pending, held>>

Unfinished == {w \in Waits : call[w] \in {"waiting", "reading", "answered"}}

(* A step of the agent claims the notice and logs it as a user/message.    *)
NoticeLogged(j) ==
    /\ notice[j] = "queued" /\ Unfinished = {}
    /\ notice' = [notice EXCEPT ![j] = "logged"]
    /\ told' = told \cup {j}
    /\ shown' = IF j \in inline \cap held THEN [shown EXCEPT ![j] = @ + 1] ELSE shown
    /\ IF j \in pending THEN SpendNotice(j) ELSE UNCHANGED <<pending, held>>
    /\ UNCHANGED <<vars, toolVars, killedByModel, claims, suppressed, inline, taken>>

(* Its step is rejected or cancelled, or the inbox is cleared.             *)
NoticeDiscarded(j) ==
    /\ notice[j] = "queued"
    /\ notice' = [notice EXCEPT ![j] = "discarded"]
    /\ UNCHANGED <<vars, toolVars, killedByModel, claims, suppressed, pending, inline, held,
                   factVars>>

-----------------------------------------------------------------------------
(* job_kill and job_output. *)

ModelKills(j) ==
    /\ Kill(j)
    /\ killedByModel' = killedByModel \cup {j}
    /\ UNCHANGED <<toolVars, claims, suppressed, pending, inline, held, notice, factVars>>

(* job_output with wait: true and no user input pending.                   *)
OutputWaits(w, j) ==
    /\ Wait(w, j)
    /\ call' = [call EXCEPT ![w] = "waiting"]
    /\ UNCHANGED <<steered, aborted, answer, carries, noticeVars, factVars>>

(* job_output without a wait, or with input pending: the latter claims the *)
(* read, and the aborted signal rejects a wait on a live job at once.      *)
OutputReadsNow(w, j, claiming) ==
    /\ Callable
    /\ wait[w] = "idle" /\ j \in store
    /\ waitJob' = [waitJob EXCEPT ![w] = j]
    /\ wait' = [wait EXCEPT ![w] = IF claiming /\ MustWait(j) THEN "aborted" ELSE "returned"]
    /\ call' = [call EXCEPT ![w] = IF claiming THEN "waiting" ELSE "reading"]
    /\ steered' = IF claiming THEN steered \cup {w} ELSE steered
    /\ claims' = IF claiming THEN claims \cup {w} ELSE claims
    /\ UNCHANGED <<jobVars, prodVars, settled, resolvers, seen, served, tearVars, stack,
                   aborted, answer, carries, killedByModel, suppressed, pending, inline,
                   held, notice, factVars>>

(* checkInput(): user input for the current step ends the wait early.      *)
InputReleases(w) ==
    /\ Callable
    /\ call[w] = "waiting" /\ w \notin steered
    /\ steered' = steered \cup {w} /\ claims' = claims \cup {w}
    /\ IF wait[w] = "waiting" THEN LeaveWait(w, "aborted") ELSE UNCHANGED vars
    /\ UNCHANGED <<call, aborted, answer, carries, killedByModel, suppressed, pending, inline,
                   held, notice, factVars>>

(* The caller cancels its step: the signal of every unfinished call aborts.*)
CallsCancelled ==
    /\ Callable
    /\ Unfinished \ aborted # {}
    /\ aborted' = aborted \cup Unfinished
    /\ wait' = [w \in Waits |-> IF wait[w] = "waiting" THEN "aborted" ELSE wait[w]]
    /\ resolvers' = [j \in Jobs |-> {}]
    /\ UNCHANGED <<jobVars, prodVars, settled, waitJob, seen, served, tearVars, stack,
                   call, steered, answer, carries, noticeVars, factVars>>

FaultSuppressedKept(w, j) == suppressed

(* A released read that commits carries the settlement it suppressed.      *)
Committed(w, j) == IF w \in steered THEN suppressed \ {j} ELSE suppressed

(* The finally of execute() ends the claim.                                *)
EndClaim(w, j, left) ==
    /\ claims' = claims \ {w}
    /\ suppressed' = IF Claimants(j) = {w} THEN left \ {j} ELSE left

FaultClaimDropped(w, j, left) == FALSE

(* The last claim ends and no released read carried the settlement.        *)
Undelivered(w, j, left) == Claimants(j) = {w} /\ j \in left

AtRead(w) ==
    /\ stack = <<>>
    /\ \/ call[w] = "waiting" /\ wait[w] \in {"aborted", "returned"}
       \/ call[w] = "reading"

(* An aborted wait rejects unless it was this tool's own release.          *)
Rejected(w) == wait[w] = "aborted" /\ (w \in aborted \/ w \notin steered)

(* The wait was cancelled, or the job is gone: the call fails.             *)
OutputFails(w) ==
    LET j == waitJob[w] IN
    /\ AtRead(w) /\ (Rejected(w) \/ j \notin store)
    /\ call' = [call EXCEPT ![w] = "done"]
    /\ EndClaim(w, j, suppressed)
    /\ IF Undelivered(w, j, suppressed) THEN Deliver(j)
       ELSE UNCHANGED <<notice, pending, inline, held, taken>>
    /\ UNCHANGED <<vars, steered, aborted, answer, carries, killedByModel, told, shown>>

(* The read covers a pending notice, which is withdrawn if still queued.   *)
WithdrawNotice(j) ==
    notice' = IF j \in pending /\ notice[j] = "queued"
              THEN [notice EXCEPT ![j] = "withdrawn"] ELSE notice

(* The read: it consumes the text of a finished job, or takes the held one.*)
OutputReads(w) ==
    LET j == waitJob[w]
        finished == status[j] \in Terminal IN
    /\ AtRead(w) /\ ~Rejected(w) /\ j \in store
    /\ call' = [call EXCEPT ![w] = "answered"]
    /\ answer' = [answer EXCEPT ![w] = IF finished THEN "finished" ELSE "live"]
    /\ carries' = IF j \in held \/ (finished /\ j \notin taken) THEN carries \cup {w} ELSE carries
    /\ taken' = IF finished THEN taken \cup {j} ELSE taken
    /\ held' = held \ {j} /\ inline' = inline \ {j}
    /\ EndClaim(w, j, Committed(w, j))
    /\ IF Undelivered(w, j, Committed(w, j))
       THEN notice' = [notice EXCEPT ![j] = "queued"] /\ pending' = pending \cup {j}
       ELSE WithdrawNotice(j) /\ pending' = pending \ {j}
    /\ UNCHANGED <<vars, steered, aborted, killedByModel, told, shown>>

(* The tool pipeline commits the result, or replaces a cancelled success.  *)
ResultCommits(w) ==
    LET j == waitJob[w] IN
    /\ call[w] = "answered" /\ w \notin aborted
    /\ call' = [call EXCEPT ![w] = "done"]
    /\ told' = IF answer[w] = "finished" THEN told \cup {j} ELSE told
    /\ shown' = IF w \in carries THEN [shown EXCEPT ![j] = @ + 1] ELSE shown
    /\ carries' = carries \ {w}
    /\ UNCHANGED <<vars, steered, aborted, answer, noticeVars, taken>>

ResultReplaced(w) ==
    /\ call[w] = "answered" /\ w \in aborted
    /\ call' = [call EXCEPT ![w] = "done"]
    /\ UNCHANGED <<vars, steered, aborted, answer, carries, noticeVars, factVars>>

-----------------------------------------------------------------------------
(* Steps of the registry that the plugin does not observe.  The teardown   *)
(* of the whole service, with which the plugin unloads, is left out.       *)
RegistryAlone ==
    /\ \/ \E j \in Jobs, o \in Buckets : Start(j, o)
       \/ \E j \in Jobs : Kill(j) \/ ProducerReports(j) \/ ProducerSettles(j)
       \/ \E w \in Waits : LeaveWait(w, "timedout") \/ WaitReturns(w)
       \/ \E o \in Owners :
             \/ StarterThrows(o) \/ CloseScope(o) \/ AllCancelled(o)
             \/ BeginDrop(o) \/ AllDropped(o)
             \/ \E j \in Jobs : CancelVictim(o, j)
    /\ UNCHANGED notVars

NNext ==
    \/ RegistryAlone
    \/ \E j \in Jobs : Settled(j) \/ NoticeLogged(j) \/ NoticeDiscarded(j) \/ ModelKills(j)
    \/ \E o \in Owners, j \in Jobs : Removed(o, j)
    \/ \E w \in Waits, j \in Jobs : OutputWaits(w, j)
                                    \/ \E c \in BOOLEAN : OutputReadsNow(w, j, c)
    \/ \E w \in Waits : InputReleases(w) \/ OutputFails(w) \/ OutputReads(w)
                        \/ ResultCommits(w) \/ ResultReplaced(w)
    \/ CallsCancelled

NSpec == NInit /\ [][NNext]_allVars
=============================================================================
