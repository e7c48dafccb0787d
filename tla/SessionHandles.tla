--------------------------- MODULE SessionHandles ---------------------------
(***************************************************************************)
(* The storage runtime of packages/session/session-persistence-jsonl for   *)
(* one stored session: its write handles (storage.ts), the write claim of  *)
(* each process, the kernel lock on the session directory (lease.ts) and   *)
(* the log file they publish, extend and repair (index.ts).                *)
(*                                                                         *)
(* A handle serializes its mutations on a promise chain.  `chain` holds    *)
(* the queued turns, the first of which has run up to the await named by   *)
(* `stage`; an action is what happens from one await to the next.  Events  *)
(* are their sequence numbers.  A process may crash at any await and the   *)
(* file then holds whatever a write in flight can have left of its batch.  *)
(* The file's content is that of synced writes: an append is synced before *)
(* it is acknowledged, and rolled back when it fails.                      *)
(***************************************************************************)
EXTENDS Naturals, Sequences

CONSTANTS
    Handles,      \* write handles, each constructed at most once
    Procs,        \* processes that mount the backend on the same root
    Flushers,     \* callers of session/flush
    Nobody,       \* absence of a handle or a process
    Encodings,    \* physical encodings to consider, of "zstd" and "none"
    MaxSeq,       \* bound: last sequence number of the session
    MaxFaults,    \* bound: failing file operations
    MaxCrashes,   \* bound: crashing processes
    LateDrain,    \* whether a drain may begin after close() has looked for the last time
    DeleteLive    \* whether delete() may remove the directory of a session that some
                  \* process claims: another process, or its own after the check

ASSUME HandleConstants ==
    /\ Nobody \notin Handles \cup Procs
    /\ Flushers \cap {"append", "drain"} = {}
    /\ Encodings \subseteq {"zstd", "none"}
    /\ MaxSeq \in Nat /\ MaxFaults \in Nat /\ MaxCrashes \in Nat
    /\ LateDrain \in BOOLEAN /\ DeleteLive \in BOOLEAN

VARIABLES
    exists, log, tail, torn, encoding,   \* the file: committed, recoverable, torn bytes
    lock,                                \* holder of the kernel lock on the directory
    claim, born, deleting,               \* writers map of each process; create(); delete()
    phase, home, held, materialized,     \* per handle: life cycle, process, lease, artifact
    cursor, tornSeen, recovered,         \* StorageHandleState
    live, pub,                           \* the session: announced, last event published
    buffer, timer, paused, drain,        \* routed live events and their single drain
    chain, stage, batch, waits,          \* mutation chain; turns a close still awaits
    asked, on, mark, late,               \* per caller of session/flush
    acked, orphans,                      \* history: events acknowledged; handles whose
                                         \* locked file a delete() has removed
    faults, crashes                      \* the bounds' counters

fileVars == <<exists, log, tail, torn, encoding>>
trackVars == <<claim, born, deleting>>
lifeVars == <<phase, home>>
stateVars == <<materialized, cursor, tornSeen, recovered>>
liveVars == <<live, pub>>
bufVars == <<buffer, timer, paused, drain>>
chainVars == <<chain, stage, batch, waits>>
flushVars == <<asked, on, mark, late>>
countVars == <<acked, orphans, faults, crashes>>
vars == <<fileVars, lock, trackVars, lifeVars, held, stateVars, liveVars,
          bufVars, chainVars, flushVars, countVars>>

Phases == {"unused", "claimed", "leased", "open", "draining", "settling",
           "finishing", "releasing", "closed", "dead"}
Stages == {"idle", "lease", "truncate", "recover", "write", "header"}
Ops == {"append", "drain"} \cup Flushers

Numbers(a, b) == [i \in 1..((b + 1) - a) |-> (a - 1) + i]
Contiguous(s) == \A i \in 1..Len(s) : s[i] = i

(* The logical log of a read: committed records and, of a torn last frame, *)
(* the records that are complete (readZstdPrefix, scanLog).                *)
Stored == log \o tail

(* In the middle of a change of the file. *)
Mutating(h) == stage[h] \in {"truncate", "recover", "write", "header"}

Init ==
    /\ exists = FALSE /\ log = <<>> /\ tail = <<>> /\ torn = FALSE
    /\ encoding \in Encodings
    /\ lock = Nobody
    /\ claim = [p \in Procs |-> Nobody] /\ born = FALSE /\ deleting = {}
    /\ phase = [h \in Handles |-> "unused"] /\ home = [h \in Handles |-> Nobody]
    /\ held = [h \in Handles |-> FALSE] /\ materialized = [h \in Handles |-> FALSE]
    /\ cursor = [h \in Handles |-> 0] /\ tornSeen = [h \in Handles |-> FALSE]
    /\ recovered = [h \in Handles |-> <<>>]
    /\ live = [h \in Handles |-> FALSE] /\ pub = [h \in Handles |-> 0]
    /\ buffer = [h \in Handles |-> <<>>] /\ timer = [h \in Handles |-> FALSE]
    /\ paused = [h \in Handles |-> FALSE] /\ drain = [h \in Handles |-> "idle"]
    /\ chain = [h \in Handles |-> <<>>] /\ stage = [h \in Handles |-> "idle"]
    /\ batch = [h \in Handles |-> <<>>] /\ waits = [h \in Handles |-> 0]
    /\ asked = [f \in Flushers |-> "idle"] /\ on = [f \in Flushers |-> Nobody]
    /\ mark = [f \in Flushers |-> 0] /\ late = [f \in Flushers |-> FALSE]
    /\ acked = 0 /\ orphans = {} /\ faults = 0 /\ crashes = 0

-----------------------------------------------------------------------------
(* Ownership: create(), open('write'), delete(). *)

(* create(): an id is minted once, so the directory scan that precedes     *)
(* registerCreated() finds nothing; no lock before the first log bytes.    *)
Create(h, p) ==
    /\ phase[h] = "unused" /\ claim[p] = Nobody /\ ~born
    /\ claim' = [claim EXCEPT ![p] = h] /\ born' = TRUE
    /\ phase' = [phase EXCEPT ![h] = "open"] /\ home' = [home EXCEPT ![h] = p]
    /\ UNCHANGED <<fileVars, lock, deleting, held, stateVars, liveVars, bufVars,
                   chainVars, flushVars, countVars>>

ClaimWrite(h, p) ==
    /\ phase[h] = "unused" /\ claim[p] = Nobody /\ born
    /\ claim' = [claim EXCEPT ![p] = h]
    /\ phase' = [phase EXCEPT ![h] = "claimed"] /\ home' = [home EXCEPT ![h] = p]
    /\ UNCHANGED <<fileVars, lock, born, deleting, held, stateVars, liveVars,
                   bufVars, chainVars, flushVars, countVars>>

FaultLockNotTried(h) == TRUE

(* flock(LOCK_EX | LOCK_NB) on the file at the lock path. *)
Lockable(h) == lock = Nobody

AcquireLease(h) ==
    /\ phase[h] = "claimed" /\ exists /\ Lockable(h)
    /\ lock' = h /\ held' = [held EXCEPT ![h] = TRUE]
    /\ phase' = [phase EXCEPT ![h] = "leased"]
    /\ UNCHANGED <<fileVars, trackVars, home, stateVars, liveVars, bufVars,
                   chainVars, flushVars, countVars>>

(* requireStoredLog() under the lock; the recovered records count already. *)
ReadStored(h) ==
    /\ phase[h] = "leased" /\ exists /\ Contiguous(Stored)
    /\ phase' = [phase EXCEPT ![h] = "open"]
    /\ materialized' = [materialized EXCEPT ![h] = TRUE]
    /\ cursor' = [cursor EXCEPT ![h] = Len(Stored)]
    /\ pub' = [pub EXCEPT ![h] = Len(Stored)]
    /\ tornSeen' = [tornSeen EXCEPT ![h] = torn]
    /\ recovered' = [recovered EXCEPT ![h] = tail]
    /\ UNCHANGED <<fileVars, lock, trackVars, home, held, live, bufVars,
                   chainVars, flushVars, countVars>>

FaultClaimKept(h) == UNCHANGED claim

(* tracker.releaseClaim(), tracker.release(): the writers map forgets it.  *)
ForgetClaim(h) == claim' = [claim EXCEPT ![home[h]] = Nobody]

(* Not found, contention, corruption or the caller's abort: the lock and   *)
(* the claim are given back.                                               *)
OpenFails(h) ==
    /\ phase[h] \in {"claimed", "leased"}
    /\ lock' = IF lock = h THEN Nobody ELSE lock
    /\ ForgetClaim(h) /\ orphans' = orphans \ {h}
    /\ held' = [held EXCEPT ![h] = FALSE]
    /\ phase' = [phase EXCEPT ![h] = "unused"] /\ home' = [home EXCEPT ![h] = Nobody]
    /\ UNCHANGED <<fileVars, born, deleting, stateVars, liveVars, bufVars,
                   chainVars, flushVars, acked, faults, crashes>>

(* delete(): the writer check, then (after findLog) the removal of the     *)
(* directory with the lock file in it, whoever has claimed it meanwhile.   *)
CheckDelete(p) ==
    /\ claim[p] = Nobody /\ exists /\ p \notin deleting
    /\ deleting' = deleting \cup {p}
    /\ UNCHANGED <<fileVars, lock, claim, born, lifeVars, held, stateVars, liveVars,
                   bufVars, chainVars, flushVars, countVars>>

RemoveDirectory(p) ==
    /\ p \in deleting
    /\ DeleteLive \/ \A q \in Procs : claim[q] = Nobody
    /\ deleting' = deleting \ {p}
    /\ exists' = FALSE /\ log' = <<>> /\ tail' = <<>> /\ torn' = FALSE
    /\ lock' = Nobody /\ orphans' = orphans \cup ({lock} \ {Nobody}) /\ acked' = 0
    /\ asked' = [f \in Flushers |-> IF asked[f] = "done" THEN "idle" ELSE asked[f]]
    /\ UNCHANGED <<encoding, claim, born, lifeVars, held, stateVars, liveVars,
                   bufVars, chainVars, on, mark, late, faults, crashes>>

-----------------------------------------------------------------------------
(* The session writes: an explicit batch before it is announced, then its  *)
(* live events.                                                            *)

AppendBatch(h) ==
    /\ phase[h] = "open" /\ ~live[h] /\ chain[h] = <<>>
    /\ \E n \in (pub[h] + 1)..MaxSeq :
          /\ batch' = [batch EXCEPT ![h] = Numbers(pub[h] + 1, n)]
          /\ pub' = [pub EXCEPT ![h] = n]
    /\ chain' = [chain EXCEPT ![h] = <<"append">>]
    /\ UNCHANGED <<fileVars, lock, trackVars, lifeVars, held, stateVars, live,
                   bufVars, stage, waits, flushVars, countVars>>

Announce(h) ==
    /\ phase[h] = "open" /\ ~live[h] /\ chain[h] = <<>>
    /\ live' = [live EXCEPT ![h] = TRUE]
    /\ UNCHANGED <<fileVars, lock, trackVars, lifeVars, held, stateVars, pub,
                   bufVars, chainVars, flushVars, countVars>>

(* The writers map still routes the session's events to the handle. *)
Routed(h) == live[h] /\ home[h] \in Procs /\ claim[home[h]] = h

FaultDrainCarries(h) == ~timer[h] /\ ~paused[h] /\ drain[h] = "idle"

ArmsTimer(h) == ~timer[h] /\ ~paused[h]

(* session/event: enqueueLive(); producers may publish while close waits.  *)
Publish(h) ==
    /\ Routed(h) /\ pub[h] < MaxSeq
    /\ pub' = [pub EXCEPT ![h] = @ + 1]
    /\ buffer' = [buffer EXCEPT ![h] = Append(@, pub[h] + 1)]
    /\ timer' = [timer EXCEPT ![h] = @ \/ ArmsTimer(h)]
    /\ UNCHANGED <<fileVars, lock, trackVars, lifeVars, held, stateVars, live,
                   paused, drain, chainVars, flushVars, countVars>>

(* drainLive(): join the drain there is, or run drainBuffered() up to its  *)
(* first await; with an empty buffer it has returned by then.              *)
DrainLive(h) ==
    IF drain[h] # "idle" THEN UNCHANGED <<timer, paused, drain, chain>>
    ELSE /\ timer' = [timer EXCEPT ![h] = FALSE]
         /\ paused' = [paused EXCEPT ![h] = FALSE]
         /\ drain' = [drain EXCEPT ![h] = IF buffer[h] = <<>> THEN "settled" ELSE "turn"]
         /\ chain' = [chain EXCEPT ![h] = IF buffer[h] = <<>> THEN @
                                         ELSE Append(@, "drain")]

(* A drain of an empty buffer changes nothing; another one, begun after    *)
(* the last pass of close(), writes without the lock.  The code does not   *)
(* look: only LateDrain = FALSE keeps that drain out.                      *)
MayDrain(h) ==
    \/ phase[h] \in {"open", "draining", "settling"} \/ LateDrain
    \/ drain[h] # "idle" \/ buffer[h] = <<>>

(* The batching deadline, a macrotask: every settled promise has been      *)
(* noticed before it.                                                      *)
TimerFires(h) ==
    /\ timer[h] /\ drain[h] \in {"idle", "turn"} /\ MayDrain(h)
    /\ IF drain[h] = "idle" THEN DrainLive(h)
       ELSE timer' = [timer EXCEPT ![h] = FALSE] /\ UNCHANGED <<paused, drain, chain>>
    /\ UNCHANGED <<fileVars, lock, trackVars, lifeVars, held, stateVars, liveVars,
                   buffer, stage, batch, waits, flushVars, countVars>>

FaultDrainNeverFails(h) == "drained"
FaultJoinersForgotten(h) == {}

(* What a drain's joiners see of it. *)
JoinedOutcome(h) == IF drain[h] = "settled" THEN "drained" ELSE "failed"

JoinersOf(h) == {f \in Flushers : asked[f] = "joined" /\ on[f] = h}

(* The finally of drainLive(); its joiners resume, close() among them.     *)
DrainReturns(h) ==
    /\ drain[h] \in {"settled", "failed"}
    /\ drain' = [drain EXCEPT ![h] = "idle"]
    /\ asked' = [f \in Flushers |-> IF f \in JoinersOf(h) THEN JoinedOutcome(h) ELSE asked[f]]
    /\ IF phase[h] = "draining"
       THEN /\ phase' = [phase EXCEPT ![h] = IF drain[h] = "settled" THEN "settling"
                                             ELSE "finishing"]
            /\ waits' = [waits EXCEPT ![h] = Len(chain[h])]
       ELSE UNCHANGED <<phase, waits>>
    /\ UNCHANGED <<fileVars, lock, trackVars, home, held, stateVars, liveVars, buffer,
                   timer, paused, chain, stage, batch, on, mark, late, countVars>>

-----------------------------------------------------------------------------
(* session/flush: await drainLive(), then await flush(). *)

(* `mark` is the last event the caller must find durable: everything       *)
(* published, unless the session only holds what it was opened with.  It   *)
(* comes late when it joins a drain that has already looked at the buffer. *)
FlushCall(f, h) ==
    /\ asked[f] \in {"idle", "failed"} \/ (asked[f] = "done" /\ pub[h] > mark[f])
    /\ Routed(h) /\ MayDrain(h) /\ DrainLive(h)
    /\ asked' = [asked EXCEPT ![f] = "joined"] /\ on' = [on EXCEPT ![f] = h]
    /\ late' = [late EXCEPT ![f] = drain[h] = "settled"]
    /\ mark' = [mark EXCEPT ![f] =
                   IF recovered[h] # <<>> /\ pub[h] = cursor[h] THEN 0 ELSE pub[h]]
    /\ UNCHANGED <<fileVars, lock, trackVars, lifeVars, held, stateVars, liveVars,
                   buffer, stage, batch, waits, countVars>>

FlushQueues(f) ==
    /\ asked[f] = "drained"
    /\ IF phase[on[f]] = "open"
       THEN /\ asked' = [asked EXCEPT ![f] = "queued"]
            /\ chain' = [chain EXCEPT ![on[f]] = Append(@, f)]
       ELSE asked' = [asked EXCEPT ![f] = "failed"] /\ UNCHANGED chain
    /\ UNCHANGED <<fileVars, lock, trackVars, lifeVars, held, stateVars, liveVars,
                   bufVars, stage, batch, waits, on, mark, late, countVars>>

-----------------------------------------------------------------------------
(* The mutation chain. *)

Turn(h) == Head(chain[h])

(* close() awaited the chain before this turn was queued and resumes first. *)
CloseResumes(h) == phase[h] \in {"settling", "finishing"} /\ waits[h] = 0

Ready(h) == stage[h] = "idle" /\ chain[h] # <<>> /\ ~CloseResumes(h)

FaultChainPoisoned(n) == n

Awaited(n) == IF n = 0 THEN 0 ELSE n - 1

(* The turn at the head ends; `rest` is the chain after it. *)
EndTurn(h, rest) ==
    /\ chain' = [chain EXCEPT ![h] = rest]
    /\ stage' = [stage EXCEPT ![h] = "idle"] /\ batch' = [batch EXCEPT ![h] = <<>>]
    /\ waits' = [waits EXCEPT ![h] = Awaited(@)]

Answer(h, outcome) ==
    asked' = IF Turn(h) \in Flushers THEN [asked EXCEPT ![Turn(h)] = outcome] ELSE asked

(* It resolves.  A drain looks at the buffer again: drainBuffered()'s loop. *)
Resolve(h) ==
    /\ EndTurn(h, Tail(chain[h]) \o (IF Turn(h) = "drain" /\ buffer[h] # <<>>
                                     THEN <<"drain">> ELSE <<>>))
    /\ drain' = [drain EXCEPT ![h] = IF Turn(h) = "drain" /\ buffer[h] = <<>>
                                     THEN "settled" ELSE @]
    /\ Answer(h, "done")

(* What a failed drain keeps. *)
Retained(h) == batch[h] \o buffer[h]

(* It rejects: a drain keeps its batch in order and goes quiet, the caller *)
(* of an append still owns its batch.                                      *)
Reject(h) ==
    /\ EndTurn(h, Tail(chain[h])) /\ Answer(h, "failed")
    /\ pub' = [pub EXCEPT ![h] = IF Turn(h) = "append" THEN cursor[h] ELSE @]
    /\ IF Turn(h) = "drain"
       THEN /\ buffer' = [buffer EXCEPT ![h] = Retained(h)]
            /\ paused' = [paused EXCEPT ![h] = TRUE]
            /\ drain' = [drain EXCEPT ![h] = "failed"]
       ELSE UNCHANGED <<buffer, paused, drain>>
    /\ UNCHANGED <<timer, live, on, mark, late>>

(* assertOpen() again when an explicit turn is reached. *)
TurnRefused(h) ==
    /\ Ready(h) /\ Turn(h) # "drain" /\ phase[h] # "open" /\ Reject(h)
    /\ UNCHANGED <<fileVars, lock, trackVars, lifeVars, held, stateVars, countVars>>

(* flush() of a materialized session: appends are durable on resolution.   *)
FlushNoop(h) ==
    /\ Ready(h) /\ Turn(h) \in Flushers /\ phase[h] = "open" /\ materialized[h]
    /\ Resolve(h)
    /\ UNCHANGED <<fileVars, lock, trackVars, lifeVars, held, stateVars, liveVars,
                   buffer, timer, paused, on, mark, late, countVars>>

(* The turn runs up to ensureLease(); a drain takes the whole buffer.      *)
TurnStarts(h) ==
    /\ Ready(h)
    /\ \/ Turn(h) = "drain"
       \/ phase[h] = "open" /\ (Turn(h) = "append" \/ ~materialized[h])
    /\ stage' = [stage EXCEPT ![h] = "lease"]
    /\ IF Turn(h) = "drain"
       THEN batch' = [batch EXCEPT ![h] = buffer[h]] /\ buffer' = [buffer EXCEPT ![h] = <<>>]
       ELSE UNCHANGED <<batch, buffer>>
    /\ UNCHANGED <<fileVars, lock, trackVars, lifeVars, held, stateVars, liveVars,
                   timer, paused, drain, chain, waits, flushVars, countVars>>

FaultTailForgotten(isTorn, tailSeen) == IF isTorn THEN "truncate" ELSE "write"

(* What persistContiguous() does next: repair first, each step at most     *)
(* until it lands.                                                         *)
NextStage(isTorn, tailSeen) ==
    IF isTorn THEN "truncate" ELSE IF tailSeen # <<>> THEN "recover" ELSE "write"

(* ensureLease(), then assertContiguous(). *)
Ensured(h) ==
    /\ stage[h] = "lease" /\ (held[h] \/ Lockable(h))
    /\ Turn(h) \notin Flushers => batch[h][1] = cursor[h] + 1
    /\ lock' = IF held[h] THEN lock ELSE h
    /\ held' = [held EXCEPT ![h] = TRUE]
    /\ stage' = [stage EXCEPT ![h] = IF Turn(h) \in Flushers THEN "header"
                                     ELSE NextStage(tornSeen[h], recovered[h])]
    /\ UNCHANGED <<fileVars, trackVars, lifeVars, stateVars, liveVars, bufVars,
                   chain, batch, waits, flushVars, countVars>>

(* Contention, or the lock file cannot be created. *)
LeaseFails(h) ==
    /\ stage[h] = "lease" /\ ~held[h]
    /\ Lockable(h) => faults < MaxFaults
    /\ faults' = IF Lockable(h) THEN faults + 1 ELSE faults
    /\ Reject(h)
    /\ UNCHANGED <<fileVars, lock, trackVars, lifeVars, held, stateVars, acked,
                   orphans, crashes>>

Truncated(h) ==
    /\ stage[h] = "truncate" /\ exists
    /\ tail' = <<>> /\ torn' = FALSE
    /\ tornSeen' = [tornSeen EXCEPT ![h] = FALSE]
    /\ stage' = [stage EXCEPT ![h] = NextStage(FALSE, recovered[h])]
    /\ UNCHANGED <<exists, log, encoding, lock, trackVars, lifeVars, held, materialized,
                   cursor, recovered, liveVars, bufVars, chain, batch, waits,
                   flushVars, countVars>>

Rewritten(h) ==
    /\ stage[h] = "recover" /\ exists
    /\ log' = log \o recovered[h]
    /\ recovered' = [recovered EXCEPT ![h] = <<>>]
    /\ stage' = [stage EXCEPT ![h] = "write"]
    /\ UNCHANGED <<exists, tail, torn, encoding, lock, trackVars, lifeVars, held,
                   materialized, cursor, tornSeen, liveVars, bufVars, chain, batch,
                   waits, flushVars, countVars>>

(* appendLines() extends the file there is; materialize() publishes one    *)
(* where there is none, with the first batch in it.                        *)
PathFits(h) == materialized[h] = exists

Written(h) ==
    /\ stage[h] = "write" /\ PathFits(h)
    /\ exists' = TRUE /\ log' = log \o batch[h]
    /\ materialized' = [materialized EXCEPT ![h] = TRUE]
    /\ cursor' = [cursor EXCEPT ![h] = @ + Len(batch[h])]
    /\ acked' = cursor[h] + Len(batch[h])
    /\ Resolve(h)
    /\ UNCHANGED <<tail, torn, encoding, lock, trackVars, lifeVars, held, tornSeen,
                   recovered, liveVars, buffer, timer, paused, on, mark, late,
                   orphans, faults, crashes>>

HeaderWritten(h) ==
    /\ stage[h] = "header" /\ ~exists
    /\ exists' = TRUE /\ log' = <<>>
    /\ materialized' = [materialized EXCEPT ![h] = TRUE]
    /\ Resolve(h)
    /\ UNCHANGED <<tail, torn, encoding, lock, trackVars, lifeVars, held, cursor,
                   tornSeen, recovered, liveVars, buffer, timer, paused, on, mark,
                   late, countVars>>

(* rejectExistingLog() refuses to publish twice; nothing is left to append *)
(* to once the directory is gone.                                          *)
PathFails(h) ==
    /\ Mutating(h) /\ ~PathFits(h) /\ Reject(h)
    /\ UNCHANGED <<fileVars, lock, trackVars, lifeVars, held, stateVars, countVars>>

-----------------------------------------------------------------------------
(* Failing file operations, crashes. *)

File == [exists |-> exists, log |-> log, tail |-> tail, torn |-> torn]
Untorn == [File EXCEPT !.tail = <<>>, !.torn = FALSE]
Published(h) == [File EXCEPT !.exists = TRUE, !.log = batch[h]]

(* A step that fails: truncated but not synced, published but its          *)
(* directory not synced, or no change; appendLines() rolls itself back.    *)
FailedFiles(h) ==
    {File} \cup (CASE stage[h] = "truncate" -> {Untorn}
                   [] stage[h] \in {"write", "header"} /\ ~exists -> {Published(h)}
                   [] OTHER -> {})

(* What an append cut short by a crash leaves: whole lines, or a frame of  *)
(* which the complete records can still be recovered.                      *)
CutFrame(s) == {[File EXCEPT !.tail = SubSeq(s, 1, k), !.torn = TRUE] : k \in 0..Len(s)}

CutLines(s, partial) == {[File EXCEPT !.log = log \o SubSeq(s, 1, k), !.torn = partial] :
                            k \in 0..(Len(s) - 1)}

CutAppends(s) ==
    {[File EXCEPT !.log = log \o s]} \cup
    (IF encoding = "zstd" THEN CutFrame(s) ELSE CutLines(s, TRUE) \cup CutLines(s, FALSE))

CrashFiles(h) ==
    FailedFiles(h) \cup (CASE stage[h] = "recover" -> CutAppends(recovered[h])
                           [] stage[h] = "write" /\ exists -> CutAppends(batch[h])
                           [] OTHER -> {})

SetFile(f) == exists' = f.exists /\ log' = f.log /\ tail' = f.tail /\ torn' = f.torn

IOFails(h) ==
    /\ Mutating(h) /\ PathFits(h) /\ faults < MaxFaults
    /\ \E f \in FailedFiles(h) : SetFile(f)
    /\ faults' = faults + 1
    /\ Reject(h)
    /\ UNCHANGED <<encoding, lock, trackVars, lifeVars, held, stateVars, acked,
                   orphans, crashes>>

Of(p) == {h \in Handles : home[h] = p}
Lost(p, f, dflt) == [h \in Handles |-> IF h \in Of(p) THEN dflt ELSE f[h]]

(* The process dies: the kernel drops its lock, memory is gone.            *)
Crash(p) ==
    /\ crashes < MaxCrashes /\ crashes' = crashes + 1
    /\ \E h \in Of(p) : phase[h] \notin {"closed", "dead"}
    /\ \E f \in UNION ({{File}} \cup {CrashFiles(h) : h \in {g \in Of(p) : Mutating(g) /\ PathFits(g)}}) :
          SetFile(f)
    /\ lock' = IF lock \in Of(p) THEN Nobody ELSE lock
    /\ claim' = [claim EXCEPT ![p] = Nobody] /\ deleting' = deleting \ {p}
    /\ phase' = Lost(p, phase, "dead") /\ held' = Lost(p, held, FALSE)
    /\ materialized' = Lost(p, materialized, FALSE) /\ cursor' = Lost(p, cursor, 0)
    /\ tornSeen' = Lost(p, tornSeen, FALSE) /\ recovered' = Lost(p, recovered, <<>>)
    /\ live' = Lost(p, live, FALSE) /\ pub' = Lost(p, pub, 0)
    /\ buffer' = Lost(p, buffer, <<>>) /\ timer' = Lost(p, timer, FALSE)
    /\ paused' = Lost(p, paused, FALSE) /\ drain' = Lost(p, drain, "idle")
    /\ chain' = Lost(p, chain, <<>>) /\ stage' = Lost(p, stage, "idle")
    /\ batch' = Lost(p, batch, <<>>) /\ waits' = Lost(p, waits, 0)
    /\ asked' = [f \in Flushers |-> IF on[f] \in Of(p) /\ asked[f] # "done" THEN "idle"
                                     ELSE asked[f]]
    /\ UNCHANGED <<encoding, born, home, on, mark, late, acked, orphans, faults>>

-----------------------------------------------------------------------------
(* close(): drain until a pass leaves the buffer empty, await the chain,   *)
(* release the lock and the claim.                                         *)

Close(h) ==
    /\ phase[h] = "open"
    /\ phase' = [phase EXCEPT ![h] = "draining"]
    /\ DrainLive(h)
    /\ UNCHANGED <<fileVars, lock, trackVars, home, held, stateVars, liveVars, buffer,
                   stage, batch, waits, flushVars, countVars>>

SettlePass(h) ==
    /\ phase[h] = "settling" /\ waits[h] = 0
    /\ IF buffer[h] = <<>>
       THEN /\ phase' = [phase EXCEPT ![h] = "finishing"]
            /\ waits' = [waits EXCEPT ![h] = Len(chain[h])]
            /\ UNCHANGED <<timer, paused, drain, chain>>
       ELSE /\ phase' = [phase EXCEPT ![h] = "draining"]
            /\ DrainLive(h) /\ UNCHANGED waits
    /\ UNCHANGED <<fileVars, lock, trackVars, home, held, stateVars, liveVars, buffer,
                   stage, batch, flushVars, countVars>>

FinishPass(h) ==
    /\ phase[h] = "finishing" /\ waits[h] = 0
    /\ phase' = [phase EXCEPT ![h] = "releasing"]
    /\ lock' = IF lock = h THEN Nobody ELSE lock
    /\ UNCHANGED <<fileVars, trackVars, home, held, stateVars, liveVars, bufVars,
                   chainVars, flushVars, countVars>>

(* releaseHandle(); the handle still believes in its lease. *)
Release(h) ==
    /\ phase[h] = "releasing"
    /\ phase' = [phase EXCEPT ![h] = "closed"]
    /\ ForgetClaim(h)
    /\ UNCHANGED <<fileVars, lock, born, deleting, home, held, stateVars, liveVars,
                   bufVars, chainVars, flushVars, countVars>>

-----------------------------------------------------------------------------
TurnStep(h) ==
    \/ TurnRefused(h) \/ FlushNoop(h) \/ TurnStarts(h) \/ Ensured(h) \/ LeaseFails(h)
    \/ Truncated(h) \/ Rewritten(h) \/ Written(h) \/ HeaderWritten(h) \/ PathFails(h)

CloseStep(h) == SettlePass(h) \/ FinishPass(h) \/ Release(h)

Next ==
    \/ \E h \in Handles :
          \/ DrainReturns(h) \/ TurnStep(h) \/ CloseStep(h)
          \/ ReadStored(h) \/ OpenFails(h) \/ AcquireLease(h)
          \/ AppendBatch(h) \/ Announce(h) \/ Publish(h) \/ TimerFires(h)
          \/ IOFails(h) \/ Close(h)
          \/ \E p \in Procs : Create(h, p) \/ ClaimWrite(h, p)
          \/ \E f \in Flushers : FlushCall(f, h)
    \/ \E f \in Flushers : FlushQueues(f)
    \/ \E p \in Procs : CheckDelete(p) \/ RemoveDirectory(p) \/ Crash(p)

Spec == Init /\ [][Next]_vars

(* The event loop runs every continuation that is due and every file       *)
(* operation settles; no caller has to come back.                          *)
FairSpec ==
    /\ Spec
    /\ \A h \in Handles : WF_vars(DrainReturns(h)) /\ WF_vars(TurnStep(h)) /\ WF_vars(CloseStep(h))
    /\ \A f \in Flushers : WF_vars(FlushQueues(f))
=============================================================================
