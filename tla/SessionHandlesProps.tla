------------------------ MODULE SessionHandlesProps ------------------------
(***************************************************************************)
(* What the storage runtime promises the session, its flush callers and    *)
(* the other processes on the same root.                                   *)
(***************************************************************************)
EXTENDS SessionHandles, FiniteSets

(* The types of the runtime's state; and a claim in a process's writers    *)
(* map is of one of its own handles, from create() or the start of open()  *)
(* until the open fails, close() ends or the process dies.                 *)
TypeOK ==
    /\ exists \in BOOLEAN /\ log \in Seq(1..MaxSeq) /\ tail \in Seq(1..MaxSeq)
    /\ torn \in BOOLEAN /\ encoding \in Encodings
    /\ lock \in Handles \cup {Nobody}
    /\ claim \in [Procs -> Handles \cup {Nobody}] /\ born \in BOOLEAN /\ deleting \subseteq Procs
    /\ phase \in [Handles -> Phases] /\ home \in [Handles -> Procs \cup {Nobody}]
    /\ \A p \in Procs : claim[p] # Nobody =>
          home[claim[p]] = p /\ phase[claim[p]] \notin {"unused", "closed", "dead"}
    /\ held \in [Handles -> BOOLEAN] /\ materialized \in [Handles -> BOOLEAN]
    /\ cursor \in [Handles -> Nat] /\ tornSeen \in [Handles -> BOOLEAN]
    /\ recovered \in [Handles -> Seq(1..MaxSeq)]
    /\ live \in [Handles -> BOOLEAN] /\ pub \in [Handles -> Nat]
    /\ buffer \in [Handles -> Seq(1..MaxSeq)] /\ timer \in [Handles -> BOOLEAN]
    /\ paused \in [Handles -> BOOLEAN]
    /\ drain \in [Handles -> {"idle", "turn", "settled", "failed"}]
    /\ chain \in [Handles -> Seq(Ops)] /\ stage \in [Handles -> Stages]
    /\ batch \in [Handles -> Seq(1..MaxSeq)] /\ waits \in [Handles -> Nat]
    /\ asked \in [Flushers -> {"idle", "joined", "drained", "queued", "failed", "done"}]
    /\ on \in [Flushers -> Handles \cup {Nobody}]
    /\ mark \in [Flushers -> Nat] /\ late \in [Flushers -> BOOLEAN]
    /\ acked \in Nat /\ orphans \subseteq Handles /\ faults \in 0..MaxFaults /\ crashes \in 0..MaxCrashes

(* From create() or open() until close() has let go of the lock.           *)
Serving == {"open", "draining", "settling", "finishing"}

(* Only the holder of the kernel lock changes a stored log, from the claim *)
(* of an open or the first write of a created session until close()        *)
(* releases it: across processes, failing drains and crashes, beside late  *)
(* drains of closed handles and deletes of claimed sessions.  A handle     *)
(* whose locked file was deleted has nothing left to exclude others with.  *)
OwnedWrites ==
    \A h \in Handles : Mutating(h) /\ phase[h] \in Serving /\ h \notin orphans => lock = h

Working == {"open", "draining", "settling", "finishing", "releasing", "closed"}

Placed(h) == phase[h] \in Working => batch[h] \o buffer[h] = Numbers(cursor[h] + 1, pub[h])

Awake(h) ==
    timer[h] \/ paused[h] \/ drain[h] = "turn" \/ phase[h] \in {"draining", "settling", "dead"}

(* Between the log's end and the last event published, every event is in   *)
(* the turn being written or in the buffer, once and in order, whatever    *)
(* drains failed (so assertContiguous() never refuses a batch), and a      *)
(* buffered one is not forgotten: the timer is armed, a drain will take    *)
(* it, close() will look again, or a failed drain was reported.            *)
NoEventLost == \A h \in Handles : Placed(h) /\ (buffer[h] # <<>> => Awake(h))

(* When session/flush resolves, the session is stored up to the last event *)
(* published before the call, and stays so in every later crash, unless    *)
(* the call joined a drain that had already looked at the buffer.          *)
FlushDurable ==
    \A f \in Flushers : asked[f] = "done" => exists /\ (late[f] \/ mark[f] <= Len(log))

(* The runtime implements the durable log: whatever crashes, faults, torn  *)
(* frames and repairs happen, an acknowledged event stays readable.        *)
Durable == INSTANCE DurableLog WITH log <- Stored

DurableKept == Durable!Spec

(* close() always ends, whatever fails, when the producers that refill the *)
(* buffer it drains come to an end (here after MaxSeq events).             *)
CloseEnds == \A h \in Handles : phase[h] = "draining" ~> phase[h] \in {"closed", "dead"}

(* A call of session/flush always resolves or rejects.                     *)
FlushAnswered == \A f \in Flushers : asked[f] = "joined" ~> asked[f] \in {"idle", "failed", "done"}

(* storage.ts: a write handle is its session's single mutator; no two      *)
(* handles are ever in the middle of changing its log.                     *)
SingleMutator ==
    \A h, g \in Handles : Mutating(h) /\ Mutating(g) => h = g

-----------------------------------------------------------------------------
(* The lock, in a runtime that may do anything: a handle that has not      *)
(* opened yet runs no turn, and one that serves has the lock it believes   *)
(* in, or had it when its file was deleted.                                *)
Leasing(h) ==
    /\ phase[h] \in {"unused", "claimed", "leased"} =>
          ~live[h] /\ ~timer[h] /\ chain[h] = <<>> /\ stage[h] = "idle"
    /\ phase[h] \in {"unused", "claimed"} => ~held[h]
    /\ held[h] /\ phase[h] \in Serving \cup {"leased"} /\ h \notin orphans => lock = h
    /\ Mutating(h) => held[h]

LInv == TypeOK /\ \A h \in Handles : Leasing(h) /\ (stage[h] # "idle" => chain[h] # <<>>)

(* The strengthening the other proofs carry, of a runtime without the two  *)
(* steps that break them: a drain that begins after close() looked for the *)
(* last time (a failed close, a late timer), and the deletion of a session *)
(* that some process claims.                                               *)

Guarded == ~LateDrain /\ ~DeleteLive

(* Whoever has a handle to a session has its process's claim, and between  *)
(* ensureLease() and close() the lock.                                     *)
Owning(h) ==
    /\ phase[h] \in Serving \cup {"claimed", "leased", "releasing"} =>
          home[h] \in Procs /\ claim[home[h]] = h
    /\ phase[h] = "leased" => held[h]
    /\ phase[h] \in {"unused", "claimed"} => ~held[h]
    /\ held[h] /\ phase[h] \in Serving \cup {"leased"} => lock = h
    /\ Mutating(h) => held[h]

DrainsIn(s) == {i \in DOMAIN s : s[i] = "drain"}

Drains(h) == DrainsIn(chain[h])

(* One drain turn at most, which has the buffer or still will; none among  *)
(* those a closing handle waits for, and no turn at all after close().     *)
Queueing(h) ==
    /\ drain[h] = "turn" <=> Drains(h) # {}
    /\ \A i, j \in Drains(h) : i = j
    /\ \A i \in Drains(h) : buffer[h] # <<>> \/ (i = 1 /\ stage[h] # "idle")
    /\ stage[h] # "idle" => chain[h] # <<>>
    /\ phase[h] = "settling" => waits[h] <= Len(chain[h]) /\ \A i \in Drains(h) : i > waits[h]
    /\ phase[h] = "finishing" => waits[h] = Len(chain[h]) /\ Drains(h) = {}
    /\ phase[h] \in {"settling", "finishing"} /\ stage[h] # "idle" => waits[h] > 0
    /\ phase[h] \notin Serving => chain[h] = <<>>

(* Where a batch comes from, and what a handle is before it is announced.  *)
Batching(h) ==
    /\ batch[h] # <<>> => chain[h] # <<>> /\ (Turn(h) = "append" \/ (Turn(h) = "drain" /\ stage[h] # "idle"))
    /\ \A i \in DOMAIN chain[h] : chain[h][i] = "append" => Len(chain[h]) = 1 /\ ~live[h]
    /\ ~live[h] => buffer[h] = <<>> /\ Drains(h) = {}
    /\ stage[h] = "header" => Turn(h) \in Flushers
    /\ phase[h] \in {"unused", "claimed", "leased"} =>
          batch[h] = <<>> /\ ~live[h] /\ pub[h] = cursor[h]
    /\ cursor[h] <= pub[h]

(* A waiting caller of session/flush waits for an announced session.       *)
Calling(f) == asked[f] \in {"joined", "drained"} => on[f] \in Handles /\ live[on[f]]

(* A buffered event is not forgotten.                                      *)
Watched(h) == (buffer[h] # <<>> => Awake(h)) /\ (drain[h] = "failed" => paused[h])

IInv ==
    /\ TypeOK
    /\ \A h \in Handles : Owning(h) /\ Queueing(h) /\ Batching(h) /\ Placed(h) /\ Watched(h)
    /\ \A f \in Flushers : Calling(f)

(* What the proofs of durability add: how the file, the handles that       *)
(* extend it and the callers that wait for it agree.                       *)

Follows(a, b) == \A i \in 1..Len(b) : b[i] = Len(a) + i

Kept ==
    /\ Contiguous(log) /\ Follows(log, tail) /\ acked <= Len(log)
    /\ tail # <<>> => torn
    /\ ~exists => log = <<>> /\ tail = <<>> /\ ~torn

Fresh(h) == cursor[h] = 0 /\ recovered[h] = <<>> /\ ~tornSeen[h]

Opening == {"unused", "claimed", "leased"}

(* A handle that writes knows the file: its end, and what is torn of it.   *)
Filed(h) ==
    /\ phase[h] \in Serving /\ materialized[h] =>
          /\ held[h] /\ exists /\ cursor[h] = Len(log) + Len(recovered[h])
          /\ Follows(log, recovered[h]) /\ tail \in {<<>>, recovered[h]}
          /\ ~tornSeen[h] => tail = <<>> /\ ~torn
    /\ phase[h] \in Serving \cup Opening /\ ~materialized[h] => Fresh(h)
    /\ phase[h] \in Opening => ~materialized[h]
    /\ stage[h] \in {"truncate", "recover"} => materialized[h]
    /\ stage[h] \in {"recover", "write"} => ~tornSeen[h]
    /\ stage[h] = "write" => recovered[h] = <<>>

(* A queued flush waits for its own turn, once.                            *)
Queued(h) ==
    \A i \in DOMAIN chain[h] : chain[h][i] \in Flushers =>
        /\ asked[chain[h][i]] = "queued" /\ on[chain[h][i]] = h
        /\ \A j \in DOMAIN chain[h] : chain[h][j] = chain[h][i] => j = i

(* A caller's mark is published, and stored once its drain has settled.    *)
Answering(f) ==
    /\ asked[f] \in {"joined", "drained", "queued"} =>
          /\ on[f] \in Handles /\ live[on[f]] /\ mark[f] <= pub[on[f]]
          /\ asked[f] = "joined" => drain[on[f]] # "idle"
          /\ ~late[f] /\ phase[on[f]] \in Serving /\ (asked[f] = "joined" => drain[on[f]] = "settled")
                => mark[f] <= Len(log)
    /\ asked[f] = "done" => exists /\ (late[f] \/ mark[f] <= Len(log))

DInv ==
    /\ Kept
    /\ \A h \in Handles : Filed(h) /\ Queued(h)
    /\ \A f \in Flushers : Answering(f)
=============================================================================
