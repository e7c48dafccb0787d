------------------------ MODULE SessionHandlesProofs ------------------------
(***************************************************************************)
(* What is proved of the storage runtime, for every number of handles,     *)
(* processes, flush callers, events, faults and crashes.                   *)
(***************************************************************************)
EXTENDS SessionHandlesProps, SequenceTheorems, TLAPS

LEMMA NumbersType ==
    ASSUME NEW a \in Nat, NEW b \in Nat, a >= 1, b <= MaxSeq
    PROVE  Numbers(a, b) \in Seq(1..MaxSeq)
<1>1. ((b + 1) - a) \in Int OBVIOUS
<1>2. ASSUME NEW i \in 1..((b + 1) - a) PROVE (a - 1) + i \in 1..MaxSeq
  BY HandleConstants DEF HandleConstants
<1>3. CASE (b + 1) - a \in Nat
  BY <1>2, <1>3 DEF Numbers
<1>4. CASE (b + 1) - a \notin Nat
  <2>1. 1..((b + 1) - a) = 1..0 BY <1>4, <1>1
  <2>2. Numbers(a, b) = [i \in 1..0 |-> (a - 1) + i] BY <2>1 DEF Numbers
  <2> QED BY <2>2
<1> QED BY <1>3, <1>4

LEMMA FilesType ==
    ASSUME TypeOK, NEW h \in Handles, NEW f \in CrashFiles(h) \cup {File}, SetFile(f)
    PROVE  exists' \in BOOLEAN /\ log' \in Seq(1..MaxSeq) /\ tail' \in Seq(1..MaxSeq) /\ torn' \in BOOLEAN
<1> DEFINE Good(g) == /\ g.exists \in BOOLEAN /\ g.log \in Seq(1..MaxSeq)
                      /\ g.tail \in Seq(1..MaxSeq) /\ g.torn \in BOOLEAN
<1> HIDE DEF Good
<1>1. Good(File) /\ Good(Untorn) /\ Good(Published(h))
  BY DEF TypeOK, File, Untorn, Published, Good
<1>2. \A g \in FailedFiles(h) : Good(g)
  BY <1>1 DEF FailedFiles
<1>3. ASSUME NEW s \in Seq(1..MaxSeq), NEW g \in CutAppends(s) PROVE Good(g)
  <2>1. ASSUME NEW k \in 0..Len(s) PROVE SubSeq(s, 1, k) \in Seq(1..MaxSeq)
    <3>0. Len(s) \in Nat BY LenProperties
    <3>1. ASSUME NEW i \in 1..k PROVE s[i] \in 1..MaxSeq
      <4>1. i \in 1..Len(s) BY <3>0
      <4> QED BY ONLY <4>1, s \in Seq(1..MaxSeq), ElementOfSeq
    <3> QED BY ONLY <3>1, SubSeqProperties
  <2>2. log \o s \in Seq(1..MaxSeq) /\ \A k \in 0..Len(s) : log \o SubSeq(s, 1, k) \in Seq(1..MaxSeq)
    BY <2>1 DEF TypeOK
  <2>3. Good([File EXCEPT !.log = log \o s])
    BY <2>2 DEF TypeOK, File, Good
  <2>4. CASE g \in CutFrame(s)
    <3>1. PICK k \in 0..Len(s) : g = [File EXCEPT !.tail = SubSeq(s, 1, k), !.torn = TRUE]
      BY <2>4 DEF CutFrame
    <3> QED BY <2>1, <3>1 DEF TypeOK, File, Good
  <2>5. ASSUME NEW t \in BOOLEAN, g \in CutLines(s, t) PROVE Good(g)
    <3>1. PICK k \in 0..(Len(s) - 1) :
                g = [File EXCEPT !.log = log \o SubSeq(s, 1, k), !.torn = t]
      BY <2>5 DEF CutLines
    <3>2. k \in 0..Len(s) OBVIOUS
    <3> QED BY <2>2, <3>1, <3>2 DEF TypeOK, File, Good
  <2> QED BY <1>3, <2>3, <2>4, <2>5 DEF CutAppends
<1>4. recovered[h] \in Seq(1..MaxSeq) /\ batch[h] \in Seq(1..MaxSeq)
  BY DEF TypeOK
<1>5. \A g \in CrashFiles(h) \cup {File} : Good(g)
  BY <1>1, <1>2, <1>3, <1>4 DEF CrashFiles
<1> QED BY <1>5 DEF SetFile, Good
(* A turn that runs is the head of its chain.                              *)
Occupied == \A h \in Handles : stage[h] # "idle" => chain[h] # <<>>

Typed == TypeOK /\ Occupied

LEMMA DrainLiveType ==
    ASSUME Typed, NEW h \in Handles, DrainLive(h)
    PROVE  /\ timer' \in [Handles -> BOOLEAN] /\ paused' \in [Handles -> BOOLEAN]
           /\ drain' \in [Handles -> {"idle", "turn", "settled", "failed"}]
           /\ chain' \in [Handles -> Seq(Ops)]
           /\ \A g \in Handles : chain[g] # <<>> => chain'[g] # <<>>
<1>1. chain[h] \in Seq(Ops) /\ "drain" \in Ops BY DEF Typed, TypeOK, Ops
<1>2. Append(chain[h], "drain") \in Seq(Ops) /\ Append(chain[h], "drain") # <<>>
  BY ONLY <1>1, AppendProperties
<1>3. DrainLive(h) /\ TypeOK BY DEF Typed
<1>4. /\ timer' \in [Handles -> BOOLEAN] /\ paused' \in [Handles -> BOOLEAN]
      /\ drain' \in [Handles -> {"idle", "turn", "settled", "failed"}]
  BY <1>3 DEF DrainLive, TypeOK
<1>5. CASE chain' = chain
  BY <1>3, <1>4, <1>5 DEF TypeOK
<1>6. CASE chain' = [chain EXCEPT ![h] = Append(@, "drain")]
  BY <1>2, <1>3, <1>4, <1>6 DEF TypeOK
<1>7. chain \in [Handles -> Seq(Ops)] BY <1>3 DEF TypeOK
<1>8. chain = [chain EXCEPT ![h] = chain[h]] BY <1>7
<1> QED BY <1>3, <1>5, <1>6, <1>8 DEF DrainLive

LEMMA EndTurnType ==
    ASSUME Typed, NEW h \in Handles, chain[h] # <<>>, NEW rest \in Seq(Ops), EndTurn(h, rest)
    PROVE  /\ chain' \in [Handles -> Seq(Ops)] /\ stage' \in [Handles -> Stages]
           /\ batch' \in [Handles -> Seq(1..MaxSeq)] /\ waits' \in [Handles -> Nat]
           /\ Occupied'
<1>1. Awaited(waits[h]) \in Nat BY DEF Awaited, Typed, TypeOK
<1>2. EndTurn(h, rest) /\ TypeOK /\ Occupied BY DEF Typed
<1>3. chain' \in [Handles -> Seq(Ops)] BY <1>2 DEF EndTurn, TypeOK
<1>4. stage' \in [Handles -> Stages] BY <1>2 DEF EndTurn, TypeOK, Stages
<1>5. waits' \in [Handles -> Nat] BY <1>1, <1>2 DEF EndTurn, TypeOK
<1>7. <<>> \in Seq(1..MaxSeq) OBVIOUS
<1>8. batch' \in [Handles -> Seq(1..MaxSeq)] BY <1>2, <1>7 DEF EndTurn, TypeOK
<1>6. Occupied'
  <2> SUFFICES ASSUME NEW g \in Handles, stage'[g] # "idle" PROVE chain'[g] # <<>>
    BY DEF Occupied
  <2> QED BY <1>2 DEF EndTurn, TypeOK, Occupied
<1> QED BY <1>3, <1>4, <1>5, <1>6, <1>8

LEMMA ResolveType ==
    ASSUME Typed, NEW h \in Handles, chain[h] # <<>>, Resolve(h)
    PROVE  /\ chain' \in [Handles -> Seq(Ops)] /\ stage' \in [Handles -> Stages]
           /\ batch' \in [Handles -> Seq(1..MaxSeq)] /\ waits' \in [Handles -> Nat]
           /\ drain' \in [Handles -> {"idle", "turn", "settled", "failed"}]
           /\ asked' \in [Flushers -> {"idle", "joined", "drained", "queued", "failed", "done"}]
           /\ Occupied'
<1>1. Tail(chain[h]) \in Seq(Ops) BY HeadTailProperties DEF Typed, TypeOK
<1>2. <<"drain">> \in Seq(Ops) /\ <<>> \in Seq(Ops) BY DEF Ops
<1> DEFINE more == IF Turn(h) = "drain" /\ buffer[h] # <<>> THEN <<"drain">> ELSE <<>>
<1>3. Tail(chain[h]) \o more \in Seq(Ops) BY ONLY <1>1, <1>2, ConcatProperties DEF more
<1>4. EndTurn(h, Tail(chain[h]) \o more) BY DEF Resolve
<1> HIDE DEF more
<1>5. QED BY <1>3, <1>4, EndTurnType DEF Resolve, Answer, Typed, TypeOK

LEMMA RejectType ==
    ASSUME Typed, NEW h \in Handles, chain[h] # <<>>, Reject(h)
    PROVE  /\ chain' \in [Handles -> Seq(Ops)] /\ stage' \in [Handles -> Stages]
           /\ batch' \in [Handles -> Seq(1..MaxSeq)] /\ waits' \in [Handles -> Nat]
           /\ drain' \in [Handles -> {"idle", "turn", "settled", "failed"}]
           /\ asked' \in [Flushers -> {"idle", "joined", "drained", "queued", "failed", "done"}]
           /\ buffer' \in [Handles -> Seq(1..MaxSeq)] /\ paused' \in [Handles -> BOOLEAN]
           /\ pub' \in [Handles -> Nat] /\ UNCHANGED <<timer, live, on, mark, late>>
           /\ Occupied'
<1>1. Tail(chain[h]) \in Seq(Ops) BY HeadTailProperties DEF Typed, TypeOK
<1>2. EndTurn(h, Tail(chain[h])) BY DEF Reject
<1>3. Retained(h) \in Seq(1..MaxSeq)
  BY ConcatProperties DEF Retained, Typed, TypeOK
<1>4. /\ drain' \in [Handles -> {"idle", "turn", "settled", "failed"}]
      /\ buffer' \in [Handles -> Seq(1..MaxSeq)] /\ paused' \in [Handles -> BOOLEAN]
  <2>1. CASE Turn(h) = "drain"
    <3>1. /\ buffer' = [buffer EXCEPT ![h] = Retained(h)] /\ paused' = [paused EXCEPT ![h] = TRUE]
          /\ drain' = [drain EXCEPT ![h] = "failed"]
      BY <2>1 DEF Reject
    <3> QED BY <1>3, <3>1 DEF Typed, TypeOK
  <2>2. CASE Turn(h) # "drain"
    BY <2>2 DEF Reject, Typed, TypeOK
  <2> QED BY <2>1, <2>2
<1>5. asked' \in [Flushers -> {"idle", "joined", "drained", "queued", "failed", "done"}]
  BY DEF Reject, Answer, Typed, TypeOK
<1>6. pub' \in [Handles -> Nat] /\ UNCHANGED <<timer, live, on, mark, late>>
  BY DEF Reject, Typed, TypeOK
<1> QED BY <1>1, <1>2, <1>4, <1>5, <1>6, EndTurnType

LEMMA LostType ==
    ASSUME NEW S, NEW f \in [Handles -> S], NEW d \in S, NEW p
    PROVE  Lost(p, f, d) \in [Handles -> S]
BY DEF Lost

(* TypeOK in parts, so that a step names the ones it disturbs.             *)
FilesOK ==
    /\ exists \in BOOLEAN /\ log \in Seq(1..MaxSeq) /\ tail \in Seq(1..MaxSeq)
    /\ torn \in BOOLEAN /\ encoding \in Encodings

OwnersOK ==
    /\ lock \in Handles \cup {Nobody}
    /\ claim \in [Procs -> Handles \cup {Nobody}] /\ born \in BOOLEAN /\ deleting \subseteq Procs
    /\ phase \in [Handles -> Phases] /\ home \in [Handles -> Procs \cup {Nobody}]
    /\ held \in [Handles -> BOOLEAN]

StateOK ==
    /\ materialized \in [Handles -> BOOLEAN] /\ cursor \in [Handles -> Nat]
    /\ tornSeen \in [Handles -> BOOLEAN] /\ recovered \in [Handles -> Seq(1..MaxSeq)]
    /\ live \in [Handles -> BOOLEAN] /\ pub \in [Handles -> Nat]

BufferOK ==
    /\ buffer \in [Handles -> Seq(1..MaxSeq)] /\ timer \in [Handles -> BOOLEAN]
    /\ paused \in [Handles -> BOOLEAN]
    /\ drain \in [Handles -> {"idle", "turn", "settled", "failed"}]

ChainOK ==
    /\ chain \in [Handles -> Seq(Ops)] /\ stage \in [Handles -> Stages]
    /\ batch \in [Handles -> Seq(1..MaxSeq)] /\ waits \in [Handles -> Nat]
    /\ Occupied

CallersOK ==
    /\ asked \in [Flushers -> {"idle", "joined", "drained", "queued", "failed", "done"}]
    /\ on \in [Flushers -> Handles \cup {Nobody}]
    /\ mark \in [Flushers -> Nat] /\ late \in [Flushers -> BOOLEAN]
    /\ acked \in Nat /\ orphans \subseteq Handles
    /\ faults \in 0..MaxFaults /\ crashes \in 0..MaxCrashes

ClaimsOK ==
    \A p \in Procs : claim[p] # Nobody =>
        home[claim[p]] = p /\ phase[claim[p]] \notin {"unused", "closed", "dead"}

LEMMA TypedParts ==
    Typed <=> FilesOK /\ OwnersOK /\ StateOK /\ BufferOK /\ ChainOK /\ CallersOK /\ ClaimsOK
BY DEF Typed, TypeOK, FilesOK, OwnersOK, StateOK, BufferOK, ChainOK, CallersOK, ClaimsOK

(* A step that keeps the claims and leaves no claimed handle unclaimable.  *)
LEMMA ClaimsKept ==
    ASSUME OwnersOK, ClaimsOK, UNCHANGED <<claim, home>>,
           \A g \in Handles : phase'[g] \in {phase[g]} \cup (Phases \ {"unused", "closed", "dead"})
    PROVE  ClaimsOK'
BY DEF OwnersOK, ClaimsOK

LEMMA ClaimsStep ==
    ASSUME Typed, [Next]_vars
    PROVE  ClaimsOK'
<1> USE DEF fileVars, trackVars, lifeVars, stateVars, liveVars, bufVars, chainVars, flushVars, countVars, ForgetClaim
<1>0. OwnersOK /\ ClaimsOK BY TypedParts
<1>n. Nobody \notin Handles /\ Nobody \notin Procs BY HandleConstants DEF HandleConstants
<1>1. CASE UNCHANGED <<claim, home, phase>> BY <1>0, <1>1 DEF ClaimsOK
<1>2. ASSUME NEW h \in Handles, ReadStored(h) \/ AcquireLease(h) PROVE ClaimsOK'
  BY <1>0, <1>2, ClaimsKept DEF ReadStored, AcquireLease, Phases, OwnersOK
<1>3. ASSUME NEW h \in Handles, DrainReturns(h) \/ SettlePass(h) PROVE ClaimsOK'
  BY <1>0, <1>3, ClaimsKept DEF DrainReturns, SettlePass, Phases, OwnersOK
<1>4. ASSUME NEW h \in Handles, FinishPass(h) \/ Close(h) PROVE ClaimsOK'
  BY <1>0, <1>4, ClaimsKept DEF FinishPass, Close, Phases, OwnersOK
<1>5. ASSUME NEW h \in Handles, OpenFails(h) PROVE ClaimsOK'
  BY <1>0, <1>n, <1>5 DEF OpenFails, OwnersOK, ClaimsOK
<1>6. ASSUME NEW h \in Handles, Release(h) PROVE ClaimsOK'
  BY <1>0, <1>n, <1>6 DEF Release, OwnersOK, ClaimsOK
<1>7. ASSUME NEW h \in Handles, NEW p \in Procs, Create(h, p) PROVE ClaimsOK'
  BY <1>0, <1>n, <1>7 DEF Create, OwnersOK, ClaimsOK
<1>8. ASSUME NEW h \in Handles, NEW p \in Procs, ClaimWrite(h, p) PROVE ClaimsOK'
  BY <1>0, <1>n, <1>8 DEF ClaimWrite, OwnersOK, ClaimsOK
<1>9. ASSUME NEW p \in Procs, Crash(p) PROVE ClaimsOK'
  <2>1. /\ phase' = Lost(p, phase, "dead") /\ home' = home
        /\ claim' = [claim EXCEPT ![p] = Nobody]
    BY <1>9 DEF Crash
  <2> QED BY <1>0, <1>n, <2>1 DEF Lost, Of, OwnersOK, ClaimsOK
<1>10. ASSUME NEW h \in Handles, TurnStep(h) \/ IOFails(h) PROVE UNCHANGED <<claim, home, phase>>
  BY <1>10 DEF TurnStep, TurnRefused, FlushNoop, TurnStarts, Ensured, LeaseFails, Truncated,
               Rewritten, Written, HeaderWritten, PathFails, IOFails
<1>11. ASSUME NEW h \in Handles,
              \/ AppendBatch(h) \/ Announce(h) \/ Publish(h) \/ TimerFires(h)
              \/ \E f \in Flushers : FlushCall(f, h)
       PROVE  UNCHANGED <<claim, home, phase>>
  BY <1>11 DEF AppendBatch, Announce, Publish, TimerFires, FlushCall
<1>12. (\E f \in Flushers : FlushQueues(f)) \/ (\E p \in Procs : CheckDelete(p) \/ RemoveDirectory(p))
           \/ UNCHANGED vars => UNCHANGED <<claim, home, phase>>
  BY DEF FlushQueues, CheckDelete, RemoveDirectory, vars
<1> QED BY <1>1, <1>2, <1>3, <1>4, <1>5, <1>6, <1>7, <1>8, <1>9, <1>10, <1>11, <1>12
        DEF Next, CloseStep

LEMMA TypedStep ==
    ASSUME Typed, [Next]_vars
    PROVE  Typed'
<1> USE DEF fileVars, trackVars, lifeVars, stateVars, liveVars, bufVars, chainVars, flushVars, countVars, ForgetClaim
<1>0. FilesOK /\ OwnersOK /\ StateOK /\ BufferOK /\ ChainOK /\ CallersOK BY TypedParts
<1>e. <<>> \in Seq(1..MaxSeq) OBVIOUS
<1>c. ClaimsOK' BY ClaimsStep
<1>p. /\ FilesOK' /\ OwnersOK' /\ StateOK' /\ BufferOK' /\ ChainOK' /\ CallersOK' => Typed'
  BY <1>c DEF Typed, TypeOK, FilesOK, OwnersOK, StateOK, BufferOK, ChainOK, CallersOK, ClaimsOK
<1>1. ASSUME NEW h \in Handles, ReadStored(h) PROVE Typed'
  <2>a. Len(Stored) \in Nat BY <1>0 DEF Stored, FilesOK
  <2>1. FilesOK'
    BY <1>0, <1>1 DEF ReadStored, FilesOK
  <2>2. OwnersOK'
    BY <1>0, <1>1 DEF ReadStored, Phases, OwnersOK
  <2>3. StateOK'
    BY <1>0, <1>1, <2>a DEF ReadStored, FilesOK, StateOK
  <2>4. BufferOK'
    BY <1>0, <1>1 DEF ReadStored, BufferOK
  <2>5. ChainOK'
    BY <1>0, <1>1 DEF ReadStored, ChainOK, Occupied
  <2>6. CallersOK'
    BY <1>0, <1>1 DEF ReadStored, CallersOK
  <2> QED BY <1>p, <2>1, <2>2, <2>3, <2>4, <2>5, <2>6
<1>2. ASSUME NEW h \in Handles, OpenFails(h) PROVE Typed'
  <2>1. FilesOK' /\ OwnersOK' /\ CallersOK'
    BY <1>0, <1>2, HandleConstants DEF HandleConstants, OpenFails, FilesOK, OwnersOK, CallersOK, Phases
  <2>2. StateOK' /\ BufferOK' /\ ChainOK'
    BY <1>0, <1>2 DEF OpenFails, StateOK, BufferOK, ChainOK, Occupied
  <2> QED BY <1>p, <2>1, <2>2
<1>3. ASSUME NEW h \in Handles, AcquireLease(h) PROVE Typed'
  <2>1. FilesOK' /\ OwnersOK' /\ CallersOK'
    BY <1>0, <1>3, HandleConstants DEF HandleConstants, AcquireLease, FilesOK, OwnersOK, CallersOK, Phases
  <2>2. StateOK' /\ BufferOK' /\ ChainOK'
    BY <1>0, <1>3 DEF AcquireLease, StateOK, BufferOK, ChainOK, Occupied
  <2> QED BY <1>p, <2>1, <2>2
<1>4. ASSUME NEW h \in Handles, AppendBatch(h) PROVE Typed'
  <2>a. PICK n \in (pub[h] + 1)..MaxSeq : /\ batch' = [batch EXCEPT ![h] = Numbers(pub[h] + 1, n)]
                                         /\ pub' = [pub EXCEPT ![h] = n]
    BY <1>4 DEF AppendBatch
  <2>b. pub[h] \in Nat /\ MaxSeq \in Nat BY <1>0, HandleConstants DEF StateOK, HandleConstants
  <2>c. Numbers(pub[h] + 1, n) \in Seq(1..MaxSeq) /\ n \in Nat BY <2>b, NumbersType
  <2>d. <<"append">> \in Seq(Ops) BY DEF Ops
  <2>1. FilesOK'
    BY <1>0, <1>4 DEF AppendBatch, FilesOK
  <2>2. OwnersOK'
    BY <1>0, <1>4 DEF AppendBatch, OwnersOK
  <2>3. StateOK'
    BY <1>0, <1>4, <2>a, <2>c DEF AppendBatch, StateOK
  <2>4. BufferOK'
    BY <1>0, <1>4 DEF AppendBatch, BufferOK
  <2>5. ChainOK'
    BY <1>0, <1>4, <2>a, <2>c, <2>d DEF AppendBatch, ChainOK, Occupied
  <2>6. CallersOK'
    BY <1>0, <1>4 DEF AppendBatch, CallersOK
  <2> QED BY <1>p, <2>1, <2>2, <2>3, <2>4, <2>5, <2>6
<1>5. ASSUME NEW h \in Handles, Announce(h) PROVE Typed'
  <2>1. FilesOK' /\ OwnersOK' /\ CallersOK'
    BY <1>0, <1>5, HandleConstants DEF HandleConstants, Announce, FilesOK, OwnersOK, CallersOK, Phases
  <2>2. StateOK' /\ BufferOK' /\ ChainOK'
    BY <1>0, <1>5 DEF Announce, StateOK, BufferOK, ChainOK, Occupied
  <2> QED BY <1>p, <2>1, <2>2
<1>6. ASSUME NEW h \in Handles, Publish(h) PROVE Typed'
  <2>a. pub[h] + 1 \in 1..MaxSeq BY <1>0, <1>6, HandleConstants DEF Publish, StateOK, HandleConstants
  <2>b. Append(buffer[h], pub[h] + 1) \in Seq(1..MaxSeq)
    BY <1>0, <2>a, AppendProperties DEF BufferOK
  <2>1. FilesOK'
    BY <1>0, <1>6 DEF Publish, FilesOK
  <2>2. OwnersOK'
    BY <1>0, <1>6 DEF Publish, OwnersOK
  <2>3. StateOK'
    BY <1>0, <1>6, <2>a DEF Publish, StateOK
  <2>4. BufferOK'
    BY <1>0, <1>6, <2>b DEF Publish, BufferOK
  <2>5. ChainOK'
    BY <1>0, <1>6 DEF Publish, ChainOK, Occupied
  <2>6. CallersOK'
    BY <1>0, <1>6 DEF Publish, CallersOK
  <2> QED BY <1>p, <2>1, <2>2, <2>3, <2>4, <2>5, <2>6
<1>7. ASSUME NEW h \in Handles, TimerFires(h) PROVE Typed'
  <2>1. FilesOK' /\ OwnersOK' /\ CallersOK'
    BY <1>0, <1>7, HandleConstants DEF HandleConstants, TimerFires, FilesOK, OwnersOK, CallersOK, Phases
  <2>2. StateOK' /\ BufferOK' /\ ChainOK'
    BY <1>0, <1>7, DrainLiveType DEF TimerFires, StateOK, BufferOK, ChainOK, Occupied
  <2> QED BY <1>p, <2>1, <2>2
<1>8. ASSUME NEW h \in Handles, DrainReturns(h) PROVE Typed'
  <2>a. Len(chain[h]) \in Nat BY <1>0, LenProperties DEF ChainOK
  <2>1. FilesOK'
    BY <1>0, <1>8 DEF DrainReturns, FilesOK
  <2>2. OwnersOK'
    BY <1>0, <1>8 DEF DrainReturns, Phases, OwnersOK
  <2>3. StateOK'
    BY <1>0, <1>8 DEF DrainReturns, StateOK
  <2>4. BufferOK'
    BY <1>0, <1>8 DEF DrainReturns, BufferOK
  <2>5. ChainOK'
    BY <1>0, <1>8, <2>a DEF DrainReturns, ChainOK, Occupied
  <2>6. CallersOK'
    BY <1>0, <1>8 DEF DrainReturns, JoinedOutcome, CallersOK
  <2> QED BY <1>p, <2>1, <2>2, <2>3, <2>4, <2>5, <2>6
<1>9. ASSUME NEW h \in Handles, TurnRefused(h) PROVE Typed'
  <2>a. chain[h] # <<>> /\ Reject(h) BY <1>9 DEF TurnRefused, Ready, Mutating, Typed, Occupied
  <2>b. /\ StateOK' /\ BufferOK' /\ ChainOK'
        /\ asked' \in [Flushers -> {"idle", "joined", "drained", "queued", "failed", "done"}]
        /\ UNCHANGED <<on, mark, late>>
    BY <1>0, <2>a, <1>9, RejectType DEF TurnRefused, StateOK, BufferOK, ChainOK, stateVars, liveVars
  <2>1. FilesOK'
    BY <1>0, <1>9 DEF TurnRefused, FilesOK
  <2>2. OwnersOK'
    BY <1>0, <1>9 DEF TurnRefused, OwnersOK
  <2>3. StateOK' BY <2>b
  <2>4. BufferOK' BY <2>b
  <2>5. ChainOK' BY <2>b
  <2>6. CallersOK'
    BY <1>0, <1>9, <2>b DEF TurnRefused, CallersOK
  <2> QED BY <1>p, <2>1, <2>2, <2>3, <2>4, <2>5, <2>6
<1>10. ASSUME NEW h \in Handles, FlushNoop(h) PROVE Typed'
  <2>a. chain[h] # <<>> /\ Resolve(h) BY <1>10 DEF FlushNoop, Ready, Typed, Occupied
  <2>b. /\ ChainOK' /\ drain' \in [Handles -> {"idle", "turn", "settled", "failed"}]
        /\ asked' \in [Flushers -> {"idle", "joined", "drained", "queued", "failed", "done"}]
    BY <2>a, ResolveType DEF ChainOK
  <2>1. FilesOK'
    BY <1>0, <1>10 DEF FlushNoop, FilesOK
  <2>2. OwnersOK'
    BY <1>0, <1>10 DEF FlushNoop, OwnersOK
  <2>3. StateOK'
    BY <1>0, <1>10 DEF FlushNoop, StateOK
  <2>4. BufferOK'
    BY <1>0, <1>10, <2>b DEF FlushNoop, BufferOK
  <2>5. ChainOK' BY <2>b
  <2>6. CallersOK'
    BY <1>0, <1>10, <2>b DEF FlushNoop, CallersOK
  <2> QED BY <1>p, <2>1, <2>2, <2>3, <2>4, <2>5, <2>6
<1>11. ASSUME NEW h \in Handles, TurnStarts(h) PROVE Typed'
  <2>1. FilesOK'
    BY <1>0, <1>11 DEF TurnStarts, FilesOK
  <2>2. OwnersOK'
    BY <1>0, <1>11 DEF TurnStarts, OwnersOK
  <2>3. StateOK'
    BY <1>0, <1>11 DEF TurnStarts, StateOK
  <2>4. BufferOK'
    BY <1>0, <1>11, <1>e DEF TurnStarts, BufferOK
  <2>5. ChainOK'
    BY <1>0, <1>11 DEF TurnStarts, Ready,BufferOK,Stages, ChainOK, Occupied
  <2>6. CallersOK'
    BY <1>0, <1>11 DEF TurnStarts, CallersOK
  <2> QED BY <1>p, <2>1, <2>2, <2>3, <2>4, <2>5, <2>6
<1>12. ASSUME NEW h \in Handles, Ensured(h) PROVE Typed'
  <2>a. NextStage(tornSeen[h], recovered[h]) \in Stages /\ "header" \in Stages BY DEF NextStage, Stages
  <2>1. FilesOK'
    BY <1>0, <1>12 DEF Ensured, FilesOK
  <2>2. OwnersOK'
    BY <1>0, <1>12 DEF Ensured, OwnersOK
  <2>3. StateOK'
    BY <1>0, <1>12 DEF Ensured, StateOK
  <2>4. BufferOK'
    BY <1>0, <1>12 DEF Ensured, BufferOK
  <2>5. ChainOK'
    BY <1>0, <1>12, <2>a DEF Ensured, ChainOK, Occupied
  <2>6. CallersOK'
    BY <1>0, <1>12 DEF Ensured, CallersOK
  <2> QED BY <1>p, <2>1, <2>2, <2>3, <2>4, <2>5, <2>6
<1>13. ASSUME NEW h \in Handles, LeaseFails(h) PROVE Typed'
  <2>a. chain[h] # <<>> /\ Reject(h) BY <1>13 DEF LeaseFails, Ready, Mutating, Typed, Occupied
  <2>b. /\ StateOK' /\ BufferOK' /\ ChainOK'
        /\ asked' \in [Flushers -> {"idle", "joined", "drained", "queued", "failed", "done"}]
        /\ UNCHANGED <<on, mark, late>>
    BY <1>0, <2>a, <1>13, RejectType DEF LeaseFails, StateOK, BufferOK, ChainOK, stateVars, liveVars
  <2>1. FilesOK'
    BY <1>0, <1>13 DEF LeaseFails, FilesOK
  <2>2. OwnersOK'
    BY <1>0, <1>13 DEF LeaseFails, OwnersOK
  <2>3. StateOK' BY <2>b
  <2>4. BufferOK' BY <2>b
  <2>5. ChainOK' BY <2>b
  <2>6. CallersOK'
    BY <1>0, <1>13, <2>b, HandleConstants DEF LeaseFails, HandleConstants, CallersOK
  <2> QED BY <1>p, <2>1, <2>2, <2>3, <2>4, <2>5, <2>6
<1>14. ASSUME NEW h \in Handles, Truncated(h) PROVE Typed'
  <2>a. NextStage(FALSE, recovered[h]) \in Stages BY DEF NextStage, Stages
  <2>1. FilesOK'
    BY <1>0, <1>14, <1>e DEF Truncated, FilesOK
  <2>2. OwnersOK'
    BY <1>0, <1>14 DEF Truncated, OwnersOK
  <2>3. StateOK'
    BY <1>0, <1>14 DEF Truncated, StateOK
  <2>4. BufferOK'
    BY <1>0, <1>14 DEF Truncated, BufferOK
  <2>5. ChainOK'
    BY <1>0, <1>14, <2>a DEF Truncated, ChainOK, Occupied
  <2>6. CallersOK'
    BY <1>0, <1>14 DEF Truncated, CallersOK
  <2> QED BY <1>p, <2>1, <2>2, <2>3, <2>4, <2>5, <2>6
<1>15. ASSUME NEW h \in Handles, Rewritten(h) PROVE Typed'
  <2>a. log \o recovered[h] \in Seq(1..MaxSeq) BY <1>0, ConcatProperties DEF FilesOK, StateOK
  <2>1. FilesOK'
    BY <1>0, <1>15, <2>a DEF Rewritten, FilesOK
  <2>2. OwnersOK'
    BY <1>0, <1>15 DEF Rewritten, OwnersOK
  <2>3. StateOK'
    BY <1>0, <1>15 DEF Rewritten, StateOK
  <2>4. BufferOK'
    BY <1>0, <1>15 DEF Rewritten, BufferOK
  <2>5. ChainOK'
    BY <1>0, <1>15 DEF Rewritten, Stages, ChainOK, Occupied
  <2>6. CallersOK'
    BY <1>0, <1>15 DEF Rewritten, CallersOK
  <2> QED BY <1>p, <2>1, <2>2, <2>3, <2>4, <2>5, <2>6
<1>16. ASSUME NEW h \in Handles, Written(h) PROVE Typed'
  <2>a. chain[h] # <<>> /\ Resolve(h) BY <1>16 DEF Written, Ready, Typed, Occupied
  <2>b. /\ ChainOK' /\ drain' \in [Handles -> {"idle", "turn", "settled", "failed"}]
        /\ asked' \in [Flushers -> {"idle", "joined", "drained", "queued", "failed", "done"}]
    BY <2>a, ResolveType DEF ChainOK
  <2>c. /\ log \o batch[h] \in Seq(1..MaxSeq) /\ Len(batch[h]) \in Nat
        /\ cursor[h] + Len(batch[h]) \in Nat
    BY <1>0, ConcatProperties, LenProperties DEF FilesOK, ChainOK, StateOK
  <2>1. FilesOK'
    BY <1>0, <1>16, <2>c DEF Written, FilesOK
  <2>2. OwnersOK'
    BY <1>0, <1>16 DEF Written, OwnersOK
  <2>3. StateOK'
    BY <1>0, <1>16, <2>c DEF Written, StateOK
  <2>4. BufferOK'
    BY <1>0, <1>16, <2>b DEF Written, BufferOK
  <2>5. ChainOK' BY <2>b
  <2>6. CallersOK'
    BY <1>0, <1>16, <2>b, <2>c DEF Written, CallersOK
  <2> QED BY <1>p, <2>1, <2>2, <2>3, <2>4, <2>5, <2>6
<1>17. ASSUME NEW h \in Handles, HeaderWritten(h) PROVE Typed'
  <2>a. chain[h] # <<>> /\ Resolve(h) BY <1>17 DEF HeaderWritten, Ready, Typed, Occupied
  <2>b. /\ ChainOK' /\ drain' \in [Handles -> {"idle", "turn", "settled", "failed"}]
        /\ asked' \in [Flushers -> {"idle", "joined", "drained", "queued", "failed", "done"}]
    BY <2>a, ResolveType DEF ChainOK
  <2>1. FilesOK'
    BY <1>0, <1>17 DEF HeaderWritten, FilesOK
  <2>2. OwnersOK'
    BY <1>0, <1>17 DEF HeaderWritten, OwnersOK
  <2>3. StateOK'
    BY <1>0, <1>17 DEF HeaderWritten, StateOK
  <2>4. BufferOK'
    BY <1>0, <1>17, <2>b DEF HeaderWritten, BufferOK
  <2>5. ChainOK' BY <2>b
  <2>6. CallersOK'
    BY <1>0, <1>17, <2>b DEF HeaderWritten, CallersOK
  <2> QED BY <1>p, <2>1, <2>2, <2>3, <2>4, <2>5, <2>6
<1>18. ASSUME NEW h \in Handles, PathFails(h) PROVE Typed'
  <2>a. chain[h] # <<>> /\ Reject(h) BY <1>18 DEF PathFails, Ready, Mutating, Typed, Occupied
  <2>b. /\ StateOK' /\ BufferOK' /\ ChainOK'
        /\ asked' \in [Flushers -> {"idle", "joined", "drained", "queued", "failed", "done"}]
        /\ UNCHANGED <<on, mark, late>>
    BY <1>0, <2>a, <1>18, RejectType DEF PathFails, StateOK, BufferOK, ChainOK, stateVars, liveVars
  <2>1. FilesOK'
    BY <1>0, <1>18 DEF PathFails, FilesOK
  <2>2. OwnersOK'
    BY <1>0, <1>18 DEF PathFails, OwnersOK
  <2>3. StateOK' BY <2>b
  <2>4. BufferOK' BY <2>b
  <2>5. ChainOK' BY <2>b
  <2>6. CallersOK'
    BY <1>0, <1>18, <2>b DEF PathFails, CallersOK
  <2> QED BY <1>p, <2>1, <2>2, <2>3, <2>4, <2>5, <2>6
<1>19. ASSUME NEW h \in Handles, SettlePass(h) PROVE Typed'
  <2>a. Len(chain[h]) \in Nat BY <1>0, LenProperties DEF ChainOK
  <2>b. /\ BufferOK' /\ chain' \in [Handles -> Seq(Ops)]
        /\ \A g \in Handles : chain[g] # <<>> => chain'[g] # <<>>
    BY <1>0, <1>19, DrainLiveType DEF SettlePass, BufferOK, ChainOK
  <2>1. FilesOK'
    BY <1>0, <1>19 DEF SettlePass, FilesOK
  <2>2. OwnersOK'
    BY <1>0, <1>19 DEF SettlePass, Phases, OwnersOK
  <2>3. StateOK'
    BY <1>0, <1>19 DEF SettlePass, StateOK
  <2>4. BufferOK' BY <2>b
  <2>5. ChainOK'
    BY <1>0, <1>19, <2>a, <2>b DEF SettlePass, ChainOK, Occupied
  <2>6. CallersOK'
    BY <1>0, <1>19 DEF SettlePass, CallersOK
  <2> QED BY <1>p, <2>1, <2>2, <2>3, <2>4, <2>5, <2>6
<1>20. ASSUME NEW h \in Handles, FinishPass(h) PROVE Typed'
  <2>1. FilesOK' /\ OwnersOK' /\ CallersOK'
    BY <1>0, <1>20, HandleConstants DEF HandleConstants, FinishPass, FilesOK, OwnersOK, CallersOK, Phases
  <2>2. StateOK' /\ BufferOK' /\ ChainOK'
    BY <1>0, <1>20 DEF FinishPass, StateOK, BufferOK, ChainOK, Occupied
  <2> QED BY <1>p, <2>1, <2>2
<1>21. ASSUME NEW h \in Handles, Release(h) PROVE Typed'
  <2>1. FilesOK' /\ OwnersOK' /\ CallersOK'
    BY <1>0, <1>21, HandleConstants DEF HandleConstants, Release, FilesOK, OwnersOK, CallersOK, Phases
  <2>2. StateOK' /\ BufferOK' /\ ChainOK'
    BY <1>0, <1>21 DEF Release, StateOK, BufferOK, ChainOK, Occupied
  <2> QED BY <1>p, <2>1, <2>2
<1>22. ASSUME NEW h \in Handles, IOFails(h) PROVE Typed'
  <2>a. chain[h] # <<>> /\ Reject(h) BY <1>22 DEF IOFails, Ready, Mutating, Typed, Occupied
  <2>b. /\ StateOK' /\ BufferOK' /\ ChainOK'
        /\ asked' \in [Flushers -> {"idle", "joined", "drained", "queued", "failed", "done"}]
        /\ UNCHANGED <<on, mark, late>>
    BY <1>0, <2>a, <1>22, RejectType DEF IOFails, StateOK, BufferOK, ChainOK, stateVars, liveVars
  <2>1. FilesOK' 
    <3>1. PICK f \in FailedFiles(h) : SetFile(f) BY <1>22 DEF IOFails
    <3>2. f \in CrashFiles(h) BY DEF CrashFiles
    <3>3. encoding' \in Encodings BY <1>0, <1>22 DEF IOFails, FilesOK
    <3> QED BY <3>1, <3>2, <3>3, FilesType DEF FilesOK, Typed
  <2>2. OwnersOK'
    BY <1>0, <1>22 DEF IOFails, OwnersOK
  <2>3. StateOK' BY <2>b
  <2>4. BufferOK' BY <2>b
  <2>5. ChainOK' BY <2>b
  <2>6. CallersOK'
    BY <1>0, <1>22, <2>b, HandleConstants DEF IOFails, HandleConstants, CallersOK
  <2> QED BY <1>p, <2>1, <2>2, <2>3, <2>4, <2>5, <2>6
<1>23. ASSUME NEW h \in Handles, Close(h) PROVE Typed'
  <2>1. FilesOK' /\ OwnersOK' /\ CallersOK'
    BY <1>0, <1>23, HandleConstants DEF HandleConstants, Close, FilesOK, OwnersOK, CallersOK, Phases
  <2>2. StateOK' /\ BufferOK' /\ ChainOK'
    BY <1>0, <1>23, DrainLiveType DEF Close, StateOK, BufferOK, ChainOK, Occupied
  <2> QED BY <1>p, <2>1, <2>2
<1>24. ASSUME NEW h \in Handles, NEW p \in Procs, Create(h, p) PROVE Typed'
  <2>1. FilesOK' /\ OwnersOK' /\ CallersOK'
    BY <1>0, <1>24, HandleConstants DEF HandleConstants, Create, FilesOK, OwnersOK, CallersOK, Phases
  <2>2. StateOK' /\ BufferOK' /\ ChainOK'
    BY <1>0, <1>24 DEF Create, StateOK, BufferOK, ChainOK, Occupied
  <2> QED BY <1>p, <2>1, <2>2
<1>25. ASSUME NEW h \in Handles, NEW p \in Procs, ClaimWrite(h, p) PROVE Typed'
  <2>1. FilesOK' /\ OwnersOK' /\ CallersOK'
    BY <1>0, <1>25, HandleConstants DEF HandleConstants, ClaimWrite, FilesOK, OwnersOK, CallersOK, Phases
  <2>2. StateOK' /\ BufferOK' /\ ChainOK'
    BY <1>0, <1>25 DEF ClaimWrite, StateOK, BufferOK, ChainOK, Occupied
  <2> QED BY <1>p, <2>1, <2>2
<1>26. ASSUME NEW h \in Handles, NEW f \in Flushers, FlushCall(f, h) PROVE Typed'
  <2>1. FilesOK' /\ OwnersOK' /\ CallersOK'
    BY <1>0, <1>26, HandleConstants DEF HandleConstants, FlushCall, FilesOK, OwnersOK, StateOK, CallersOK
  <2>2. StateOK' /\ BufferOK' /\ ChainOK'
    BY <1>0, <1>26, DrainLiveType DEF FlushCall, StateOK, BufferOK, ChainOK, Occupied
  <2> QED BY <1>p, <2>1, <2>2
<1>27. ASSUME NEW f \in Flushers, FlushQueues(f) PROVE Typed'
  <2>a. chain[on[f]] \in Seq(Ops) /\ f \in Ops => Append(chain[on[f]], f) \in Seq(Ops) /\ Append(chain[on[f]], f) # <<>>
    BY AppendProperties
  <2>b. f \in Ops BY DEF Ops
  <2>c. chain' \in [Handles -> Seq(Ops)] /\ \A g \in Handles : chain[g] # <<>> => chain'[g] # <<>>
    BY <1>0, <1>27, <2>a, <2>b DEF FlushQueues, ChainOK
  <2>1. FilesOK'
    BY <1>0, <1>27 DEF FlushQueues, FilesOK
  <2>2. OwnersOK'
    BY <1>0, <1>27 DEF FlushQueues, OwnersOK
  <2>3. StateOK'
    BY <1>0, <1>27 DEF FlushQueues, StateOK
  <2>4. BufferOK'
    BY <1>0, <1>27 DEF FlushQueues, BufferOK
  <2>5. ChainOK'
    BY <1>0, <1>27, <2>c DEF FlushQueues, ChainOK, Occupied
  <2>6. CallersOK'
    BY <1>0, <1>27 DEF FlushQueues, CallersOK
  <2> QED BY <1>p, <2>1, <2>2, <2>3, <2>4, <2>5, <2>6
<1>28. ASSUME NEW p \in Procs, CheckDelete(p) PROVE Typed'
  <2>1. FilesOK' /\ OwnersOK' /\ CallersOK'
    BY <1>0, <1>28, HandleConstants DEF HandleConstants, CheckDelete, FilesOK, OwnersOK, CallersOK, Phases
  <2>2. StateOK' /\ BufferOK' /\ ChainOK'
    BY <1>0, <1>28 DEF CheckDelete, StateOK, BufferOK, ChainOK, Occupied
  <2> QED BY <1>p, <2>1, <2>2
<1>29. ASSUME NEW p \in Procs, RemoveDirectory(p) PROVE Typed'
  <2>1. FilesOK'
    BY <1>0, <1>29, <1>e DEF RemoveDirectory, FilesOK
  <2>2. OwnersOK'
    BY <1>0, <1>29 DEF RemoveDirectory, OwnersOK
  <2>3. StateOK'
    BY <1>0, <1>29 DEF RemoveDirectory, StateOK
  <2>4. BufferOK'
    BY <1>0, <1>29 DEF RemoveDirectory, BufferOK
  <2>5. ChainOK'
    BY <1>0, <1>29 DEF RemoveDirectory, ChainOK, Occupied
  <2>6. CallersOK'
    BY <1>0, <1>29 DEF RemoveDirectory, OwnersOK, CallersOK
  <2> QED BY <1>p, <2>1, <2>2, <2>3, <2>4, <2>5, <2>6
<1>30. ASSUME NEW p \in Procs, Crash(p) PROVE Typed'
  <2>a. PICK f \in UNION ({{File}} \cup {CrashFiles(h) : h \in {g \in Of(p) : Mutating(g) /\ PathFits(g)}}) :
            SetFile(f)
    BY <1>30 DEF Crash
  <2>b. f = File \/ \E h \in Handles : f \in CrashFiles(h) BY <2>a DEF Of
  <2>c. \A h \in Handles : /\ h \in Of(p) => chain'[h] = <<>> /\ stage'[h] = "idle"
                           /\ h \notin Of(p) => chain'[h] = chain[h] /\ stage'[h] = stage[h]
    <3>1. chain' = Lost(p, chain, <<>>) /\ stage' = Lost(p, stage, "idle") BY <1>30 DEF Crash
    <3> QED BY <3>1 DEF Lost
  <2>d. Occupied' BY <1>0, <2>c DEF ChainOK, Occupied
  <2>e. \A S : <<>> \in Seq(S) OBVIOUS
  <2>1. FilesOK' 
    <3>1. encoding' = encoding BY <1>30 DEF Crash
    <3>2. CASE f = File
      <4>1. SetFile(File) BY <2>a, <3>2
      <4>2. exists' = exists /\ log' = log /\ tail' = tail /\ torn' = torn
        BY <4>1 DEF SetFile, File
      <4> QED BY <1>0, <3>1, <4>2 DEF FilesOK
    <3>3. CASE \E h \in Handles : f \in CrashFiles(h) \cup {File}
      BY <1>0, <2>a, <3>1, <3>3, FilesType DEF Typed, FilesOK
    <3> QED BY <2>b, <3>2, <3>3
  <2>2. OwnersOK'
    BY <1>0, <1>30 DEF Crash, Phases, Lost, OwnersOK
  <2>3. StateOK' BY <1>0, <1>e, <1>30, LostType DEF Crash, StateOK
  <2>4. BufferOK' BY <1>0, <1>e, <1>30, LostType DEF Crash, BufferOK
  <2>5. ChainOK' BY <1>0, <1>e, <2>d, <2>e, <1>30, LostType DEF Crash, ChainOK, Stages
  <2>6. CallersOK'
    BY <1>0, <1>30, HandleConstants DEF Crash, HandleConstants, CallersOK
  <2> QED BY <1>p, <2>1, <2>2, <2>3, <2>4, <2>5, <2>6
<1>31. CASE UNCHANGED vars
  BY <1>31 DEF Typed, TypeOK, Occupied, vars
<1> QED BY <1>1, <1>2, <1>3, <1>4, <1>5, <1>6, <1>7, <1>8, <1>9, <1>10, <1>11, <1>12, <1>13, <1>14, <1>15, <1>16, <1>17, <1>18, <1>19, <1>20, <1>21, <1>22, <1>23, <1>24, <1>25, <1>26, <1>27, <1>28, <1>29, <1>30, <1>31 DEF Next, TurnStep, CloseStep

LEMMA TypedInit == Init => Typed
<1> SUFFICES ASSUME Init PROVE Typed OBVIOUS
<1>3. <<>> \in Seq(1..MaxSeq) /\ <<>> \in Seq(Ops) OBVIOUS
<1>1. FilesOK BY <1>3 DEF Init, FilesOK
<1>2. OwnersOK BY DEF Init, OwnersOK, Phases
<1>4. StateOK /\ BufferOK BY <1>3 DEF Init, StateOK, BufferOK
<1>5. ChainOK BY <1>3 DEF Init, ChainOK, Occupied, Stages
<1>6. CallersOK BY HandleConstants DEF Init, CallersOK, HandleConstants
<1>7. ClaimsOK BY DEF Init, ClaimsOK
<1> QED BY <1>1, <1>2, <1>4, <1>5, <1>6, <1>7, TypedParts

(* Every variable has its type, so that no sequence number outside the     *)
(* session's is ever stored, buffered or recovered; and a process's claim  *)
(* is always of one of its own handles that is opening, open or closing.   *)
THEOREM TypesHold == Spec => []TypeOK
<1>1. Init => Typed BY TypedInit
<1>2. Typed /\ [Next]_vars => Typed' BY TypedStep
<1>3. Typed => TypeOK BY DEF Typed
<1> QED BY <1>1, <1>2, <1>3, PTL DEF Spec

-----------------------------------------------------------------------------
(* The lock, in a runtime whose timers may outlive close() and whose       *)
(* delete() may overtake a writer: nothing here assumes Guarded.           *)

LeaseParts ==
    /\ OwnersOK /\ live \in [Handles -> BOOLEAN] /\ timer \in [Handles -> BOOLEAN]
    /\ chain \in [Handles -> Seq(Ops)] /\ stage \in [Handles -> Stages]
    /\ orphans \subseteq Handles /\ Nobody \notin Handles

LEMMA LInvParts == LInv => Typed /\ LeaseParts
BY HandleConstants DEF HandleConstants, LInv, Typed, Occupied, LeaseParts, TypeOK, OwnersOK

(* Every step takes the lock from nobody and gives back its own.           *)
LEMMA LeasingStep ==
    ASSUME LInv, [Next]_vars, NEW g \in Handles
    PROVE  Leasing(g)'
<1> USE DEF fileVars, trackVars, lifeVars, stateVars, liveVars, bufVars, chainVars, flushVars, countVars, ForgetClaim
<1>0. /\ Typed /\ LeaseParts
      /\ \A h \in Handles : Leasing(h) /\ (stage[h] # "idle" => chain[h] # <<>>)
  BY LInvParts DEF LInv
<1>k. CASE /\ UNCHANGED <<held, lock, orphans>> /\ stage'[g] \in {stage[g], "idle", "lease"}
           /\ \/ phase'[g] = phase[g] /\ (phase[g] \in {"unused", "claimed", "leased"} =>
                    live'[g] = live[g] /\ timer'[g] = timer[g] /\ chain'[g] = chain[g] /\ stage'[g] = stage[g])
              \/ phase[g] \in Serving /\ phase'[g] \in Serving
  BY <1>0, <1>k DEF Leasing, Mutating, Serving
<1>i. ASSUME NEW h \in Handles, Resolve(h) \/ Reject(h), UNCHANGED <<phase, held, lock, orphans>>,
             UNCHANGED <<live, timer>>, stage[h] # "idle" \/ chain[h] # <<>>
      PROVE  Leasing(g)'
  <2>1. /\ stage' = [stage EXCEPT ![h] = "idle"] /\ phase[h] \notin {"unused", "claimed", "leased"}
        /\ \E rest : chain' = [chain EXCEPT ![h] = rest]
    BY <1>0, <1>i DEF Resolve, Reject, EndTurn, Leasing
  <2> QED BY <1>0, <1>i, <1>k, <2>1 DEF LeaseParts
<1>1. ASSUME NEW h \in Handles, ReadStored(h) PROVE Leasing(g)'
  BY <1>0, <1>1 DEF ReadStored, Leasing, LeaseParts, OwnersOK, Mutating, Serving
<1>2. ASSUME NEW h \in Handles, OpenFails(h) PROVE Leasing(g)'
  BY <1>0, <1>2 DEF OpenFails, Leasing, LeaseParts, OwnersOK, Mutating, Serving
<1>3. ASSUME NEW h \in Handles, AcquireLease(h) PROVE Leasing(g)'
  BY <1>0, <1>3 DEF AcquireLease, Lockable, Leasing, LeaseParts, OwnersOK, Mutating, Serving
<1>4. ASSUME NEW h \in Handles, AppendBatch(h) PROVE Leasing(g)'
  BY <1>0, <1>4, <1>k DEF AppendBatch, LeaseParts, OwnersOK
<1>5. ASSUME NEW h \in Handles, Announce(h) PROVE Leasing(g)'
  BY <1>0, <1>5, <1>k DEF Announce, LeaseParts, OwnersOK
<1>6. ASSUME NEW h \in Handles, Publish(h) PROVE Leasing(g)'
  BY <1>0, <1>6, <1>k DEF Publish, Routed, Leasing, LeaseParts, OwnersOK
<1>7. ASSUME NEW h \in Handles, TimerFires(h) PROVE Leasing(g)'
  BY <1>0, <1>7, <1>k DEF TimerFires, DrainLive, Leasing, LeaseParts, OwnersOK
<1>8. ASSUME NEW h \in Handles, DrainReturns(h) PROVE Leasing(g)'
  BY <1>0, <1>8, <1>k DEF DrainReturns, Serving, LeaseParts, OwnersOK
<1>9. ASSUME NEW h \in Handles, TurnRefused(h) PROVE Leasing(g)'
  BY <1>0, <1>9, <1>i DEF TurnRefused, Ready, Reject
<1>10. ASSUME NEW h \in Handles, FlushNoop(h) PROVE Leasing(g)'
  BY <1>0, <1>10, <1>i DEF FlushNoop, Ready
<1>11. ASSUME NEW h \in Handles, TurnStarts(h) PROVE Leasing(g)'
  BY <1>0, <1>11, <1>k DEF TurnStarts, Ready, Leasing, LeaseParts, OwnersOK
<1>12. ASSUME NEW h \in Handles, Ensured(h) PROVE Leasing(g)'
  BY <1>0, <1>12 DEF Ensured, Lockable, Leasing, LeaseParts, OwnersOK, Mutating, Serving
<1>13. ASSUME NEW h \in Handles, LeaseFails(h) PROVE Leasing(g)'
  BY <1>0, <1>13, <1>i DEF LeaseFails, Reject
<1>14. ASSUME NEW h \in Handles, Truncated(h) PROVE Leasing(g)'
  BY <1>0, <1>14 DEF Truncated, Leasing, LeaseParts, OwnersOK, Mutating, Serving
<1>15. ASSUME NEW h \in Handles, Rewritten(h) PROVE Leasing(g)'
  BY <1>0, <1>15 DEF Rewritten, Leasing, LeaseParts, OwnersOK, Mutating, Serving
<1>16. ASSUME NEW h \in Handles, Written(h) PROVE Leasing(g)'
  BY <1>0, <1>16, <1>i DEF Written
<1>17. ASSUME NEW h \in Handles, HeaderWritten(h) PROVE Leasing(g)'
  BY <1>0, <1>17, <1>i DEF HeaderWritten
<1>18. ASSUME NEW h \in Handles, PathFails(h) PROVE Leasing(g)'
  BY <1>0, <1>18, <1>i DEF PathFails, Mutating, Reject
<1>19. ASSUME NEW h \in Handles, IOFails(h) PROVE Leasing(g)'
  BY <1>0, <1>19, <1>i DEF IOFails, Mutating, Reject
<1>20. ASSUME NEW h \in Handles, SettlePass(h) PROVE Leasing(g)'
  BY <1>0, <1>20, <1>k DEF SettlePass, DrainLive, Serving, LeaseParts, OwnersOK
<1>21. ASSUME NEW h \in Handles, FinishPass(h) PROVE Leasing(g)'
  BY <1>0, <1>21 DEF FinishPass, Leasing, LeaseParts, OwnersOK, Mutating, Serving
<1>22. ASSUME NEW h \in Handles, Release(h) PROVE Leasing(g)'
  BY <1>0, <1>22 DEF Release, Leasing, LeaseParts, OwnersOK, Mutating, Serving
<1>23. ASSUME NEW h \in Handles, Close(h) PROVE Leasing(g)'
  BY <1>0, <1>23, <1>k DEF Close, DrainLive, Serving, LeaseParts, OwnersOK
<1>24. ASSUME NEW h \in Handles, NEW p \in Procs, Create(h, p) PROVE Leasing(g)'
  BY <1>0, <1>24 DEF Create, Leasing, LeaseParts, OwnersOK, Mutating, Serving
<1>25. ASSUME NEW h \in Handles, NEW p \in Procs, ClaimWrite(h, p) PROVE Leasing(g)'
  BY <1>0, <1>25 DEF ClaimWrite, Leasing, LeaseParts, OwnersOK, Mutating, Serving
<1>26. ASSUME NEW h \in Handles, NEW f \in Flushers, FlushCall(f, h) PROVE Leasing(g)'
  BY <1>0, <1>26, <1>k DEF FlushCall, Routed, DrainLive, Leasing, LeaseParts, OwnersOK
<1>27. ASSUME NEW f \in Flushers, FlushQueues(f) PROVE Leasing(g)'
  <2>1. UNCHANGED <<phase, held, lock, orphans, live, timer, stage>>
    BY <1>27 DEF FlushQueues
  <2>2. chain'[g] = chain[g] \/ phase[g] = "open"
    BY <1>0, <1>27 DEF FlushQueues, LeaseParts
  <2> QED BY <1>0, <1>k, <2>1, <2>2
<1>28. ASSUME NEW p \in Procs, CheckDelete(p) PROVE Leasing(g)'
  BY <1>0, <1>28, <1>k DEF CheckDelete
<1>29. ASSUME NEW p \in Procs, RemoveDirectory(p) PROVE Leasing(g)'
  BY <1>0, <1>29 DEF RemoveDirectory, Leasing, LeaseParts, OwnersOK, Mutating, Serving
<1>30. ASSUME NEW p \in Procs, Crash(p) PROVE Leasing(g)'
  <2>1. /\ phase' = Lost(p, phase, "dead") /\ held' = Lost(p, held, FALSE)
        /\ stage' = Lost(p, stage, "idle") /\ live' = Lost(p, live, FALSE)
        /\ timer' = Lost(p, timer, FALSE) /\ chain' = Lost(p, chain, <<>>)
        /\ lock' = (IF lock \in Of(p) THEN Nobody ELSE lock) /\ orphans' = orphans
    BY <1>30 DEF Crash
  <2> QED BY <1>0, <2>1 DEF Lost, Of, Leasing, LeaseParts, OwnersOK, Mutating, Serving
<1>31. CASE UNCHANGED vars BY <1>0, <1>31, <1>k DEF vars
<1> QED BY <1>1, <1>2, <1>3, <1>4, <1>5, <1>6, <1>7, <1>8, <1>9, <1>10, <1>11, <1>12, <1>13, <1>14, <1>15, <1>16, <1>17, <1>18, <1>19, <1>20, <1>21, <1>22, <1>23, <1>24, <1>25, <1>26, <1>27, <1>28, <1>29, <1>30, <1>31 DEF Next, TurnStep, CloseStep

(* Until its close() lets go, a handle changes the stored log only with    *)
(* the kernel lock on it, whatever drains of other handles outlive their   *)
(* close and whatever is deleted, its own locked file excepted.            *)
THEOREM LockHeld == Spec => []OwnedWrites
<1>1. Init => LInv
  <2>1. Init => TypeOK BY TypedInit DEF Typed
  <2> QED BY <2>1 DEF Init, LInv, Leasing, Mutating, Serving
<1>2. LInv /\ [Next]_vars => LInv'
  <2> SUFFICES ASSUME LInv, [Next]_vars PROVE LInv' OBVIOUS
  <2>1. Typed' BY LInvParts, TypedStep
  <2>2. \A g \in Handles : Leasing(g)' BY LeasingStep
  <2> QED BY <2>1, <2>2 DEF Typed, Occupied, LInv
<1>3. LInv => OwnedWrites BY DEF LInv, Leasing, OwnedWrites
<1> QED BY <1>1, <1>2, <1>3, PTL DEF Spec

-----------------------------------------------------------------------------
(* What holds of one handle is disturbed by that handle's own steps only.  *)

Same(g) ==
    /\ phase'[g] = phase[g] /\ home'[g] = home[g] /\ held'[g] = held[g]
    /\ cursor'[g] = cursor[g] /\ live'[g] = live[g] /\ pub'[g] = pub[g]
    /\ buffer'[g] = buffer[g] /\ timer'[g] = timer[g] /\ paused'[g] = paused[g]
    /\ drain'[g] = drain[g] /\ chain'[g] = chain[g] /\ stage'[g] = stage[g]
    /\ batch'[g] = batch[g] /\ waits'[g] = waits[g]

HandleStep(h) ==
    \/ DrainReturns(h) \/ TurnStep(h) \/ CloseStep(h)
    \/ ReadStored(h) \/ OpenFails(h) \/ AcquireLease(h)
    \/ AppendBatch(h) \/ Announce(h) \/ Publish(h) \/ TimerFires(h)
    \/ IOFails(h) \/ Close(h)
    \/ \E p \in Procs : Create(h, p) \/ ClaimWrite(h, p)
    \/ \E f \in Flushers : FlushCall(f, h)
    \/ \E f \in Flushers : FlushQueues(f) /\ on[f] = h

LEMMA RejectFrame ==
    ASSUME Typed, NEW h \in Handles, NEW g \in Handles \ {h}, Reject(h),
           UNCHANGED <<lifeVars, held, stateVars>>
    PROVE  Same(g)
BY DEF Typed, TypeOK, Same, Reject, EndTurn, lifeVars, stateVars

LEMMA Frame ==
    ASSUME Typed, NEW h \in Handles, HandleStep(h), NEW g \in Handles \ {h}
    PROVE  Same(g)
<1> USE DEF fileVars, trackVars, lifeVars, stateVars, liveVars, bufVars, chainVars, flushVars, countVars, ForgetClaim
<1>1. CASE ReadStored(h) BY <1>1 DEF ReadStored, Typed, TypeOK, Same
<1>2. CASE OpenFails(h) BY <1>2 DEF OpenFails, Typed, TypeOK, Same
<1>3. CASE AcquireLease(h) BY <1>3 DEF AcquireLease, Typed, TypeOK, Same
<1>4. CASE AppendBatch(h) BY <1>4 DEF AppendBatch, Typed, TypeOK, Same
<1>5. CASE Announce(h) BY <1>5 DEF Announce, Typed, TypeOK, Same
<1>6. CASE Publish(h) BY <1>6 DEF Publish, Typed, TypeOK, Same
<1>7. CASE TimerFires(h) BY <1>7 DEF TimerFires, Typed, TypeOK, Same, DrainLive
<1>8. CASE DrainReturns(h) BY <1>8 DEF DrainReturns, Typed, TypeOK, Same
<1>9. CASE TurnRefused(h) BY <1>9, RejectFrame DEF TurnRefused
<1>10. CASE FlushNoop(h) BY <1>10 DEF FlushNoop, Typed, TypeOK, Same, Resolve, EndTurn
<1>11. CASE TurnStarts(h) BY <1>11 DEF TurnStarts, Typed, TypeOK, Same
<1>12. CASE Ensured(h) BY <1>12 DEF Ensured, Typed, TypeOK, Same
<1>13. CASE LeaseFails(h) BY <1>13, RejectFrame DEF LeaseFails
<1>14. CASE Truncated(h) BY <1>14 DEF Truncated, Typed, TypeOK, Same
<1>15. CASE Rewritten(h) BY <1>15 DEF Rewritten, Typed, TypeOK, Same
<1>16. CASE Written(h) BY <1>16 DEF Written, Typed, TypeOK, Same, Resolve, EndTurn
<1>17. CASE HeaderWritten(h) BY <1>17 DEF HeaderWritten, Typed, TypeOK, Same, Resolve, EndTurn
<1>18. CASE PathFails(h) BY <1>18, RejectFrame DEF PathFails
<1>19. CASE SettlePass(h) BY <1>19 DEF SettlePass, Typed, TypeOK, Same, DrainLive
<1>20. CASE FinishPass(h) BY <1>20 DEF FinishPass, Typed, TypeOK, Same
<1>21. CASE Release(h) BY <1>21 DEF Release, Typed, TypeOK, Same
<1>22. CASE IOFails(h) BY <1>22, RejectFrame DEF IOFails
<1>23. CASE Close(h) BY <1>23 DEF Close, Typed, TypeOK, Same, DrainLive
<1>24. CASE \E p \in Procs : Create(h, p) BY <1>24 DEF Create, Typed, TypeOK, Same
<1>25. CASE \E p \in Procs : ClaimWrite(h, p) BY <1>25 DEF ClaimWrite, Typed, TypeOK, Same
<1>26. CASE \E f \in Flushers : FlushCall(f, h) BY <1>26 DEF FlushCall, Typed, TypeOK, Same, DrainLive
<1>27. CASE \E f \in Flushers : FlushQueues(f) /\ on[f] = h BY <1>27 DEF FlushQueues, Typed, TypeOK, Same
<1> QED BY <1>1, <1>2, <1>3, <1>4, <1>5, <1>6, <1>7, <1>8, <1>9, <1>10, <1>11, <1>12, <1>13, <1>14, <1>15, <1>16, <1>17, <1>18, <1>19, <1>20, <1>21, <1>22, <1>23, <1>24, <1>25, <1>26, <1>27 DEF HandleStep, TurnStep, CloseStep

LEMMA SameKeeps ==
    ASSUME NEW g \in Handles, Same(g), Queueing(g), Batching(g), Placed(g), Watched(g)
    PROVE  Queueing(g)' /\ Batching(g)' /\ Placed(g)' /\ Watched(g)'
<1>1. Drains(g)' = Drains(g) /\ Turn(g)' = Turn(g) /\ (Awake(g)' <=> Awake(g))
  BY DEF Same, Drains, DrainsIn, Turn, Awake
<1>2. Queueing(g)' BY <1>1 DEF Same, Queueing
<1>3. Batching(g)' BY <1>1 DEF Same, Batching
<1>4. Placed(g)' BY DEF Same, Placed, Numbers
<1>5. Watched(g)' BY <1>1 DEF Same, Watched
<1> QED BY <1>2, <1>3, <1>4, <1>5

(* The claim and the lock.                                                 *)

LEMMA IInvTyped == IInv => Typed
BY DEF IInv, Typed, Occupied, Queueing

(* The end of a turn concerns no owner.                                    *)
LEMMA TurnEnds ==
    ASSUME NEW h \in Handles, Resolve(h) \/ Reject(h)
    PROVE  stage' = [stage EXCEPT ![h] = "idle"]
BY DEF Resolve, Reject, EndTurn

LEMMA OwningStep ==
    ASSUME Guarded, IInv, [Next]_vars, NEW g \in Handles
    PROVE  Owning(g)'
<1> USE DEF fileVars, trackVars, lifeVars, stateVars, liveVars, bufVars, chainVars, flushVars, countVars, ForgetClaim
<1>0. /\ OwnersOK /\ stage \in [Handles -> Stages]
      /\ \A h \in Handles : Owning(h) /\ (phase[h] \notin Serving => stage[h] = "idle")
  BY DEF IInv, TypeOK, OwnersOK, Queueing
<1>n. Nobody \notin Handles /\ Nobody \notin Procs BY HandleConstants DEF HandleConstants
<1>1. ASSUME NEW h \in Handles, ReadStored(h) PROVE Owning(g)'
  BY <1>0, <1>n, <1>1 DEF ReadStored, Owning, OwnersOK, Mutating, Serving
<1>2. ASSUME NEW h \in Handles, OpenFails(h) PROVE Owning(g)'
  BY <1>0, <1>n, <1>2 DEF OpenFails, Owning, OwnersOK, Mutating, Serving
<1>3. ASSUME NEW h \in Handles, AcquireLease(h) PROVE Owning(g)'
  BY <1>0, <1>n, <1>3 DEF AcquireLease, Lockable, Owning, OwnersOK, Mutating, Serving
<1>4. ASSUME NEW h \in Handles, AppendBatch(h) PROVE Owning(g)'
  BY <1>0, <1>n, <1>4 DEF AppendBatch, Owning, OwnersOK, Mutating, Serving
<1>5. ASSUME NEW h \in Handles, Announce(h) PROVE Owning(g)'
  BY <1>0, <1>n, <1>5 DEF Announce, Owning, OwnersOK, Mutating, Serving
<1>6. ASSUME NEW h \in Handles, Publish(h) PROVE Owning(g)'
  BY <1>0, <1>n, <1>6 DEF Publish, Owning, OwnersOK, Mutating, Serving
<1>7. ASSUME NEW h \in Handles, TimerFires(h) PROVE Owning(g)'
  BY <1>0, <1>n, <1>7 DEF TimerFires, Owning, OwnersOK, Mutating, Serving
<1>8. ASSUME NEW h \in Handles, DrainReturns(h) PROVE Owning(g)'
  BY <1>0, <1>n, <1>8 DEF DrainReturns, Owning, OwnersOK, Mutating, Serving
<1>9. ASSUME NEW h \in Handles, TurnRefused(h) PROVE Owning(g)'
  BY <1>0, <1>n, <1>9, TurnEnds DEF TurnRefused, Owning, OwnersOK, Mutating, Serving
<1>10. ASSUME NEW h \in Handles, FlushNoop(h) PROVE Owning(g)'
  BY <1>0, <1>n, <1>10, TurnEnds DEF FlushNoop, Owning, OwnersOK, Mutating, Serving
<1>11. ASSUME NEW h \in Handles, TurnStarts(h) PROVE Owning(g)'
  BY <1>0, <1>n, <1>11 DEF TurnStarts, Owning, OwnersOK, Mutating, Serving
<1>12. ASSUME NEW h \in Handles, Ensured(h) PROVE Owning(g)'
  BY <1>0, <1>n, <1>12 DEF Ensured, Lockable, Owning, OwnersOK, Mutating, Serving
<1>13. ASSUME NEW h \in Handles, LeaseFails(h) PROVE Owning(g)'
  BY <1>0, <1>n, <1>13, TurnEnds DEF LeaseFails, Owning, OwnersOK, Mutating, Serving
<1>14. ASSUME NEW h \in Handles, Truncated(h) PROVE Owning(g)'
  <2>1. Mutating(h) /\ UNCHANGED <<phase, home, held, claim, lock>>
    BY <1>14 DEF Truncated, Mutating
  <2>2. Mutating(g)' => Mutating(g) BY <1>0, <1>14, <2>1 DEF Truncated, Mutating
  <2> QED BY <1>0, <2>1, <2>2 DEF Owning
<1>15. ASSUME NEW h \in Handles, Rewritten(h) PROVE Owning(g)'
  BY <1>0, <1>n, <1>15 DEF Rewritten, Owning, OwnersOK, Mutating, Serving
<1>16. ASSUME NEW h \in Handles, Written(h) PROVE Owning(g)'
  BY <1>0, <1>n, <1>16, TurnEnds DEF Written, Owning, OwnersOK, Mutating, Serving
<1>17. ASSUME NEW h \in Handles, HeaderWritten(h) PROVE Owning(g)'
  BY <1>0, <1>n, <1>17, TurnEnds DEF HeaderWritten, Owning, OwnersOK, Mutating, Serving
<1>18. ASSUME NEW h \in Handles, PathFails(h) PROVE Owning(g)'
  BY <1>0, <1>n, <1>18, TurnEnds DEF PathFails, Owning, OwnersOK, Mutating, Serving
<1>19. ASSUME NEW h \in Handles, SettlePass(h) PROVE Owning(g)'
  BY <1>0, <1>n, <1>19 DEF SettlePass, Owning, OwnersOK, Mutating, Serving
<1>20. ASSUME NEW h \in Handles, FinishPass(h) PROVE Owning(g)'
  BY <1>0, <1>n, <1>20 DEF FinishPass, Owning, OwnersOK, Mutating, Serving
<1>21. ASSUME NEW h \in Handles, Release(h) PROVE Owning(g)'
  BY <1>0, <1>n, <1>21 DEF Release, Owning, OwnersOK, Mutating, Serving
<1>22. ASSUME NEW h \in Handles, IOFails(h) PROVE Owning(g)'
  BY <1>0, <1>n, <1>22, TurnEnds DEF IOFails, Owning, OwnersOK, Mutating, Serving
<1>23. ASSUME NEW h \in Handles, Close(h) PROVE Owning(g)'
  BY <1>0, <1>n, <1>23 DEF Close, Owning, OwnersOK, Mutating, Serving
<1>24. ASSUME NEW h \in Handles, NEW p \in Procs, Create(h, p) PROVE Owning(g)'
  BY <1>0, <1>n, <1>24 DEF Create, Owning, OwnersOK, Mutating, Serving
<1>25. ASSUME NEW h \in Handles, NEW p \in Procs, ClaimWrite(h, p) PROVE Owning(g)'
  BY <1>0, <1>n, <1>25 DEF ClaimWrite, Owning, OwnersOK, Mutating, Serving
<1>26. ASSUME NEW h \in Handles, NEW f \in Flushers, FlushCall(f, h) PROVE Owning(g)'
  BY <1>0, <1>n, <1>26 DEF FlushCall, Owning, OwnersOK, Mutating, Serving
<1>27. ASSUME NEW f \in Flushers, FlushQueues(f) PROVE Owning(g)'
  BY <1>0, <1>n, <1>27 DEF FlushQueues, Owning, OwnersOK, Mutating, Serving
<1>28. ASSUME NEW p \in Procs, CheckDelete(p) PROVE Owning(g)'
  BY <1>0, <1>28 DEF CheckDelete, Owning, Mutating
<1>29. ASSUME NEW p \in Procs, RemoveDirectory(p) PROVE Owning(g)'
  BY <1>0, <1>n, <1>29 DEF RemoveDirectory, Guarded, Owning, OwnersOK, Mutating, Serving
<1>30. ASSUME NEW p \in Procs, Crash(p) PROVE Owning(g)'
  <2>1. /\ phase' = Lost(p, phase, "dead") /\ held' = Lost(p, held, FALSE)
        /\ stage' = Lost(p, stage, "idle") /\ home' = home
        /\ lock' = (IF lock \in Of(p) THEN Nobody ELSE lock) /\ claim' = [claim EXCEPT ![p] = Nobody]
    BY <1>30 DEF Crash
  <2> QED BY <1>0, <1>n, <2>1 DEF Lost, Of, Owning, OwnersOK, Mutating, Serving
<1>31. CASE UNCHANGED vars BY <1>0, <1>31 DEF vars, Owning, Mutating
<1> QED BY <1>1, <1>2, <1>3, <1>4, <1>5, <1>6, <1>7, <1>8, <1>9, <1>10, <1>11, <1>12, <1>13, <1>14, <1>15, <1>16, <1>17, <1>18, <1>19, <1>20, <1>21, <1>22, <1>23, <1>24, <1>25, <1>26, <1>27, <1>28, <1>29, <1>30, <1>31 DEF Next, TurnStep, CloseStep

(* The chain and its drain.                                                *)

LEMMA DrainsBound ==
    ASSUME NEW s \in Seq(Ops)
    PROVE  Len(s) \in Nat /\ DOMAIN s = 1..Len(s) /\ DrainsIn(s) \subseteq 1..Len(s)
BY LenProperties DEF DrainsIn

LEMMA DrainsAppend ==
    ASSUME NEW s \in Seq(Ops), NEW x \in Ops
    PROVE  /\ Append(s, x) \in Seq(Ops) /\ Append(s, x) # <<>> /\ Len(Append(s, x)) = Len(s) + 1
           /\ x # "drain" => DrainsIn(Append(s, x)) = DrainsIn(s)
           /\ x = "drain" => DrainsIn(Append(s, x)) = DrainsIn(s) \cup {Len(s) + 1}
<1>1. /\ Append(s, x) \in Seq(Ops) /\ Append(s, x) # <<>> /\ Len(Append(s, x)) = Len(s) + 1
      /\ \A i \in 1..Len(s) : Append(s, x)[i] = s[i]
      /\ Append(s, x)[Len(s) + 1] = x
  BY AppendProperties
<1>2. Len(s) \in Nat /\ DOMAIN s = 1..Len(s) /\ DOMAIN Append(s, x) = 1..(Len(s) + 1)
  BY <1>1, LenProperties
<1>3. \A i : i \in 1..(Len(s) + 1) <=> i \in 1..Len(s) \/ i = Len(s) + 1
  BY <1>2
<1> QED BY <1>1, <1>2, <1>3 DEF DrainsIn

LEMMA DrainsTail ==
    ASSUME NEW s \in Seq(Ops), s # <<>>
    PROVE  /\ Tail(s) \in Seq(Ops) /\ Len(Tail(s)) = Len(s) - 1 /\ Len(s) >= 1
           /\ \A i \in DrainsIn(Tail(s)) : i \in Nat /\ i >= 1 /\ i + 1 \in DrainsIn(s)
           /\ \A i \in DrainsIn(s) : i = 1 \/ i - 1 \in DrainsIn(Tail(s))
           /\ Head(s) = "drain" <=> 1 \in DrainsIn(s)
<1>1. /\ Tail(s) \in Seq(Ops) /\ Len(Tail(s)) = Len(s) - 1
      /\ \A i \in 1..Len(Tail(s)) : Tail(s)[i] = s[i + 1]
  BY HeadTailProperties
<1>2. Len(s) \in Nat /\ Len(s) >= 1 /\ DOMAIN s = 1..Len(s) /\ DOMAIN Tail(s) = 1..(Len(s) - 1)
  BY <1>1, LenProperties, EmptySeq
<1>3. Head(s) = s[1] OBVIOUS
<1>4. ASSUME NEW i \in DrainsIn(Tail(s)) PROVE i \in Nat /\ i >= 1 /\ i + 1 \in DrainsIn(s)
  BY <1>1, <1>2 DEF DrainsIn
<1>5. ASSUME NEW i \in DrainsIn(s), i # 1 PROVE i - 1 \in DrainsIn(Tail(s))
  <2>1. i \in 2..Len(s) /\ s[i] = "drain" BY <1>2, <1>5 DEF DrainsIn
  <2>2. i - 1 \in 1..(Len(s) - 1) /\ (i - 1) + 1 = i BY <1>2, <2>1
  <2> QED BY <1>1, <1>2, <2>1, <2>2 DEF DrainsIn
<1>6. Head(s) = "drain" <=> 1 \in DrainsIn(s) BY <1>2, <1>3 DEF DrainsIn
<1> QED BY <1>1, <1>2, <1>4, <1>5, <1>6

LEMMA DrainLiveCases ==
    ASSUME Typed, NEW h \in Handles, DrainLive(h)
    PROVE  \/ /\ drain[h] # "idle" /\ UNCHANGED <<timer, paused, drain, chain>>
           \/ /\ drain[h] = "idle" /\ buffer[h] = <<>> /\ drain'[h] = "settled" /\ chain'[h] = chain[h]
              /\ ~timer'[h] /\ ~paused'[h]
           \/ /\ drain[h] = "idle" /\ buffer[h] # <<>> /\ drain'[h] = "turn"
              /\ chain'[h] = Append(chain[h], "drain") /\ ~timer'[h] /\ ~paused'[h]
BY DEF DrainLive, Typed, TypeOK

(* A drain begins.                                                         *)
LEMMA QueueingDrains ==
    ASSUME Guarded, Typed, NEW h \in Handles, Queueing(h), DrainLive(h),
           UNCHANGED <<stage, buffer, waits>>,
           \/ phase'[h] = phase[h] /\ MayDrain(h)
           \/ phase[h] \in {"open", "settling"} /\ phase'[h] = "draining"
    PROVE  Queueing(h)'
<1>0. /\ chain[h] \in Seq(Ops) /\ waits[h] \in Nat /\ "drain" \in Ops
      /\ Len(chain[h]) \in Nat /\ Drains(h) \subseteq 1..Len(chain[h])
  BY DrainsBound DEF Typed, TypeOK, Ops, Drains
<1>1. CASE drain'[h] = drain[h] /\ chain'[h] = chain[h]
  BY <1>0, <1>1 DEF Queueing, Drains, Serving
<1>2. CASE drain[h] = "idle" /\ drain'[h] = "settled" /\ chain'[h] = chain[h]
  BY <1>0, <1>2 DEF Queueing, Drains, Serving
<1>3. CASE drain[h] = "idle" /\ buffer[h] # <<>> /\ drain'[h] = "turn" /\ chain'[h] = Append(chain[h], "drain")
  <2>1. Drains(h) = {} BY <1>3 DEF Queueing
  <2>2. /\ Drains(h)' = {Len(chain[h]) + 1} /\ chain'[h] # <<>> /\ Len(chain'[h]) = Len(chain[h]) + 1
    BY <1>0, <1>3, <2>1, DrainsAppend DEF Drains
  <2>3. phase'[h] \in {"open", "draining", "settling"} BY <1>3 DEF MayDrain, Guarded
  <2>4. phase'[h] = "settling" => phase[h] = "settling" OBVIOUS
  <2> QED BY <1>0, <1>3, <2>2, <2>3, <2>4 DEF Queueing, Serving
<1> QED BY <1>1, <1>2, <1>3, DrainLiveCases

(* A turn ends.                                                            *)
LEMMA QueueingEnds ==
    ASSUME Typed, NEW h \in Handles, Queueing(h), chain[h] # <<>>, ~CloseResumes(h),
           phase'[h] = phase[h], stage'[h] = "idle", waits'[h] = Awaited(waits[h]),
           chain'[h] = Tail(chain[h]),
           \/ Turn(h) # "drain" /\ drain'[h] = drain[h] /\ buffer'[h] = buffer[h]
           \/ Turn(h) = "drain" /\ drain'[h] # "turn"
    PROVE  Queueing(h)'
<1>0. /\ chain[h] \in Seq(Ops) /\ waits[h] \in Nat /\ Len(chain[h]) \in Nat
  BY DrainsBound DEF Typed, TypeOK, Drains
<1>1. /\ Len(chain'[h]) = Len(chain[h]) - 1 /\ Len(chain[h]) >= 1
      /\ \A i \in Drains(h)' : i \in Nat /\ i >= 1 /\ i + 1 \in Drains(h)
      /\ \A i \in Drains(h) : i = 1 \/ i - 1 \in Drains(h)'
      /\ Turn(h) = "drain" <=> 1 \in Drains(h)
  BY <1>0, DrainsTail DEF Drains, Turn
<1>2. phase[h] \in {"settling", "finishing"} => waits[h] > 0 /\ waits'[h] = waits[h] - 1
  BY <1>0 DEF CloseResumes, Awaited
<1>3. phase[h] \in Serving BY DEF Queueing
<1>4. CASE Turn(h) # "drain" /\ drain'[h] = drain[h] /\ buffer'[h] = buffer[h]
  <2>1. drain'[h] = "turn" <=> Drains(h)' # {} BY <1>1, <1>4 DEF Queueing
  <2>2. \A i, j \in Drains(h)' : i = j
    <3> TAKE i, j \in Drains(h)'
    <3>1. i + 1 = j + 1 BY <1>1 DEF Queueing
    <3> QED BY <1>1, <3>1
  <2>3. \A i \in Drains(h)' : buffer'[h] # <<>>
    <3> TAKE i \in Drains(h)'
    <3>1. i + 1 # 1 /\ i + 1 \in Drains(h) BY <1>1
    <3> QED BY <1>4, <3>1 DEF Queueing
  <2>4. phase'[h] = "settling" => waits'[h] <= Len(chain'[h]) /\ \A i \in Drains(h)' : i > waits'[h]
    <3> SUFFICES ASSUME phase[h] = "settling"
                 PROVE waits'[h] <= Len(chain'[h]) /\ \A i \in Drains(h)' : i > waits'[h]
      OBVIOUS
    <3>1. waits'[h] <= Len(chain'[h]) BY <1>0, <1>1, <1>2 DEF Queueing
    <3>2. ASSUME NEW i \in Drains(h)' PROVE i > waits'[h]
      <4>1. i \in Nat /\ i + 1 > waits[h] BY <1>1 DEF Queueing
      <4> QED BY <1>0, <1>2, <4>1
    <3> QED BY <3>1, <3>2
  <2>5. phase'[h] = "finishing" => waits'[h] = Len(chain'[h]) /\ Drains(h)' = {}
    BY <1>0, <1>1, <1>2 DEF Queueing
  <2> QED BY <1>3, <2>1, <2>2, <2>3, <2>4, <2>5 DEF Queueing
<1>5. CASE Turn(h) = "drain" /\ drain'[h] # "turn"
  <2>1. 1 \in Drains(h) BY <1>1, <1>5
  <2>2. Drains(h)' = {}
    <3> SUFFICES ASSUME NEW i \in Drains(h)' PROVE FALSE OBVIOUS
    <3>1. i + 1 \in Drains(h) /\ i >= 1 /\ i \in Nat BY <1>1
    <3>2. i + 1 = 1 BY <2>1, <3>1 DEF Queueing
    <3> QED BY <3>1, <3>2
  <2>3. phase[h] \notin {"settling", "finishing"}
    BY <1>0, <1>2, <2>1 DEF Queueing
  <2> QED BY <1>3, <1>5, <2>2, <2>3 DEF Queueing
<1> QED BY <1>4, <1>5

(* A drain looks at the buffer again.                                      *)
LEMMA QueueingLoops ==
    ASSUME Typed, NEW h \in Handles, Queueing(h), chain[h] # <<>>, ~CloseResumes(h),
           phase'[h] = phase[h], stage'[h] = "idle", Turn(h) = "drain", drain'[h] = drain[h],
           buffer[h] # <<>>, buffer'[h] = buffer[h],
           chain'[h] = Append(Tail(chain[h]), "drain")
    PROVE  Queueing(h)'
<1>0. /\ chain[h] \in Seq(Ops) /\ waits[h] \in Nat /\ "drain" \in Ops
  BY DEF Typed, TypeOK, Ops
<1> DEFINE rest == Tail(chain[h])
<1>1. /\ rest \in Seq(Ops) /\ \A i \in DrainsIn(rest) : i \in Nat /\ i >= 1 /\ i + 1 \in Drains(h)
      /\ 1 \in Drains(h)
  BY <1>0, DrainsTail DEF Drains, Turn
<1>2. DrainsIn(rest) = {}
  <2> SUFFICES ASSUME NEW i \in DrainsIn(rest) PROVE FALSE OBVIOUS
  <2>1. i \in Nat /\ i >= 1 /\ i + 1 = 1 BY <1>1 DEF Queueing
  <2> QED BY <2>1
<1> HIDE DEF rest
<1>3. Drains(h)' = {Len(rest) + 1} /\ chain'[h] # <<>>
  <2>1. chain'[h] = Append(rest, "drain") BY DEF rest
  <2> QED BY <1>0, <1>1, <1>2, <2>1, DrainsAppend DEF Drains
<1>4. phase[h] \in Serving \ {"settling", "finishing"} /\ drain[h] = "turn"
  <2>1. phase[h] \in Serving /\ drain[h] = "turn" BY <1>1 DEF Queueing
  <2>2. CASE phase[h] = "settling" BY <1>0, <1>1, <2>2 DEF Queueing, CloseResumes
  <2>3. CASE phase[h] = "finishing" BY <1>1, <2>3 DEF Queueing
  <2> QED BY <2>1, <2>2, <2>3
<1> QED BY <1>3, <1>4 DEF Queueing

(* How a turn may end.                                                     *)
Ends(h) == (Resolve(h) /\ UNCHANGED buffer) \/ Reject(h)

LEMMA EndsCases ==
    ASSUME Typed, NEW h \in Handles, chain[h] # <<>>, Ends(h)
    PROVE  /\ stage'[h] = "idle" /\ waits'[h] = Awaited(waits[h]) /\ batch'[h] = <<>>
           /\ \/ /\ chain'[h] = Tail(chain[h]) /\ Turn(h) # "drain"
                 /\ drain'[h] = drain[h] /\ buffer'[h] = buffer[h]
              \/ /\ chain'[h] = Tail(chain[h]) /\ Turn(h) = "drain" /\ drain'[h] = "settled"
                 /\ buffer[h] = <<>> /\ buffer'[h] = <<>>
              \/ /\ chain'[h] = Append(Tail(chain[h]), "drain") /\ Turn(h) = "drain"
                 /\ drain'[h] = drain[h] /\ buffer[h] # <<>> /\ buffer'[h] = buffer[h]
              \/ /\ chain'[h] = Tail(chain[h]) /\ Turn(h) = "drain" /\ drain'[h] = "failed"
                 /\ buffer'[h] = Retained(h) /\ paused'[h]
<1>0. /\ chain \in [Handles -> Seq(Ops)] /\ drain \in [Handles -> {"idle", "turn", "settled", "failed"}]
      /\ batch \in [Handles -> Seq(1..MaxSeq)] /\ waits \in [Handles -> Nat] /\ stage \in [Handles -> Stages]
      /\ buffer \in [Handles -> Seq(1..MaxSeq)] /\ paused \in [Handles -> BOOLEAN]
  BY DEF Typed, TypeOK
<1>1. Tail(chain[h]) \in Seq(Ops) BY <1>0, HeadTailProperties
<1>2. Tail(chain[h]) \o <<>> = Tail(chain[h]) BY <1>1, ConcatEmptySeq
<1>3. "drain" \in Ops /\ Tail(chain[h]) \o <<"drain">> = Append(Tail(chain[h]), "drain")
  BY <1>1, AppendIsConcat DEF Ops
<1>4. CASE Resolve(h) /\ UNCHANGED buffer
  <2>1. CASE Turn(h) = "drain" /\ buffer[h] # <<>>
    BY <1>0, <1>3, <1>4, <2>1 DEF Resolve, EndTurn
  <2>2. CASE ~(Turn(h) = "drain" /\ buffer[h] # <<>>)
    BY <1>0, <1>2, <1>4, <2>2 DEF Resolve, EndTurn
  <2> QED BY <2>1, <2>2
<1>5. CASE Reject(h)
  BY <1>0, <1>5 DEF Reject, EndTurn
<1> QED BY <1>4, <1>5 DEF Ends

LEMMA QueueingEnded ==
    ASSUME Typed, NEW h \in Handles, Queueing(h), Ends(h), chain[h] # <<>>, ~CloseResumes(h),
           UNCHANGED phase
    PROVE  Queueing(h)'
BY EndsCases, QueueingEnds, QueueingLoops

(* A turn that runs is one that close() has not stopped waiting for.       *)
LEMMA RunsBeforeClose ==
    ASSUME IInv, NEW h \in Handles, Ready(h) \/ stage[h] # "idle"
    PROVE  chain[h] # <<>> /\ ~CloseResumes(h)
BY DEF IInv, Queueing, Ready, CloseResumes

(* The actions that end a turn.                                            *)
Ending(h) ==
    \/ TurnRefused(h) \/ FlushNoop(h) \/ LeaseFails(h) \/ Written(h) \/ HeaderWritten(h)
    \/ PathFails(h) \/ IOFails(h)

LEMMA EndingEnds ==
    ASSUME IInv, NEW h \in Handles, Ending(h)
    PROVE  /\ Ends(h) /\ UNCHANGED <<phase, home, live, timer>>
           /\ chain[h] # <<>> /\ ~CloseResumes(h)
<1> USE DEF fileVars, trackVars, lifeVars, stateVars, liveVars, bufVars, chainVars, flushVars, countVars, ForgetClaim
<1>1. CASE TurnRefused(h) BY <1>1, RunsBeforeClose DEF TurnRefused, Ends, Reject
<1>2. CASE FlushNoop(h) BY <1>2, RunsBeforeClose DEF FlushNoop, Ends
<1>3. CASE LeaseFails(h) BY <1>3, RunsBeforeClose DEF LeaseFails, Ends, Reject
<1>4. CASE Written(h) BY <1>4, RunsBeforeClose DEF Written, Ends
<1>5. CASE HeaderWritten(h) BY <1>5, RunsBeforeClose DEF HeaderWritten, Ends
<1>6. CASE PathFails(h) BY <1>6, RunsBeforeClose DEF PathFails, Ends, Reject, Mutating
<1>7. CASE IOFails(h) BY <1>7, RunsBeforeClose DEF IOFails, Ends, Reject, Mutating
<1> QED BY <1>1, <1>2, <1>3, <1>4, <1>5, <1>6, <1>7 DEF Ending

LEMMA HandleCases ==
    ASSUME NEW h \in Handles, HandleStep(h)
    PROVE  \/ Ending(h) \/ TurnStarts(h) \/ Ensured(h) \/ Truncated(h) \/ Rewritten(h)
           \/ DrainReturns(h) \/ SettlePass(h) \/ FinishPass(h) \/ Release(h)
           \/ ReadStored(h) \/ OpenFails(h) \/ AcquireLease(h)
           \/ AppendBatch(h) \/ Announce(h) \/ Publish(h) \/ TimerFires(h) \/ Close(h)
           \/ \E p \in Procs : Create(h, p) \/ ClaimWrite(h, p)
           \/ \E f \in Flushers : FlushCall(f, h)
           \/ \E f \in Flushers : FlushQueues(f) /\ on[f] = h
BY DEF HandleStep, TurnStep, CloseStep, Ending

LEMMA QueueingStep ==
    ASSUME Guarded, IInv, NEW h \in Handles, HandleStep(h)
    PROVE  Queueing(h)'
<1> USE DEF fileVars, trackVars, lifeVars, stateVars, liveVars, bufVars, chainVars, flushVars, countVars, ForgetClaim
<1>0. Typed /\ Queueing(h) BY IInvTyped DEF IInv
<1>t. /\ chain \in [Handles -> Seq(Ops)] /\ waits \in [Handles -> Nat]
      /\ phase \in [Handles -> Phases] /\ stage \in [Handles -> Stages]
      /\ drain \in [Handles -> {"idle", "turn", "settled", "failed"}]
      /\ buffer \in [Handles -> Seq(1..MaxSeq)]
  BY <1>0 DEF Typed, TypeOK
<1>d. Len(chain[h]) \in Nat /\ Drains(h) \subseteq 1..Len(chain[h])
  BY <1>t, DrainsBound DEF Drains
<1>1. CASE Ending(h) BY <1>0, <1>1, EndingEnds, QueueingEnded
<1>2. CASE TurnStarts(h)
  <2>1. stage'[h] = "lease" /\ UNCHANGED <<phase, chain, drain, waits>> /\ chain[h] # <<>>
    BY <1>t, <1>2 DEF TurnStarts, Ready
  <2>2. phase[h] \in {"settling", "finishing"} => waits[h] > 0
    BY <1>t, <1>2 DEF TurnStarts, Ready, CloseResumes
  <2>3. \A i \in Drains(h)' : buffer'[h] # <<>> \/ i = 1
    <3>1. CASE Turn(h) = "drain"
      <4>1. 1 \in Drains(h) BY <1>t, <2>1, <3>1, DrainsTail DEF Drains, Turn
      <4> QED BY <1>0, <2>1, <4>1 DEF Queueing, Drains
    <3>2. CASE Turn(h) # "drain"
      BY <1>0, <1>2, <2>1, <3>2 DEF TurnStarts, Ready, Queueing, Drains
    <3> QED BY <3>1, <3>2
  <2> QED BY <1>0, <2>1, <2>2, <2>3 DEF Queueing, Drains
<1>3. CASE Ensured(h) \/ Truncated(h) \/ Rewritten(h)
  <2>1. stage[h] # "idle" /\ UNCHANGED <<phase, chain, drain, waits, buffer>>
    BY <1>3 DEF Ensured, Truncated, Rewritten
  <2>2. stage'[h] # "idle"
    BY <1>t, <1>3 DEF Ensured, Truncated, Rewritten, NextStage
  <2> QED BY <1>0, <2>1, <2>2 DEF Queueing, Drains
<1>4. CASE DrainReturns(h)
  <2>1. UNCHANGED <<chain, stage, buffer>> /\ drain'[h] = "idle" /\ Drains(h) = {}
    BY <1>0, <1>t, <1>4 DEF DrainReturns, Queueing
  <2>2. CASE phase[h] = "draining"
    <3>1. waits'[h] = Len(chain[h]) /\ phase'[h] \in {"settling", "finishing"}
      BY <1>t, <1>4, <2>2 DEF DrainReturns
    <3>2. stage[h] # "idle" => Len(chain[h]) > 0
      BY <1>0, <1>t, <1>d, EmptySeq DEF Queueing
    <3> QED BY <1>0, <1>d, <2>1, <2>2, <3>1, <3>2 DEF Queueing, Drains, Serving
  <2>3. CASE phase[h] # "draining"
    <3>1. UNCHANGED <<phase, waits>> BY <1>4, <2>3 DEF DrainReturns
    <3> QED BY <1>0, <2>1, <3>1 DEF Queueing, Drains
  <2> QED BY <2>2, <2>3
<1>5. CASE SettlePass(h)
  <2>1. phase[h] = "settling" /\ waits[h] = 0 /\ stage[h] = "idle"
    BY <1>0, <1>t, <1>5 DEF SettlePass, Queueing
  <2>2. CASE buffer[h] = <<>>
    <3>1. /\ phase'[h] = "finishing" /\ waits'[h] = Len(chain[h])
          /\ UNCHANGED <<drain, chain, buffer, stage>>
      BY <1>t, <1>5, <2>2 DEF SettlePass
    <3>2. Drains(h) = {} BY <1>0, <2>1, <2>2 DEF Queueing
    <3> QED BY <1>0, <2>1, <3>1, <3>2 DEF Queueing, Drains, Serving
  <2>3. CASE buffer[h] # <<>>
    <3>1. phase'[h] = "draining" /\ DrainLive(h) /\ UNCHANGED <<stage, buffer, waits>>
      BY <1>t, <1>5, <2>3 DEF SettlePass
    <3> QED BY <1>0, <2>1, <3>1, QueueingDrains
  <2> QED BY <2>2, <2>3
<1>6. CASE FinishPass(h)
  <2>1. /\ phase[h] = "finishing" /\ Len(chain[h]) = 0 /\ phase'[h] = "releasing"
        /\ UNCHANGED <<drain, chain, buffer, stage, waits>>
    BY <1>0, <1>t, <1>6 DEF FinishPass, Queueing
  <2>2. chain[h] = <<>> BY <1>t, <2>1, EmptySeq
  <2> QED BY <1>0, <2>1, <2>2 DEF Queueing, Drains, Serving
<1>7. CASE Release(h) \/ OpenFails(h) \/ AcquireLease(h)
  <2>1. /\ phase[h] \notin Serving /\ phase'[h] \notin Serving
        /\ UNCHANGED <<drain, chain, buffer, stage, waits>>
    BY <1>t, <1>7 DEF Release, OpenFails, AcquireLease, Serving
  <2> QED BY <1>0, <2>1 DEF Queueing, Drains, Serving
<1>8. CASE ReadStored(h)
  <2>1. /\ phase[h] = "leased" /\ phase'[h] = "open"
        /\ UNCHANGED <<drain, chain, buffer, stage, waits>>
    BY <1>t, <1>8 DEF ReadStored
  <2> QED BY <1>0, <2>1 DEF Queueing, Drains, Serving
<1>9. CASE AppendBatch(h)
  <2>1. /\ phase[h] = "open" /\ chain[h] = <<>> /\ chain'[h] = <<"append">>
        /\ UNCHANGED <<phase, drain, buffer, stage, waits>>
    BY <1>t, <1>9 DEF AppendBatch
  <2>2. DrainsIn(<<>>) = {} /\ DrainsIn(<<"append">>) = {} BY DEF DrainsIn
  <2> QED BY <1>0, <2>1, <2>2 DEF Queueing, Drains, Serving
<1>10. CASE Announce(h)
  BY <1>0, <1>10 DEF Announce, Queueing, Drains
<1>11. CASE Publish(h)
  <2>1. buffer'[h] # <<>> /\ UNCHANGED <<phase, drain, chain, stage, waits>>
    <3>1. pub[h] \in Nat /\ MaxSeq \in Nat /\ pub[h] < MaxSeq
      BY <1>0, <1>11, HandleConstants DEF Publish, Typed, TypeOK, HandleConstants
    <3>2. pub[h] + 1 \in 1..MaxSeq BY <3>1
    <3> QED BY <1>t, <1>11, <3>2, AppendProperties DEF Publish
  <2> QED BY <1>0, <2>1 DEF Queueing, Drains
<1>12. CASE TimerFires(h)
  <2>1. CASE drain[h] = "idle"
    BY <1>0, <1>12, <2>1, QueueingDrains DEF TimerFires
  <2>2. CASE drain[h] # "idle"
    <3>1. UNCHANGED <<phase, drain, chain, stage, waits, buffer>> BY <1>12, <2>2 DEF TimerFires
    <3> QED BY <1>0, <3>1 DEF Queueing, Drains
  <2> QED BY <2>1, <2>2
<1>13. CASE Close(h)
  <2>1. phase[h] = "open" /\ phase'[h] = "draining" /\ DrainLive(h) /\ UNCHANGED <<stage, buffer, waits>>
    BY <1>t, <1>13 DEF Close
  <2> QED BY <1>0, <2>1, QueueingDrains
<1>14. CASE \E p \in Procs : Create(h, p) \/ ClaimWrite(h, p)
  <2>1. /\ phase[h] = "unused" /\ phase'[h] \in {"open", "claimed"}
        /\ UNCHANGED <<drain, chain, buffer, stage, waits>>
    BY <1>t, <1>14 DEF Create, ClaimWrite
  <2> QED BY <1>0, <2>1 DEF Queueing, Drains, Serving
<1>15. CASE \E f \in Flushers : FlushCall(f, h)
  BY <1>0, <1>15, QueueingDrains DEF FlushCall
<1>16. CASE \E f \in Flushers : FlushQueues(f) /\ on[f] = h
  <2>1. PICK f \in Flushers : FlushQueues(f) /\ on[f] = h BY <1>16
  <2>2. UNCHANGED <<phase, drain, buffer, stage, waits>> BY <2>1 DEF FlushQueues
  <2>3. CASE chain' = chain BY <1>0, <2>2, <2>3 DEF Queueing, Drains
  <2>4. CASE phase[h] = "open" /\ chain' = [chain EXCEPT ![h] = Append(@, f)]
    <3>1. f \in Ops /\ f # "drain" BY HandleConstants DEF HandleConstants, Ops
    <3>2. Drains(h)' = Drains(h) /\ chain'[h] # <<>>
      BY <1>t, <2>4, <3>1, DrainsAppend DEF Drains
    <3> QED BY <1>0, <2>2, <2>4, <3>2 DEF Queueing, Serving
  <2> QED BY <2>1, <2>3, <2>4 DEF FlushQueues
<1> QED BY <1>1, <1>2, <1>3, <1>4, <1>5, <1>6, <1>7, <1>8, <1>9, <1>10, <1>11, <1>12, <1>13,
           <1>14, <1>15, <1>16, HandleCases

(* Numbering.                                                              *)

LEMMA NumbersElements ==
    ASSUME NEW c \in Nat, NEW p \in Nat, c <= p
    PROVE  /\ Numbers(c + 1, p) \in Seq(Nat) /\ Len(Numbers(c + 1, p)) = p - c
           /\ \A i \in 1..(p - c) : Numbers(c + 1, p)[i] = c + i
<1>1. (p + 1) - (c + 1) = p - c /\ p - c \in Nat OBVIOUS
<1>2. Numbers(c + 1, p) = [i \in 1..(p - c) |-> c + i]
  <2>1. \A i \in 1..(p - c) : ((c + 1) - 1) + i = c + i OBVIOUS
  <2> QED BY <1>1, <2>1 DEF Numbers
<1>3. [i \in 1..(p - c) |-> c + i] \in Seq(Nat) BY <1>1
<1> QED BY <1>1, <1>2, <1>3

LEMMA NoNumbers ==
    ASSUME NEW c \in Nat
    PROVE  Numbers(c + 1, c) = <<>>
BY NumbersElements, EmptySeq

LEMMA NumbersAppend ==
    ASSUME NEW c \in Nat, NEW p \in Nat, c <= p
    PROVE  Append(Numbers(c + 1, p), p + 1) = Numbers(c + 1, p + 1)
<1> DEFINE s == Numbers(c + 1, p)  t == Numbers(c + 1, p + 1)
<1>1. /\ s \in Seq(Nat) /\ Len(s) = p - c /\ \A i \in 1..(p - c) : s[i] = c + i
      /\ t \in Seq(Nat) /\ Len(t) = (p + 1) - c /\ \A i \in 1..((p + 1) - c) : t[i] = c + i
  <2>1. p + 1 \in Nat /\ c <= p + 1 OBVIOUS
  <2> QED BY <2>1, NumbersElements
<1> HIDE DEF s, t
<1>2. /\ Append(s, p + 1) \in Seq(Nat) /\ Len(Append(s, p + 1)) = Len(s) + 1
      /\ Append(s, p + 1)[Len(s) + 1] = p + 1
      /\ \A i \in 1..Len(s) : Append(s, p + 1)[i] = s[i]
  <2>1. p + 1 \in Nat /\ s \in Seq(Nat) BY <1>1
  <2> QED BY ONLY <2>1, AppendProperties
<1>3. \A i \in 1..Len(t) : Append(s, p + 1)[i] = t[i]
  <2> TAKE i \in 1..Len(t)
  <2>1. i \in 1..((p + 1) - c) /\ (i \in 1..(p - c) \/ i = (p - c) + 1) BY <1>1
  <2>2. CASE i \in 1..(p - c) BY <1>1, <1>2, <2>2
  <2>3. CASE i = (p - c) + 1 BY <1>1, <1>2, <2>1, <2>3
  <2> QED BY <2>1, <2>2, <2>3
<1>4. Append(s, p + 1) = t BY <1>1, <1>2, <1>3, SeqEqual
<1> QED BY <1>4 DEF s, t

LEMMA NumbersRest ==
    ASSUME NEW b \in Seq(Nat), NEW u \in Seq(Nat), NEW c \in Nat, NEW p \in Nat, c <= p,
           b \o u = Numbers(c + 1, p)
    PROVE  c + Len(b) <= p /\ Numbers((c + Len(b)) + 1, p) = u
<1>1. /\ Len(b) \in Nat /\ Len(u) \in Nat /\ Len(b \o u) = Len(b) + Len(u)
      /\ \A i \in 1..(Len(b) + Len(u)) : (b \o u)[i] = IF i <= Len(b) THEN b[i] ELSE u[i - Len(b)]
  BY ConcatProperties, LenProperties
<1>2. Len(b) + Len(u) = p - c /\ \A i \in 1..(p - c) : (b \o u)[i] = c + i
  <2>1. /\ Len(Numbers(c + 1, p)) = p - c
        /\ \A i \in 1..(p - c) : Numbers(c + 1, p)[i] = c + i
    BY NumbersElements
  <2> QED BY <1>1, <2>1
<1> DEFINE d == c + Len(b)  t == Numbers(d + 1, p)
<1>3. d \in Nat /\ d <= p /\ Len(u) = p - d BY <1>1, <1>2
<1>4. t \in Seq(Nat) /\ Len(t) = p - d /\ \A i \in 1..(p - d) : t[i] = d + i
  BY <1>3, NumbersElements
<1>5. \A i \in 1..Len(u) : u[i] = t[i]
  <2> TAKE i \in 1..Len(u)
  <2>1. /\ Len(b) + i \in 1..(p - c) /\ Len(b) + i \in 1..(Len(b) + Len(u))
        /\ ~(Len(b) + i <= Len(b)) /\ (Len(b) + i) - Len(b) = i
    BY <1>1, <1>2
  <2>2. u[i] = c + (Len(b) + i) BY <1>1, <1>2, <2>1
  <2>3. t[i] = d + i BY <1>3, <1>4
  <2> QED BY <1>1, <2>2, <2>3
<1> HIDE DEF t
<1>7. u = t BY <1>3, <1>4, <1>5, SeqEqual
<1> QED BY <1>3, <1>7 DEF t

(* Batches, and what they hold.                                            *)

LEMMA NoAppendBehind ==
    ASSUME Typed, NEW h \in Handles, Batching(h), chain[h] # <<>>
    PROVE  \A i \in DOMAIN Tail(chain[h]) : Tail(chain[h])[i] # "append"
<1>1. /\ chain[h] \in Seq(Ops) /\ Len(chain[h]) \in Nat /\ DOMAIN chain[h] = 1..Len(chain[h])
      /\ Tail(chain[h]) \in Seq(Ops) /\ Len(Tail(chain[h])) = Len(chain[h]) - 1
      /\ DOMAIN Tail(chain[h]) = 1..Len(Tail(chain[h]))
      /\ \A i \in 1..Len(Tail(chain[h])) : Tail(chain[h])[i] = chain[h][i + 1]
  BY HeadTailProperties, LenProperties DEF Typed, TypeOK
<1> SUFFICES ASSUME NEW i \in DOMAIN Tail(chain[h]), Tail(chain[h])[i] = "append" PROVE FALSE
  OBVIOUS
<1>2. i \in Nat /\ i >= 1 /\ i + 1 \in 1..Len(chain[h]) /\ chain[h][i + 1] = "append" BY <1>1
<1>3. Len(chain[h]) = 1 BY <1>1, <1>2 DEF Batching
<1> QED BY <1>2, <1>3

LEMMA AppendHead ==
    ASSUME NEW s \in Seq(Ops), NEW x \in Ops
    PROVE  /\ s # <<>> => Head(Append(s, x)) = Head(s)
           /\ DOMAIN Append(s, x) = 1..(Len(s) + 1) /\ Len(s) \in Nat
           /\ \A i \in 1..(Len(s) + 1) : Append(s, x)[i] = IF i <= Len(s) THEN s[i] ELSE x
           /\ x # "append" => \A i \in DOMAIN Append(s, x) :
                 Append(s, x)[i] = "append" => i \in DOMAIN s /\ s[i] = "append"
<1>1. /\ Append(s, x) \in Seq(Ops) /\ Len(Append(s, x)) = Len(s) + 1
      /\ Append(s, x)[Len(s) + 1] = x /\ \A i \in 1..Len(s) : Append(s, x)[i] = s[i]
  BY AppendProperties
<1>2. Len(s) \in Nat /\ DOMAIN s = 1..Len(s) /\ DOMAIN Append(s, x) = 1..(Len(s) + 1)
  BY <1>1, LenProperties
<1>3. s # <<>> => Head(Append(s, x)) = Head(s) BY HeadTailAppend
<1>4. ASSUME NEW i \in 1..(Len(s) + 1) PROVE Append(s, x)[i] = IF i <= Len(s) THEN s[i] ELSE x
  BY <1>1, <1>2
<1> QED BY <1>2, <1>3, <1>4

(* A drain begins: only an announced session has something to drain.       *)
LEMMA BatchingDrains ==
    ASSUME Typed, NEW h \in Handles, Batching(h), DrainLive(h),
           UNCHANGED <<stage, buffer, batch, live, pub, cursor>>,
           phase'[h] \in {"unused", "claimed", "leased"} => phase[h] = phase'[h]
    PROVE  Batching(h)'
<1>0. /\ chain[h] \in Seq(Ops) /\ "drain" \in Ops BY DEF Typed, TypeOK, Ops
<1>1. CASE chain'[h] = chain[h]
  BY <1>1 DEF Batching, Turn, Drains
<1>2. CASE buffer[h] # <<>> /\ chain'[h] = Append(chain[h], "drain")
  <2>1. live[h] BY <1>2 DEF Batching
  <2>2. \A i \in DOMAIN chain'[h] : chain'[h][i] # "append"
    BY <1>0, <1>2, <2>1, AppendHead DEF Batching
  <2>3. chain[h] # <<>> => Turn(h)' = Turn(h) /\ chain'[h] # <<>>
    BY <1>0, <1>2, AppendHead, AppendProperties DEF Turn
  <2>4. stage[h] = "header" => chain[h] # <<>> BY DEF Typed, Occupied
  <2> QED BY <2>1, <2>2, <2>3, <2>4 DEF Batching
<1> QED BY <1>1, <1>2, DrainLiveCases

LEMMA BatchingEnded ==
    ASSUME Typed, NEW h \in Handles, Batching(h), Ends(h), chain[h] # <<>>,
           UNCHANGED <<phase, live>>, phase[h] \in Serving, cursor'[h] <= pub'[h]
    PROVE  Batching(h)'
<1>0. /\ chain[h] \in Seq(Ops) /\ "drain" \in Ops BY DEF Typed, TypeOK, Ops
<1>1. /\ Tail(chain[h]) \in Seq(Ops)
      /\ \A i \in DrainsIn(Tail(chain[h])) : i + 1 \in Drains(h)
      /\ Turn(h) = "drain" => Drains(h) # {}
  BY <1>0, DrainsTail DEF Drains, Turn
<1>2. stage'[h] = "idle" /\ batch'[h] = <<>> BY EndsCases
<1>3. /\ \A i \in DOMAIN chain'[h] : chain'[h][i] # "append"
      /\ ~live[h] => buffer'[h] = <<>> /\ Drains(h)' = {}
  <2>1. CASE chain'[h] = Tail(chain[h]) /\ (Turn(h) # "drain" => buffer'[h] = buffer[h])
    BY <1>1, <2>1, NoAppendBehind DEF Batching, Drains
  <2>2. CASE chain'[h] = Append(Tail(chain[h]), "drain") /\ Turn(h) = "drain"
    <3>1. live[h] BY <1>1, <2>2 DEF Batching
    <3>2. \A i \in DOMAIN chain'[h] : chain'[h][i] # "append"
      BY <1>0, <1>1, <2>2, NoAppendBehind, AppendHead
    <3> QED BY <3>1, <3>2
  <2> QED BY <2>1, <2>2, EndsCases
<1> QED BY <1>2, <1>3 DEF Batching, Serving

(* What ends a turn keeps the order: what is written counts, what is not   *)
(* stays in front of the buffer, an append that fails was never the        *)
(* session's.                                                              *)
LEMMA PlacedEnded ==
    ASSUME IInv, NEW h \in Handles, Ending(h)
    PROVE  Placed(h)' /\ cursor'[h] <= pub'[h] /\ phase[h] \in Serving
<1> USE DEF fileVars, trackVars, lifeVars, stateVars, liveVars, bufVars, chainVars, flushVars, countVars, ForgetClaim
<1>0. Typed /\ Queueing(h) /\ Batching(h) /\ Placed(h) BY IInvTyped DEF IInv
<1>1. /\ Ends(h) /\ UNCHANGED phase /\ chain[h] # <<>> BY EndingEnds
<1>2. phase[h] \in Serving /\ phase[h] \in Working
  BY <1>0, <1>1 DEF Queueing, Serving, Working
<1>t. /\ batch[h] \in Seq(1..MaxSeq) /\ buffer[h] \in Seq(1..MaxSeq) /\ <<>> \in Seq(1..MaxSeq)
      /\ cursor \in [Handles -> Nat] /\ pub \in [Handles -> Nat] /\ cursor[h] \in Nat /\ pub[h] \in Nat
      /\ 1..MaxSeq \subseteq Nat
  BY <1>0, HandleConstants DEF Typed, TypeOK, HandleConstants
<1>3. batch[h] \o buffer[h] = Numbers(cursor[h] + 1, pub[h]) /\ cursor[h] <= pub[h]
  BY <1>0, <1>2 DEF Placed, Batching
<1>4. batch'[h] = <<>> BY <1>0, <1>1, EndsCases
<1>5. <<>> \o buffer[h] = buffer[h] /\ <<>> \o (batch[h] \o buffer[h]) = batch[h] \o buffer[h]
  BY <1>t, ConcatEmptySeq, ConcatProperties
<1>6. CASE Written(h)
  <2>1. buffer' = buffer /\ pub' = pub /\ cursor'[h] = cursor[h] + Len(batch[h])
    BY <1>t, <1>6 DEF Written
  <2>2. /\ cursor[h] + Len(batch[h]) <= pub[h]
        /\ buffer[h] = Numbers((cursor[h] + Len(batch[h])) + 1, pub[h])
    <3> DEFINE b == batch[h]  u == buffer[h]  c == cursor[h]  p == pub[h]
    <3>1. /\ b \in Seq(Nat) /\ u \in Seq(Nat) /\ c \in Nat /\ p \in Nat
          /\ b \o u = Numbers(c + 1, p) /\ c <= p
      BY <1>t, <1>3, SeqMonotonic
    <3> HIDE DEF b, u, c, p
    <3>2. c + Len(b) <= p /\ u = Numbers((c + Len(b)) + 1, p) BY ONLY <3>1, NumbersRest
    <3> QED BY <3>2 DEF b, u, c, p
  <2> QED BY <1>2, <1>4, <1>5, <2>1, <2>2 DEF Placed, Numbers
<1>7. CASE FlushNoop(h) \/ HeaderWritten(h)
  <2>1. Turn(h) \in Flushers BY <1>0, <1>7 DEF FlushNoop, HeaderWritten, Batching
  <2>2. batch[h] = <<>> BY <1>0, <2>1, HandleConstants DEF Batching, HandleConstants
  <2>3. UNCHANGED <<buffer, pub, cursor>> BY <1>7 DEF FlushNoop, HeaderWritten
  <2> QED BY <1>2, <1>3, <1>4, <2>2, <2>3 DEF Placed, Numbers
<1>8. CASE Reject(h) /\ UNCHANGED cursor
  <2>1. CASE Turn(h) = "drain"
    <3>1. buffer'[h] = batch[h] \o buffer[h] /\ pub'[h] = pub[h]
      BY <1>0, <1>t, <1>8, <2>1 DEF Reject, Retained, Typed, TypeOK
    <3> QED BY <1>2, <1>3, <1>4, <1>5, <1>8, <3>1 DEF Placed, Numbers
  <2>2. CASE Turn(h) = "append"
    <3>1. buffer'[h] = buffer[h] /\ pub'[h] = cursor[h] BY <1>t, <1>8, <2>2 DEF Reject
    <3>2. buffer[h] = <<>>
      <4>1. 1 \in DOMAIN chain[h] /\ chain[h][1] = Turn(h)
        BY <1>0, <1>1, DrainsTail, LenProperties DEF Turn, Typed, TypeOK
      <4> QED BY <1>0, <2>2, <4>1 DEF Batching
    <3>3. Numbers(cursor[h] + 1, cursor[h]) = <<>> BY <1>t, NoNumbers
    <3>4. batch'[h] \o buffer'[h] = <<>> BY <1>4, <1>5, <3>1, <3>2
    <3> QED BY <1>t, <1>2, <1>8, <3>1, <3>3, <3>4 DEF Placed
  <2>3. CASE Turn(h) \notin {"drain", "append"}
    <3>1. UNCHANGED <<buffer, pub>> BY <1>t, <1>8, <2>3 DEF Reject
    <3>2. batch[h] = <<>> BY <1>0, <2>3 DEF Batching
    <3> QED BY <1>2, <1>3, <1>4, <1>8, <3>1, <3>2 DEF Placed, Numbers
  <2> QED BY <1>2, <2>1, <2>2, <2>3
<1>9. TurnRefused(h) \/ LeaseFails(h) \/ PathFails(h) \/ IOFails(h) => Reject(h) /\ UNCHANGED cursor
  BY DEF TurnRefused, LeaseFails, PathFails, IOFails
<1> QED BY <1>2, <1>6, <1>7, <1>8, <1>9 DEF Ending

LEMMA BatchingStep ==
    ASSUME IInv, NEW h \in Handles, HandleStep(h)
    PROVE  Batching(h)'
<1> USE DEF fileVars, trackVars, lifeVars, stateVars, liveVars, bufVars, chainVars, flushVars, countVars, ForgetClaim
<1>0. Typed /\ Batching(h) /\ Queueing(h) /\ Placed(h) BY IInvTyped DEF IInv
<1>t. /\ chain \in [Handles -> Seq(Ops)] /\ batch \in [Handles -> Seq(1..MaxSeq)]
      /\ phase \in [Handles -> Phases] /\ stage \in [Handles -> Stages]
      /\ live \in [Handles -> BOOLEAN] /\ pub \in [Handles -> Nat] /\ cursor \in [Handles -> Nat]
      /\ buffer \in [Handles -> Seq(1..MaxSeq)]
  BY <1>0 DEF Typed, TypeOK
<1>1. CASE Ending(h)
  <2>1. cursor'[h] <= pub'[h] /\ phase[h] \in Serving BY <1>1, PlacedEnded
  <2> QED BY <1>0, <1>1, <2>1, EndingEnds, BatchingEnded
<1>2. CASE TurnStarts(h)
  <2>1. /\ stage'[h] = "lease" /\ chain[h] # <<>> /\ phase[h] \in Serving
        /\ UNCHANGED <<phase, chain, live, pub, cursor>>
    BY <1>0, <1>t, <1>2 DEF TurnStarts, Ready, Queueing
  <2>2. batch'[h] # <<>> => Turn(h) \in {"append", "drain"}
    BY <1>0, <1>t, <1>2 DEF TurnStarts, Batching
  <2>3. ~live[h] => buffer'[h] = <<>>
    BY <1>0, <1>t, <1>2 DEF TurnStarts, Batching
  <2> QED BY <1>0, <2>1, <2>2, <2>3 DEF Batching, Turn, Drains, Serving
<1>3. CASE Ensured(h) \/ Truncated(h) \/ Rewritten(h)
  <2>1. /\ stage'[h] # "idle" /\ (stage'[h] = "header" => Turn(h) \in Flushers)
        /\ UNCHANGED <<phase, chain, live, pub, cursor, batch, buffer>>
    BY <1>t, <1>3 DEF Ensured, Truncated, Rewritten, NextStage
  <2> QED BY <1>0, <2>1 DEF Batching, Turn, Drains
<1>4. CASE DrainReturns(h) \/ FinishPass(h) \/ Release(h)
  <2>1. /\ UNCHANGED <<stage, chain, live, pub, cursor, batch, buffer>>
        /\ phase'[h] \in {"unused", "claimed", "leased"} => phase'[h] = phase[h]
    BY <1>t, <1>4 DEF DrainReturns, FinishPass, Release
  <2> QED BY <1>0, <2>1 DEF Batching, Turn, Drains
<1>5. CASE SettlePass(h)
  <2>1. /\ UNCHANGED <<stage, live, pub, cursor, batch, buffer>>
        /\ phase'[h] \in {"finishing", "draining"} /\ (chain' = chain \/ DrainLive(h))
    BY <1>t, <1>5 DEF SettlePass
  <2>2. CASE chain' = chain BY <1>0, <2>1, <2>2 DEF Batching, Turn, Drains
  <2>3. CASE DrainLive(h) BY <1>0, <2>1, <2>3, BatchingDrains
  <2> QED BY <2>1, <2>2, <2>3
<1>6. CASE OpenFails(h) \/ AcquireLease(h)
  <2>1. /\ UNCHANGED <<stage, chain, live, pub, cursor, batch, buffer>>
        /\ phase[h] \in {"claimed", "leased"}
    BY <1>t, <1>6 DEF OpenFails, AcquireLease
  <2> QED BY <1>0, <2>1 DEF Batching, Turn, Drains
<1>7. CASE ReadStored(h)
  <2>1. Len(Stored) \in Nat
    BY <1>0, ConcatProperties, LenProperties DEF Stored, Typed, TypeOK
  <2>2. /\ UNCHANGED <<stage, chain, live, batch, buffer>> /\ phase'[h] = "open"
        /\ pub'[h] = Len(Stored) /\ cursor'[h] = Len(Stored)
    BY <1>t, <1>7 DEF ReadStored
  <2> QED BY <1>0, <2>1, <2>2 DEF Batching, Turn, Drains
<1>8. CASE AppendBatch(h)
  <2>1. /\ chain'[h] = <<"append">> /\ phase'[h] = "open" /\ ~live[h] /\ chain[h] = <<>>
        /\ UNCHANGED <<phase, live, buffer, stage, cursor>>
    BY <1>t, <1>8 DEF AppendBatch
  <2>2. pub'[h] \in Nat /\ pub'[h] >= pub[h]
    BY <1>t, <1>8, HandleConstants DEF AppendBatch, HandleConstants
  <2>3. Turn(h)' = "append" /\ chain'[h] # <<>> /\ Len(chain'[h]) = 1 /\ Drains(h)' = {}
    BY <2>1 DEF Turn, Drains, DrainsIn
  <2>4. stage[h] = "idle" BY <1>0, <2>1 DEF Queueing
  <2>5. cursor[h] <= pub'[h] BY <1>0, <1>t, <2>2 DEF Batching
  <2> QED BY <1>0, <2>1, <2>3, <2>4, <2>5 DEF Batching
<1>9. CASE Announce(h)
  <2>1. /\ chain[h] = <<>> /\ live'[h] /\ phase[h] = "open"
        /\ UNCHANGED <<phase, chain, buffer, stage, cursor, pub, batch>>
    BY <1>t, <1>9 DEF Announce
  <2>2. DOMAIN chain[h] = {} BY <2>1
  <2> QED BY <1>0, <2>1, <2>2 DEF Batching, Turn
<1>10. CASE Publish(h)
  <2>1. /\ live[h] /\ pub'[h] = pub[h] + 1
        /\ UNCHANGED <<phase, chain, live, stage, cursor, batch>>
    BY <1>t, <1>10 DEF Publish, Routed
  <2>2. cursor[h] <= pub'[h] BY <1>0, <1>t, <2>1 DEF Batching
  <2> QED BY <1>0, <2>1, <2>2 DEF Batching, Turn
<1>11. CASE TimerFires(h)
  <2>1. /\ UNCHANGED <<stage, live, pub, cursor, batch, buffer, phase>>
        /\ (chain' = chain \/ DrainLive(h))
    BY <1>t, <1>11 DEF TimerFires
  <2>2. CASE chain' = chain BY <1>0, <2>1, <2>2 DEF Batching, Turn, Drains
  <2>3. CASE DrainLive(h) BY <1>0, <2>1, <2>3, BatchingDrains
  <2> QED BY <2>1, <2>2, <2>3
<1>12. CASE Close(h) \/ \E f \in Flushers : FlushCall(f, h)
  <2>1. /\ UNCHANGED <<stage, live, pub, cursor, batch, buffer>> /\ DrainLive(h)
        /\ phase'[h] = "draining" \/ phase'[h] = phase[h]
    BY <1>t, <1>12 DEF Close, FlushCall
  <2> QED BY <1>0, <2>1, BatchingDrains
<1>13. CASE \E p \in Procs : Create(h, p) \/ ClaimWrite(h, p)
  <2>1. /\ UNCHANGED <<stage, chain, live, pub, cursor, batch, buffer>> /\ phase[h] = "unused"
    BY <1>t, <1>13 DEF Create, ClaimWrite
  <2> QED BY <1>0, <2>1 DEF Batching, Turn, Drains
<1>14. CASE \E f \in Flushers : FlushQueues(f) /\ on[f] = h
  <2>1. PICK f \in Flushers : FlushQueues(f) /\ on[f] = h BY <1>14
  <2>2. live[h] BY <2>1 DEF FlushQueues, IInv, Calling
  <2>3. UNCHANGED <<stage, phase, live, pub, cursor, batch, buffer>> BY <2>1 DEF FlushQueues
  <2>4. CASE chain' = chain BY <1>0, <2>3, <2>4 DEF Batching, Turn, Drains
  <2>5. CASE chain' = [chain EXCEPT ![h] = Append(@, f)]
    <3>1. f \in Ops /\ f # "append" BY HandleConstants DEF HandleConstants, Ops
    <3>2. chain'[h] = Append(chain[h], f) BY <1>t, <2>5
    <3>5. chain[h] \in Seq(Ops) /\ \A i \in DOMAIN chain[h] : chain[h][i] # "append"
      BY <1>0, <1>t, <2>2 DEF Batching
    <3>6. chain'[h] # <<>> /\ (chain[h] # <<>> => Turn(h)' = Turn(h))
      BY <3>1, <3>2, <3>5, AppendHead, AppendProperties DEF Turn
    <3>3. /\ chain'[h] # <<>> /\ (chain[h] # <<>> => Turn(h)' = Turn(h))
          /\ \A i \in DOMAIN chain'[h] : chain'[h][i] # "append"
      <4>1. \A i \in DOMAIN Append(chain[h], f) : Append(chain[h], f)[i] # "append"
        BY <3>1, <3>5, AppendHead
      <4> QED BY <3>2, <3>6, <4>1
    <3>4. stage[h] = "header" => chain[h] # <<>> BY <1>0 DEF Queueing
    <3> QED BY <1>0, <2>2, <2>3, <3>3, <3>4 DEF Batching
  <2> QED BY <2>1, <2>4, <2>5 DEF FlushQueues
<1> QED BY <1>1, <1>2, <1>3, <1>4, <1>5, <1>6, <1>7, <1>8, <1>9, <1>10, <1>11, <1>12, <1>13,
           <1>14, HandleCases

LEMMA PlacedStep ==
    ASSUME IInv, NEW h \in Handles, HandleStep(h)
    PROVE  Placed(h)'
<1> USE DEF fileVars, trackVars, lifeVars, stateVars, liveVars, bufVars, chainVars, flushVars, countVars, ForgetClaim
<1>0. Typed /\ Queueing(h) /\ Batching(h) /\ Placed(h) BY IInvTyped DEF IInv
<1>t. /\ batch \in [Handles -> Seq(1..MaxSeq)] /\ buffer \in [Handles -> Seq(1..MaxSeq)]
      /\ <<>> \in Seq(1..MaxSeq) /\ phase \in [Handles -> Phases]
      /\ cursor \in [Handles -> Nat] /\ pub \in [Handles -> Nat] /\ cursor[h] \in Nat /\ pub[h] \in Nat
      /\ MaxSeq \in Nat /\ cursor[h] <= pub[h]
  <2>1. MaxSeq \in Nat BY HandleConstants DEF HandleConstants
  <2>2. cursor[h] <= pub[h] BY <1>0 DEF Batching
  <2>3. <<>> \in Seq(1..MaxSeq) OBVIOUS
  <2> QED BY <1>0, <2>1, <2>2, <2>3 DEF Typed, TypeOK
<1>e. <<>> \o buffer[h] = buffer[h] /\ buffer[h] \o <<>> = buffer[h]
  BY <1>t, ConcatEmptySeq
<1>1. CASE Ending(h) BY <1>1, PlacedEnded
<1>2. CASE TurnStarts(h)
  <2>1. UNCHANGED <<phase, cursor, pub>> BY <1>2 DEF TurnStarts
  <2>2. CASE Turn(h) = "drain"
    <3>1. batch[h] = <<>> BY <1>0, <1>2, <2>2 DEF TurnStarts, Ready, Batching
    <3>2. batch'[h] = buffer[h] /\ buffer'[h] = <<>> BY <1>t, <1>2, <2>2 DEF TurnStarts
    <3> QED BY <1>0, <1>e, <2>1, <3>1, <3>2 DEF Placed
  <2>3. CASE Turn(h) # "drain"
    BY <1>0, <1>2, <2>1, <2>3 DEF TurnStarts, Placed
  <2> QED BY <2>2, <2>3
<1>3. CASE \/ Ensured(h) \/ Truncated(h) \/ Rewritten(h) \/ DrainReturns(h) \/ SettlePass(h) \/ FinishPass(h)
           \/ Release(h) \/ OpenFails(h) \/ AcquireLease(h) \/ Announce(h) \/ TimerFires(h) \/ Close(h)
           \/ (\E f \in Flushers : FlushCall(f, h)) \/ (\E f \in Flushers : FlushQueues(f))
           \/ (\E p \in Procs : ClaimWrite(h, p))
  <2>1. UNCHANGED <<cursor, pub, batch, buffer>>
    BY <1>3 DEF Ensured, Truncated, Rewritten, DrainReturns, SettlePass, FinishPass, Release, OpenFails,
                AcquireLease, Announce, TimerFires, Close, FlushCall, FlushQueues, ClaimWrite
  <2>2. phase'[h] \in Working => phase[h] \in Working
    BY <1>t, <1>3
       DEF Ensured, Truncated, Rewritten, DrainReturns, SettlePass, FinishPass, Release, OpenFails,
           AcquireLease, Announce, TimerFires, Close, FlushCall, FlushQueues, ClaimWrite, Working
  <2> QED BY <1>0, <2>1, <2>2 DEF Placed
<1>4. CASE ReadStored(h)
  <2>1. Len(Stored) \in Nat
    BY <1>0, ConcatProperties, LenProperties DEF Stored, Typed, TypeOK
  <2>2. /\ UNCHANGED <<batch, buffer>> /\ pub'[h] = Len(Stored) /\ cursor'[h] = Len(Stored)
        /\ batch[h] = <<>> /\ buffer[h] = <<>>
    BY <1>0, <1>t, <1>4 DEF ReadStored, Batching
  <2> QED BY <1>e, <2>1, <2>2, NoNumbers DEF Placed
<1>5. CASE \E p \in Procs : Create(h, p)
  <2>1. /\ UNCHANGED <<batch, buffer, pub, cursor>> /\ batch[h] = <<>> /\ buffer[h] = <<>>
        /\ pub[h] = cursor[h]
    BY <1>0, <1>5 DEF Create, Batching
  <2> QED BY <1>t, <1>e, <2>1, NoNumbers DEF Placed
<1>6. CASE AppendBatch(h)
  <2>1. /\ ~live[h] /\ chain[h] = <<>> /\ phase[h] = "open" /\ UNCHANGED <<buffer, cursor, phase>>
    BY <1>6 DEF AppendBatch
  <2>2. buffer[h] = <<>> /\ batch[h] = <<>> BY <1>0, <2>1 DEF Batching
  <2>3. Numbers(cursor[h] + 1, pub[h]) = <<>>
    BY <1>0, <1>e, <2>1, <2>2 DEF Placed, Working
  <2>4. pub[h] = cursor[h]
    <3>1. Len(<<>>) = pub[h] - cursor[h] BY <1>t, <2>3, NumbersElements
    <3> QED BY <1>t, <3>1
  <2>5. PICK n \in (pub[h] + 1)..MaxSeq : /\ batch' = [batch EXCEPT ![h] = Numbers(pub[h] + 1, n)]
                                         /\ pub' = [pub EXCEPT ![h] = n]
    BY <1>6 DEF AppendBatch
  <2>6. Numbers(pub[h] + 1, n) \in Seq(1..MaxSeq) BY <1>t, NumbersType
  <2>7. Numbers(pub[h] + 1, n) \o <<>> = Numbers(pub[h] + 1, n) BY <2>6, ConcatEmptySeq
  <2> QED BY <1>t, <2>1, <2>2, <2>4, <2>5, <2>7 DEF Placed
<1>7. CASE Publish(h)
  <2>1. /\ buffer'[h] = Append(buffer[h], pub[h] + 1) /\ pub'[h] = pub[h] + 1 /\ pub[h] < MaxSeq
        /\ UNCHANGED <<phase, cursor, batch>>
    BY <1>t, <1>7 DEF Publish
  <2>2. ASSUME phase[h] \in Working
        PROVE  batch[h] \o Append(buffer[h], pub[h] + 1) = Numbers(cursor[h] + 1, pub[h] + 1)
    <3> DEFINE S == 1..MaxSeq  x == pub[h] + 1  b == batch[h]  u == buffer[h]
    <3>1. x \in S /\ b \in Seq(S) /\ u \in Seq(S) BY <1>t, <2>1
    <3>2. b \o u = Numbers(cursor[h] + 1, pub[h]) BY <1>0, <2>2 DEF Placed
    <3> HIDE DEF S, x, b, u
    <3>3. <<x>> \in Seq(S) /\ b \o u \in Seq(S) BY <3>1, ConcatProperties
    <3>4. Append(u, x) = u \o <<x>> /\ Append(b \o u, x) = (b \o u) \o <<x>>
      BY <3>1, <3>3, AppendIsConcat
    <3>5. b \o (u \o <<x>>) = (b \o u) \o <<x>> BY <3>1, <3>3, ConcatAssociative
    <3>6. b \o Append(u, x) = Append(Numbers(cursor[h] + 1, pub[h]), x) BY <3>2, <3>4, <3>5
    <3> QED BY <1>t, <3>6, NumbersAppend DEF x, b, u
  <2> QED BY <2>1, <2>2 DEF Placed
<1> QED BY <1>1, <1>2, <1>3, <1>4, <1>5, <1>6, <1>7, HandleCases

(* A drain begins: it takes the buffer, or there is none.                  *)
LEMMA WatchedDrains ==
    ASSUME Typed, NEW h \in Handles, Watched(h), DrainLive(h), UNCHANGED buffer,
           \/ phase'[h] = phase[h]
           \/ phase'[h] = "draining" /\ phase[h] \in {"open", "settling"}
    PROVE  Watched(h)'
BY DrainLiveCases DEF Watched, Awake

LEMMA WatchedStep ==
    ASSUME IInv, NEW h \in Handles, HandleStep(h)
    PROVE  Watched(h)'
<1> USE DEF fileVars, trackVars, lifeVars, stateVars, liveVars, bufVars, chainVars, flushVars, countVars, ForgetClaim
<1>0. Typed /\ Queueing(h) /\ Batching(h) /\ Watched(h) BY IInvTyped DEF IInv
<1>t. /\ buffer \in [Handles -> Seq(1..MaxSeq)] /\ phase \in [Handles -> Phases]
      /\ timer \in [Handles -> BOOLEAN] /\ paused \in [Handles -> BOOLEAN]
      /\ drain \in [Handles -> {"idle", "turn", "settled", "failed"}]
      /\ chain \in [Handles -> Seq(Ops)]
  BY <1>0 DEF Typed, TypeOK
<1>1. CASE Ending(h)
  <2>1. Ends(h) /\ UNCHANGED <<phase, timer>> /\ chain[h] # <<>> BY <1>1, EndingEnds
  <2>2. Turn(h) = "drain" => drain[h] = "turn"
    BY <1>0, <1>t, <2>1, DrainsTail DEF Queueing, Drains, Turn
  <2>3. CASE Ends(h) /\ UNCHANGED paused
    BY <1>0, <2>1, <2>2, <2>3, EndsCases DEF Watched, Awake
  <2>4. CASE Reject(h)
    <3>1. CASE Turn(h) = "drain"
      BY <1>t, <2>4, <3>1 DEF Reject, Watched, Awake
    <3>2. CASE Turn(h) # "drain"
      <4>1. UNCHANGED <<buffer, paused, drain>> BY <2>4, <3>2 DEF Reject
      <4> QED BY <1>0, <2>1, <4>1 DEF Watched, Awake
    <3> QED BY <3>1, <3>2
  <2>5. \/ FlushNoop(h) \/ Written(h) \/ HeaderWritten(h)
        \/ TurnRefused(h) \/ LeaseFails(h) \/ PathFails(h) \/ IOFails(h)
    BY <1>1 DEF Ending
  <2>6. FlushNoop(h) \/ Written(h) \/ HeaderWritten(h) => UNCHANGED paused
    BY DEF FlushNoop, Written, HeaderWritten
  <2>7. TurnRefused(h) \/ LeaseFails(h) \/ PathFails(h) \/ IOFails(h) => Reject(h)
    BY DEF TurnRefused, LeaseFails, PathFails, IOFails
  <2> QED BY <2>1, <2>3, <2>4, <2>5, <2>6, <2>7
<1>2. CASE TurnStarts(h)
  <2>1. UNCHANGED <<phase, timer, paused, drain>> /\ (buffer'[h] = <<>> \/ buffer'[h] = buffer[h])
    BY <1>t, <1>2 DEF TurnStarts
  <2> QED BY <1>0, <2>1 DEF Watched, Awake
<1>3. CASE Ensured(h) \/ Truncated(h) \/ Rewritten(h) \/ Announce(h) \/ AppendBatch(h)
           \/ (\E f \in Flushers : FlushQueues(f))
  <2>1. UNCHANGED <<phase, timer, paused, drain, buffer>>
    BY <1>3 DEF Ensured, Truncated, Rewritten, Announce, AppendBatch, FlushQueues
  <2> QED BY <1>0, <2>1 DEF Watched, Awake
<1>4. CASE DrainReturns(h)
  <2>1. /\ UNCHANGED <<timer, paused, buffer>> /\ drain'[h] = "idle" /\ drain[h] \in {"settled", "failed"}
        /\ phase[h] = "draining" => phase'[h] = (IF drain[h] = "settled" THEN "settling" ELSE "finishing")
        /\ phase[h] # "draining" => phase'[h] = phase[h]
    BY <1>t, <1>4 DEF DrainReturns
  <2> QED BY <1>0, <2>1 DEF Watched, Awake
<1>5. CASE SettlePass(h)
  <2>1. CASE buffer[h] = <<>>
    BY <1>0, <1>5, <2>1 DEF SettlePass, Watched
  <2>2. CASE buffer[h] # <<>>
    BY <1>0, <1>t, <1>5, <2>2, WatchedDrains DEF SettlePass
  <2> QED BY <2>1, <2>2
<1>6. CASE FinishPass(h) \/ Release(h)
  <2>1. UNCHANGED <<timer, paused, drain, buffer>> /\ phase[h] \in {"finishing", "releasing"}
    BY <1>t, <1>6 DEF FinishPass, Release
  <2> QED BY <1>0, <2>1 DEF Watched, Awake
<1>7. CASE ReadStored(h) \/ OpenFails(h) \/ AcquireLease(h) \/ \E p \in Procs : Create(h, p) \/ ClaimWrite(h, p)
  <2>1. UNCHANGED <<timer, paused, drain, buffer>> /\ phase[h] \in {"unused", "claimed", "leased"}
    BY <1>t, <1>7 DEF ReadStored, OpenFails, AcquireLease, Create, ClaimWrite
  <2> QED BY <1>0, <2>1 DEF Watched, Batching
<1>8. CASE Publish(h)
  <2>1. UNCHANGED <<paused, drain, phase>> /\ timer'[h] = (timer[h] \/ ArmsTimer(h))
    BY <1>t, <1>8 DEF Publish
  <2> QED BY <1>0, <2>1 DEF Watched, Awake, ArmsTimer
<1>9. CASE TimerFires(h)
  <2>1. UNCHANGED <<phase, buffer>> BY <1>9 DEF TimerFires
  <2>2. CASE drain[h] = "idle" BY <1>0, <1>9, <2>1, <2>2, WatchedDrains DEF TimerFires
  <2>3. CASE drain[h] # "idle"
    <3>1. drain[h] = "turn" /\ UNCHANGED <<paused, drain>> BY <1>9, <2>3 DEF TimerFires
    <3> QED BY <2>1, <3>1 DEF Watched, Awake
  <2> QED BY <2>2, <2>3
<1>10. CASE Close(h) \/ \E f \in Flushers : FlushCall(f, h)
  <2>1. /\ DrainLive(h) /\ UNCHANGED buffer
        /\ \/ phase'[h] = phase[h]
           \/ phase'[h] = "draining" /\ phase[h] = "open"
    BY <1>t, <1>10 DEF Close, FlushCall
  <2> QED BY <1>0, <2>1, WatchedDrains
<1> QED BY <1>1, <1>2, <1>3, <1>4, <1>5, <1>6, <1>7, <1>8, <1>9, <1>10, HandleCases

(* Waiting callers, and the steps of processes.                            *)

LEMMA CallingStep ==
    ASSUME IInv, [Next]_vars, NEW f \in Flushers
    PROVE  Calling(f)'
<1> USE DEF fileVars, trackVars, lifeVars, stateVars, liveVars, bufVars, chainVars, flushVars, countVars, ForgetClaim
<1>0. /\ Typed /\ Calling(f)
      /\ asked \in [Flushers -> {"idle", "joined", "drained", "queued", "failed", "done"}]
      /\ on \in [Flushers -> Handles \cup {Nobody}] /\ live \in [Handles -> BOOLEAN]
      /\ chain \in [Handles -> Seq(Ops)]
  BY IInvTyped DEF IInv, Typed, TypeOK
<1>1. CASE UNCHANGED <<live, on>> /\ asked'[f] \in {asked[f], "idle", "queued", "failed", "done"}
  BY <1>0, <1>1 DEF Calling
<1>2. ASSUME NEW h \in Handles, Ending(h) PROVE Calling(f)'
  <2>1. (Resolve(h) \/ Reject(h)) /\ UNCHANGED <<live, on>>
    BY <1>2, EndingEnds
       DEF Ends, Ending, TurnRefused, FlushNoop, LeaseFails, Written, HeaderWritten, PathFails, IOFails, Reject
  <2>2. asked'[f] \in {asked[f], "failed", "done"} BY <1>0, <2>1 DEF Resolve, Reject, Answer
  <2> QED BY <1>1, <2>1, <2>2
<1>3. ASSUME NEW h \in Handles, DrainReturns(h) PROVE Calling(f)'
  <2>1. UNCHANGED <<live, on>> /\ asked'[f] = IF f \in JoinersOf(h) THEN JoinedOutcome(h) ELSE asked[f]
    BY <1>3 DEF DrainReturns
  <2> QED BY <1>0, <2>1 DEF JoinersOf, Calling
<1>4. ASSUME NEW h \in Handles, Announce(h) PROVE Calling(f)'
  BY <1>0, <1>4 DEF Announce, Calling
<1>5. ASSUME NEW h \in Handles, NEW e \in Flushers, FlushCall(e, h) PROVE Calling(f)'
  BY <1>0, <1>5 DEF FlushCall, Routed, Calling
<1>6. ASSUME NEW e \in Flushers, FlushQueues(e) PROVE Calling(f)'
  <2>1. UNCHANGED <<live, on>> /\ asked'[f] \in {asked[f], "queued", "failed"}
    BY <1>0, <1>6 DEF FlushQueues
  <2> QED BY <1>1, <2>1
<1>7. ASSUME NEW p \in Procs, RemoveDirectory(p) PROVE Calling(f)'
  <2>1. UNCHANGED <<live, on>> /\ asked'[f] \in {asked[f], "idle"} BY <1>0, <1>7 DEF RemoveDirectory
  <2> QED BY <1>1, <2>1
<1>8. ASSUME NEW p \in Procs, Crash(p) PROVE Calling(f)'
  <2>1. /\ live' = Lost(p, live, FALSE) /\ on' = on
        /\ asked'[f] = IF on[f] \in Of(p) /\ asked[f] # "done" THEN "idle" ELSE asked[f]
    BY <1>8 DEF Crash
  <2> QED BY <1>0, <2>1 DEF Lost, Calling
<1>9. CASE UNCHANGED <<live, on, asked>> BY <1>0, <1>9 DEF Calling
<1>10. ASSUME NEW h \in Handles, TurnStarts(h) \/ Ensured(h) \/ Truncated(h) \/ Rewritten(h)
       PROVE  UNCHANGED <<live, on, asked>>
  BY <1>10 DEF TurnStarts, Ensured, Truncated, Rewritten
<1>11. ASSUME NEW h \in Handles, CloseStep(h) \/ Close(h) \/ TimerFires(h)
       PROVE  UNCHANGED <<live, on, asked>>
  BY <1>11 DEF CloseStep, SettlePass, FinishPass, Release, Close, TimerFires
<1>12. ASSUME NEW h \in Handles,
              \/ ReadStored(h) \/ OpenFails(h) \/ AcquireLease(h) \/ AppendBatch(h) \/ Publish(h)
              \/ \E p \in Procs : Create(h, p) \/ ClaimWrite(h, p)
       PROVE  UNCHANGED <<live, on, asked>>
  BY <1>12 DEF ReadStored, OpenFails, AcquireLease, AppendBatch, Publish, Create, ClaimWrite
<1>13. UNCHANGED vars \/ (\E p \in Procs : CheckDelete(p)) => UNCHANGED <<live, on, asked>>
  BY DEF vars, CheckDelete
<1> QED BY <1>2, <1>3, <1>4, <1>5, <1>6, <1>7, <1>8, <1>9, <1>10, <1>11, <1>12, <1>13
        DEF Next, TurnStep, CloseStep, Ending

LEMMA CrashKeeps ==
    ASSUME IInv, NEW p \in Procs, Crash(p), NEW g \in Handles
    PROVE  Queueing(g)' /\ Batching(g)' /\ Placed(g)' /\ Watched(g)'
<1>1. /\ phase' = Lost(p, phase, "dead") /\ held' = Lost(p, held, FALSE) /\ home' = home
      /\ cursor' = Lost(p, cursor, 0) /\ live' = Lost(p, live, FALSE) /\ pub' = Lost(p, pub, 0)
      /\ buffer' = Lost(p, buffer, <<>>) /\ timer' = Lost(p, timer, FALSE)
      /\ paused' = Lost(p, paused, FALSE) /\ drain' = Lost(p, drain, "idle")
      /\ chain' = Lost(p, chain, <<>>) /\ stage' = Lost(p, stage, "idle")
      /\ batch' = Lost(p, batch, <<>>) /\ waits' = Lost(p, waits, 0)
  BY DEF Crash
<1>2. CASE g \notin Of(p)
  <2>1. Same(g) BY <1>1, <1>2 DEF Lost, Same
  <2> QED BY <2>1, SameKeeps DEF IInv
<1>3. CASE g \in Of(p)
  <2>1. /\ phase'[g] = "dead" /\ cursor'[g] = 0 /\ ~live'[g] /\ pub'[g] = 0 /\ buffer'[g] = <<>>
        /\ drain'[g] = "idle" /\ chain'[g] = <<>> /\ stage'[g] = "idle" /\ batch'[g] = <<>>
    BY <1>1, <1>3 DEF Lost
  <2>2. Drains(g)' = {} BY <2>1 DEF Drains, DrainsIn
  <2>3. Queueing(g)' BY <2>1, <2>2 DEF Queueing, Serving
  <2>4. Batching(g)' BY <2>1, <2>2 DEF Batching
  <2>5. Placed(g)' /\ Watched(g)' BY <2>1 DEF Placed, Working, Watched
  <2> QED BY <2>3, <2>4, <2>5
<1> QED BY <1>2, <1>3

LEMMA InvariantStep ==
    ASSUME Guarded, IInv, [Next]_vars
    PROVE  IInv'
<1> USE DEF fileVars, trackVars, lifeVars, stateVars, liveVars, bufVars, chainVars, flushVars, countVars, ForgetClaim
<1>1. TypeOK' BY IInvTyped, TypedStep DEF Typed
<1>2. \A g \in Handles : Owning(g)' BY OwningStep
<1>3. \A f \in Flushers : Calling(f)' BY CallingStep
<1>4. ASSUME NEW g \in Handles PROVE Queueing(g)' /\ Batching(g)' /\ Placed(g)' /\ Watched(g)'
  <2>0. Typed /\ Queueing(g) /\ Batching(g) /\ Placed(g) /\ Watched(g) BY IInvTyped DEF IInv
  <2>1. ASSUME NEW h \in Handles, HandleStep(h)
        PROVE  Queueing(g)' /\ Batching(g)' /\ Placed(g)' /\ Watched(g)'
    <3>1. CASE g = h BY <2>1, <3>1, QueueingStep, BatchingStep, PlacedStep, WatchedStep
    <3>2. CASE g # h
      <4>1. Same(g) BY <2>0, <2>1, <3>2, Frame
      <4> QED BY <2>0, <4>1, SameKeeps
    <3> QED BY <3>1, <3>2
  <2>2. ASSUME NEW f \in Flushers, FlushQueues(f) PROVE \E h \in Handles : HandleStep(h)
    <3>1. on[f] \in Handles BY <2>2 DEF FlushQueues, IInv, Calling
    <3> QED BY <2>2, <3>1 DEF HandleStep
  <2>3. CASE UNCHANGED vars \/ \E p \in Procs : CheckDelete(p) \/ RemoveDirectory(p)
    <3>1. Same(g) BY <2>3 DEF vars, CheckDelete, RemoveDirectory, Same
    <3> QED BY <2>0, <3>1, SameKeeps
  <2>4. ASSUME NEW p \in Procs, Crash(p)
        PROVE  Queueing(g)' /\ Batching(g)' /\ Placed(g)' /\ Watched(g)'
    BY <2>4, CrashKeeps
  <2>5. CASE \E h \in Handles : HandleStep(h) BY <2>1, <2>5
  <2> QED BY <2>2, <2>3, <2>4, <2>5 DEF Next, HandleStep
<1> QED BY <1>1, <1>2, <1>3, <1>4 DEF IInv

LEMMA InvariantInit == Init => IInv
<1> SUFFICES ASSUME Init PROVE IInv OBVIOUS
<1>1. TypeOK BY TypedInit DEF Typed
<1>2. ASSUME NEW h \in Handles
      PROVE  Owning(h) /\ Queueing(h) /\ Batching(h) /\ Placed(h) /\ Watched(h)
  <2>1. Owning(h) BY DEF Init, Owning, Mutating, Serving
  <2>2. Drains(h) = {} /\ chain[h] = <<>> BY DEF Init, Drains, DrainsIn
  <2>3. Queueing(h) BY <2>2 DEF Init, Queueing, Serving
  <2>4. Batching(h) BY <2>2 DEF Init, Batching
  <2>5. Placed(h) /\ Watched(h) BY DEF Init, Placed, Working, Watched
  <2> QED BY <2>1, <2>3, <2>4, <2>5
<1>3. ASSUME NEW f \in Flushers PROVE Calling(f) BY DEF Init, Calling
<1> QED BY <1>1, <1>2, <1>3 DEF IInv

(* The inductive invariant: ownership, the chain and its drain, batches,   *)
(* the place of every event and the watch on the buffer hold in every      *)
(* state.                                                                  *)
THEOREM Invariant ==
    ASSUME Guarded
    PROVE  Spec => []IInv
<1>1. Init => IInv BY InvariantInit
<1>2. IInv /\ [Next]_vars => IInv' BY InvariantStep
<1> QED BY <1>1, <1>2, PTL DEF Spec

(* Every published event is stored, being written or buffered, once and in *)
(* order, and a buffered one is not forgotten.                             *)
THEOREM EventsKept ==
    ASSUME Guarded
    PROVE  Spec => []NoEventLost
<1>1. IInv => NoEventLost BY DEF IInv, NoEventLost, Watched
<1> QED BY <1>1, Invariant, PTL

(* Two handles are never in the middle of changing the log, when no timer  *)
(* outlives close() and no delete() overtakes a writer.                    *)
THEOREM OneMutator ==
    ASSUME Guarded
    PROVE  Spec => []SingleMutator
<1>1. IInv => SingleMutator
  <2> SUFFICES ASSUME IInv, NEW h \in Handles, Mutating(h) PROVE lock = h BY DEF SingleMutator
  <2>1. Owning(h) /\ Queueing(h) /\ stage[h] # "idle" BY DEF IInv, Mutating
  <2>2. held[h] /\ phase[h] \in Serving BY <2>1 DEF Owning, Queueing
  <2> QED BY <2>1, <2>2 DEF Owning
<1> QED BY <1>1, Invariant, PTL
=============================================================================
