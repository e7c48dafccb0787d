------------------------ MODULE SessionDurableProofs ------------------------
(***************************************************************************)
(* That the storage runtime is durable, for every number of handles,       *)
(* processes, flush callers, events, faults and crashes: it implements     *)
(* DurableLog, and a resolved flush is stored.                             *)
(***************************************************************************)
EXTENDS SessionHandlesProofs

(* Contiguous logs.                                                        *)

LEMMA FollowsConcat ==
    ASSUME NEW a \in Seq(Nat), NEW b \in Seq(Nat), Contiguous(a), Follows(a, b)
    PROVE  Contiguous(a \o b) /\ Len(a \o b) = Len(a) + Len(b)
<1>1. /\ Len(a) \in Nat /\ Len(b) \in Nat /\ Len(a \o b) = Len(a) + Len(b)
      /\ \A i \in 1..(Len(a) + Len(b)) : (a \o b)[i] = IF i <= Len(a) THEN a[i] ELSE b[i - Len(a)]
  BY ConcatProperties, LenProperties
<1>2. ASSUME NEW i \in 1..(Len(a) + Len(b)) PROVE (a \o b)[i] = i
  <2>1. CASE i <= Len(a)
    <3>1. i \in 1..Len(a) BY <1>1, <2>1
    <3> QED BY <1>1, <2>1, <3>1 DEF Contiguous
  <2>2. CASE ~(i <= Len(a))
    <3>1. i - Len(a) \in 1..Len(b) /\ Len(a) + (i - Len(a)) = i BY <1>1, <2>2
    <3> QED BY <1>1, <2>2, <3>1 DEF Follows
  <2> QED BY <2>1, <2>2
<1> QED BY <1>1, <1>2 DEF Contiguous

LEMMA FollowsPrefix ==
    ASSUME NEW a, NEW b \in Seq(Nat), Follows(a, b), NEW k \in 0..Len(b)
    PROVE  SubSeq(b, 1, k) \in Seq(Nat) /\ Len(SubSeq(b, 1, k)) = k /\ Follows(a, SubSeq(b, 1, k))
<1>1. Len(b) \in Nat /\ k \in Nat /\ k <= Len(b) BY LenProperties
<1>2. \A i \in 1..k : i \in 1..Len(b) /\ b[i] \in Nat BY <1>1, ElementOfSeq
<1>3. /\ SubSeq(b, 1, k) \in Seq(Nat) /\ Len(SubSeq(b, 1, k)) = k
      /\ \A i \in 1..k : SubSeq(b, 1, k)[i] = b[i]
  <2>1. \A i \in 1..k : b[i] \in Nat BY <1>2
  <2>2. /\ Len(SubSeq(b, 1, k)) = (IF 1 <= k THEN (k - 1) + 1 ELSE 0)
        /\ SubSeq(b, 1, k) \in Seq(Nat)
        /\ \A i \in 1..((k - 1) + 1) : SubSeq(b, 1, k)[i] = b[(1 + i) - 1]
    BY <1>1, <2>1, SubSeqProperties
  <2> QED BY <1>1, <2>2
<1> QED BY <1>2, <1>3 DEF Follows

LEMMA ContiguousBound ==
    ASSUME NEW s \in Seq(1..MaxSeq), Contiguous(s)
    PROVE  Len(s) \in 0..MaxSeq /\ s = [i \in 1..Len(s) |-> i]
<1>1. Len(s) \in Nat /\ DOMAIN s = 1..Len(s) /\ MaxSeq \in Nat
  BY LenProperties, HandleConstants DEF HandleConstants
<1>2. CASE Len(s) = 0 BY <1>1, <1>2 DEF Contiguous
<1>3. CASE Len(s) # 0
  <2>1. Len(s) \in 1..Len(s) BY <1>1, <1>3
  <2>2. s[Len(s)] \in 1..MaxSeq BY ONLY <2>1, s \in Seq(1..MaxSeq), ElementOfSeq
  <2>3. s[Len(s)] = Len(s) BY <2>1 DEF Contiguous
  <2> QED BY <1>1, <2>2, <2>3 DEF Contiguous
<1>4. s = [i \in 1..Len(s) |-> i] BY <1>1 DEF Contiguous
<1> QED BY <1>2, <1>3, <1>4

(* What may be found of the file after any step but a deletion.            *)
Sound(f) ==
    /\ Contiguous(f.log) /\ Follows(f.log, f.tail)
    /\ f.tail # <<>> => f.torn
    /\ ~f.exists => f.log = <<>> /\ f.tail = <<>> /\ ~f.torn
    /\ exists => f.exists
    /\ Len(log) <= Len(f.log)
    /\ Len(log) + Len(tail) <= Len(f.log) + Len(f.tail) \/ (f.log = log /\ f.tail = <<>>)

DTyped ==
    /\ log \in Seq(Nat) /\ tail \in Seq(Nat)
    /\ Len(log) \in Nat /\ Len(tail) \in Nat /\ acked \in Nat
    /\ \A h \in Handles : recovered[h] \in Seq(Nat) /\ batch[h] \in Seq(Nat) /\ buffer[h] \in Seq(Nat)
                          /\ Len(recovered[h]) \in Nat /\ Len(batch[h]) \in Nat
                          /\ cursor[h] \in Nat /\ pub[h] \in Nat

LEMMA TypedSeqs == ASSUME IInv PROVE DTyped
<1>1. Typed /\ 1..MaxSeq \subseteq Nat
  BY IInvTyped, HandleConstants DEF HandleConstants
<1>2. \A s \in Seq(1..MaxSeq) : s \in Seq(Nat) /\ Len(s) \in Nat
  BY <1>1, SeqMonotonic, LenProperties
<1> QED BY <1>1, <1>2 DEF Typed, TypeOK, DTyped

(* A writer's batch belongs at the end of the file.                        *)
LEMMA BatchFollows ==
    ASSUME IInv, Kept, NEW h \in Handles, Filed(h), PathFits(h),
           stage[h] = "write" \/ (stage[h] = "header" /\ ~exists)
    PROVE  cursor[h] = Len(log) /\ Follows(log, batch[h]) /\ tail = <<>> /\ ~torn
<1>0. DTyped /\ Placed(h) /\ Queueing(h) /\ Batching(h) BY TypedSeqs DEF IInv
<1>1. phase[h] \in Serving BY <1>0 DEF Queueing
<1>2. cursor[h] = Len(log) /\ tail = <<>> /\ ~torn
  <2>1. CASE materialized[h]
    <3>1. exists /\ stage[h] = "write" BY <2>1 DEF PathFits
    <3>2. Len(recovered[h]) = 0 /\ ~tornSeen[h] BY <3>1 DEF Filed
    <3> QED BY <1>0, <1>1, <2>1, <3>2 DEF Filed, DTyped
  <2>2. CASE ~materialized[h]
    <3>1. log = <<>> /\ tail = <<>> /\ ~torn BY <2>2 DEF PathFits, Kept
    <3> QED BY <1>1, <2>2, <3>1 DEF Filed, Fresh
  <2> QED BY <2>1, <2>2
<1>3. ASSUME NEW i \in 1..Len(batch[h]) PROVE batch[h][i] = cursor[h] + i
  <2> DEFINE b == batch[h]  u == buffer[h]  c == cursor[h]  p == pub[h]
  <2>1. /\ b \in Seq(Nat) /\ u \in Seq(Nat) /\ c \in Nat /\ p \in Nat /\ c <= p
        /\ b \o u = Numbers(c + 1, p) /\ i \in 1..Len(b)
    BY <1>0, <1>1 DEF DTyped, Placed, Working, Serving, Batching
  <2> HIDE DEF b, u, c, p
  <2>2. /\ Len(b) \in Nat /\ Len(u) \in Nat /\ Len(b \o u) = Len(b) + Len(u)
        /\ \A j \in 1..(Len(b) + Len(u)) : (b \o u)[j] = IF j <= Len(b) THEN b[j] ELSE u[j - Len(b)]
    BY <2>1, ConcatProperties, LenProperties
  <2>3. Len(b \o u) = p - c /\ \A j \in 1..(p - c) : (b \o u)[j] = c + j
    BY <2>1, NumbersElements
  <2>4. i \in 1..(Len(b) + Len(u)) /\ i \in 1..(p - c) /\ i <= Len(b) BY <2>1, <2>2, <2>3
  <2>5. b[i] = c + i BY <2>2, <2>3, <2>4
  <2> QED BY <2>5 DEF b, c
<1> QED BY <1>2, <1>3 DEF Follows

LEMMA FileSound == ASSUME IInv, Kept PROVE Sound(File)
BY TypedSeqs DEF DTyped, Kept, Sound, File

LEMMA CutsSound ==
    ASSUME IInv, Kept, NEW s \in Seq(Nat), Follows(log, s), tail = <<>>, exists, NEW f \in CutAppends(s)
    PROVE  Sound(f)
<1>0. DTyped BY TypedSeqs
<1>1. Len(s) \in Nat /\ Len(<<>>) = 0 BY LenProperties
<1>2. ASSUME NEW k \in 0..Len(s)
      PROVE  /\ Len(SubSeq(s, 1, k)) = k /\ Follows(log, SubSeq(s, 1, k))
             /\ Contiguous(log \o SubSeq(s, 1, k)) /\ Len(log \o SubSeq(s, 1, k)) = Len(log) + k
  <2>1. SubSeq(s, 1, k) \in Seq(Nat) /\ Len(SubSeq(s, 1, k)) = k /\ Follows(log, SubSeq(s, 1, k))
    BY <1>0, FollowsPrefix
  <2> QED BY <1>0, <2>1, FollowsConcat DEF DTyped, Kept
<1>3. Contiguous(log \o s) /\ Len(log \o s) = Len(log) + Len(s)
  BY <1>0, FollowsConcat DEF DTyped, Kept
<1>4. CASE f = [File EXCEPT !.log = log \o s]
  <2>1. f.log = log \o s /\ f.tail = <<>> /\ f.exists BY <1>4 DEF File
  <2>2. Follows(f.log, f.tail) BY <1>1, <2>1 DEF Follows
  <2> QED BY <1>0, <1>1, <1>3, <2>1, <2>2 DEF Sound, DTyped
<1>5. CASE f \in CutFrame(s)
  <2>1. PICK k \in 0..Len(s) : f = [File EXCEPT !.tail = SubSeq(s, 1, k), !.torn = TRUE]
    BY <1>5 DEF CutFrame
  <2>2. f.log = log /\ f.tail = SubSeq(s, 1, k) /\ f.torn /\ f.exists BY <2>1 DEF File
  <2> QED BY <1>0, <1>1, <1>2, <2>2 DEF Sound, DTyped, Kept
<1>6. ASSUME NEW partial \in BOOLEAN, f \in CutLines(s, partial) PROVE Sound(f)
  <2>1. PICK k \in 0..(Len(s) - 1) : f = [File EXCEPT !.log = log \o SubSeq(s, 1, k), !.torn = partial]
    BY <1>6 DEF CutLines
  <2>2. k \in 0..Len(s) BY <1>1
  <2>3. f.log = log \o SubSeq(s, 1, k) /\ f.tail = <<>> /\ f.exists BY <2>1 DEF File
  <2>4. Follows(f.log, f.tail) BY <1>1, <2>3 DEF Follows
  <2> QED BY <1>0, <1>1, <1>2, <2>2, <2>3, <2>4 DEF Sound, DTyped
<1> QED BY <1>4, <1>5, <1>6 DEF CutAppends

(* Whatever a failing or interrupted file operation leaves.                *)
LEMMA CrashSound ==
    ASSUME IInv, Kept, NEW h \in Handles, Filed(h), Mutating(h), PathFits(h), NEW f \in CrashFiles(h)
    PROVE  Sound(f)
<1>0. DTyped /\ Len(<<>>) = 0 /\ phase[h] \in Serving BY TypedSeqs DEF IInv, Queueing, Mutating
<1>1. CASE f = File BY <1>1, FileSound
<1>2. CASE stage[h] = "truncate" /\ f = Untorn
  <2>1. f.log = log /\ f.tail = <<>> /\ ~f.torn /\ f.exists = exists BY <1>2 DEF Untorn, File
  <2>2. Follows(f.log, f.tail) BY <1>0, <2>1 DEF Follows
  <2> QED BY <1>0, <2>1, <2>2 DEF Sound, Kept, DTyped
<1>3. CASE stage[h] \in {"write", "header"} /\ ~exists /\ f = Published(h)
  <2>1. f.log = batch[h] /\ f.exists /\ f.tail = tail /\ f.torn = torn BY <1>3 DEF Published, File
  <2>2. log = <<>> /\ tail = <<>> /\ Follows(log, batch[h]) BY <1>3, BatchFollows DEF Kept
  <2>3. Contiguous(batch[h]) /\ Follows(batch[h], <<>>) BY <1>0, <2>2 DEF Contiguous, Follows, DTyped
  <2> QED BY <1>0, <2>1, <2>2, <2>3 DEF Sound, DTyped
<1>4. CASE stage[h] = "recover" /\ f \in CutAppends(recovered[h])
  <2>1. materialized[h] /\ ~tornSeen[h] BY <1>4 DEF Filed
  <2>2. Follows(log, recovered[h]) /\ tail = <<>> /\ exists BY <1>0, <2>1 DEF Filed
  <2> QED BY <1>0, <1>4, <2>2, CutsSound DEF DTyped
<1>5. CASE stage[h] = "write" /\ exists /\ f \in CutAppends(batch[h])
  BY <1>0, <1>5, BatchFollows, CutsSound DEF DTyped
<1> QED BY <1>1, <1>2, <1>3, <1>4, <1>5 DEF CrashFiles, FailedFiles

-----------------------------------------------------------------------------
(* What a step does to the file.                                           *)

LogStep ==
    /\ Kept'
    /\ exists => exists'
    /\ Len(log) <= Len(log')
    /\ \/ Len(log) + Len(tail) <= Len(log') + Len(tail') /\ acked <= acked'
       \/ log' = log /\ tail' = <<>> /\ acked' = acked

Quiet == UNCHANGED <<exists, log, tail, torn, acked>>

LEMMA QuietStep == ASSUME IInv, Kept, Quiet PROVE LogStep
BY TypedSeqs DEF DTyped, Quiet, LogStep, Kept, Contiguous, Follows

LEMMA SoundStep ==
    ASSUME IInv, Kept, NEW f, Sound(f), SetFile(f), acked' = acked, Len(f.log) \in Nat
    PROVE  LogStep
<1>1. exists' = f.exists /\ log' = f.log /\ tail' = f.tail /\ torn' = f.torn BY DEF SetFile
<1>2. DTyped BY TypedSeqs
<1>3. Contiguous(log') /\ Follows(log', tail') BY <1>1 DEF Sound
<1>4. acked' <= Len(log') BY <1>1, <1>2 DEF Sound, Kept, DTyped
<1>5. /\ tail' # <<>> => torn'
      /\ ~exists' => log' = <<>> /\ tail' = <<>> /\ ~torn'
      /\ exists => exists'
      /\ Len(log) <= Len(log')
      /\ Len(log) + Len(tail) <= Len(log') + Len(tail') \/ (log' = log /\ tail' = <<>>)
  BY <1>1 DEF Sound
<1>6. Kept' BY <1>3, <1>4, <1>5 DEF Kept, Contiguous, Follows
<1>7. acked <= acked' BY <1>2 DEF DTyped
<1> QED BY <1>5, <1>6, <1>7 DEF LogStep

LEMMA TruncatedStep ==
    ASSUME IInv, Kept, NEW h \in Handles, Truncated(h)
    PROVE  LogStep
<1>1. exists' = exists /\ exists /\ log' = log /\ tail' = <<>> /\ ~torn' /\ acked' = acked
  BY DEF Truncated, countVars
<1>2. DTyped /\ Len(<<>>) = 0 BY TypedSeqs
<1>3. Kept' BY <1>1, <1>2 DEF Kept, Contiguous, Follows
<1> QED BY <1>1, <1>2, <1>3 DEF LogStep, DTyped

LEMMA RewrittenStep ==
    ASSUME IInv, Kept, NEW h \in Handles, Filed(h), Rewritten(h)
    PROVE  LogStep
<1>1. /\ exists' = exists /\ exists /\ log' = log \o recovered[h] /\ tail' = tail /\ torn' = torn
      /\ acked' = acked /\ stage[h] = "recover"
  BY DEF Rewritten, countVars
<1>2. DTyped /\ Len(<<>>) = 0 /\ phase[h] \in Serving BY <1>1, TypedSeqs DEF IInv, Queueing
<1>3. Follows(log, recovered[h]) /\ tail = <<>> /\ ~torn BY <1>1, <1>2 DEF Filed
<1>4. Contiguous(log') /\ Len(log') = Len(log) + Len(recovered[h])
  BY <1>1, <1>2, <1>3, FollowsConcat DEF DTyped, Kept
<1>5. Kept' BY <1>1, <1>2, <1>3, <1>4 DEF Kept, Follows, DTyped
<1> QED BY <1>1, <1>2, <1>3, <1>4, <1>5 DEF LogStep, DTyped

LEMMA WrittenStep ==
    ASSUME IInv, Kept, NEW h \in Handles, Filed(h), Written(h)
    PROVE  LogStep /\ Len(log') = Len(log) + Len(batch[h])
<1>1. /\ exists' /\ log' = log \o batch[h] /\ tail' = tail /\ torn' = torn
      /\ acked' = cursor[h] + Len(batch[h]) /\ stage[h] = "write" /\ PathFits(h)
  BY DEF Written
<1>2. DTyped /\ Len(<<>>) = 0 BY TypedSeqs
<1>3. cursor[h] = Len(log) /\ Follows(log, batch[h]) /\ tail = <<>> /\ ~torn
  BY <1>1, BatchFollows
<1>4. Contiguous(log') /\ Len(log') = Len(log) + Len(batch[h])
  BY <1>1, <1>2, <1>3, FollowsConcat DEF DTyped, Kept
<1>5. Kept' BY <1>1, <1>2, <1>3, <1>4 DEF Kept, Follows, DTyped
<1> QED BY <1>1, <1>2, <1>3, <1>4, <1>5 DEF LogStep, DTyped, Kept

LEMMA HeaderStep ==
    ASSUME IInv, Kept, NEW h \in Handles, HeaderWritten(h)
    PROVE  LogStep
<1>1. /\ exists' /\ ~exists /\ log' = <<>> /\ tail' = tail /\ torn' = torn /\ acked' = acked
  BY DEF HeaderWritten, countVars
<1>2. DTyped /\ Len(<<>>) = 0 BY TypedSeqs
<1>3. log = <<>> BY <1>1 DEF Kept
<1>4. Kept' BY <1>1, <1>2, <1>3 DEF Kept, Contiguous, Follows, DTyped
<1> QED BY <1>1, <1>2, <1>3, <1>4 DEF LogStep, DTyped

LEMMA IOFailsStep ==
    ASSUME IInv, Kept, NEW h \in Handles, Filed(h), IOFails(h)
    PROVE  LogStep
<1>1. PICK f \in FailedFiles(h) : SetFile(f) BY DEF IOFails
<1>2. acked' = acked /\ Mutating(h) /\ PathFits(h) /\ f \in CrashFiles(h) BY DEF IOFails, CrashFiles
<1>3. Sound(f) BY <1>2, CrashSound
<1>4. log' \in Seq(1..MaxSeq) BY <1>1, <1>2, IInvTyped, FilesType DEF Typed
<1>5. f.log = log' BY <1>1 DEF SetFile
<1> QED BY <1>1, <1>2, <1>3, <1>4, <1>5, SoundStep, LenProperties

LEMMA CrashStep ==
    ASSUME IInv, Kept, \A h \in Handles : Filed(h), NEW p \in Procs, Crash(p)
    PROVE  LogStep
<1>1. PICK f \in UNION ({{File}} \cup {CrashFiles(h) : h \in {g \in Of(p) : Mutating(g) /\ PathFits(g)}}) :
          SetFile(f)
  BY DEF Crash
<1>2. acked' = acked BY DEF Crash
<1>3. CASE f = File
  <2>1. Quiet BY <1>1, <1>2, <1>3 DEF SetFile, File, Quiet
  <2> QED BY <2>1, QuietStep
<1>4. CASE \E h \in Handles : Mutating(h) /\ PathFits(h) /\ f \in CrashFiles(h)
  <2>1. PICK h \in Handles : Mutating(h) /\ PathFits(h) /\ f \in CrashFiles(h) BY <1>4
  <2>2. Sound(f) BY <2>1, CrashSound
  <2>3. log' \in Seq(1..MaxSeq) BY <1>1, <2>1, IInvTyped, FilesType DEF Typed
  <2>4. f.log = log' BY <1>1 DEF SetFile
  <2> QED BY <1>1, <1>2, <2>2, <2>3, <2>4, SoundStep, LenProperties
<1> QED BY <1>1, <1>3, <1>4 DEF Of

(* The other steps leave the file alone.                                   *)
Writes(h) ==
    Truncated(h) \/ Rewritten(h) \/ Written(h) \/ HeaderWritten(h) \/ IOFails(h)

LEMMA OthersQuiet ==
    ASSUME NEW h \in Handles, HandleStep(h), ~Writes(h)
    PROVE  Quiet
<1> USE DEF fileVars, countVars, Quiet
<1>1. CASE Ending(h)
  BY <1>1 DEF Ending, Writes, TurnRefused, FlushNoop, LeaseFails, PathFails
<1>2. CASE TurnStarts(h) \/ Ensured(h)
  BY <1>2 DEF TurnStarts, Ensured
<1>3. CASE DrainReturns(h) \/ SettlePass(h) \/ FinishPass(h) \/ Release(h) \/ Close(h) \/ TimerFires(h)
  BY <1>3 DEF DrainReturns, SettlePass, FinishPass, Release, Close, TimerFires
<1>4. CASE ReadStored(h) \/ OpenFails(h) \/ AcquireLease(h) \/ \E p \in Procs : Create(h, p) \/ ClaimWrite(h, p)
  BY <1>4 DEF ReadStored, OpenFails, AcquireLease, Create, ClaimWrite
<1>5. CASE AppendBatch(h) \/ Announce(h) \/ Publish(h)
  BY <1>5 DEF AppendBatch, Announce, Publish
<1>6. CASE (\E f \in Flushers : FlushCall(f, h)) \/ (\E f \in Flushers : FlushQueues(f) /\ on[f] = h)
  BY <1>6 DEF FlushCall, FlushQueues
<1> QED BY <1>1, <1>2, <1>3, <1>4, <1>5, <1>6, HandleCases DEF Writes

LEMMA NextCases ==
    ASSUME IInv, [Next]_vars
    PROVE  \/ \E h \in Handles : HandleStep(h)
           \/ \E p \in Procs : CheckDelete(p) \/ RemoveDirectory(p) \/ Crash(p)
           \/ UNCHANGED vars
<1>1. ASSUME NEW f \in Flushers, FlushQueues(f) PROVE \E h \in Handles : HandleStep(h)
  <2>1. on[f] \in Handles BY <1>1 DEF FlushQueues, IInv, Calling
  <2> QED BY <1>1, <2>1 DEF HandleStep
<1> QED BY <1>1 DEF Next, HandleStep

LEMMA FileStep ==
    ASSUME IInv, Kept, \A h \in Handles : Filed(h), [Next]_vars
    PROVE  LogStep \/ \E p \in Procs : RemoveDirectory(p)
<1>1. ASSUME NEW h \in Handles, HandleStep(h) PROVE LogStep
  <2>1. CASE Writes(h)
    BY <2>1, TruncatedStep, RewrittenStep, WrittenStep, HeaderStep, IOFailsStep DEF Writes
  <2>2. CASE ~Writes(h) BY <1>1, <2>2, OthersQuiet, QuietStep
  <2> QED BY <2>1, <2>2
<1>2. ASSUME NEW p \in Procs, Crash(p) PROVE LogStep BY <1>2, CrashStep
<1>3. (\E p \in Procs : CheckDelete(p)) \/ UNCHANGED vars => Quiet
  BY DEF CheckDelete, vars, fileVars, countVars, Quiet
<1> QED BY <1>1, <1>2, <1>3, QuietStep, NextCases

-----------------------------------------------------------------------------
(* What a handle knows of the file.                                        *)

SameState(g) ==
    materialized'[g] = materialized[g] /\ tornSeen'[g] = tornSeen[g] /\ recovered'[g] = recovered[g]

LEMMA StateFrame ==
    ASSUME Typed, NEW h \in Handles, HandleStep(h), NEW g \in Handles,
           g # h \/ ~(ReadStored(h) \/ Truncated(h) \/ Rewritten(h) \/ Written(h) \/ HeaderWritten(h))
    PROVE  SameState(g)
<1> USE DEF stateVars, SameState
<1>t. /\ materialized \in [Handles -> BOOLEAN] /\ tornSeen \in [Handles -> BOOLEAN]
      /\ recovered \in [Handles -> Seq(1..MaxSeq)]
  BY DEF Typed, TypeOK
<1>1. CASE Ending(h)
  BY <1>t, <1>1 DEF Ending, TurnRefused, FlushNoop, LeaseFails, Written, HeaderWritten, PathFails, IOFails
<1>2. CASE TurnStarts(h) \/ Ensured(h) \/ Truncated(h) \/ Rewritten(h)
  BY <1>t, <1>2 DEF TurnStarts, Ensured, Truncated, Rewritten
<1>3. CASE DrainReturns(h) \/ SettlePass(h) \/ FinishPass(h) \/ Release(h) \/ Close(h) \/ TimerFires(h)
  BY <1>3 DEF DrainReturns, SettlePass, FinishPass, Release, Close, TimerFires
<1>4. CASE ReadStored(h) \/ OpenFails(h) \/ AcquireLease(h) \/ \E p \in Procs : Create(h, p) \/ ClaimWrite(h, p)
  BY <1>t, <1>4 DEF ReadStored, OpenFails, AcquireLease, Create, ClaimWrite
<1>5. CASE AppendBatch(h) \/ Announce(h) \/ Publish(h)
  BY <1>5 DEF AppendBatch, Announce, Publish
<1>6. CASE (\E f \in Flushers : FlushCall(f, h)) \/ (\E f \in Flushers : FlushQueues(f) /\ on[f] = h)
  BY <1>6 DEF FlushCall, FlushQueues
<1> QED BY <1>1, <1>2, <1>3, <1>4, <1>5, <1>6, HandleCases

(* The lock keeps everybody else from a file that a handle knows.          *)
LEMMA SoleKnower ==
    ASSUME IInv, NEW h \in Handles, Mutating(h), NEW g \in Handles, Filed(g),
           phase[g] \in Serving, materialized[g]
    PROVE  g = h
<1>1. held[h] /\ phase[h] \in Serving BY DEF IInv, Owning, Queueing, Mutating
<1>2. lock = h BY <1>1 DEF IInv, Owning
<1>3. lock = g BY DEF Filed, IInv, Owning
<1> QED BY <1>2, <1>3

LEMMA FiledAlone ==
    ASSUME NEW g \in Handles, Filed(g), Same(g), SameState(g),
           phase[g] \in Serving /\ materialized[g] => UNCHANGED <<exists, log, tail, torn>>
    PROVE  Filed(g)'
BY DEF Same, SameState, Filed, Fresh, Follows

LEMMA WritesMutate ==
    ASSUME NEW h \in Handles, Writes(h)
    PROVE  Mutating(h)
BY DEF Writes, Truncated, Rewritten, Written, HeaderWritten, IOFails, Mutating

LEMMA FiledOthers ==
    ASSUME IInv, NEW h \in Handles, HandleStep(h), NEW g \in Handles \ {h}, Filed(g)
    PROVE  Filed(g)'
<1>1. Same(g) /\ SameState(g) BY IInvTyped, Frame, StateFrame
<1>2. phase[g] \in Serving /\ materialized[g] => UNCHANGED <<exists, log, tail, torn>>
  <2>1. CASE Writes(h) BY <2>1, WritesMutate, SoleKnower
  <2>2. CASE ~Writes(h) BY <2>2, OthersQuiet DEF Quiet
  <2> QED BY <2>1, <2>2
<1> QED BY <1>1, <1>2, FiledAlone

LEMMA FiledKept ==
    ASSUME NEW h \in Handles, Filed(h), Quiet, SameState(h), cursor'[h] = cursor[h],
           stage'[h] \in {stage[h], "idle", "lease"},
           phase'[h] \in Serving \cup Opening => phase[h] \in Serving \cup Opening,
           phase'[h] \in Opening => phase[h] \in Opening,
           phase'[h] \in Serving /\ held[h] => held'[h]
    PROVE  Filed(h)'
BY DEF Quiet, SameState, Filed, Fresh, Follows

LEMMA FiledIOFails ==
    ASSUME IInv, Kept, NEW h \in Handles, Filed(h), IOFails(h)
    PROVE  Filed(h)'
<1>1. /\ UNCHANGED <<lifeVars, held, stateVars>> /\ Reject(h) /\ Mutating(h) /\ PathFits(h)
  BY DEF IOFails
<1>2. SameState(h) /\ UNCHANGED <<phase, held, cursor>> BY <1>1 DEF stateVars, lifeVars, SameState
<1>3. stage'[h] = "idle" BY <1>1, IInvTyped, TurnEnds DEF Typed, TypeOK
<1>4. PICK f \in FailedFiles(h) : SetFile(f) BY DEF IOFails
<1>5. CASE materialized[h]
  <2>1. exists BY <1>1, <1>5 DEF PathFits
  <2>2. f = File \/ (stage[h] = "truncate" /\ f = Untorn) BY <1>4, <2>1 DEF FailedFiles
  <2>3. CASE f = File
    <3>1. UNCHANGED <<exists, log, tail, torn>> BY <1>4, <2>3 DEF SetFile, File
    <3> QED BY <1>2, <1>3, <3>1 DEF SameState, Filed, Fresh, Follows
  <2>4. CASE f = Untorn
    <3>1. UNCHANGED <<exists, log>> /\ tail' = <<>> /\ ~torn' BY <1>4, <2>4 DEF SetFile, File, Untorn
    <3> QED BY <1>2, <1>3, <3>1 DEF SameState, Filed, Fresh, Follows
  <2> QED BY <2>2, <2>3, <2>4
<1>6. CASE ~materialized[h]
  BY <1>2, <1>3, <1>6 DEF SameState, Filed, Fresh
<1> QED BY <1>5, <1>6

LEMMA FiledWrites ==
    ASSUME IInv, Kept, NEW h \in Handles, Filed(h),
           Truncated(h) \/ Rewritten(h) \/ Written(h) \/ HeaderWritten(h)
    PROVE  Filed(h)'
<1>0. DTyped /\ Len(<<>>) = 0 /\ Typed /\ Queueing(h) /\ Owning(h) BY TypedSeqs, IInvTyped DEF IInv
<1>t. /\ materialized \in [Handles -> BOOLEAN] /\ tornSeen \in [Handles -> BOOLEAN]
      /\ recovered \in [Handles -> Seq(1..MaxSeq)] /\ cursor \in [Handles -> Nat]
      /\ stage \in [Handles -> Stages]
  BY <1>0 DEF Typed, TypeOK
<1>m. Mutating(h) /\ held[h] /\ phase[h] \in Serving
  BY <1>0 DEF Truncated, Rewritten, Written, HeaderWritten, Mutating, Owning, Queueing
<1>1. CASE Truncated(h)
  <2>1. /\ UNCHANGED <<exists, log, phase, held, materialized, cursor, recovered>>
        /\ tail' = <<>> /\ ~torn' /\ ~tornSeen'[h] /\ stage[h] = "truncate" /\ exists
        /\ stage'[h] = NextStage(FALSE, recovered[h])
    BY <1>t, <1>1 DEF Truncated, lifeVars
  <2>2. stage'[h] = "recover" \/ (stage'[h] = "write" /\ recovered[h] = <<>>)
    BY <2>1 DEF NextStage
  <2> QED BY <1>m, <2>1, <2>2 DEF Filed, Follows, Serving, Opening
<1>2. CASE Rewritten(h)
  <2>1. /\ UNCHANGED <<exists, tail, torn, phase, held, materialized, cursor, tornSeen>>
        /\ log' = log \o recovered[h] /\ recovered'[h] = <<>> /\ stage[h] = "recover" /\ exists
        /\ stage'[h] = "write"
    BY <1>t, <1>2 DEF Rewritten, lifeVars
  <2>2. materialized[h] /\ ~tornSeen[h] /\ tail = <<>> /\ ~torn BY <1>m, <2>1 DEF Filed
  <2>3. Len(log') = Len(log) + Len(recovered[h])
    BY <1>0, <2>1, ConcatProperties DEF DTyped
  <2>4. cursor'[h] = Len(log') + Len(recovered'[h])
    BY <1>0, <1>m, <2>1, <2>2, <2>3 DEF Filed, DTyped
  <2> QED BY <1>0, <1>m, <2>1, <2>2, <2>4 DEF Filed, Follows, Serving, Opening
<1>3. CASE Written(h)
  <2>1. /\ UNCHANGED <<tail, torn, phase, held, tornSeen, recovered>>
        /\ exists' /\ materialized'[h] /\ stage[h] = "write" /\ PathFits(h)
        /\ cursor'[h] = cursor[h] + Len(batch[h])
    BY <1>t, <1>3 DEF Written, lifeVars
  <2>2. stage'[h] = "idle" BY <1>t, <1>3, TurnEnds DEF Written
  <2>3. recovered[h] = <<>> /\ ~tornSeen[h] BY <2>1 DEF Filed
  <2>4. cursor[h] = Len(log) /\ tail = <<>> /\ ~torn BY <2>1, BatchFollows
  <2>5. Len(log') = Len(log) + Len(batch[h]) BY <1>3, WrittenStep
  <2>6. cursor'[h] = Len(log') + Len(recovered'[h]) BY <1>0, <2>1, <2>3, <2>4, <2>5 DEF DTyped
  <2> QED BY <1>0, <1>m, <2>1, <2>2, <2>3, <2>4, <2>6 DEF Filed, Follows, Serving, Opening
<1>4. CASE HeaderWritten(h)
  <2>1. /\ UNCHANGED <<tail, torn, phase, held, tornSeen, recovered, cursor>>
        /\ exists' /\ ~exists /\ log' = <<>> /\ materialized'[h]
    BY <1>t, <1>4 DEF HeaderWritten, lifeVars
  <2>2. stage'[h] = "idle" BY <1>t, <1>4, TurnEnds DEF HeaderWritten
  <2>3. tail = <<>> /\ ~torn BY <2>1 DEF Kept
  <2>4. ~materialized[h] BY <1>m, <2>1 DEF Filed
  <2>5. Fresh(h) BY <1>m, <2>4 DEF Filed
  <2> QED BY <1>0, <1>m, <2>1, <2>2, <2>3, <2>5 DEF Filed, Fresh, Follows, Serving, Opening
<1> QED BY <1>1, <1>2, <1>3, <1>4

LEMMA FiledStep ==
    ASSUME Guarded, IInv, Kept, NEW h \in Handles, HandleStep(h), Filed(h)
    PROVE  Filed(h)'
<1> USE DEF fileVars, trackVars, lifeVars, stateVars, liveVars, bufVars, chainVars, flushVars, countVars
<1>0. DTyped /\ Len(<<>>) = 0 /\ Typed /\ Queueing(h) /\ Owning(h) BY TypedSeqs, IInvTyped DEF IInv
<1>t. /\ materialized \in [Handles -> BOOLEAN] /\ tornSeen \in [Handles -> BOOLEAN]
      /\ recovered \in [Handles -> Seq(1..MaxSeq)] /\ cursor \in [Handles -> Nat]
      /\ stage \in [Handles -> Stages] /\ held \in [Handles -> BOOLEAN]
      /\ phase \in [Handles -> Phases]
  BY <1>0 DEF Typed, TypeOK
<1>1. CASE Writes(h) BY <1>1, FiledIOFails, FiledWrites DEF Writes
<1>2. CASE ReadStored(h)
  <2>1. /\ UNCHANGED <<exists, log, tail, torn, stage, held>>
        /\ phase[h] = "leased" /\ phase'[h] = "open" /\ exists
        /\ materialized'[h] /\ cursor'[h] = Len(Stored) /\ tornSeen'[h] = torn /\ recovered'[h] = tail
    BY <1>t, <1>2 DEF ReadStored
  <2>2. Len(Stored) = Len(log) + Len(tail) BY <1>0, ConcatProperties DEF Stored, DTyped
  <2>3. held[h] /\ stage[h] = "idle" BY <1>0, <2>1 DEF Owning, Queueing, Serving
  <2> QED BY <2>1, <2>2, <2>3 DEF Filed, Kept, Follows, Serving, Opening
<1>3. ASSUME ~Writes(h), ~ReadStored(h) PROVE Quiet /\ SameState(h)
  <2>1. ~(Truncated(h) \/ Rewritten(h) \/ Written(h) \/ HeaderWritten(h)) BY <1>3 DEF Writes
  <2> QED BY <1>0, <1>3, <2>1, OthersQuiet, StateFrame
<1>4. CASE Ensured(h)
  <2>1. Quiet /\ SameState(h)
    <3>1. ~Writes(h) /\ ~ReadStored(h)
      BY <1>0, <1>4 DEF Ensured, Writes, Truncated, Rewritten, Written, HeaderWritten, IOFails, Mutating,
                        ReadStored, Queueing, Serving
    <3> QED BY <1>3, <3>1
  <2>2. /\ UNCHANGED <<phase, cursor>> /\ held'[h] /\ stage[h] = "lease"
        /\ stage'[h] \in {"header", NextStage(tornSeen[h], recovered[h])}
    BY <1>t, <1>4 DEF Ensured
  <2>3. phase[h] \in Serving BY <1>0, <2>2 DEF Queueing
  <2>4. stage'[h] \in {"truncate", "recover"} => materialized[h]
    <3>1. ~materialized[h] => Fresh(h) BY <2>3 DEF Filed
    <3> QED BY <2>2, <3>1 DEF NextStage, Fresh
  <2>5. /\ stage'[h] \in {"recover", "write"} => ~tornSeen[h]
        /\ stage'[h] = "write" => recovered[h] = <<>>
    BY <2>2 DEF NextStage
  <2> QED BY <2>1, <2>2, <2>3, <2>4, <2>5 DEF Quiet, SameState, Filed, Fresh, Follows, Serving, Opening
<1>5. CASE Ending(h) /\ ~Writes(h)
  <2>1. TurnRefused(h) \/ FlushNoop(h) \/ LeaseFails(h) \/ PathFails(h)
    BY <1>5 DEF Ending, Writes
  <2>2. UNCHANGED <<lifeVars, held, stateVars>> /\ (Resolve(h) \/ Reject(h))
    BY <2>1 DEF TurnRefused, FlushNoop, LeaseFails, PathFails
  <2>3. UNCHANGED <<phase, held, cursor>> /\ SameState(h) BY <2>2 DEF SameState
  <2>4. stage'[h] = "idle" BY <1>t, <2>2, TurnEnds
  <2>5. Quiet BY <1>5, OthersQuiet
  <2> QED BY <2>3, <2>4, <2>5, FiledKept
<1>6. CASE TurnStarts(h) /\ ~Writes(h) /\ ~ReadStored(h)
  <2>1. UNCHANGED <<phase, held, cursor>> /\ stage'[h] = "lease" BY <1>t, <1>6 DEF TurnStarts
  <2> QED BY <1>3, <1>6, <2>1, FiledKept
<1>7. CASE ~Writes(h) /\ ~ReadStored(h) /\ (DrainReturns(h) \/ SettlePass(h) \/ FinishPass(h) \/ Release(h))
  <2>1. UNCHANGED <<held, cursor, stage>>
    BY <1>7 DEF DrainReturns, SettlePass, FinishPass, Release
  <2>2. /\ phase'[h] \in Serving \cup Opening => phase[h] \in Serving \cup Opening
        /\ phase'[h] \in Opening => phase[h] \in Opening
    BY <1>t, <1>7 DEF DrainReturns, SettlePass, FinishPass, Release, Serving, Opening
  <2> QED BY <1>3, <1>7, <2>1, <2>2, FiledKept
<1>8. CASE ~Writes(h) /\ ~ReadStored(h) /\ (Close(h) \/ TimerFires(h) \/ AppendBatch(h) \/ Announce(h) \/ Publish(h)
           \/ (\E f \in Flushers : FlushCall(f, h)) \/ (\E f \in Flushers : FlushQueues(f) /\ on[f] = h))
  <2>1. UNCHANGED <<held, cursor, stage>>
    BY <1>8 DEF Close, TimerFires, AppendBatch, Announce, Publish, FlushCall, FlushQueues
  <2>2. /\ phase'[h] \in Serving \cup Opening => phase[h] \in Serving \cup Opening
        /\ phase'[h] \in Opening => phase[h] \in Opening
    BY <1>t, <1>8 DEF Close, TimerFires, AppendBatch, Announce, Publish, FlushCall, FlushQueues, Serving, Opening
  <2> QED BY <1>3, <1>8, <2>1, <2>2, FiledKept
<1>9. CASE ~Writes(h) /\ ~ReadStored(h) /\ (OpenFails(h) \/ AcquireLease(h) \/ \E p \in Procs : Create(h, p) \/ ClaimWrite(h, p))
  <2>1. UNCHANGED <<cursor, stage>> /\ phase[h] \in Opening
    BY <1>9 DEF OpenFails, AcquireLease, Create, ClaimWrite, Opening
  <2>2. phase'[h] \in Serving /\ held[h] => held'[h]
    BY <1>t, <1>9 DEF OpenFails, AcquireLease, Create, ClaimWrite, Serving
  <2> QED BY <1>3, <1>9, <2>1, <2>2, FiledKept
<1>10. ASSUME ~Writes(h), ~ReadStored(h), ~Ensured(h), ~Ending(h) PROVE Filed(h)'
  <2>1. ~Truncated(h) /\ ~Rewritten(h) BY <1>10 DEF Writes
  <2> QED BY <1>6, <1>7, <1>8, <1>9, <1>10, <2>1, HandleCases
<1> QED BY <1>1, <1>2, <1>4, <1>5, <1>10

LEMMA FiledCrash ==
    ASSUME IInv, NEW p \in Procs, Crash(p), NEW g \in Handles, Filed(g)
    PROVE  Filed(g)'
<1>1. /\ phase' = Lost(p, phase, "dead") /\ held' = Lost(p, held, FALSE) /\ home' = home
      /\ cursor' = Lost(p, cursor, 0) /\ stage' = Lost(p, stage, "idle")
      /\ materialized' = Lost(p, materialized, FALSE) /\ tornSeen' = Lost(p, tornSeen, FALSE)
      /\ recovered' = Lost(p, recovered, <<>>)
  BY DEF Crash
<1>2. CASE g \in Of(p)
  <2>1. phase'[g] = "dead" /\ stage'[g] = "idle" BY <1>1, <1>2 DEF Lost
  <2> QED BY <2>1 DEF Filed, Serving, Opening
<1>3. CASE g \notin Of(p)
  <2>1. /\ SameState(g) /\ phase'[g] = phase[g] /\ held'[g] = held[g] /\ cursor'[g] = cursor[g]
        /\ stage'[g] = stage[g]
    BY <1>1, <1>3 DEF Lost, SameState
  <2>2. ASSUME phase[g] \in Serving, materialized[g] PROVE UNCHANGED <<exists, log, tail, torn>>
    <3>1. PICK f \in UNION ({{File}} \cup {CrashFiles(h) : h \in {k \in Of(p) : Mutating(k) /\ PathFits(k)}}) :
              SetFile(f)
      BY DEF Crash
    <3>2. ~\E h \in Of(p) : Mutating(h)
      BY <1>3, <2>2, SoleKnower DEF Of
    <3>3. f = File BY <3>1, <3>2
    <3> QED BY <3>1, <3>3 DEF SetFile, File
  <2> QED BY <2>1, <2>2 DEF SameState, Filed, Fresh, Follows
<1> QED BY <1>2, <1>3

(* A deletion, which no writer has overtaken.                              *)
LEMMA Removed ==
    ASSUME Guarded, IInv, NEW p \in Procs, RemoveDirectory(p)
    PROVE  /\ \A h \in Handles : phase[h] \notin Serving
           /\ ~exists' /\ log' = <<>> /\ tail' = <<>> /\ ~torn' /\ acked' = 0
           /\ UNCHANGED <<lifeVars, held, stateVars, liveVars, bufVars, chainVars, on, mark, late>>
<1>1. \A q \in Procs : claim[q] = Nobody BY DEF RemoveDirectory, Guarded
<1>2. ASSUME NEW h \in Handles PROVE phase[h] \notin Serving
  BY <1>1, HandleConstants DEF IInv, Owning, HandleConstants
<1> QED BY <1>2 DEF RemoveDirectory, fileVars

LEMMA FiledStepAll ==
    ASSUME Guarded, IInv, Kept, \A h \in Handles : Filed(h), [Next]_vars, NEW g \in Handles
    PROVE  Filed(g)'
<1>1. ASSUME NEW h \in Handles, HandleStep(h) PROVE Filed(g)'
  BY <1>1, FiledStep, FiledOthers
<1>2. ASSUME NEW p \in Procs, RemoveDirectory(p) PROVE Filed(g)'
  <2>1. /\ phase[g] \notin Serving
        /\ UNCHANGED <<phase, held, materialized, cursor, tornSeen, recovered, stage>>
    BY <1>2, Removed DEF lifeVars, stateVars, chainVars
  <2> QED BY <2>1 DEF Filed, Fresh
<1>3. CASE UNCHANGED vars \/ \E p \in Procs : CheckDelete(p)
  <2>1. Same(g) /\ SameState(g) /\ UNCHANGED <<exists, log, tail, torn>>
    BY <1>3 DEF vars, CheckDelete, Same, SameState, fileVars, lifeVars, stateVars, liveVars, bufVars, chainVars
  <2> QED BY <2>1, FiledAlone
<1> QED BY <1>1, <1>2, <1>3, FiledCrash, NextCases

LEMMA KeptStep ==
    ASSUME Guarded, IInv, Kept, \A h \in Handles : Filed(h), [Next]_vars
    PROVE  Kept'
<1>1. ASSUME NEW p \in Procs, RemoveDirectory(p) PROVE Kept'
  <2>1. ~exists' /\ log' = <<>> /\ tail' = <<>> /\ ~torn' /\ acked' = 0 BY <1>1, Removed
  <2> QED BY <2>1 DEF Kept, Contiguous, Follows
<1> QED BY <1>1, FileStep DEF LogStep

-----------------------------------------------------------------------------
(* The runtime as a durable log.                                           *)

LEMMA StoredLog ==
    ASSUME NEW l \in Seq(1..MaxSeq), NEW t \in Seq(1..MaxSeq), Contiguous(l), Follows(l, t)
    PROVE  /\ l \o t \in Seq(1..MaxSeq) /\ Len(l \o t) = Len(l) + Len(t) /\ Len(l \o t) \in 0..MaxSeq
           /\ l \o t = [i \in 1..Len(l \o t) |-> i] /\ Len(l) \in Nat /\ Len(t) \in Nat
           /\ \A i \in 1..Len(l) : (l \o t)[i] = l[i] /\ (l \o t)[i] \in 1..MaxSeq
<1>1. 1..MaxSeq \subseteq Nat
  BY HandleConstants DEF HandleConstants
<1>2. l \in Seq(Nat) /\ t \in Seq(Nat) /\ Len(l) \in Nat /\ Len(t) \in Nat
  BY <1>1, SeqMonotonic, LenProperties
<1>3. l \o t \in Seq(1..MaxSeq) BY ConcatProperties
<1>4. Contiguous(l \o t) /\ Len(l \o t) = Len(l) + Len(t)
  BY <1>2, FollowsConcat
<1>5. \A i \in 1..Len(l) : l[i] \in 1..MaxSeq BY ElementOfSeq
<1>6. \A i \in 1..Len(l) : i \in 1..(Len(l) + Len(t)) /\ i <= Len(l) BY <1>2
<1>7. \A i \in 1..Len(l) : (l \o t)[i] = l[i] BY <1>6, ConcatProperties
<1> QED BY <1>2, <1>3, <1>4, <1>5, <1>7, ContiguousBound

LEMMA LogStepGrows ==
    ASSUME IInv, Kept, Typed', LogStep
    PROVE  Durable!Next
<1> DEFINE s == Stored  t == Stored'
<1>1. /\ Len(s) = Len(log) + Len(tail) /\ Len(s) \in Nat /\ Len(log) \in Nat /\ Len(tail) \in Nat
      /\ s \in Seq(1..MaxSeq)
      /\ \A i \in 1..Len(log) : s[i] = log[i] /\ s[i] \in 1..MaxSeq
  <2>1. log \in Seq(1..MaxSeq) /\ tail \in Seq(1..MaxSeq) BY IInvTyped DEF Typed, TypeOK
  <2> QED BY <2>1, StoredLog DEF Kept, Stored
<1>2. /\ Len(t) = Len(log') + Len(tail') /\ Len(t) \in 0..MaxSeq
      /\ t = [i \in 1..Len(t) |-> i] /\ Len(log') \in Nat /\ Len(tail') \in Nat
  <2>1. log' \in Seq(1..MaxSeq) /\ tail' \in Seq(1..MaxSeq) BY DEF Typed, TypeOK
  <2>2. Contiguous(log') /\ Follows(log', tail') BY DEF LogStep, Kept, Contiguous, Follows
  <2> QED BY <2>1, <2>2, StoredLog DEF Stored
<1>3. acked \in Nat /\ acked' \in Nat /\ acked <= Len(log) /\ acked' <= Len(log')
  BY IInvTyped DEF Typed, TypeOK, LogStep, Kept
<1>4. CASE Len(s) <= Len(t) /\ acked <= acked'
  <2>1. t = Durable!Numbers(1, Len(t)) BY <1>2 DEF Durable!Numbers
  <2>2. Len(t) \in Len(s)..MaxSeq /\ acked' \in acked..Len(t) BY <1>1, <1>2, <1>3, <1>4
  <2>3. Durable!Grow BY <2>1, <2>2 DEF Durable!Grow
  <2> QED BY <2>3 DEF Durable!Next
<1>5. CASE log' = log /\ tail' = <<>> /\ acked' = acked
  <2>1. log \in Seq(1..MaxSeq) /\ tail \in Seq(1..MaxSeq) BY IInvTyped DEF Typed, TypeOK
  <2>2. t = log BY <1>5, <2>1, ConcatEmptySeq DEF Stored
  <2>3. SubSeq(s, 1, Len(log)) = log
    <3>2. Len(SubSeq(s, 1, Len(log))) = Len(log) /\ SubSeq(s, 1, Len(log)) \in Seq(1..MaxSeq)
          /\ \A i \in 1..Len(log) : SubSeq(s, 1, Len(log))[i] = s[i]
      <4>1. \A i \in 1..Len(log) : s[i] \in 1..MaxSeq BY <1>1
      <4>2. /\ Len(SubSeq(s, 1, Len(log))) = (IF 1 <= Len(log) THEN (Len(log) - 1) + 1 ELSE 0)
            /\ SubSeq(s, 1, Len(log)) \in Seq(1..MaxSeq)
            /\ \A i \in 1..((Len(log) - 1) + 1) : SubSeq(s, 1, Len(log))[i] = s[(1 + i) - 1]
        BY <1>1, <4>1, SubSeqProperties
      <4> QED BY <1>1, <4>2
    <3> QED BY <1>1, <2>1, <3>2, SeqEqual
  <2>4. Len(log) \in acked..Len(s) BY <1>1, <1>3
  <2>5. Durable!Shrink BY <1>5, <2>2, <2>3, <2>4 DEF Durable!Shrink
  <2> QED BY <2>5 DEF Durable!Next
<1> QED BY <1>1, <1>2, <1>4, <1>5 DEF LogStep

LEMMA RemovalDeletes ==
    ASSUME Guarded, IInv, NEW p \in Procs, RemoveDirectory(p)
    PROVE  Durable!Next
<1>1. log' = <<>> /\ tail' = <<>> /\ acked' = 0 BY Removed
<1>2. Stored' = <<>> BY <1>1 DEF Stored
<1> QED BY <1>1, <1>2 DEF Durable!Next, Durable!Delete

LEMMA KeptInit == Init => Kept /\ \A h \in Handles : Filed(h)
<1> SUFFICES ASSUME Init PROVE Kept /\ \A h \in Handles : Filed(h) OBVIOUS
<1>1. Len(<<>>) = 0 OBVIOUS
<1>2. Kept BY <1>1 DEF Init, Kept, Contiguous, Follows
<1>3. ASSUME NEW h \in Handles PROVE Filed(h)
  BY <1>3 DEF Init, Filed, Fresh, Serving, Opening
<1> QED BY <1>2, <1>3

-----------------------------------------------------------------------------
(* Queued flushes.                                                         *)

Sole(s, S) ==
    \A i \in DOMAIN s : s[i] \in Flushers => s[i] \in S /\ \A j \in DOMAIN s : s[j] = s[i] => j = i

Waiters(h) == {f \in Flushers : asked[f] = "queued" /\ on[f] = h}

LEMMA QueuedSole ==
    ASSUME NEW h \in Handles
    PROVE  (Queued(h) <=> Sole(chain[h], Waiters(h))) /\ (Queued(h)' <=> Sole(chain'[h], Waiters(h)'))
BY DEF Queued, Sole, Waiters

LEMMA SoleTail ==
    ASSUME NEW s \in Seq(Ops), s # <<>>, NEW S, Sole(s, S)
    PROVE  Sole(Tail(s), S \ {Head(s)})
<1>1. /\ Tail(s) \in Seq(Ops) /\ Len(Tail(s)) = Len(s) - 1
      /\ \A i \in 1..Len(Tail(s)) : Tail(s)[i] = s[i + 1]
  BY HeadTailProperties
<1>2. Len(s) \in Nat /\ Len(s) >= 1 /\ DOMAIN s = 1..Len(s) /\ DOMAIN Tail(s) = 1..(Len(s) - 1)
  BY <1>1, LenProperties, EmptySeq
<1>3. Head(s) = s[1] OBVIOUS
<1>4. ASSUME NEW i \in DOMAIN Tail(s), Tail(s)[i] \in Flushers
      PROVE  /\ Tail(s)[i] \in S \ {Head(s)}
             /\ \A j \in DOMAIN Tail(s) : Tail(s)[j] = Tail(s)[i] => j = i
  <2>1. i + 1 \in DOMAIN s /\ Tail(s)[i] = s[i + 1] /\ 1 \in DOMAIN s /\ i + 1 # 1 BY <1>1, <1>2
  <2>2. s[i + 1] \in S /\ s[1] # s[i + 1] BY <1>4, <2>1 DEF Sole
  <2>3. ASSUME NEW j \in DOMAIN Tail(s), Tail(s)[j] = Tail(s)[i] PROVE j = i
    <3>1. j + 1 \in DOMAIN s /\ Tail(s)[j] = s[j + 1] /\ i \in Int /\ j \in Int BY <1>1, <1>2
    <3>2. j + 1 = i + 1 BY <1>4, <2>1, <2>3, <3>1 DEF Sole
    <3> QED BY <3>1, <3>2
  <2> QED BY <1>3, <2>1, <2>2, <2>3
<1> QED BY <1>4 DEF Sole

LEMMA SoleAppend ==
    ASSUME NEW s \in Seq(Ops), NEW x \in Ops, NEW S, Sole(s, S), NEW T, S \subseteq T,
           x \in Flushers => x \in T \ S
    PROVE  Sole(Append(s, x), T)
<1> DEFINE a == Append(s, x)
<1>1. /\ Len(a) = Len(s) + 1 /\ a[Len(s) + 1] = x
      /\ \A i \in 1..Len(s) : a[i] = s[i]
  BY AppendProperties
<1>2. Len(s) \in Nat /\ DOMAIN s = 1..Len(s) /\ a \in Seq(Ops) BY LenProperties, AppendProperties
<1>3. DOMAIN a = 1..(Len(s) + 1) BY <1>1, <1>2, LenProperties
<1> HIDE DEF a
<1>4. ASSUME NEW i \in 1..(Len(s) + 1), a[i] \in Flushers
      PROVE  a[i] \in T /\ \A j \in 1..(Len(s) + 1) : a[j] = a[i] => j = i
  <2>1. CASE i \in 1..Len(s)
    <3>1. a[i] = s[i] /\ s[i] \in S BY <1>1, <1>2, <1>4, <2>1 DEF Sole
    <3>2. ASSUME NEW j \in 1..(Len(s) + 1), a[j] = a[i] PROVE j = i
      <4>1. CASE j \in 1..Len(s) BY <1>1, <1>2, <1>4, <2>1, <3>2, <4>1 DEF Sole
      <4>2. CASE j = Len(s) + 1
        <5>1. x = s[i] BY <1>1, <3>1, <3>2, <4>2
        <5> QED BY <1>4, <3>1, <5>1
      <4> QED BY <1>2, <4>1, <4>2
    <3> QED BY <3>1, <3>2
  <2>2. CASE i = Len(s) + 1
    <3>1. a[i] = x /\ x \in T /\ x \notin S BY <1>1, <1>4, <2>2
    <3>2. ASSUME NEW j \in 1..(Len(s) + 1), a[j] = a[i] PROVE j = i
      <4>1. CASE j \in 1..Len(s)
        <5>1. s[j] = x BY <1>1, <3>1, <3>2, <4>1
        <5>2. s[j] \in S BY <1>2, <1>4, <3>1, <4>1, <5>1 DEF Sole
        <5> QED BY <3>1, <5>1, <5>2
      <4> QED BY <1>2, <2>2, <4>1
    <3> QED BY <3>1, <3>2
  <2> QED BY <1>2, <2>1, <2>2
<1> QED BY <1>3, <1>4 DEF Sole, a

LEMMA SoleGrows ==
    ASSUME NEW s, NEW S, NEW T, Sole(s, S), S \subseteq T
    PROVE  Sole(s, T)
BY DEF Sole

(* Whom a step of a handle answers.                                        *)
LEMMA QueuedFrame ==
    ASSUME IInv, NEW h \in Handles, HandleStep(h), NEW f \in Flushers, asked[f] = "queued",
           ~(Ending(h) /\ Turn(h) = f)
    PROVE  asked'[f] = "queued" /\ on'[f] = on[f]
<1> USE DEF flushVars
<1>t. /\ asked \in [Flushers -> {"idle", "joined", "drained", "queued", "failed", "done"}]
      /\ on \in [Flushers -> Handles \cup {Nobody}]
  BY DEF IInv, TypeOK
<1>1. CASE Ending(h)
  <2>1. (Resolve(h) \/ Reject(h)) /\ UNCHANGED on
    BY <1>1 DEF Ending, TurnRefused, FlushNoop, LeaseFails, Written, HeaderWritten, PathFails, IOFails, Reject
  <2>2. Turn(h) # f BY <1>1
  <2>3. asked'[f] = asked[f] BY <1>t, <2>1, <2>2 DEF Resolve, Reject, Answer
  <2> QED BY <2>1, <2>3
<1>2. CASE TurnStarts(h) \/ Ensured(h) \/ Truncated(h) \/ Rewritten(h)
  BY <1>2 DEF TurnStarts, Ensured, Truncated, Rewritten
<1>3. CASE SettlePass(h) \/ FinishPass(h) \/ Release(h) \/ Close(h) \/ TimerFires(h)
  BY <1>3 DEF SettlePass, FinishPass, Release, Close, TimerFires
<1>4. CASE ReadStored(h) \/ OpenFails(h) \/ AcquireLease(h) \/ \E p \in Procs : Create(h, p) \/ ClaimWrite(h, p)
  BY <1>4 DEF ReadStored, OpenFails, AcquireLease, Create, ClaimWrite
<1>5. CASE AppendBatch(h) \/ Announce(h) \/ Publish(h)
  BY <1>5 DEF AppendBatch, Announce, Publish
<1>6. CASE DrainReturns(h)
  BY <1>t, <1>6 DEF DrainReturns, JoinersOf
<1>7. CASE \E e \in Flushers : FlushCall(e, h)
  BY <1>t, <1>7 DEF FlushCall
<1>8. CASE \E e \in Flushers : FlushQueues(e) /\ on[e] = h
  BY <1>t, <1>8 DEF FlushQueues
<1> QED BY <1>1, <1>2, <1>3, <1>4, <1>5, <1>6, <1>7, <1>8, HandleCases

(* How the turns of a chain change.                                        *)
LEMMA ChainCases ==
    ASSUME IInv, NEW h \in Handles, HandleStep(h)
    PROVE  \/ ~Ending(h) /\ chain'[h] = chain[h]
           \/ ~Ending(h) /\ chain'[h] = Append(chain[h], "drain")
           \/ ~Ending(h) /\ chain[h] = <<>> /\ chain'[h] = <<"append">>
           \/ ~Ending(h) /\ \E f \in Flushers : /\ asked[f] = "drained" /\ asked'[f] = "queued"
                                                /\ on[f] = h /\ on'[f] = h
                                                /\ chain'[h] = Append(chain[h], f)
           \/ Ending(h) /\ chain[h] # <<>> /\ chain'[h] = Tail(chain[h])
           \/ Ending(h) /\ chain[h] # <<>> /\ chain'[h] = Append(Tail(chain[h]), "drain")
<1> USE DEF chainVars, flushVars
<1>t. /\ asked \in [Flushers -> {"idle", "joined", "drained", "queued", "failed", "done"}]
      /\ chain \in [Handles -> Seq(Ops)] /\ Typed
  BY IInvTyped DEF IInv, TypeOK
<1>1. CASE Ending(h)
  BY <1>t, <1>1, EndingEnds, EndsCases
<1>2. CASE ~Ending(h) /\ (TurnStarts(h) \/ Ensured(h) \/ Truncated(h) \/ Rewritten(h))
  BY <1>2 DEF TurnStarts, Ensured, Truncated, Rewritten
<1>3. CASE ~Ending(h) /\ (SettlePass(h) \/ FinishPass(h) \/ Release(h) \/ Close(h) \/ TimerFires(h))
  <2>1. UNCHANGED chain \/ DrainLive(h)
    BY <1>3 DEF SettlePass, FinishPass, Release, Close, TimerFires
  <2> QED BY <1>t, <1>3, <2>1, DrainLiveCases
<1>4. CASE ~Ending(h) /\ (DrainReturns(h) \/ ReadStored(h) \/ OpenFails(h) \/ AcquireLease(h)
                          \/ \E p \in Procs : Create(h, p) \/ ClaimWrite(h, p))
  BY <1>4 DEF DrainReturns, ReadStored, OpenFails, AcquireLease, Create, ClaimWrite
<1>5. CASE ~Ending(h) /\ (AppendBatch(h) \/ Announce(h) \/ Publish(h))
  BY <1>t, <1>5 DEF AppendBatch, Announce, Publish
<1>6. CASE ~Ending(h) /\ \E e \in Flushers : FlushCall(e, h)
  <2>1. DrainLive(h) BY <1>6 DEF FlushCall
  <2> QED BY <1>t, <1>6, <2>1, DrainLiveCases
<1>7. ASSUME ~Ending(h), NEW e \in Flushers, FlushQueues(e), on[e] = h
      PROVE  \/ chain'[h] = chain[h]
             \/ asked[e] = "drained" /\ asked'[e] = "queued" /\ on'[e] = h /\ chain'[h] = Append(chain[h], e)
  BY <1>t, <1>7 DEF FlushQueues
<1> QED BY <1>1, <1>2, <1>3, <1>4, <1>5, <1>6, <1>7, HandleCases

LEMMA QueuedOwn ==
    ASSUME IInv, NEW h \in Handles, HandleStep(h), Queued(h)
    PROVE  Queued(h)'
<1> DEFINE S == Waiters(h)  T == Waiters(h)'  c == chain[h]
<1>1. c \in Seq(Ops) /\ "drain" \in Ops \ Flushers /\ "append" \in Ops \ Flushers /\ Flushers \subseteq Ops
  BY HandleConstants DEF IInv, TypeOK, Ops, HandleConstants
<1>2. Sole(c, S) BY QueuedSole
<1>3. \A f \in S : ~(Ending(h) /\ Turn(h) = f) => f \in T BY QueuedFrame DEF Waiters
<1>4. Sole(chain'[h], T)
  <2>1. CASE ~Ending(h)
    <3>1. S \subseteq T BY <1>3, <2>1
    <3>2. Sole(c, T) BY <1>2, <3>1, SoleGrows
    <3>3. CASE chain'[h] = c BY <3>2, <3>3
    <3>4. CASE chain'[h] = Append(c, "drain") BY <1>1, <3>2, <3>4, SoleAppend
    <3>5. CASE chain'[h] = <<"append">> BY <1>1, <3>5 DEF Sole
    <3>6. ASSUME NEW f \in Flushers, asked[f] = "drained", asked'[f] = "queued", on'[f] = h,
                 chain'[h] = Append(c, f)
          PROVE  Sole(chain'[h], T)
      <4>1. f \in T \ S BY <3>6 DEF Waiters
      <4> QED BY <1>1, <1>2, <3>1, <3>6, <4>1, SoleAppend
    <3> QED BY <2>1, <3>3, <3>4, <3>5, <3>6, ChainCases
  <2>2. CASE Ending(h)
    <3>1. c # <<>> /\ (chain'[h] = Tail(c) \/ chain'[h] = Append(Tail(c), "drain"))
      BY <2>2, ChainCases
    <3>2. S \ {Head(c)} \subseteq T BY <1>3 DEF Turn
    <3>3. Tail(c) \in Seq(Ops) BY <1>1, <3>1, HeadTailProperties
    <3>4. Sole(Tail(c), S \ {Head(c)})
      <4> HIDE DEF S, T, c
      <4> QED BY <1>1, <1>2, <3>1, SoleTail
    <3>5. Sole(Tail(c), T) BY <3>2, <3>4, SoleGrows
    <3>6. Sole(Append(Tail(c), "drain"), T)
      <4> HIDE DEF S, T, c
      <4>1. "drain" \in Ops /\ "drain" \notin Flushers /\ T \subseteq T BY <1>1
      <4> QED BY <3>3, <3>5, <4>1, SoleAppend
    <3> QED BY <3>1, <3>5, <3>6
  <2> QED BY <2>1, <2>2
<1> QED BY <1>4, QueuedSole

LEMMA QueuedOthers ==
    ASSUME IInv, NEW h \in Handles, HandleStep(h), Queued(h), NEW g \in Handles \ {h}, Queued(g)
    PROVE  Queued(g)'
<1>1. chain'[g] = chain[g] BY IInvTyped, Frame DEF Same
<1>2. ASSUME NEW f \in Waiters(g) PROVE f \in Waiters(g)'
  <2>1. f \in Flushers /\ asked[f] = "queued" /\ on[f] = g BY DEF Waiters
  <2>2. ASSUME Ending(h), Turn(h) = f PROVE FALSE
    <3>1. chain[h] # <<>> /\ chain[h] \in Seq(Ops) BY <2>2, EndingEnds DEF IInv, TypeOK
    <3>2. 1 \in DOMAIN chain[h] /\ chain[h][1] = f BY <2>2, <3>1, LenProperties, EmptySeq DEF Turn
    <3>3. on[f] = h BY <2>1, <3>2 DEF Queued
    <3> QED BY <2>1, <3>3
  <2> QED BY <2>1, <2>2, QueuedFrame DEF Waiters
<1> QED BY <1>1, <1>2, QueuedSole, SoleGrows

LEMMA QueuedStep ==
    ASSUME Guarded, IInv, \A h \in Handles : Queued(h), [Next]_vars, NEW g \in Handles
    PROVE  Queued(g)'
<1>t. asked \in [Flushers -> {"idle", "joined", "drained", "queued", "failed", "done"}]
  BY DEF IInv, TypeOK
<1>1. ASSUME NEW h \in Handles, HandleStep(h) PROVE Queued(g)'
  BY <1>1, QueuedOwn, QueuedOthers
<1>2. ASSUME NEW p \in Procs, RemoveDirectory(p) PROVE Queued(g)'
  <2>1. /\ UNCHANGED <<chain, on>>
        /\ asked' = [f \in Flushers |-> IF asked[f] = "done" THEN "idle" ELSE asked[f]]
    BY <1>2 DEF RemoveDirectory, chainVars
  <2>2. \A f \in Waiters(g) : f \in Waiters(g)' BY <2>1 DEF Waiters
  <2> QED BY <2>1, <2>2, QueuedSole, SoleGrows
<1>3. CASE UNCHANGED vars \/ \E p \in Procs : CheckDelete(p)
  <2>1. UNCHANGED <<chain, on, asked>> BY <1>3 DEF vars, CheckDelete, chainVars, flushVars
  <2> QED BY <2>1 DEF Queued
<1>4. ASSUME NEW p \in Procs, Crash(p) PROVE Queued(g)'
  <2>1. /\ chain' = Lost(p, chain, <<>>) /\ UNCHANGED on
        /\ asked' = [f \in Flushers |-> IF on[f] \in Of(p) /\ asked[f] # "done" THEN "idle" ELSE asked[f]]
    BY <1>4 DEF Crash
  <2>2. CASE g \in Of(p)
    <3>1. chain'[g] = <<>> BY <2>1, <2>2 DEF Lost
    <3> QED BY <3>1 DEF Queued
  <2>3. CASE g \notin Of(p)
    <3>1. chain'[g] = chain[g] BY <2>1, <2>3 DEF Lost
    <3>2. \A f \in Waiters(g) : f \in Waiters(g)' BY <2>1, <2>3 DEF Waiters
    <3> QED BY <3>1, <3>2, QueuedSole, SoleGrows
  <2> QED BY <2>2, <2>3
<1> QED BY <1>1, <1>2, <1>3, <1>4, NextCases

-----------------------------------------------------------------------------
(* Callers of session/flush.                                               *)

Waiting(f) == asked[f] \in {"joined", "drained", "queued"}

SameCaller(f) ==
    asked'[f] = asked[f] /\ on'[f] = on[f] /\ mark'[f] = mark[f] /\ late'[f] = late[f]

(* What a step must leave a caller that waits for the handle.              *)
Serves(h, f) ==
    /\ live'[h] = live[h] /\ pub[h] <= pub'[h]
    /\ phase'[h] \in Serving => phase[h] \in Serving
    /\ asked[f] = "joined" =>
          /\ drain'[h] # "idle"
          /\ drain'[h] = "settled" => drain[h] = "settled" \/ mark[f] <= Len(log')

LEMMA AnsweringKept ==
    ASSUME Typed, Typed', LogStep, NEW f \in Flushers, Answering(f), SameCaller(f),
           Waiting(f) => Serves(on[f], f)
    PROVE  Answering(f)'
<1>t. /\ Len(log) \in Nat /\ Len(log') \in Nat /\ mark[f] \in Nat
      /\ \A h \in Handles : pub[h] \in Nat /\ pub'[h] \in Nat
  BY LenProperties DEF Typed, TypeOK
<1>1. Len(log) <= Len(log') /\ (exists => exists') BY DEF LogStep
<1>2. CASE Waiting(f)
  <2>1. /\ on[f] \in Handles /\ live[on[f]] /\ mark[f] <= pub[on[f]]
        /\ ~late[f] /\ phase[on[f]] \in Serving /\ (asked[f] = "joined" => drain[on[f]] = "settled")
              => mark[f] <= Len(log)
    BY <1>2 DEF Waiting, Answering
  <2>2. mark[f] <= pub'[on[f]] BY <1>t, <1>2, <2>1 DEF Serves
  <2>3. ~late[f] /\ phase'[on[f]] \in Serving /\ (asked[f] = "joined" => drain'[on[f]] = "settled")
              => mark[f] <= Len(log')
    BY <1>t, <1>1, <1>2, <2>1 DEF Serves
  <2> QED BY <1>2, <2>1, <2>2, <2>3 DEF Waiting, SameCaller, Serves, Answering
<1>3. CASE asked[f] = "done"
  <2>1. exists /\ (late[f] \/ mark[f] <= Len(log)) BY <1>3 DEF Answering
  <2> QED BY <1>t, <1>1, <1>3, <2>1 DEF SameCaller, Answering
<1>4. CASE ~Waiting(f) /\ asked[f] # "done"
  BY <1>4 DEF Waiting, SameCaller, Answering
<1> QED BY <1>2, <1>3, <1>4

LEMMA AnsweringIdle ==
    ASSUME NEW f \in Flushers, asked'[f] \in {"idle", "failed"}
    PROVE  Answering(f)'
BY DEF Answering

(* Nobody waits for a handle that has not announced its session.           *)
LEMMA AnsweringOthers ==
    ASSUME IInv, Typed', LogStep, NEW h \in Handles, HandleStep(h),
           NEW f \in Flushers, Answering(f), SameCaller(f),
           Waiting(f) /\ on[f] = h /\ live[h] => Serves(h, f)
    PROVE  Answering(f)'
<1>1. ASSUME Waiting(f) PROVE Serves(on[f], f)
  <2>1. /\ on[f] \in Handles /\ live[on[f]] /\ (asked[f] = "joined" => drain[on[f]] # "idle")
    BY <1>1 DEF Waiting, Answering
  <2>2. CASE on[f] # h
    <3>1. Same(on[f]) BY <2>1, <2>2, IInvTyped, Frame
    <3>2. pub[on[f]] \in Nat BY <2>1 DEF IInv, TypeOK
    <3> QED BY <2>1, <3>1, <3>2 DEF Same, Serves
  <2> QED BY <1>1, <2>1, <2>2
<1> QED BY <1>1, IInvTyped, AnsweringKept

LEMMA NothingBetween ==
    ASSUME NEW c \in Nat, NEW p \in Nat, c <= p, Numbers(c + 1, p) = <<>> \o <<>>
    PROVE  p = c
<1>1. <<>> \o <<>> = <<>> /\ Len(<<>>) = 0 OBVIOUS
<1>2. Len(<<>>) = p - c BY <1>1, NumbersElements
<1> QED BY <1>1, <1>2

(* A drain's write that leaves the buffer empty has stored all there is.   *)
LEMMA DrainStores ==
    ASSUME IInv, IInv', NEW h \in Handles, Filed(h), Filed(h)', Written(h), buffer[h] = <<>>
    PROVE  pub'[h] = Len(log') /\ pub'[h] = pub[h]
<1>t. /\ cursor'[h] \in Nat /\ pub'[h] \in Nat /\ Len(log') \in Nat /\ Len(<<>>) = 0 /\ Typed
      /\ materialized \in [Handles -> BOOLEAN]
  BY IInvTyped, LenProperties DEF IInv, TypeOK
<1>1. /\ stage[h] = "write" /\ materialized'[h] /\ UNCHANGED <<pub, buffer, recovered, phase>> /\ Resolve(h)
  BY <1>t DEF Written, liveVars, lifeVars
<1>2. phase[h] \in Serving /\ chain[h] # <<>> BY <1>1 DEF IInv, Queueing
<1>3. batch'[h] = <<>> BY <1>t, <1>1, <1>2, EndsCases DEF Ends
<1>4. recovered'[h] = <<>> BY <1>1 DEF Filed
<1>5. cursor'[h] = Len(log') BY <1>t, <1>1, <1>2, <1>4 DEF Filed
<1>6. batch'[h] \o buffer'[h] = Numbers(cursor'[h] + 1, pub'[h]) /\ cursor'[h] <= pub'[h]
  BY <1>1, <1>2 DEF IInv, Placed, Batching, Serving, Working, Numbers
<1> QED BY <1>t, <1>1, <1>3, <1>5, <1>6, NothingBetween

(* With no drain and an empty buffer, what a call marks is stored.         *)
LEMMA IdleStored ==
    ASSUME IInv, NEW h \in Handles, Filed(h), phase[h] \in Serving, live[h],
           drain[h] = "idle", buffer[h] = <<>>
    PROVE  pub[h] = cursor[h] /\ (recovered[h] = <<>> => pub[h] <= Len(log))
<1>t. /\ cursor[h] \in Nat /\ pub[h] \in Nat /\ Len(log) \in Nat /\ Len(<<>>) = 0
      /\ chain[h] \in Seq(Ops)
  BY LenProperties DEF IInv, TypeOK
<1>1. batch[h] = <<>>
  <2> SUFFICES ASSUME batch[h] # <<>> PROVE FALSE OBVIOUS
  <2>1. chain[h] # <<>> /\ Turn(h) \in {"append", "drain"} BY DEF IInv, Batching
  <2>2. 1 \in DOMAIN chain[h] /\ chain[h][1] = Turn(h) BY <1>t, <2>1, LenProperties, EmptySeq DEF Turn
  <2>3. Turn(h) # "append" BY <2>2 DEF IInv, Batching
  <2>4. 1 \in Drains(h) BY <2>1, <2>2, <2>3 DEF Drains, DrainsIn
  <2> QED BY <2>4 DEF IInv, Queueing
<1>2. batch[h] \o buffer[h] = Numbers(cursor[h] + 1, pub[h]) /\ cursor[h] <= pub[h]
  BY DEF IInv, Placed, Batching, Serving, Working
<1>3. pub[h] = cursor[h] BY <1>t, <1>1, <1>2, NothingBetween
<1>4. recovered[h] = <<>> => cursor[h] <= Len(log)
  <2>1. CASE materialized[h] BY <1>t, <2>1 DEF Filed
  <2>2. CASE ~materialized[h] BY <1>t, <2>2 DEF Filed, Fresh
  <2> QED BY <2>1, <2>2
<1> QED BY <1>3, <1>4

(* A turn ends: a queued caller is answered, a drain may settle.           *)
LEMMA AnsweringEnded ==
    ASSUME IInv, IInv', Kept, NEW h \in Handles, Ending(h), Filed(h), Filed(h)', Queued(h), LogStep,
           NEW f \in Flushers, Answering(f)
    PROVE  Answering(f)'
<1> USE DEF fileVars, trackVars, lifeVars, stateVars, liveVars, bufVars, chainVars, flushVars, countVars
<1>t. /\ asked \in [Flushers -> {"idle", "joined", "drained", "queued", "failed", "done"}]
      /\ chain[h] \in Seq(Ops) /\ Typed /\ Typed' /\ Len(log) \in Nat /\ Len(log') \in Nat
      /\ mark[f] \in Nat /\ pub \in [Handles -> Nat]
      /\ drain \in [Handles -> {"idle", "turn", "settled", "failed"}]
  BY IInvTyped, LenProperties DEF IInv, TypeOK, Typed, Occupied, Queueing
<1>1. /\ Ends(h) /\ UNCHANGED <<phase, live>> /\ chain[h] # <<>> BY EndingEnds
<1>2. (Resolve(h) \/ Reject(h)) /\ UNCHANGED <<on, mark, late>>
  BY DEF Ending, TurnRefused, FlushNoop, LeaseFails, Written, HeaderWritten, PathFails, IOFails, Reject
<1>3. 1 \in DOMAIN chain[h] /\ chain[h][1] = Turn(h)
  BY <1>t, <1>1, LenProperties, EmptySeq DEF Turn
<1>4. CASE Turn(h) = f
  <2>1. asked[f] = "queued" /\ on[f] = h BY <1>3, <1>4 DEF Queued
  <2>2. CASE Reject(h)
    <3>1. asked'[f] = "failed" BY <1>t, <1>4, <2>2 DEF Reject, Answer
    <3> QED BY <3>1, AnsweringIdle
  <2>3. CASE ~Reject(h)
    <3>1. FlushNoop(h) \/ Written(h) \/ HeaderWritten(h)
      BY <2>3 DEF Ending, TurnRefused, LeaseFails, PathFails, IOFails
    <3>2. asked'[f] = "done" BY <1>t, <1>2, <1>4, <2>3 DEF Resolve, Answer
    <3>3. phase[h] \in Serving BY <1>1 DEF IInv, Queueing
    <3>4. late[f] \/ mark[f] <= Len(log) BY <2>1, <3>3 DEF Answering
    <3>5. exists'
      <4>1. CASE FlushNoop(h) BY <3>3, <4>1 DEF FlushNoop, Filed
      <4>2. CASE Written(h) \/ HeaderWritten(h) BY <4>2 DEF Written, HeaderWritten
      <4> QED BY <3>1, <4>1, <4>2
    <3>6. late'[f] \/ mark'[f] <= Len(log') BY <1>t, <1>2, <3>4 DEF LogStep
    <3> QED BY <3>2, <3>5, <3>6 DEF Answering
  <2> QED BY <2>2, <2>3
<1>5. CASE Turn(h) # f
  <2>1. SameCaller(f) BY <1>t, <1>2, <1>5 DEF Resolve, Reject, Answer, SameCaller
  <2>2. ASSUME Waiting(f), on[f] = h, live[h] PROVE Serves(h, f)
    <3>1. pub'[h] = pub[h]
      <4>1. Turn(h) # "append" BY <1>3, <2>2 DEF IInv, Batching
      <4>2. Reject(h) => pub'[h] = pub[h] BY <1>t, <4>1 DEF Reject
      <4>3. FlushNoop(h) \/ Written(h) \/ HeaderWritten(h) => pub' = pub
        BY DEF FlushNoop, Written, HeaderWritten
      <4> QED BY <4>2, <4>3 DEF Ending, TurnRefused, LeaseFails, PathFails, IOFails
    <3>2. ASSUME asked[f] = "joined"
          PROVE  drain'[h] # "idle" /\ (drain'[h] = "settled" => drain[h] = "settled" \/ mark[f] <= Len(log'))
      <4>1. drain[h] # "idle" /\ mark[f] <= pub[h] BY <2>2, <3>2 DEF Answering
      <4>2. CASE Turn(h) = "drain" /\ drain'[h] = "settled" /\ buffer[h] = <<>>
        <5>1. Written(h)
          <6>1. ~Reject(h) BY <1>t, <4>2 DEF Reject
          <6>2. ~FlushNoop(h) /\ ~HeaderWritten(h)
            BY <4>2, HandleConstants DEF FlushNoop, HeaderWritten, IInv, Batching, HandleConstants
          <6> QED BY <6>1, <6>2 DEF Ending, TurnRefused, LeaseFails, PathFails, IOFails
        <5> QED BY <1>t, <4>1, <4>2, <5>1, DrainStores
      <4>3. CASE drain'[h] \in {drain[h], "failed"}
        BY <4>1, <4>3
      <4> QED BY <1>t, <1>1, <4>2, <4>3, EndsCases
    <3> QED BY <1>t, <1>1, <3>1, <3>2 DEF Serves
  <2> QED BY <1>t, <2>1, <2>2, AnsweringOthers DEF HandleStep, TurnStep, Ending
<1> QED BY <1>4, <1>5

(* A drain begins, or there is one already.                                *)
LEMMA ServesDrains ==
    ASSUME IInv, NEW h \in Handles, DrainLive(h), UNCHANGED <<live, pub>>,
           phase'[h] \in Serving => phase[h] \in Serving,
           NEW f \in Flushers, Answering(f), Waiting(f), on[f] = h
    PROVE  Serves(h, f)
<1>t. pub[h] \in Nat /\ Typed BY IInvTyped DEF IInv, TypeOK
<1>1. asked[f] = "joined" => drain[h] # "idle" BY DEF Answering
<1>2. drain[h] # "idle" => drain' = drain BY <1>t, DrainLiveCases
<1> QED BY <1>t, <1>1, <1>2 DEF Serves

(* A call joins a drain, or starts one that has nothing to store.          *)
LEMMA AnsweringCalls ==
    ASSUME IInv, NEW h \in Handles, Filed(h), NEW f \in Flushers, FlushCall(f, h)
    PROVE  Answering(f)'
<1> USE DEF fileVars, trackVars, lifeVars, stateVars, liveVars, bufVars, chainVars, flushVars, countVars
<1>t. /\ asked \in [Flushers -> {"idle", "joined", "drained", "queued", "failed", "done"}]
      /\ on \in [Flushers -> Handles \cup {Nobody}] /\ mark \in [Flushers -> Nat]
      /\ late \in [Flushers -> BOOLEAN] /\ pub[h] \in Nat /\ Len(log) \in Nat /\ Typed
  BY IInvTyped, LenProperties DEF IInv, TypeOK
<1>1. /\ asked'[f] = "joined" /\ on'[f] = h /\ late'[f] = (drain[h] = "settled")
      /\ mark'[f] = (IF recovered[h] # <<>> /\ pub[h] = cursor[h] THEN 0 ELSE pub[h])
      /\ UNCHANGED <<log, live, pub, phase>> /\ live[h] /\ DrainLive(h)
  BY <1>t DEF FlushCall, Routed
<1>2. mark'[f] <= pub'[h] BY <1>t, <1>1
<1>3. drain'[h] # "idle" BY <1>t, <1>1, DrainLiveCases
<1>4. ASSUME ~late'[f], phase[h] \in Serving, drain'[h] = "settled" PROVE mark'[f] <= Len(log)
  <2>1. drain[h] = "idle" /\ buffer[h] = <<>> BY <1>t, <1>1, <1>4, DrainLiveCases
  <2>2. pub[h] = cursor[h] /\ (recovered[h] = <<>> => pub[h] <= Len(log)) BY <1>1, <1>4, <2>1, IdleStored
  <2> QED BY <1>t, <1>1, <2>2
<1> QED BY <1>1, <1>2, <1>3, <1>4 DEF Answering

LEMMA AnsweringHandle ==
    ASSUME IInv, IInv', Kept, NEW h \in Handles, HandleStep(h), Filed(h), Filed(h)', Queued(h), LogStep,
           NEW f \in Flushers, Answering(f)
    PROVE  Answering(f)'
<1> USE DEF fileVars, trackVars, lifeVars, stateVars, liveVars, bufVars, chainVars, flushVars, countVars
<1>t. /\ asked \in [Flushers -> {"idle", "joined", "drained", "queued", "failed", "done"}]
      /\ on \in [Flushers -> Handles \cup {Nobody}] /\ mark \in [Flushers -> Nat]
      /\ late \in [Flushers -> BOOLEAN] /\ pub \in [Handles -> Nat] /\ Typed /\ Typed'
      /\ phase \in [Handles -> Phases] /\ live \in [Handles -> BOOLEAN]
      /\ drain \in [Handles -> {"idle", "turn", "settled", "failed"}]
  BY IInvTyped DEF IInv, TypeOK, Typed, Occupied, Queueing
<1>1. CASE Ending(h) BY <1>1, AnsweringEnded
<1>2. CASE TurnStarts(h) \/ Ensured(h) \/ Truncated(h) \/ Rewritten(h)
  <2>1. SameCaller(f) /\ UNCHANGED <<phase, live, pub, drain>>
    BY <1>2 DEF TurnStarts, Ensured, Truncated, Rewritten, SameCaller
  <2>2. Waiting(f) /\ on[f] = h /\ live[h] => Serves(h, f) BY <1>t, <2>1 DEF Serves, Answering
  <2> QED BY <1>t, <2>1, <2>2, AnsweringOthers
<1>3. CASE SettlePass(h) \/ Close(h) \/ TimerFires(h)
  <2>1. /\ SameCaller(f) /\ UNCHANGED <<live, pub>> /\ (phase'[h] \in Serving => phase[h] \in Serving)
        /\ UNCHANGED drain \/ DrainLive(h)
    BY <1>t, <1>3 DEF SettlePass, Close, TimerFires, SameCaller, Serving
  <2>2. ASSUME Waiting(f), on[f] = h PROVE Serves(h, f)
    <3>1. CASE UNCHANGED drain BY <1>t, <2>1, <2>2, <3>1 DEF Serves, Answering
    <3>2. CASE DrainLive(h) BY <2>1, <2>2, <3>2, ServesDrains
    <3> QED BY <2>1, <3>1, <3>2
  <2> QED BY <1>t, <2>1, <2>2, AnsweringOthers
<1>4. CASE FinishPass(h) \/ Release(h)
  <2>1. SameCaller(f) /\ UNCHANGED <<live, pub, drain>> /\ (phase'[h] \in Serving => phase[h] \in Serving)
    BY <1>t, <1>4 DEF FinishPass, Release, SameCaller, Serving
  <2>2. Waiting(f) /\ on[f] = h /\ live[h] => Serves(h, f) BY <1>t, <2>1 DEF Serves, Answering
  <2> QED BY <1>t, <2>1, <2>2, AnsweringOthers
<1>5. CASE ReadStored(h) \/ OpenFails(h) \/ AcquireLease(h) \/ \E p \in Procs : Create(h, p) \/ ClaimWrite(h, p)
  <2>1. SameCaller(f) /\ phase[h] \in {"unused", "claimed", "leased"}
    BY <1>5 DEF ReadStored, OpenFails, AcquireLease, Create, ClaimWrite, SameCaller
  <2>2. ~live[h] BY <2>1 DEF IInv, Batching
  <2> QED BY <1>t, <2>1, <2>2, AnsweringOthers
<1>6. CASE AppendBatch(h) \/ Announce(h)
  <2>1. SameCaller(f) /\ ~live[h] BY <1>6 DEF AppendBatch, Announce, SameCaller
  <2> QED BY <1>t, <2>1, AnsweringOthers
<1>7. CASE Publish(h)
  <2>1. SameCaller(f) /\ UNCHANGED <<live, drain, phase>> /\ pub'[h] = pub[h] + 1
    BY <1>t, <1>7 DEF Publish, SameCaller
  <2>2. Waiting(f) /\ on[f] = h /\ live[h] => Serves(h, f) BY <1>t, <2>1 DEF Serves, Answering
  <2> QED BY <1>t, <2>1, <2>2, AnsweringOthers
<1>8. CASE DrainReturns(h)
  <2>1. /\ UNCHANGED <<live, pub, on, mark, late, log>> /\ (phase'[h] \in Serving => phase[h] \in Serving)
        /\ asked'[f] = IF f \in JoinersOf(h) THEN JoinedOutcome(h) ELSE asked[f]
    BY <1>t, <1>8 DEF DrainReturns, Serving
  <2>2. CASE f \notin JoinersOf(h)
    <3>1. SameCaller(f) BY <2>1, <2>2 DEF SameCaller
    <3>2. Waiting(f) /\ on[f] = h /\ live[h] => Serves(h, f) BY <1>t, <2>1, <2>2 DEF Serves, JoinersOf
    <3> QED BY <1>t, <3>1, <3>2, AnsweringOthers
  <2>3. CASE f \in JoinersOf(h)
    <3>1. asked[f] = "joined" /\ on[f] = h BY <2>3 DEF JoinersOf
    <3>2. CASE drain[h] = "settled"
      <4>1. asked'[f] = "drained" BY <2>1, <2>3, <3>2 DEF JoinedOutcome
      <4>2. /\ live[h] /\ mark[f] <= pub[h] /\ on[f] \in Handles
            /\ ~late[f] /\ phase[h] \in Serving => mark[f] <= Len(log)
        BY <3>1, <3>2 DEF Answering
      <4> QED BY <2>1, <3>1, <4>1, <4>2 DEF Answering
    <3>3. CASE drain[h] # "settled"
      BY <2>1, <2>3, <3>3, AnsweringIdle DEF JoinedOutcome
    <3> QED BY <3>2, <3>3
  <2> QED BY <2>2, <2>3
<1>9. ASSUME NEW e \in Flushers, FlushCall(e, h) PROVE Answering(f)'
  <2>1. CASE e = f BY <1>9, <2>1, AnsweringCalls
  <2>2. CASE e # f
    <3>1. SameCaller(f) /\ UNCHANGED <<live, pub, phase>> /\ DrainLive(h)
      BY <1>t, <1>9, <2>2 DEF FlushCall, SameCaller
    <3>2. Waiting(f) /\ on[f] = h /\ live[h] => Serves(h, f) BY <3>1, ServesDrains
    <3> QED BY <1>t, <3>1, <3>2, AnsweringOthers
  <2> QED BY <2>1, <2>2
<1>10. ASSUME NEW e \in Flushers, FlushQueues(e), on[e] = h PROVE Answering(f)'
  <2>1. UNCHANGED <<live, pub, phase, drain, on, mark, late, log>> BY <1>10 DEF FlushQueues
  <2>2. CASE e = f
    <3>1. CASE asked'[f] = "queued"
      <4>1. /\ on[f] \in Handles /\ live[h] /\ mark[f] <= pub[h]
            /\ ~late[f] /\ phase[h] \in Serving => mark[f] <= Len(log)
        BY <1>10, <2>2 DEF FlushQueues, Answering
      <4> QED BY <1>10, <2>1, <2>2, <3>1, <4>1 DEF Answering
    <3>2. CASE asked'[f] = "failed" BY <3>2, AnsweringIdle
    <3> QED BY <1>t, <1>10, <2>2, <3>1, <3>2 DEF FlushQueues
  <2>3. CASE e # f
    <3>1. SameCaller(f) BY <1>t, <1>10, <2>1, <2>3 DEF FlushQueues, SameCaller
    <3>2. Waiting(f) /\ on[f] = h /\ live[h] => Serves(h, f) BY <1>t, <2>1 DEF Serves, Answering
    <3> QED BY <1>t, <3>1, <3>2, AnsweringOthers
  <2> QED BY <2>2, <2>3
<1> QED BY <1>1, <1>2, <1>3, <1>4, <1>5, <1>6, <1>7, <1>8, <1>9, <1>10, HandleCases

LEMMA AnsweringStep ==
    ASSUME Guarded, IInv, IInv', DInv, Kept', \A h \in Handles : Filed(h)', [Next]_vars, NEW f \in Flushers
    PROVE  Answering(f)'
<1>0. Kept /\ Answering(f) /\ \A h \in Handles : Filed(h) /\ Queued(h) BY DEF DInv
<1>t. /\ asked \in [Flushers -> {"idle", "joined", "drained", "queued", "failed", "done"}]
      /\ Typed /\ Typed' /\ pub \in [Handles -> Nat]
  BY IInvTyped DEF IInv, TypeOK, Typed, Occupied, Queueing
<1>1. ASSUME NEW h \in Handles, HandleStep(h) PROVE Answering(f)'
  <2>1. LogStep
    <3>1. CASE Writes(h)
      BY <1>0, <3>1, TruncatedStep, RewrittenStep, WrittenStep, HeaderStep, IOFailsStep DEF Writes
    <3>2. CASE ~Writes(h) BY <1>0, <1>1, <3>2, OthersQuiet, QuietStep
    <3> QED BY <3>1, <3>2
  <2> QED BY <1>0, <1>1, <2>1, AnsweringHandle
<1>2. ASSUME NEW p \in Procs, RemoveDirectory(p) PROVE Answering(f)'
  <2>1. /\ \A h \in Handles : phase[h] \notin Serving
        /\ UNCHANGED <<phase, live, pub, drain, on, mark, late>>
        /\ asked'[f] = IF asked[f] = "done" THEN "idle" ELSE asked[f]
    BY <1>2, Removed DEF RemoveDirectory, lifeVars, liveVars, bufVars
  <2>2. CASE asked[f] = "done" BY <2>1, <2>2, AnsweringIdle
  <2>3. CASE asked[f] # "done" BY <1>0, <2>1, <2>3 DEF Answering
  <2> QED BY <2>2, <2>3
<1>3. ASSUME NEW p \in Procs, Crash(p) PROVE Answering(f)'
  <2>1. LogStep BY <1>0, <1>3, CrashStep
  <2>2. /\ phase' = Lost(p, phase, "dead") /\ live' = Lost(p, live, FALSE) /\ pub' = Lost(p, pub, 0)
        /\ drain' = Lost(p, drain, "idle") /\ UNCHANGED <<on, mark, late>>
        /\ asked'[f] = IF on[f] \in Of(p) /\ asked[f] # "done" THEN "idle" ELSE asked[f]
    BY <1>3 DEF Crash
  <2>3. CASE on[f] \in Of(p) /\ asked[f] # "done" BY <2>2, <2>3, AnsweringIdle
  <2>4. CASE ~(on[f] \in Of(p) /\ asked[f] # "done")
    <3>1. SameCaller(f) BY <2>2, <2>4 DEF SameCaller
    <3>2. ASSUME Waiting(f) PROVE Serves(on[f], f)
      <4>1. on[f] \in Handles \ Of(p) BY <1>0, <2>4, <3>2 DEF Waiting, Answering
      <4>2. /\ phase'[on[f]] = phase[on[f]] /\ live'[on[f]] = live[on[f]] /\ pub'[on[f]] = pub[on[f]]
            /\ drain'[on[f]] = drain[on[f]]
        BY <2>2, <4>1 DEF Lost
      <4> QED BY <1>0, <1>t, <3>2, <4>1, <4>2 DEF Serves, Waiting, Answering
    <3> QED BY <1>0, <1>t, <2>1, <3>1, <3>2, AnsweringKept
  <2> QED BY <2>3, <2>4
<1>4. CASE UNCHANGED vars \/ \E p \in Procs : CheckDelete(p)
  <2>1. UNCHANGED <<exists, log, phase, live, pub, drain, asked, on, mark, late>>
    BY <1>4 DEF vars, CheckDelete, fileVars, lifeVars, liveVars, bufVars, flushVars
  <2> QED BY <1>0, <2>1 DEF Answering
<1> QED BY <1>1, <1>2, <1>3, <1>4, NextCases

-----------------------------------------------------------------------------

(* What the file, the handles that extend it and the callers that wait for *)
(* it know of each other holds in every state.                             *)
THEOREM DurableInvariant ==
    ASSUME Guarded
    PROVE  Spec => [](IInv /\ DInv)
<1>1. Init => IInv /\ DInv
  <2> SUFFICES ASSUME Init PROVE IInv /\ DInv OBVIOUS
  <2>1. \A h \in Handles : Queued(h) BY DEF Init, Queued
  <2>2. \A f \in Flushers : Answering(f) BY DEF Init, Answering
  <2> QED BY <2>1, <2>2, InvariantInit, KeptInit DEF DInv
<1>2. IInv /\ DInv /\ [Next]_vars => (IInv /\ DInv)'
  <2> SUFFICES ASSUME IInv, DInv, [Next]_vars PROVE IInv' /\ DInv' OBVIOUS
  <2>1. IInv' BY InvariantStep
  <2>2. Kept' BY KeptStep DEF DInv
  <2>3. \A h \in Handles : Filed(h)' BY FiledStepAll DEF DInv
  <2>4. \A h \in Handles : Queued(h)' BY QueuedStep DEF DInv
  <2>5. \A f \in Flushers : Answering(f)' BY <2>1, <2>2, <2>3, AnsweringStep
  <2> QED BY <2>1, <2>2, <2>3, <2>4, <2>5 DEF DInv
<1> QED BY <1>1, <1>2, PTL DEF Spec

(* When session/flush resolves, everything published before the call is    *)
(* stored, and it stays stored whatever crashes afterwards, unless the     *)
(* call came too late for the drain it joined.                             *)
THEOREM FlushesStored ==
    ASSUME Guarded
    PROVE  Spec => []FlushDurable
<1>1. IInv /\ DInv => FlushDurable BY DEF DInv, Answering, FlushDurable
<1> QED BY <1>1, DurableInvariant, PTL

(* The storage runtime implements the durable log, whatever handles,       *)
(* processes, crashes, failing file operations and repairs there are: what *)
(* a reader finds grows at its end, and what was acknowledged is found by  *)
(* every later reader until the session is deleted.                        *)
THEOREM ImplementsDurableLog ==
    ASSUME Guarded
    PROVE  Spec => DurableKept
<1>1. Init => Durable!Init
  <2> SUFFICES ASSUME Init PROVE Durable!Init OBVIOUS
  <2>1. Stored = <<>> BY DEF Init, Stored
  <2> QED BY <2>1 DEF Init, Durable!Init
<1>2. IInv /\ DInv /\ [Next]_vars => [Durable!Next]_(Durable!vars)
  <2> SUFFICES ASSUME IInv, DInv, [Next]_vars PROVE Durable!Next OBVIOUS
  <2>1. Typed' BY IInvTyped, TypedStep
  <2> QED BY <2>1, FileStep, LogStepGrows, RemovalDeletes DEF DInv
<1> QED BY <1>1, <1>2, DurableInvariant, PTL DEF Spec, DurableKept, Durable!Spec
=============================================================================
