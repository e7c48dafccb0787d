-------------------------- MODULE ToolBatchProofs --------------------------
(***************************************************************************)
(* Proofs about ToolBatch, for every number of calls and every limit: an   *)
(* inductive invariant, the safety properties, and the refinement of       *)
(* ToolLedger.                                                             *)
(***************************************************************************)
EXTENDS ToolBatchProps, FiniteSetTheorems, TLAPS

(* No action breaks the types: the scheduler's counters stay inside the    *)
(* calls of the message.                                                   *)
LEMMA TypeStep ==
  ASSUME IInv, [Next]_vars PROVE TypeOK'
<1> USE DEF TypeOK, Counters, Pool, GroupEnd, Modes, Outcomes, CallIds, Awaiting,
         SyncPoints, Aborted
<1>0. TypeOK /\ Counters /\ Pool
  BY DEF IInv
<1>1. ASSUME Abort PROVE TypeOK'
  BY <1>0, <1>1 DEF Abort, vars, envVars, schedVars, callVars, logVars
<1>2. ASSUME NEW i \in CallIds, Reclassify(i) PROVE TypeOK'
  BY <1>0, <1>2 DEF Reclassify, vars, envVars, schedVars, callVars, logVars
<1>3. ASSUME NEW i \in CallIds, BodyBegins(i) PROVE TypeOK'
  BY <1>0, <1>3 DEF BodyBegins, vars, envVars, schedVars, callVars, logVars
<1>4. ASSUME NEW i \in CallIds, BodyNotReached(i) PROVE TypeOK'
  BY <1>0, <1>4 DEF BodyNotReached, Settles, Cancelled, vars, envVars, schedVars, callVars,
         logVars
<1>5. ASSUME NEW i \in CallIds, BodySettles(i) PROVE TypeOK'
  BY <1>0, <1>5 DEF BodySettles, Settles, Cancelled, vars, envVars, schedVars, callVars,
         logVars
<1>6. ASSUME NEW i \in CallIds, DispatchRejects(i) PROVE TypeOK'
  BY <1>0, <1>6 DEF DispatchRejects, vars, envVars, schedVars, callVars, logVars
<1>7. ASSUME Classify PROVE TypeOK'
  <2>1. aborted' \in BOOLEAN
    BY <1>0, <1>7, Zenon DEF Classify
  <2>2. started + 1 \in CallIds \/ started = NumCalls
    BY <1>0, BatchConstants
  <2>3. group' \in Modes
    BY <1>0, <1>7, <2>2 DEF Classify
  <2> QED BY <1>0, <1>7, <2>1, <2>3 DEF Classify, vars, envVars, schedVars, callVars,
         logVars
<1>8. ASSUME StartCall PROVE TypeOK'
  <2>1. started < NumCalls
    BY <1>0, <1>8, BatchConstants DEF StartCall, MayStart
  <2>2. started' \in 0 .. NumCalls /\ called' \in 0 .. NumCalls /\ alone' \subseteq CallIds
    BY <1>0, <1>8, <2>1, BatchConstants DEF StartCall
  <2> QED BY <1>0, <1>8, <2>2 DEF StartCall, MayStart, PoolHasRoom, StaysParallel, vars,
         envVars, schedVars, callVars, logVars
<1>9. ASSUME StartFails PROVE TypeOK'
  BY <1>0, <1>9 DEF StartFails, MayStart, vars, envVars, schedVars, callVars, logVars
<1>10. ASSUME FillEnds PROVE TypeOK'
  BY <1>0, <1>10 DEF FillEnds, vars, envVars, schedVars, callVars, logVars
<1>11. ASSUME Prepared PROVE TypeOK'
  <2>1. started \in CallIds
    BY <1>0, <1>11, BatchConstants DEF Prepared
  <2>2. inFlight' \subseteq CallIds
    <3>1. inFlight' = inFlight \/ inFlight' = inFlight \cup {started}
      BY <1>11 DEF Prepared, PoolKey
    <3> QED BY <1>0, <2>1, <3>1
  <2>3. slot' \in [CallIds -> Outcomes \cup {"none"}]
    BY <1>0, <1>11, <2>1 DEF Prepared
  <2>4. body' \in [CallIds -> {"idle", "wrapped", "running", "done"}]
    BY <1>0, <1>11, <2>1 DEF Prepared
  <2>5. pc' \in {"draining", "started"}
    BY <1>11 DEF Prepared
  <2> QED BY <1>0, <1>11, <2>2, <2>3, <2>4, <2>5 DEF Prepared, PoolKey, vars, envVars,
         schedVars, callVars, logVars
<1>12. ASSUME AfterStart PROVE TypeOK'
  BY <1>0, <1>12 DEF AfterStart, Resume, vars, envVars, schedVars, callVars, logVars
<1>13. ASSUME CommitHead PROVE TypeOK'
  BY <1>0, <1>13 DEF CommitHead, NextSlot, vars, envVars, schedVars, callVars, logVars
<1>14. ASSUME CommitCall PROVE TypeOK'
  <2>1. committed < NumCalls /\ NextSlot \in CallIds /\ slot[NextSlot] \in Outcomes
    BY <1>0, <1>14, BatchConstants DEF CommitCall, NextSlot
  <2>2. result' \in [CallIds -> Outcomes \cup {"none"}]
    BY <1>0, <1>14, <2>1 DEF CommitCall, Cancelled
  <2>3. committed' \in 0 .. NumCalls /\ answered' \in 0 .. NumCalls
    BY <1>0, <1>14, <2>1, BatchConstants DEF CommitCall
  <2> QED BY <1>0, <1>14, <2>2, <2>3 DEF CommitCall, NextSlot, Cancelled, vars, envVars,
         schedVars, callVars, logVars
<1>15. ASSUME PrepareOrCommitFails PROVE TypeOK'
  BY <1>0, <1>15 DEF PrepareOrCommitFails, vars, envVars, schedVars, callVars, logVars
<1>16. ASSUME AfterCommit PROVE TypeOK'
  BY <1>0, <1>16 DEF AfterCommit, Resume, ReadSignal, vars, envVars, schedVars, callVars,
         logVars
<1>17. ASSUME NEW i \in CallIds, RaceSettles(i) PROVE TypeOK'
  BY <1>0, <1>17 DEF RaceSettles, Resume, Observed, Settled, vars, envVars, schedVars,
         callVars, logVars
<1>18. ASSUME Drained PROVE TypeOK'
  BY <1>0, <1>18 DEF Drained, PoolSettled, Settled, vars, envVars, schedVars, callVars,
         logVars
<1>19. ASSUME SkipCall PROVE TypeOK'
  <2>1. started < NumCalls /\ started + 1 \in CallIds
    BY <1>0, <1>19, BatchConstants DEF SkipCall
  <2>2. result' \in [CallIds -> Outcomes \cup {"none"}]
    BY <1>0, <1>19, <2>1 DEF SkipCall
  <2>3. /\ started' \in 0 .. NumCalls /\ committed' \in 0 .. NumCalls
        /\ called' \in 0 .. NumCalls /\ answered' \in 0 .. NumCalls
    BY <1>0, <1>19, <2>1, BatchConstants DEF SkipCall
  <2> QED BY <1>0, <1>19, <2>2, <2>3 DEF SkipCall, vars, envVars, schedVars, callVars,
         logVars
<1>20. ASSUME SkipsDone PROVE TypeOK'
  BY <1>0, <1>20 DEF SkipsDone, vars, envVars, schedVars, callVars, logVars
<1>21. ASSUME UNCHANGED vars PROVE TypeOK'
  BY <1>0, <1>21 DEF vars, envVars, schedVars, callVars, logVars
<1> HIDE DEF TypeOK, Counters, Pool, GroupEnd, Modes, Outcomes, CallIds, Awaiting,
         SyncPoints, Aborted
<1> QED
  BY <1>1, <1>2, <1>3, <1>4, <1>5, <1>6, <1>7, <1>8, <1>9, <1>10, <1>11, <1>12, <1>13,
         <1>14, <1>15, <1>16, <1>17, <1>18, <1>19, <1>20, <1>21
  DEF Next, Bodies, Scheduler

(* Calls, results and groups advance together.                             *)
LEMMA CountersStep ==
  ASSUME IInv, [Next]_vars PROVE Counters'
<1> USE DEF TypeOK, Counters, Pool, Calls, GroupEnd, Modes, Outcomes, CallIds, Awaiting,
         SyncPoints, Aborted
<1>0. TypeOK /\ Counters /\ Pool /\ Calls
  BY DEF IInv
<1>1. ASSUME Abort PROVE Counters'
  BY <1>0, <1>1 DEF Abort, vars, envVars, schedVars, callVars, logVars
<1>2. ASSUME NEW i \in CallIds, Reclassify(i) PROVE Counters'
  BY <1>0, <1>2 DEF Reclassify, vars, envVars, schedVars, callVars, logVars
<1>3. ASSUME NEW i \in CallIds, BodyBegins(i) PROVE Counters'
  BY <1>0, <1>3 DEF BodyBegins, vars, envVars, schedVars, callVars, logVars
<1>4. ASSUME NEW i \in CallIds, BodyNotReached(i) PROVE Counters'
  BY <1>0, <1>4 DEF BodyNotReached, Settles, Cancelled, vars, envVars, schedVars, callVars,
         logVars
<1>5. ASSUME NEW i \in CallIds, BodySettles(i) PROVE Counters'
  BY <1>0, <1>5 DEF BodySettles, Settles, Cancelled, vars, envVars, schedVars, callVars,
         logVars
<1>6. ASSUME NEW i \in CallIds, DispatchRejects(i) PROVE Counters'
  BY <1>0, <1>6 DEF DispatchRejects, vars, envVars, schedVars, callVars, logVars
<1>7. ASSUME Classify PROVE Counters'
  BY <1>0, <1>7 DEF Classify, vars, envVars, schedVars, callVars, logVars
<1>8. ASSUME StartCall PROVE Counters'
  <2>1. started < NumCalls /\ base <= started /\ started + 1 \in CallIds
    BY <1>0, <1>8, BatchConstants DEF StartCall, MayStart
  <2>2. started + 1 \notin inFlight /\ slot[started + 1] = "none" /\ body[started + 1] = "idle"
    BY <1>0, <2>1
  <2>3. started' <= GroupEnd'
    BY <1>0, <1>8, <2>1, BatchConstants DEF StartCall, MayStart
  <2> QED BY <1>0, <1>8, <2>1, <2>2, <2>3 DEF StartCall, MayStart, PoolHasRoom,
         StaysParallel, vars, envVars, schedVars, callVars, logVars
<1>9. ASSUME StartFails PROVE Counters'
  BY <1>0, <1>9 DEF StartFails, MayStart, vars, envVars, schedVars, callVars, logVars
<1>10. ASSUME FillEnds PROVE Counters'
  BY <1>0, <1>10 DEF FillEnds, vars, envVars, schedVars, callVars, logVars
<1>11. ASSUME Prepared PROVE Counters'
  BY <1>0, <1>11 DEF Prepared, PoolKey, vars, envVars, schedVars, callVars, logVars
<1>12. ASSUME AfterStart PROVE Counters'
  BY <1>0, <1>12 DEF AfterStart, Resume, vars, envVars, schedVars, callVars, logVars
<1>13. ASSUME CommitHead PROVE Counters'
  BY <1>0, <1>13 DEF CommitHead, NextSlot, vars, envVars, schedVars, callVars, logVars
<1>14. ASSUME CommitCall PROVE Counters'
  BY <1>0, <1>14 DEF CommitCall, NextSlot, Cancelled, vars, envVars, schedVars, callVars,
         logVars
<1>15. ASSUME PrepareOrCommitFails PROVE Counters'
  BY <1>0, <1>15 DEF PrepareOrCommitFails, vars, envVars, schedVars, callVars, logVars
<1>16. ASSUME AfterCommit PROVE Counters'
  BY <1>0, <1>16 DEF AfterCommit, Resume, ReadSignal, vars, envVars, schedVars, callVars,
         logVars
<1>17. ASSUME NEW i \in CallIds, RaceSettles(i) PROVE Counters'
  BY <1>0, <1>17 DEF RaceSettles, Resume, Observed, Settled, vars, envVars, schedVars,
         callVars, logVars
<1>18. ASSUME Drained PROVE Counters'
  BY <1>0, <1>18 DEF Drained, PoolSettled, Settled, vars, envVars, schedVars, callVars,
         logVars
<1>19. ASSUME SkipCall PROVE Counters'
  BY <1>0, <1>19 DEF SkipCall, vars, envVars, schedVars, callVars, logVars
<1>20. ASSUME SkipsDone PROVE Counters'
  BY <1>0, <1>20 DEF SkipsDone, vars, envVars, schedVars, callVars, logVars
<1>21. ASSUME UNCHANGED vars PROVE Counters'
  BY <1>0, <1>21 DEF vars, envVars, schedVars, callVars, logVars
<1> HIDE DEF TypeOK, Counters, Pool, Calls, GroupEnd, Modes, Outcomes, CallIds, Awaiting,
         SyncPoints, Aborted
<1> QED
  BY <1>1, <1>2, <1>3, <1>4, <1>5, <1>6, <1>7, <1>8, <1>9, <1>10, <1>11, <1>12, <1>13,
         <1>14, <1>15, <1>16, <1>17, <1>18, <1>19, <1>20, <1>21
  DEF Next, Bodies, Scheduler

(* What is not started has no body and no slot; what runs is in the pool.  *)
LEMMA CallsStep ==
  ASSUME IInv, [Next]_vars PROVE Calls'
<1> USE DEF TypeOK, Counters, Pool, Calls, Active, GroupEnd, Modes, Outcomes, CallIds,
         Awaiting, SyncPoints, Aborted
<1>0. TypeOK /\ Counters /\ Pool /\ Calls
  BY DEF IInv
<1>1. ASSUME Abort PROVE Calls'
  BY <1>0, <1>1 DEF Abort, vars, envVars, schedVars, callVars, logVars
<1>2. ASSUME NEW i \in CallIds, Reclassify(i) PROVE Calls'
  BY <1>0, <1>2 DEF Reclassify, vars, envVars, schedVars, callVars, logVars
<1>3. ASSUME NEW i \in CallIds, BodyBegins(i) PROVE Calls'
  BY <1>0, <1>3 DEF BodyBegins, vars, envVars, schedVars, callVars, logVars
<1>4. ASSUME NEW i \in CallIds, BodyNotReached(i) PROVE Calls'
  BY <1>0, <1>4 DEF BodyNotReached, Settles, Cancelled, vars, envVars, schedVars, callVars,
         logVars
<1>5. ASSUME NEW i \in CallIds, BodySettles(i) PROVE Calls'
  BY <1>0, <1>5 DEF BodySettles, Settles, Cancelled, vars, envVars, schedVars, callVars,
         logVars
<1>6. ASSUME NEW i \in CallIds, DispatchRejects(i) PROVE Calls'
  BY <1>0, <1>6 DEF DispatchRejects, vars, envVars, schedVars, callVars, logVars
<1>7. ASSUME Classify PROVE Calls'
  BY <1>0, <1>7 DEF Classify, vars, envVars, schedVars, callVars, logVars
<1>8. ASSUME StartCall PROVE Calls'
  BY <1>0, <1>8 DEF StartCall, MayStart, PoolHasRoom, StaysParallel, vars, envVars,
         schedVars, callVars, logVars
<1>9. ASSUME StartFails PROVE Calls'
  BY <1>0, <1>9 DEF StartFails, MayStart, vars, envVars, schedVars, callVars, logVars
<1>10. ASSUME FillEnds PROVE Calls'
  BY <1>0, <1>10 DEF FillEnds, vars, envVars, schedVars, callVars, logVars
<1>11. ASSUME Prepared PROVE Calls'
  <2>1. started \in CallIds /\ committed < started /\ answered = committed
    BY <1>0, <1>11, BatchConstants DEF Prepared
  <2>2. result[started] = "none" /\ slot[started] = "none" /\ body[started] = "idle"
    BY <1>0, <1>11, <2>1 DEF Prepared
  <2>3. /\ \A i \in CallIds : i # started => slot'[i] = slot[i] /\ body'[i] = body[i]
        /\ body'[started] \in {"idle", "wrapped"}
        /\ slot'[started] # "none" => body'[started] = "idle"
    BY <1>0, <1>11, <2>1, <2>2 DEF Prepared
  <2>4. Active' \subseteq inFlight'
    BY <1>0, <1>11, <2>1, <2>2 DEF Prepared, PoolKey
  <2>5. result' = result /\ answered' = answered /\ started' = started
    BY <1>11 DEF Prepared, envVars, logVars
  <2> QED BY <1>0, <2>1, <2>2, <2>3, <2>4, <2>5
<1>12. ASSUME AfterStart PROVE Calls'
  BY <1>0, <1>12 DEF AfterStart, Resume, vars, envVars, schedVars, callVars, logVars
<1>13. ASSUME CommitHead PROVE Calls'
  BY <1>0, <1>13 DEF CommitHead, NextSlot, vars, envVars, schedVars, callVars, logVars
<1>14. ASSUME CommitCall PROVE Calls'
  BY <1>0, <1>14 DEF CommitCall, NextSlot, Cancelled, vars, envVars, schedVars, callVars,
         logVars
<1>15. ASSUME PrepareOrCommitFails PROVE Calls'
  BY <1>0, <1>15 DEF PrepareOrCommitFails, vars, envVars, schedVars, callVars, logVars
<1>16. ASSUME AfterCommit PROVE Calls'
  BY <1>0, <1>16 DEF AfterCommit, Resume, ReadSignal, vars, envVars, schedVars, callVars,
         logVars
<1>17. ASSUME NEW i \in CallIds, RaceSettles(i) PROVE Calls'
  BY <1>0, <1>17 DEF RaceSettles, Resume, Observed, Settled, vars, envVars, schedVars,
         callVars, logVars
<1>18. ASSUME Drained PROVE Calls'
  BY <1>0, <1>18 DEF Drained, PoolSettled, Settled, vars, envVars, schedVars, callVars,
         logVars
<1>19. ASSUME SkipCall PROVE Calls'
  BY <1>0, <1>19 DEF SkipCall, vars, envVars, schedVars, callVars, logVars
<1>20. ASSUME SkipsDone PROVE Calls'
  BY <1>0, <1>20 DEF SkipsDone, vars, envVars, schedVars, callVars, logVars
<1>21. ASSUME UNCHANGED vars PROVE Calls'
  BY <1>0, <1>21 DEF vars, envVars, schedVars, callVars, logVars
<1> HIDE DEF TypeOK, Counters, Pool, Calls, Active, GroupEnd, Modes, Outcomes, CallIds,
         Awaiting, SyncPoints, Aborted
<1> QED
  BY <1>1, <1>2, <1>3, <1>4, <1>5, <1>6, <1>7, <1>8, <1>9, <1>10, <1>11, <1>12, <1>13,
         <1>14, <1>15, <1>16, <1>17, <1>18, <1>19, <1>20, <1>21
  DEF Next, Bodies, Scheduler

(* The mode and the signal are those the head of the fill loop just read.  *)
LEMMA BarrierStep ==
  ASSUME IInv, [Next]_vars PROVE Barrier'
<1> USE DEF TypeOK, Counters, Barrier, GroupEnd, Modes, CallIds, Awaiting, SyncPoints,
         Aborted
<1>0. TypeOK /\ Counters /\ Barrier
  BY DEF IInv
<1>1. ASSUME Abort PROVE Barrier'
  BY <1>0, <1>1 DEF Abort, vars, envVars, schedVars, callVars, logVars
<1>2. ASSUME NEW i \in CallIds, Reclassify(i) PROVE Barrier'
  BY <1>0, <1>2 DEF Reclassify, vars, envVars, schedVars, callVars, logVars
<1>3. ASSUME NEW i \in CallIds, BodyBegins(i) PROVE Barrier'
  BY <1>0, <1>3 DEF BodyBegins, vars, envVars, schedVars, callVars, logVars
<1>4. ASSUME NEW i \in CallIds, BodyNotReached(i) PROVE Barrier'
  BY <1>0, <1>4 DEF BodyNotReached, Settles, Cancelled, vars, envVars, schedVars, callVars,
         logVars
<1>5. ASSUME NEW i \in CallIds, BodySettles(i) PROVE Barrier'
  BY <1>0, <1>5 DEF BodySettles, Settles, Cancelled, vars, envVars, schedVars, callVars,
         logVars
<1>6. ASSUME NEW i \in CallIds, DispatchRejects(i) PROVE Barrier'
  BY <1>0, <1>6 DEF DispatchRejects, vars, envVars, schedVars, callVars, logVars
<1>7. ASSUME Classify PROVE Barrier'
  <2>1. pc' = "fill" => aborted' = Aborted /\ signal' = signal
    BY <1>7 DEF Classify, envVars
  <2>2. pc' = "fill" => mode'[started' + 1] = group'
    BY <1>7 DEF Classify, envVars
  <2>3. \A i \in alone' : ~(i > base')
    BY <1>0, <1>7, BatchConstants DEF Classify
  <2>4. alone' \subseteq 1 .. started'
    BY <1>0, <1>7 DEF Classify
  <2>5. pc' = "fill" /\ Aborted' => aborted'
    BY <2>1, Zenon
  <2>6. aborted' => Aborted'
    <3>1. CASE pc' = "fill"
      BY <2>1, <3>1, Zenon
    <3>2. CASE pc' = "returned"
      <4>1. aborted' = aborted /\ signal' = signal
        BY <1>7, <3>2 DEF Classify, envVars
      <4> QED BY <1>0, <4>1
    <3> QED BY <1>7, <3>1, <3>2 DEF Classify
  <2>7. pc' # "skipping"
    BY <1>7 DEF Classify
  <2> QED BY <2>2, <2>3, <2>4, <2>5, <2>6, <2>7
<1>8. ASSUME StartCall PROVE Barrier'
  BY <1>0, <1>8 DEF StartCall, MayStart, PoolHasRoom, StaysParallel, vars, envVars,
         schedVars, callVars, logVars
<1>9. ASSUME StartFails PROVE Barrier'
  BY <1>0, <1>9 DEF StartFails, MayStart, vars, envVars, schedVars, callVars, logVars
<1>10. ASSUME FillEnds PROVE Barrier'
  BY <1>0, <1>10 DEF FillEnds, vars, envVars, schedVars, callVars, logVars
<1>11. ASSUME Prepared PROVE Barrier'
  BY <1>0, <1>11 DEF Prepared, PoolKey, vars, envVars, schedVars, callVars, logVars
<1>12. ASSUME AfterStart PROVE Barrier'
  BY <1>0, <1>12 DEF AfterStart, Resume, vars, envVars, schedVars, callVars, logVars
<1>13. ASSUME CommitHead PROVE Barrier'
  BY <1>0, <1>13 DEF CommitHead, NextSlot, vars, envVars, schedVars, callVars, logVars
<1>14. ASSUME CommitCall PROVE Barrier'
  BY <1>0, <1>14 DEF CommitCall, NextSlot, Cancelled, vars, envVars, schedVars, callVars,
         logVars
<1>15. ASSUME PrepareOrCommitFails PROVE Barrier'
  BY <1>0, <1>15 DEF PrepareOrCommitFails, vars, envVars, schedVars, callVars, logVars
<1>16. ASSUME AfterCommit PROVE Barrier'
  <2>1. /\ signal' = signal /\ mode' = mode /\ started' = started /\ base' = base
        /\ group' = group /\ alone' = alone
    BY <1>16 DEF AfterCommit, Resume, ReadSignal, vars, envVars, schedVars, callVars,
           logVars
  <2>2. Aborted' <=> aborted'
    <3>1. aborted' = (aborted \/ Aborted)
      BY <1>16 DEF AfterCommit, ReadSignal
    <3>2. aborted' <=> aborted \/ Aborted
      BY <3>1, Zenon
    <3> QED BY <1>0, <2>1, <3>2
  <2>3. started > base /\ pc' # "skipping"
    BY <1>0, <1>16 DEF AfterCommit, Resume
  <2> QED BY <1>0, <2>1, <2>2, <2>3
<1>17. ASSUME NEW i \in CallIds, RaceSettles(i) PROVE Barrier'
  BY <1>0, <1>17 DEF RaceSettles, Resume, Observed, Settled, vars, envVars, schedVars,
         callVars, logVars
<1>18. ASSUME Drained PROVE Barrier'
  BY <1>0, <1>18 DEF Drained, PoolSettled, Settled, vars, envVars, schedVars, callVars,
         logVars
<1>19. ASSUME SkipCall PROVE Barrier'
  BY <1>0, <1>19 DEF SkipCall, vars, envVars, schedVars, callVars, logVars
<1>20. ASSUME SkipsDone PROVE Barrier'
  BY <1>0, <1>20 DEF SkipsDone, vars, envVars, schedVars, callVars, logVars
<1>21. ASSUME UNCHANGED vars PROVE Barrier'
  BY <1>0, <1>21 DEF vars, envVars, schedVars, callVars, logVars
<1> HIDE DEF TypeOK, Counters, Barrier, GroupEnd, Modes, CallIds, Awaiting, SyncPoints,
         Aborted
<1> QED
  BY <1>1, <1>2, <1>3, <1>4, <1>5, <1>6, <1>7, <1>8, <1>9, <1>10, <1>11, <1>12, <1>13,
         <1>14, <1>15, <1>16, <1>17, <1>18, <1>19, <1>20, <1>21
  DEF Next, Bodies, Scheduler

(* An outcome agrees with bodyInvoked.                                     *)
LEMMA CancellationStep ==
  ASSUME IInv, [Next]_vars PROVE Cancellation'
<1> USE DEF TypeOK, Counters, Pool, Calls, Cancellation, GroupEnd, Modes, Outcomes,
         CallIds, Awaiting, SyncPoints, Aborted
<1>0. TypeOK /\ Counters /\ Pool /\ Calls /\ Cancellation
  BY DEF IInv
<1>1. ASSUME Abort PROVE Cancellation'
  BY <1>0, <1>1 DEF Abort, vars, envVars, schedVars, callVars, logVars
<1>2. ASSUME NEW i \in CallIds, Reclassify(i) PROVE Cancellation'
  BY <1>0, <1>2 DEF Reclassify, vars, envVars, schedVars, callVars, logVars
<1>3. ASSUME NEW i \in CallIds, BodyBegins(i) PROVE Cancellation'
  BY <1>0, <1>3 DEF BodyBegins, vars, envVars, schedVars, callVars, logVars
<1>4. ASSUME NEW i \in CallIds, BodyNotReached(i) PROVE Cancellation'
  BY <1>0, <1>4 DEF BodyNotReached, Settles, Cancelled, vars, envVars, schedVars, callVars,
         logVars
<1>5. ASSUME NEW i \in CallIds, BodySettles(i) PROVE Cancellation'
  BY <1>0, <1>5 DEF BodySettles, Settles, Cancelled, vars, envVars, schedVars, callVars,
         logVars
<1>6. ASSUME NEW i \in CallIds, DispatchRejects(i) PROVE Cancellation'
  BY <1>0, <1>6 DEF DispatchRejects, vars, envVars, schedVars, callVars, logVars
<1>7. ASSUME Classify PROVE Cancellation'
  BY <1>0, <1>7 DEF Classify, vars, envVars, schedVars, callVars, logVars
<1>8. ASSUME StartCall PROVE Cancellation'
  BY <1>0, <1>8 DEF StartCall, MayStart, PoolHasRoom, StaysParallel, vars, envVars,
         schedVars, callVars, logVars
<1>9. ASSUME StartFails PROVE Cancellation'
  BY <1>0, <1>9 DEF StartFails, MayStart, vars, envVars, schedVars, callVars, logVars
<1>10. ASSUME FillEnds PROVE Cancellation'
  BY <1>0, <1>10 DEF FillEnds, vars, envVars, schedVars, callVars, logVars
<1>11. ASSUME Prepared PROVE Cancellation'
  <2>1. /\ started \in CallIds /\ started \notin invoked /\ slot[started] = "none"
        /\ body[started] = "idle"
    BY <1>0, <1>11, BatchConstants DEF Prepared
  <2>2. /\ \/ slot' = slot
           \/ \E out \in {"error", "unrun"} : slot' = [slot EXCEPT ![started] = out]
        /\ body' = body \/ body' = [body EXCEPT ![started] = "wrapped"]
    BY <1>11 DEF Prepared
  <2>3. \A i \in CallIds : i # started => slot'[i] = slot[i]
    BY <1>0, <2>2
  <2>4. \A i \in CallIds : i # started => body'[i] = body[i]
    BY <1>0, <2>2
  <2>5. body'[started] \in {"idle", "wrapped"}
    <3>1. body \in [CallIds -> {"idle", "wrapped", "running", "done"}]
      BY <1>0
    <3> QED BY ONLY <2>1, <2>2, <3>1
  <2>6. slot'[started] # "aborted"
    <3>1. slot \in [CallIds -> Outcomes \cup {"none"}]
      BY <1>0
    <3> QED BY ONLY <2>1, <2>2, <3>1
  <2>7. result' = result /\ invoked' = invoked
    BY <1>11 DEF Prepared, logVars
  <2> QED BY <1>0, <2>1, <2>3, <2>4, <2>5, <2>6, <2>7
<1>12. ASSUME AfterStart PROVE Cancellation'
  BY <1>0, <1>12 DEF AfterStart, Resume, vars, envVars, schedVars, callVars, logVars
<1>13. ASSUME CommitHead PROVE Cancellation'
  BY <1>0, <1>13 DEF CommitHead, NextSlot, vars, envVars, schedVars, callVars, logVars
<1>14. ASSUME CommitCall PROVE Cancellation'
  BY <1>0, <1>14 DEF CommitCall, NextSlot, Cancelled, vars, envVars, schedVars, callVars,
         logVars
<1>15. ASSUME PrepareOrCommitFails PROVE Cancellation'
  BY <1>0, <1>15 DEF PrepareOrCommitFails, vars, envVars, schedVars, callVars, logVars
<1>16. ASSUME AfterCommit PROVE Cancellation'
  BY <1>0, <1>16 DEF AfterCommit, Resume, ReadSignal, vars, envVars, schedVars, callVars,
         logVars
<1>17. ASSUME NEW i \in CallIds, RaceSettles(i) PROVE Cancellation'
  BY <1>0, <1>17 DEF RaceSettles, Resume, Observed, Settled, vars, envVars, schedVars,
         callVars, logVars
<1>18. ASSUME Drained PROVE Cancellation'
  BY <1>0, <1>18 DEF Drained, PoolSettled, Settled, vars, envVars, schedVars, callVars,
         logVars
<1>19. ASSUME SkipCall PROVE Cancellation'
  BY <1>0, <1>19 DEF SkipCall, vars, envVars, schedVars, callVars, logVars
<1>20. ASSUME SkipsDone PROVE Cancellation'
  BY <1>0, <1>20 DEF SkipsDone, vars, envVars, schedVars, callVars, logVars
<1>21. ASSUME UNCHANGED vars PROVE Cancellation'
  BY <1>0, <1>21 DEF vars, envVars, schedVars, callVars, logVars
<1> HIDE DEF TypeOK, Counters, Pool, Calls, Cancellation, GroupEnd, Modes, Outcomes,
         CallIds, Awaiting, SyncPoints, Aborted
<1> QED
  BY <1>1, <1>2, <1>3, <1>4, <1>5, <1>6, <1>7, <1>8, <1>9, <1>10, <1>11, <1>12, <1>13,
         <1>14, <1>15, <1>16, <1>17, <1>18, <1>19, <1>20, <1>21
  DEF Next, Bodies, Scheduler

(* The pool is a finite set, so its size is a number.                      *)
LEMMA PoolFinite ==
  ASSUME IInv
  PROVE  \A S \in SUBSET inFlight : /\ IsFiniteSet(S) /\ Cardinality(S) \in Nat
                                     /\ Cardinality(S) <= Cardinality(inFlight)
<1>1. inFlight \in SUBSET CallIds /\ IsFiniteSet(CallIds)
  BY BatchConstants, FS_Interval DEF IInv, TypeOK, CallIds
<1>2. IsFiniteSet(inFlight)
  BY <1>1, FS_Subset
<1> QED BY <1>2, FS_Subset, FS_CardinalityType

(* Every started call is committed, settled or in the pool.                *)
LEMMA PoolStep ==
  ASSUME IInv, [Next]_vars PROVE Pool'
<1> USE DEF TypeOK, Counters, Pool, Calls, Active, GroupEnd, Modes, Outcomes, CallIds,
         Awaiting, SyncPoints, Aborted
<1>0. TypeOK /\ Counters /\ Pool /\ Calls
  BY DEF IInv
<1>1. ASSUME Abort PROVE Pool'
  BY <1>0, <1>1 DEF Abort, vars, envVars, schedVars, callVars, logVars
<1>2. ASSUME NEW i \in CallIds, Reclassify(i) PROVE Pool'
  BY <1>0, <1>2 DEF Reclassify, vars, envVars, schedVars, callVars, logVars
<1>3. ASSUME NEW i \in CallIds, BodyBegins(i) PROVE Pool'
  BY <1>0, <1>3 DEF BodyBegins, vars, envVars, schedVars, callVars, logVars
<1>4. ASSUME NEW i \in CallIds, BodyNotReached(i) PROVE Pool'
  BY <1>0, <1>4 DEF BodyNotReached, Settles, Cancelled, vars, envVars, schedVars, callVars,
         logVars
<1>5. ASSUME NEW i \in CallIds, BodySettles(i) PROVE Pool'
  BY <1>0, <1>5 DEF BodySettles, Settles, Cancelled, vars, envVars, schedVars, callVars,
         logVars
<1>6. ASSUME NEW i \in CallIds, DispatchRejects(i) PROVE Pool'
  BY <1>0, <1>6 DEF DispatchRejects, vars, envVars, schedVars, callVars, logVars
<1>7. ASSUME Classify PROVE Pool'
  BY <1>0, <1>7 DEF Classify, vars, envVars, schedVars, callVars, logVars
<1>8. ASSUME StartCall PROVE Pool'
  <2>1. started < NumCalls /\ base <= started /\ Cardinality(inFlight) < MaxParallel
    BY <1>0, <1>8, BatchConstants DEF StartCall, MayStart, PoolHasRoom
  <2>2. inFlight' \subseteq base' + 1 .. started'
    BY <1>0, <1>8, <2>1 DEF StartCall, MayStart, PoolHasRoom, StaysParallel, vars, envVars,
           schedVars, callVars, logVars
  <2>3. \A i \in CallIds : committed < i /\ i <= started + 1 =>
           i = started + 1 \/ i \in inFlight \/ slot[i] # "none"
    BY <1>0, <1>8 DEF StartCall
  <2>4. UNCHANGED <<committed, base, failure, slot, body,
  inFlight>> /\ started' = started + 1 /\ pc' = "preparing"
    BY <1>8 DEF StartCall, MayStart, PoolHasRoom, StaysParallel, vars, envVars, schedVars,
           callVars, logVars
  <2> QED BY <1>0, <2>1, <2>2, <2>3, <2>4
<1>9. ASSUME StartFails PROVE Pool'
  BY <1>0, <1>9 DEF StartFails, MayStart, vars, envVars, schedVars, callVars, logVars
<1>10. ASSUME FillEnds PROVE Pool'
  BY <1>0, <1>10 DEF FillEnds, vars, envVars, schedVars, callVars, logVars
<1>11. ASSUME Prepared PROVE Pool'
  <2>1. started \in CallIds /\ started > base
    BY <1>0, <1>11, BatchConstants DEF Prepared
  <2>2. CASE failure
    BY <1>0, <1>11, <2>2 DEF Prepared, PoolKey, vars, envVars, schedVars, callVars, logVars
  <2>3. CASE ~failure /\ inFlight' = inFlight \cup {started} /\ UNCHANGED slot
    <3>1. Cardinality(inFlight') = Cardinality(inFlight) + 1
      BY <1>0, <1>11, <2>3, PoolFinite, FS_AddElement DEF Prepared
    <3>2. pc' = "started" /\ inFlight' \subseteq base' + 1 .. started'
      BY <1>0, <1>11, <2>1, <2>3 DEF Prepared, PoolKey, vars, envVars, schedVars, callVars,
             logVars
    <3>3. \A i \in CallIds : body'[i] = "done" => body[i] = "done"
      BY <1>0, <1>11 DEF Prepared
    <3>4. Cardinality(inFlight') <= MaxParallel
      BY <1>0, <1>11, <3>1, PoolFinite, BatchConstants DEF Prepared
    <3> QED BY <1>0, <1>11, <2>1, <2>3, <3>2, <3>3, <3>4 DEF Prepared, PoolKey, vars,
    envVars, schedVars, callVars, logVars
  <2>4. CASE /\ ~failure /\ pc' = "started" /\ UNCHANGED <<inFlight, body>>
             /\ slot'[started] # "none"
             /\ \A i \in CallIds : i # started => slot'[i] = slot[i]
    <3>1. UNCHANGED <<committed, started, base, failure>>
      BY <1>11 DEF Prepared
    <3> QED BY <1>0, <1>11, <2>1, <2>4, <3>1 DEF Prepared
  <2> QED BY <1>0, <1>11, <2>1, <2>2, <2>3, <2>4 DEF Prepared, PoolKey
<1>12. ASSUME AfterStart PROVE Pool'
  BY <1>0, <1>12 DEF AfterStart, Resume, vars, envVars, schedVars, callVars, logVars
<1>13. ASSUME CommitHead PROVE Pool'
  <2>1. /\ pc = "commit" /\ pc' \in {"completing", "committed"}
        /\ UNCHANGED <<committed, started, base, failure, slot, body, inFlight, group>>
    BY <1>13 DEF CommitHead, NextSlot, vars, envVars, schedVars, callVars, logVars
  <2>2. pc' = "completing" => committed < started /\ slot[committed + 1] # "none"
    <3>1. (committed < NumCalls /\ committed + 1 \in CallIds) \/ committed = NumCalls
      BY <1>0, BatchConstants
    <3>2. committed <= started /\ started <= NumCalls
      BY <1>0, BatchConstants
    <3>3. CASE pc' = "completing"
      <4>1. committed < GroupEnd /\ slot[committed + 1] # "none"
        BY <1>13, <3>3 DEF CommitHead, NextSlot
      <4>2. committed + 1 \in CallIds
        BY <1>0, <2>1, <3>1, <4>1, BatchConstants
      <4>3. ~(committed + 1 > started)
        BY <1>0, <4>1, <4>2
      <4> QED BY <1>0, <4>1, <4>3
    <3> QED BY <3>3
  <2>3. pc' = "committed" => committed = started \/ committed + 1 \in inFlight
    <3>1. CASE pc' = "committed" /\ committed < started
      <4>1. committed + 1 \in CallIds /\ committed < GroupEnd
        BY <1>0, <2>1, <3>1, BatchConstants
      <4>2. slot[committed + 1] = "none"
        BY <1>13, <3>1, <4>1 DEF CommitHead, NextSlot
      <4> QED BY <1>0, <2>1, <3>1, <4>1, <4>2
    <3> QED BY <1>0, <3>1
  <2> QED BY <1>0, <2>1, <2>2, <2>3
<1>14. ASSUME CommitCall PROVE Pool'
  BY <1>0, <1>14 DEF CommitCall, NextSlot, Cancelled, vars, envVars, schedVars, callVars,
         logVars
<1>15. ASSUME PrepareOrCommitFails PROVE Pool'
  BY <1>0, <1>15 DEF PrepareOrCommitFails, vars, envVars, schedVars, callVars, logVars
<1>16. ASSUME AfterCommit PROVE Pool'
  BY <1>0, <1>16 DEF AfterCommit, Resume, ReadSignal, vars, envVars, schedVars, callVars,
         logVars
<1>17. ASSUME NEW i \in CallIds, RaceSettles(i) PROVE Pool'
  <2>1. /\ inFlight' = inFlight \ {i} /\ i \in inFlight /\ body[i] = "done"
        /\ pc' \in {"commit", "draining"} /\ (pc' = "commit" => ~failure)
    BY <1>17 DEF RaceSettles, Resume, Observed, Settled, vars, envVars, schedVars,
           callVars, logVars
  <2>2. Cardinality(inFlight') <= MaxParallel
    BY <1>0, <2>1, PoolFinite, BatchConstants
  <2>3. UNCHANGED <<committed, started, base, failure, slot, body>>
    BY <1>17 DEF RaceSettles, Resume, Observed, Settled, vars, envVars, schedVars,
           callVars, logVars
  <2>4. pc' # "draining" => \A j \in CallIds : committed < j /\ j <= started =>
           j \in inFlight' \/ slot[j] # "none"
    <3> SUFFICES ASSUME pc' = "commit", NEW j \in CallIds, committed < j, j <= started
                 PROVE  j \in inFlight' \/ slot[j] # "none"
      BY <2>1
    <3>1. pc = "racing" /\ ~failure
      BY <1>17, <2>1 DEF RaceSettles
    <3>2. slot[i] # "none"
      BY <1>0, <2>1, <3>1
    <3>3. j \in inFlight \/ slot[j] # "none"
      BY <1>0, <3>1
    <3> QED BY <2>1, <3>2, <3>3
  <2>5. inFlight' \subseteq base' + 1 .. started'
    BY <1>0, <2>1, <2>3
  <2> QED BY <1>0, <2>1, <2>2, <2>3, <2>4, <2>5
<1>18. ASSUME Drained PROVE Pool'
  <2>1. Cardinality(inFlight') <= MaxParallel
    BY <1>18, FS_EmptySet, BatchConstants DEF Drained
  <2> QED BY <1>0, <1>18, <2>1 DEF Drained, PoolSettled, Settled, vars, envVars, schedVars,
         callVars, logVars
<1>19. ASSUME SkipCall PROVE Pool'
  BY <1>0, <1>19 DEF SkipCall, vars, envVars, schedVars, callVars, logVars
<1>20. ASSUME SkipsDone PROVE Pool'
  BY <1>0, <1>20 DEF SkipsDone, vars, envVars, schedVars, callVars, logVars
<1>21. ASSUME UNCHANGED vars PROVE Pool'
  BY <1>0, <1>21 DEF vars, envVars, schedVars, callVars, logVars
<1> HIDE DEF TypeOK, Counters, Pool, Calls, Active, GroupEnd, Modes, Outcomes, CallIds,
         Awaiting, SyncPoints, Aborted
<1> QED
  BY <1>1, <1>2, <1>3, <1>4, <1>5, <1>6, <1>7, <1>8, <1>9, <1>10, <1>11, <1>12, <1>13,
         <1>14, <1>15, <1>16, <1>17, <1>18, <1>19, <1>20, <1>21
  DEF Next, Bodies, Scheduler

(* The invariant holds in every reachable state of every batch.            *)
THEOREM BatchInductive == Spec => []IInv
<1>1. Init => IInv
  <2> SUFFICES ASSUME Init PROVE IInv
    OBVIOUS
  <2> USE DEF Init, CallIds, Modes, Outcomes
  <2>1. TypeOK
    <3>1. aborted \in BOOLEAN /\ failure \in BOOLEAN
      OBVIOUS
    <3>2. /\ base \in 0 .. NumCalls /\ started \in 0 .. NumCalls /\ committed \in 0 .. NumCalls
          /\ called \in 0 .. NumCalls /\ answered \in 0 .. NumCalls
      BY BatchConstants
    <3> QED BY <3>1, <3>2 DEF TypeOK
  <2>2. Counters
    BY BatchConstants DEF Counters, GroupEnd
  <2>3. Pool
    BY BatchConstants, FS_EmptySet DEF Pool
  <2>4. Calls
    BY BatchConstants DEF Calls, Active
  <2>5. Barrier /\ Cancellation
    BY DEF Barrier, Cancellation
  <2> QED BY <2>1, <2>2, <2>3, <2>4, <2>5 DEF IInv
<1>2. IInv /\ [Next]_vars => IInv'
  BY TypeStep, CountersStep, CallsStep, BarrierStep, CancellationStep, PoolStep, Zenon
         DEF IInv
<1> QED BY <1>1, <1>2, PTL DEF Spec

(* TypeOK, for every number of calls and every limit.                      *)
THEOREM BatchTypeCorrect == Spec => []TypeOK
<1>1. IInv => TypeOK
  BY DEF IInv
<1> QED BY <1>1, BatchInductive, PTL

(* commitReady() commits results in model order, after their tool/call.    *)
THEOREM ModelOrder == Spec => []ResultsInModelOrder
<1>1. IInv => ResultsInModelOrder
  BY BatchConstants DEF IInv, TypeOK, Counters, Calls, ResultsInModelOrder, CallIds
<1> QED BY <1>1, BatchInductive, PTL

(* fillPool() never has more than MaxParallel bodies under way, and a call *)
(* that runGroup() starts as exclusive overlaps with no other call.        *)
THEOREM Overlap == Spec => []OverlapBounded
<1>1. ASSUME IInv PROVE Cardinality(Active) <= MaxParallel
  <2>1. Active \in SUBSET inFlight /\ Cardinality(inFlight) <= MaxParallel
    BY <1>1 DEF IInv, Calls, Pool
  <2>2. Cardinality(inFlight) \in Nat /\ Cardinality(Active) \in Nat
        /\ Cardinality(Active) <= Cardinality(inFlight)
    BY <1>1, <2>1, PoolFinite
  <2> QED BY <2>1, <2>2, BatchConstants
<1>2. ASSUME IInv PROVE AloneInPool
  <2> SUFFICES ASSUME NEW i \in alone, body[i] \in {"wrapped", "running"}
               PROVE  Active = {i}
    BY DEF AloneInPool
  <2>1. /\ i \in Active /\ Active \subseteq inFlight /\ inFlight \subseteq base + 1 .. started
        /\ base \in Nat /\ started \in Nat
    BY <1>2 DEF IInv, TypeOK, Calls, Pool, Active
  <2>2. group = "exclusive"
    BY <1>2, <2>1 DEF IInv, Barrier
  <2>3. started <= base + 1
    BY <1>2, <2>1, <2>2 DEF IInv, Counters, GroupEnd, Modes
  <2>4. \A j \in inFlight : j = base + 1
    BY <2>1, <2>3
  <2> QED BY <2>1, <2>4
<1> QED BY <1>1, <1>2, BatchInductive, PTL DEF OverlapBounded

(* cancellationResult() tells truly whether the tool's body was invoked.   *)
THEOREM Honest == Spec => []CancellationHonest
<1>1. IInv => CancellationHonest
  BY DEF IInv, Cancellation, CancellationHonest
<1> QED BY <1>1, BatchInductive, PTL

(* tool/call is appended only after the signal was read as live.           *)
LEMMA StartsLive ==
  ASSUME IInv, [Next]_vars, pc' = "preparing", pc # "preparing"
  PROVE  ~Aborted
<1>1. StartCall
  <2>1. Next
    BY DEF vars
  <2>2. CASE Abort \/ (\E i \in CallIds : Reclassify(i)) \/ Bodies
    BY <2>2 DEF Abort, Reclassify, Bodies, BodyBegins, BodyNotReached, BodySettles,
           DispatchRejects, Settles
  <2>3. CASE Scheduler
    BY <2>3 DEF Scheduler, Classify, StartFails, FillEnds, Prepared, AfterStart, CommitHead,
           CommitCall, PrepareOrCommitFails, AfterCommit, RaceSettles, Drained, SkipCall,
           SkipsDone, Resume
  <2> QED BY <2>1, <2>2, <2>3 DEF Next
<1>2. pc = "fill" /\ ~aborted
  BY <1>1 DEF StartCall, MayStart
<1> QED BY <1>2, Zenon DEF IInv, Barrier

(* Every step of the scheduler is a step of the ledger or leaves it alone. *)
LEMMA LedgerStep ==
  ASSUME IInv, Next PROVE [Ledger!Next]_(Ledger!vars)
<1> USE DEF TypeOK, Counters, Pool, Calls, CallIds, Awaiting, SyncPoints
<1>0. TypeOK /\ Counters /\ Pool /\ Calls /\ Barrier
  BY DEF IInv
<1>1. ASSUME Abort PROVE [Ledger!Next]_(Ledger!vars)
  <2>1. UNCHANGED <<called, answered, Active, pc>>
    BY <1>1 DEF Abort, callVars, logVars, Active
  <2>2. signal = "live" /\ signal' = "aborted"
    BY <1>1 DEF Abort
  <2>3. CASE Awaited
    <3>1. Ledger!Cut
      BY <2>1, <2>2, <2>3 DEF Ledger!Cut, Awaited, Aborted
    <3> QED BY <3>1 DEF Ledger!Next
  <2>4. CASE ~Awaited
    BY <2>1, <2>4 DEF Ledger!vars, Awaited
  <2> QED BY <2>3, <2>4
<1>2. ASSUME NEW i \in CallIds, Reclassify(i) PROVE [Ledger!Next]_(Ledger!vars)
  <2>1. UNCHANGED <<called, answered, body, signal>>
    BY <1>2 DEF Reclassify, callVars, logVars, envVars
  <2>2. (pc \notin {"returned", "failed"} /\ pc' \notin {"returned", "failed"}) \/ pc' = pc
    BY <1>2 DEF Reclassify
  <2> QED BY <2>1, <2>2 DEF Active, Ledger!vars, Awaited, Aborted
<1>3. ASSUME NEW i \in CallIds, BodyBegins(i) PROVE [Ledger!Next]_(Ledger!vars)
  <2>1. Active' = Active /\ UNCHANGED <<called, answered, pc, signal>>
    BY <1>0, <1>3 DEF BodyBegins, Active, logVars, envVars
  <2> QED BY <2>1 DEF Ledger!vars, Awaited, Aborted
<1>4. ASSUME NEW i \in CallIds, BodyNotReached(i) PROVE [Ledger!Next]_(Ledger!vars)
  <2>1. i \in Active /\ Active' = Active \ {i} /\ UNCHANGED <<called, answered, pc, signal>>
    BY <1>0, <1>4 DEF BodyNotReached, Settles, Active, logVars, envVars
  <2>2. Ledger!Finish
    BY <2>1 DEF Ledger!Finish, Ledger!Open, Awaited, Aborted
  <2> QED BY <2>2 DEF Ledger!Next
<1>5. ASSUME NEW i \in CallIds, BodySettles(i) PROVE [Ledger!Next]_(Ledger!vars)
  <2>1. i \in Active /\ Active' = Active \ {i} /\ UNCHANGED <<called, answered, pc, signal>>
    BY <1>0, <1>5 DEF BodySettles, Settles, Active, logVars, envVars
  <2>2. Ledger!Finish
    BY <2>1 DEF Ledger!Finish, Ledger!Open, Awaited, Aborted
  <2> QED BY <2>2 DEF Ledger!Next
<1>6. ASSUME NEW i \in CallIds, DispatchRejects(i) PROVE [Ledger!Next]_(Ledger!vars)
  <2>1. i \in Active /\ Active' = Active \ {i} /\ UNCHANGED <<called, answered, pc, signal>>
    BY <1>0, <1>6 DEF DispatchRejects, Active, logVars, envVars
  <2>2. Ledger!Finish
    BY <2>1 DEF Ledger!Finish, Ledger!Open, Awaited, Aborted
  <2> QED BY <2>2 DEF Ledger!Next
<1>7. ASSUME Classify PROVE [Ledger!Next]_(Ledger!vars)
  <2>1. UNCHANGED <<called, answered, Active, signal>> /\ Active = {}
    BY <1>0, <1>7 DEF Classify, Active, callVars, logVars, envVars
  <2>2. CASE pc' = "fill"
    BY <2>1, <2>2, <1>7 DEF Classify, Ledger!vars, Awaited, Aborted
  <2>3. CASE pc' = "returned"
    <3>1. answered = NumCalls /\ pc = "classify"
      BY <1>0, <2>3, <1>7 DEF Classify
    <3>2. Ledger!Return
      BY <2>1, <2>3, <3>1 DEF Ledger!Return, Ledger!Open, Awaited, Aborted
    <3> QED BY <3>2 DEF Ledger!Next
  <2> QED BY <2>2, <2>3, <1>7 DEF Classify
<1>8. ASSUME StartCall PROVE [Ledger!Next]_(Ledger!vars)
  <2>1. called < NumCalls
    BY <1>0, <1>8, BatchConstants DEF StartCall, MayStart, GroupEnd
  <2>2. called' = called + 1 /\ UNCHANGED <<answered, Active, signal>> /\ pc = "fill" /\ pc' = "preparing"
    BY <1>8 DEF StartCall, Active, callVars, envVars
  <2>3. ~Aborted
    BY <1>8, <2>2, StartsLive DEF Next, Scheduler
  <2>4. Ledger!Record
    BY <2>1, <2>2, <2>3 DEF Ledger!Record, Ledger!Open, Awaited, Aborted
  <2> QED BY <2>4 DEF Ledger!Next
<1>9. ASSUME StartFails PROVE [Ledger!Next]_(Ledger!vars)
  <2>1. UNCHANGED <<called, answered, body, signal>>
    BY <1>9 DEF StartFails, callVars, logVars, envVars
  <2>2. (pc \notin {"returned", "failed"} /\ pc' \notin {"returned", "failed"}) \/ pc' = pc
    BY <1>9 DEF StartFails
  <2> QED BY <2>1, <2>2 DEF Active, Ledger!vars, Awaited, Aborted
<1>10. ASSUME FillEnds PROVE [Ledger!Next]_(Ledger!vars)
  <2>1. UNCHANGED <<called, answered, body, signal>>
    BY <1>10 DEF FillEnds, callVars, logVars, envVars
  <2>2. (pc \notin {"returned", "failed"} /\ pc' \notin {"returned", "failed"}) \/ pc' = pc
    BY <1>10 DEF FillEnds
  <2> QED BY <2>1, <2>2 DEF Active, Ledger!vars, Awaited, Aborted
<1>11. ASSUME Prepared PROVE [Ledger!Next]_(Ledger!vars)
  <2>1. UNCHANGED <<called, answered, signal>> /\ pc = "preparing" /\ pc' \in {"draining",
  "started"}
    BY <1>11 DEF Prepared, logVars, envVars
  <2>2. CASE UNCHANGED body
    BY <2>1, <2>2 DEF Active, Ledger!vars, Awaited, Aborted
  <2>3. CASE body' = [body EXCEPT ![started] = "wrapped"]
    <3>1. started \in 1 .. called /\ started > answered /\ started \in CallIds
      BY <1>0, <2>1, BatchConstants
    <3>2. Active' = Active \cup {started}
      BY <1>0, <2>3, <3>1 DEF Active
    <3>3. Ledger!Begin
      BY <2>1, <3>1, <3>2 DEF Ledger!Begin, Ledger!Open, Awaited, Aborted
    <3> QED BY <3>3 DEF Ledger!Next
  <2> QED BY <1>11, <2>2, <2>3 DEF Prepared
<1>12. ASSUME AfterStart PROVE [Ledger!Next]_(Ledger!vars)
  <2>1. UNCHANGED <<called, answered, body, signal>>
    BY <1>12 DEF AfterStart, callVars, logVars, envVars
  <2>2. (pc \notin {"returned", "failed"} /\ pc' \notin {"returned", "failed"}) \/ pc' = pc
    BY <1>12 DEF AfterStart, Resume
  <2> QED BY <2>1, <2>2 DEF Active, Ledger!vars, Awaited, Aborted
<1>13. ASSUME CommitHead PROVE [Ledger!Next]_(Ledger!vars)
  <2>1. UNCHANGED <<called, answered, body, signal>>
    BY <1>13 DEF CommitHead, callVars, logVars, envVars
  <2>2. (pc \notin {"returned", "failed"} /\ pc' \notin {"returned", "failed"}) \/ pc' = pc
    BY <1>13 DEF CommitHead
  <2> QED BY <2>1, <2>2 DEF Active, Ledger!vars, Awaited, Aborted
<1>14. ASSUME CommitCall PROVE [Ledger!Next]_(Ledger!vars)
  <2>1. /\ answered < called /\ answered + 1 \in CallIds /\ slot[answered + 1] # "none"
        /\ pc = "completing" /\ pc' = "commit"
    BY <1>0, <1>14, BatchConstants DEF CommitCall
  <2>2. answered + 1 \notin Active
    BY <1>0, <2>1 DEF Active
  <2>3. answered' = answered + 1 /\ UNCHANGED <<called, Active, signal>>
    BY <1>14 DEF CommitCall, Active, callVars, envVars
  <2>4. Ledger!Answer
    BY <2>1, <2>2, <2>3 DEF Ledger!Answer, Ledger!Open, Awaited, Aborted
  <2> QED BY <2>4 DEF Ledger!Next
<1>15. ASSUME PrepareOrCommitFails PROVE [Ledger!Next]_(Ledger!vars)
  <2>1. UNCHANGED <<called, answered, body, signal>>
    BY <1>15 DEF PrepareOrCommitFails, callVars, logVars, envVars
  <2>2. (pc \notin {"returned", "failed"} /\ pc' \notin {"returned", "failed"}) \/ pc' = pc
    BY <1>15 DEF PrepareOrCommitFails
  <2> QED BY <2>1, <2>2 DEF Active, Ledger!vars, Awaited, Aborted
<1>16. ASSUME AfterCommit PROVE [Ledger!Next]_(Ledger!vars)
  <2>1. UNCHANGED <<called, answered, body, signal>>
    BY <1>16 DEF AfterCommit, callVars, logVars, envVars
  <2>2. (pc \notin {"returned", "failed"} /\ pc' \notin {"returned", "failed"}) \/ pc' = pc
    BY <1>16 DEF AfterCommit, Resume
  <2> QED BY <2>1, <2>2 DEF Active, Ledger!vars, Awaited, Aborted
<1>17. ASSUME NEW i \in CallIds, RaceSettles(i) PROVE [Ledger!Next]_(Ledger!vars)
  <2>1. UNCHANGED <<called, answered, body, signal>>
    BY <1>17 DEF RaceSettles, callVars, logVars, envVars
  <2>2. (pc \notin {"returned", "failed"} /\ pc' \notin {"returned", "failed"}) \/ pc' = pc
    BY <1>17 DEF RaceSettles, Resume
  <2> QED BY <2>1, <2>2 DEF Active, Ledger!vars, Awaited, Aborted
<1>18. ASSUME Drained PROVE [Ledger!Next]_(Ledger!vars)
  <2>1. Active = {}
    BY <1>0, <1>18 DEF Drained, PoolSettled, Settled, Active
  <2>2. pc = "draining" /\ pc' = "failed" /\ UNCHANGED <<called, answered, Active, signal>>
    BY <1>18 DEF Drained, Active, callVars, logVars, envVars
  <2>3. Ledger!Reject
    BY <2>1, <2>2 DEF Ledger!Reject, Ledger!Open, Awaited, Aborted
  <2> QED BY <2>3 DEF Ledger!Next
<1>19. ASSUME SkipCall PROVE [Ledger!Next]_(Ledger!vars)
  <2>1. answered = called /\ called < NumCalls
    BY <1>0, <1>19 DEF SkipCall
  <2>2. /\ called' = called + 1 /\ answered' = answered + 1 /\ UNCHANGED <<Active, signal>>
        /\ pc = "skipping" /\ pc' = pc
    BY <1>19 DEF SkipCall, Active, callVars, envVars
  <2>3. Aborted
    BY <1>0, <2>2 DEF Barrier
  <2>4. Ledger!Skip
    BY <2>1, <2>2, <2>3 DEF Ledger!Skip, Ledger!Open, Awaited, Aborted
  <2> QED BY <2>4 DEF Ledger!Next
<1>20. ASSUME SkipsDone PROVE [Ledger!Next]_(Ledger!vars)
  <2>1. Active = {} /\ answered = NumCalls
    BY <1>0, <1>20 DEF SkipsDone
  <2>2. pc = "skipping" /\ pc' = "returned" /\ UNCHANGED <<called, answered, Active, signal>>
    BY <1>20 DEF SkipsDone, Active, callVars, logVars, envVars
  <2>3. Ledger!Return
    BY <2>1, <2>2 DEF Ledger!Return, Ledger!Open, Awaited, Aborted
  <2> QED BY <2>3 DEF Ledger!Next
<1> HIDE DEF TypeOK, Counters, Pool, Calls, CallIds, Awaiting, SyncPoints
<1> QED
  BY <1>1, <1>2, <1>3, <1>4, <1>5, <1>6, <1>7, <1>8, <1>9, <1>10, <1>11, <1>12, <1>13,
         <1>14, <1>15, <1>16, <1>17, <1>18, <1>19, <1>20
  DEF Next, Bodies, Scheduler

(* The batch implements ToolLedger, the ToolExecutor contract of           *)
(* executor.ts: it never settles while started work runs, and returns one  *)
(* result per call.                                                        *)
THEOREM LedgerRefined == Spec => LedgerKept
<1>1. Init => Ledger!Init
  BY DEF Init, Active, Ledger!Init, Awaited, Aborted
<1>2. IInv /\ [Next]_vars => [Ledger!Next]_(Ledger!vars)
  <2>1. CASE Next
    BY <2>1, LedgerStep
  <2>2. CASE UNCHANGED vars
    BY <2>2 DEF vars, envVars, callVars, logVars, schedVars, Active, Ledger!vars, Awaited, Aborted
  <2> QED BY <2>1, <2>2
<1> QED BY <1>1, <1>2, BatchInductive, PTL DEF Spec, LedgerKept, Ledger!Spec
=============================================================================
