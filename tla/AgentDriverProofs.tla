------------------------- MODULE AgentDriverProofs -------------------------
(***************************************************************************)
(* Proofs about AgentDriver, for every set of messages, calls and causes   *)
(* and every value of the bounds.                                          *)
(***************************************************************************)
EXTENDS AgentDriverProps, SequenceTheorems, TLAPS

-----------------------------------------------------------------------------
(* The next-turn list holds no message twice. *)

Distinct(s) == \A i, j \in 1 .. Len(s) : s[i] = s[j] => i = j

(* Claiming the head takes exactly that message out of the list.           *)
LEMMA TailOfQueue ==
  ASSUME NEW S, NEW s \in Seq(S), s # <<>>, Distinct(s)
  PROVE  /\ Tail(s) \in Seq(S) /\ Head(s) \in S
         /\ Distinct(Tail(s))
         /\ ToSet(Tail(s)) = ToSet(s) \ {Head(s)}
         /\ Head(s) \in ToSet(s)
<1>1. /\ Tail(s) \in Seq(S) /\ Head(s) \in S /\ Len(Tail(s)) = Len(s) - 1
      /\ \A i \in 1 .. Len(Tail(s)) : Tail(s)[i] = s[i + 1]
  BY HeadTailProperties
<1>2. Len(s) \in Nat \ {0} /\ Head(s) = s[1] /\ DOMAIN s = 1 .. Len(s)
  BY EmptySeq, LenProperties
<1>3. DOMAIN Tail(s) = 1 .. Len(Tail(s))
  BY <1>1, LenProperties
<1>4. Distinct(Tail(s))
  <2> SUFFICES ASSUME NEW i \in 1 .. Len(Tail(s)), NEW j \in 1 .. Len(Tail(s)),
                      Tail(s)[i] = Tail(s)[j]
               PROVE  i = j
    BY DEF Distinct
  <2>1. i + 1 \in 1 .. Len(s) /\ j + 1 \in 1 .. Len(s) /\ s[i + 1] = s[j + 1]
    BY <1>1, <1>2
  <2> QED BY <2>1 DEF Distinct
<1>5. ASSUME NEW x PROVE x \in ToSet(Tail(s)) <=> x \in ToSet(s) /\ x # Head(s)
  <2>1. ASSUME x \in ToSet(Tail(s)) PROVE x \in ToSet(s) /\ x # Head(s)
    <3>1. PICK i \in 1 .. Len(Tail(s)) : x = Tail(s)[i]
      BY <2>1, <1>3 DEF ToSet
    <3>2. i + 1 \in 1 .. Len(s) /\ x = s[i + 1] /\ 1 \in 1 .. Len(s) /\ i + 1 # 1
      BY <3>1, <1>1, <1>2
    <3> QED BY <3>2, <1>2 DEF ToSet, Distinct
  <2>2. ASSUME x \in ToSet(s), x # Head(s) PROVE x \in ToSet(Tail(s))
    <3>1. PICK i \in 1 .. Len(s) : x = s[i]
      BY <2>2, <1>2 DEF ToSet
    <3>2. i # 1 /\ i - 1 \in 1 .. Len(Tail(s)) /\ x = Tail(s)[i - 1]
      BY <3>1, <2>2, <1>1, <1>2
    <3> QED BY <3>2, <1>3 DEF ToSet
  <2> QED BY <2>1, <2>2
<1>6. Head(s) \in ToSet(s)
  BY <1>2 DEF ToSet
<1> QED BY <1>1, <1>4, <1>5, <1>6

(* Withdrawing one entry takes exactly that message out of the list.       *)
LEMMA RemoveFromQueue ==
  ASSUME NEW S, NEW s \in Seq(S), NEW k \in 1 .. Len(s), Distinct(s)
  PROVE  /\ RemoveAt(s, k) \in Seq(S)
         /\ Distinct(RemoveAt(s, k))
         /\ ToSet(RemoveAt(s, k)) = ToSet(s) \ {s[k]}
<1> DEFINE a == SubSeq(s, 1, k - 1)
           b == SubSeq(s, k + 1, Len(s))
           r == RemoveAt(s, k)
<1>1. Len(s) \in Nat /\ DOMAIN s = 1 .. Len(s) /\ \A i \in 1 .. Len(s) : s[i] \in S
  BY LenProperties, ElementOfSeq
<1>2. a \in Seq(S) /\ Len(a) = k - 1 /\ \A i \in 1 .. k - 1 : a[i] = s[i]
  <2>1. k - 1 \in Int /\ 1 \in Int /\ \A i \in 1 .. k - 1 : s[i] \in S
    BY <1>1
  <2>2. /\ a \in Seq(S) /\ Len(a) = IF 1 <= k - 1 THEN k - 1 - 1 + 1 ELSE 0
        /\ \A i \in 1 .. k - 1 - 1 + 1 : a[i] = s[1 + i - 1]
    BY <2>1, SubSeqProperties
  <2> QED BY <2>2, <1>1
<1>3. /\ b \in Seq(S) /\ Len(b) = Len(s) - k
      /\ \A i \in 1 .. Len(s) - k : b[i] = s[k + i]
  <2>1. k + 1 \in Int /\ Len(s) \in Int /\ \A i \in k + 1 .. Len(s) : s[i] \in S
    BY <1>1
  <2>2. /\ b \in Seq(S) /\ Len(b) = IF k + 1 <= Len(s) THEN Len(s) - (k + 1) + 1 ELSE 0
        /\ \A i \in 1 .. Len(s) - (k + 1) + 1 : b[i] = s[k + 1 + i - 1]
    BY <2>1, SubSeqProperties
  <2> HIDE DEF b
  <2>3. Len(b) = Len(s) - k
    <3>1. Len(b) = IF k + 1 <= Len(s) THEN Len(s) - (k + 1) + 1 ELSE 0
      BY <2>2
    <3>2. Len(s) \in Nat /\ k \in 1 .. Len(s)
      BY <1>1
    <3> QED BY <3>1, <3>2
  <2>4. ASSUME NEW i \in 1 .. Len(s) - k PROVE b[i] = s[k + i]
    <3>1. i \in 1 .. Len(s) - (k + 1) + 1 /\ k + 1 + i - 1 = k + i
      BY <1>1
    <3> QED BY <3>1, <2>2
  <2> QED BY <2>2, <2>3, <2>4
<1>4. /\ r \in Seq(S) /\ Len(r) = Len(s) - 1
      /\ \A i \in 1 .. Len(r) : r[i] = IF i < k THEN s[i] ELSE s[i + 1]
  <2>1. r = a \o b
    BY DEF RemoveAt
  <2> HIDE DEF a, b, r
  <2>2. /\ r \in Seq(S) /\ Len(r) = Len(a) + Len(b)
        /\ \A i \in 1 .. Len(a) + Len(b) : r[i] = IF i <= Len(a) THEN a[i] ELSE b[i - Len(a)]
    <3>1. a \in Seq(S) /\ b \in Seq(S)
      BY <1>2, <1>3
    <3>2. /\ a \o b \in Seq(S) /\ Len(a \o b) = Len(a) + Len(b)
          /\ \A i \in 1 .. Len(a) + Len(b) :
               (a \o b)[i] = IF i <= Len(a) THEN a[i] ELSE b[i - Len(a)]
      BY <3>1, ConcatProperties
    <3> QED BY <2>1, <3>2, Zenon
  <2>3. Len(r) = Len(s) - 1
    BY <2>2, <1>2, <1>3, <1>1
  <2>4. ASSUME NEW i \in 1 .. Len(r) PROVE r[i] = IF i < k THEN s[i] ELSE s[i + 1]
    <3>1. CASE i < k
      BY <3>1, <2>2, <2>3, <1>1, <1>2
    <3>2. CASE ~(i < k)
      <4>1. /\ i \in 1 .. Len(a) + Len(b) /\ ~(i <= Len(a))
            /\ i - Len(a) \in 1 .. Len(s) - k /\ k + (i - Len(a)) = i + 1
        BY <3>2, <2>2, <2>3, <1>1, <1>2
      <4>2. r[i] = b[i - Len(a)]
        BY <4>1, <2>2
      <4>3. b[i - Len(a)] = s[k + (i - Len(a))]
        BY <4>1, <1>3
      <4> QED BY <4>1, <4>2, <4>3, <3>2
    <3> QED BY <3>1, <3>2
  <2> QED BY <2>2, <2>3, <2>4
<1> HIDE DEF a, b, r
<1>5. DOMAIN r = 1 .. Len(r)
  BY <1>4, LenProperties
<1>6. Distinct(r)
  <2> SUFFICES ASSUME NEW i \in 1 .. Len(r), NEW j \in 1 .. Len(r), r[i] = r[j]
               PROVE  i = j
    BY DEF Distinct
  <2>1. PICK u \in 1 .. Len(s) : r[i] = s[u] /\ u = IF i < k THEN i ELSE i + 1
    BY <1>4, <1>1
  <2>2. PICK v \in 1 .. Len(s) : r[j] = s[v] /\ v = IF j < k THEN j ELSE j + 1
    BY <1>4, <1>1
  <2>3. u = v
    BY <2>1, <2>2 DEF Distinct
  <2> QED BY <2>1, <2>2, <2>3
<1>7. ASSUME NEW x PROVE x \in ToSet(r) <=> x \in ToSet(s) /\ x # s[k]
  <2>1. ASSUME x \in ToSet(r) PROVE x \in ToSet(s) /\ x # s[k]
    <3>1. PICK i \in 1 .. Len(r) : x = r[i]
      BY <2>1, <1>5 DEF ToSet
    <3>2. PICK u \in 1 .. Len(s) : x = s[u] /\ u # k
      BY <3>1, <1>4, <1>1
    <3> QED BY <3>2, <1>1 DEF ToSet, Distinct
  <2>2. ASSUME x \in ToSet(s), x # s[k] PROVE x \in ToSet(r)
    <3>1. PICK u \in 1 .. Len(s) : x = s[u]
      BY <2>2, <1>1 DEF ToSet
    <3>2. CASE u < k
      <4>1. u \in 1 .. Len(r) /\ r[u] = x
        BY <3>1, <3>2, <1>4, <1>1
      <4> QED BY <4>1, <1>5 DEF ToSet
    <3>3. CASE u > k
      <4>1. u - 1 \in 1 .. Len(r) /\ r[u - 1] = x
        BY <3>1, <3>3, <1>4, <1>1
      <4> QED BY <4>1, <1>5 DEF ToSet
    <3>4. u # k
      BY <3>1, <2>2
    <3> QED BY <3>2, <3>3, <3>4
  <2> QED BY <2>1, <2>2
<1> QED BY <1>4, <1>6, <1>7 DEF r

(* Queueing a new message appends exactly that message to the list.        *)
LEMMA AppendToQueue ==
  ASSUME NEW S, NEW s \in Seq(S), NEW m \in S, Distinct(s), m \notin ToSet(s)
  PROVE  /\ Append(s, m) \in Seq(S)
         /\ Distinct(Append(s, m))
         /\ ToSet(Append(s, m)) = ToSet(s) \cup {m}
<1> DEFINE r == Append(s, m)
<1>1. Len(s) \in Nat /\ DOMAIN s = 1 .. Len(s)
  BY LenProperties
<1>2. /\ r \in Seq(S) /\ Len(r) = Len(s) + 1
      /\ \A i \in 1 .. Len(s) : r[i] = s[i]
      /\ r[Len(s) + 1] = m
  BY <1>1
<1> HIDE DEF r
<1>3. DOMAIN r = 1 .. Len(s) + 1
  BY <1>2, LenProperties
<1>4. Distinct(r)
  <2> SUFFICES ASSUME NEW i \in 1 .. Len(r), NEW j \in 1 .. Len(r), r[i] = r[j]
               PROVE  i = j
    BY DEF Distinct
  <2>1. \A n \in 1 .. Len(s) : s[n] # m
    BY <1>1 DEF ToSet
  <2>2. (i \in 1 .. Len(s) \/ i = Len(s) + 1) /\ (j \in 1 .. Len(s) \/ j = Len(s) + 1)
    BY <1>1, <1>2
  <2> QED BY <2>1, <2>2, <1>2 DEF Distinct
<1>5. ToSet(r) = ToSet(s) \cup {m}
  <2>1. ASSUME NEW x \in ToSet(r) PROVE x \in ToSet(s) \cup {m}
    BY <1>1, <1>2, <1>3 DEF ToSet
  <2>2. ASSUME NEW x \in ToSet(s) \cup {m} PROVE x \in ToSet(r)
    BY <1>1, <1>2, <1>3 DEF ToSet
  <2> QED BY <2>1, <2>2
<1> QED BY <1>2, <1>4, <1>5 DEF r

LEMMA EmptyQueue == ToSet(<<>>) = {} /\ Distinct(<<>>) /\ \A S : <<>> \in Seq(S)
  BY DEF ToSet, Distinct

-----------------------------------------------------------------------------
(* One step of the driver or its environment, action by action. *)

LEMMA FlagsStep ==
  ASSUME TypeFlags, Next
  PROVE  TypeFlags'
<1> USE DEF TypeFlags, At, vars, phaseVars, inboxVars, ctlVars, logVars, clearVars, frameVars,
       histVars
<1>1. ASSUME NEW m \in Msgs, NEW to \in Targets, NEW wake \in BOOLEAN, Send(m, to, wake)
       PROVE TypeFlags'
  BY <1>1 DEF Send, Enqueue, WakingAfterAbort, Aborted, Mark
<1>2. ASSUME SendWake PROVE TypeFlags'
  BY <1>2 DEF SendWake, WakeDriver, StartDriver, LatchWake, Latches
<1>3. ASSUME NEW m \in Msgs, Withdraw(m) PROVE TypeFlags'
  BY <1>3 DEF Withdraw, Mark
<1>4. ASSUME NEW cause \in Causes, NEW k \in BOOLEAN, Cancel(cause, k) PROVE TypeFlags'
  BY <1>4 DEF Cancel, AbortActivity, Mark, QueuedMsgs, Aborted
<1>5. ASSUME BeginMaintenance PROVE TypeFlags'
  BY <1>5 DEF BeginMaintenance
<1>6. ASSUME EndMaintenance PROVE TypeFlags'
  BY <1>6 DEF EndMaintenance, StartDriver, ReleasesWake, HasPending, Aborted
<1>7. ASSUME OpenTurn PROVE TypeFlags'
  BY <1>7 DEF OpenTurn, Unaborted, Aborted
<1>8. ASSUME ClaimBatch PROVE TypeFlags'
  BY <1>8 DEF ClaimBatch, Unaborted, Aborted, Mark
<1>9. ASSUME LoopAborted PROVE TypeFlags'
  BY <1>9 DEF LoopAborted, Aborted
<1>10. ASSUME PreStepThrows PROVE TypeFlags'
  BY <1>10 DEF PreStepThrows, DropUnadmitted, Mark
<1>11. ASSUME NEW verdict \in Verdicts, NEW kept \in SUBSET Msgs, PreStepReturns(verdict, kept)
       PROVE TypeFlags'
  BY <1>11 DEF PreStepReturns, Mark, Unaborted, Aborted, Verdicts
<1>12. ASSUME DecisionBlocks PROVE TypeFlags'
  BY <1>12 DEF DecisionBlocks, CloseTurn
<1>13. ASSUME AdmitRequest PROVE TypeFlags'
  BY <1>13 DEF AdmitRequest, FirstAttempt, Mark, Unaborted, Aborted
<1>14. ASSUME PrepareThrows PROVE TypeFlags'
  BY <1>14 DEF PrepareThrows, StepThrows
<1>15. ASSUME StreamThrows PROVE TypeFlags'
  BY <1>15 DEF StreamThrows, StepThrows
<1>16. ASSUME StreamFails PROVE TypeFlags'
  BY <1>16 DEF StreamFails
<1>17. ASSUME RetryRequest PROVE TypeFlags'
  BY <1>17 DEF RetryRequest
<1>18. ASSUME RequestErrorThrows PROVE TypeFlags'
  BY <1>18 DEF RequestErrorThrows, StepThrows
<1>19. ASSUME NEW end \in StepEnds, ReplyEndsStep(end) PROVE TypeFlags'
  BY <1>19 DEF ReplyEndsStep, StepReturns, StickyEnd
<1>20. ASSUME NEW calls \in SUBSET Calls, ReplyCallsTools(calls) PROVE TypeFlags'
  BY <1>20 DEF ReplyCallsTools
<1>21. ASSUME NEW c \in Calls, CallTool(c) PROVE TypeFlags'
  BY <1>21 DEF CallTool
<1>22. ASSUME NEW c \in Calls, ToolResult(c) PROVE TypeFlags'
  BY <1>22 DEF ToolResult
<1>23. ASSUME NEW contexts \in ContextChoices, NEW concluded \in BOOLEAN,
       ToolsReturn(contexts, concluded) PROVE TypeFlags'
  BY <1>23 DEF ToolsReturn, SpliceContexts, StepReturns, StickyEnd, Mark
<1>24. ASSUME NEW contexts \in ContextChoices, ToolsThrow(contexts) PROVE TypeFlags'
  BY <1>24 DEF ToolsThrow, SpliceContexts, StepThrows, Mark
<1>25. ASSUME RecoverCalls PROVE TypeFlags'
  BY <1>25 DEF RecoverCalls, Recovered
<1>26. ASSUME CloseFailedStep PROVE TypeFlags'
  BY <1>26 DEF CloseFailedStep, DropUnadmitted, Mark
<1>27. ASSUME AfterStep PROVE TypeFlags'
  BY <1>27 DEF AfterStep, Stops, ContinueTurn
<1>28. ASSUME StoppingSettles PROVE TypeFlags'
  BY <1>28 DEF StoppingSettles, CloseTurn, ContinueTurn
<1>29. ASSUME StoppingThrows PROVE TypeFlags'
  BY <1>29 DEF StoppingThrows
<1>30. ASSUME CatchTurn PROVE TypeFlags'
  BY <1>30 DEF CatchTurn, CloseTurn, Aborted
<1>31. ASSUME ReportError PROVE TypeFlags'
  BY <1>31 DEF ReportError, CloseTurn
<1>32. ASSUME AfterTurn PROVE TypeFlags'
  BY <1>32 DEF AfterTurn, HasPending
<1>33. ASSUME KickSettles PROVE TypeFlags'
  BY <1>33 DEF KickSettles
<1>34. ASSUME ReplayWake PROVE TypeFlags'
  BY <1>34 DEF ReplayWake, WakeDriver, StartDriver, LatchWake, Latches
<1>35. ASSUME NEW cause \in Causes, CancelClears(cause) PROVE TypeFlags'
  BY <1>35 DEF CancelClears, Mark
<1>36. ASSUME ClearNextTurn PROVE TypeFlags'
  BY <1>36 DEF ClearNextTurn, Mark
<1>37. ASSUME AbortAfterClear PROVE TypeFlags'
  BY <1>37 DEF AbortAfterClear, AbortActivity, Aborted
<1>38. ASSUME DecisionEndsTurn PROVE TypeFlags'
  BY <1>38 DEF DecisionEndsTurn, CloseTurn
<1>39. ASSUME DecisionCompletes PROVE TypeFlags'
  BY <1>39 DEF DecisionCompletes, CloseTurn
<1>40. ASSUME OpenStep PROVE TypeFlags'
  BY <1>40 DEF OpenStep, EntersStep, Unaborted, Aborted
<1>41. ASSUME OpenStepThrows PROVE TypeFlags'
  BY <1>41 DEF OpenStepThrows, EntersStep, DropUnadmitted, Mark, Aborted
<1> HIDE DEF TypeFlags, At, vars, phaseVars, inboxVars, ctlVars, logVars, clearVars, frameVars,
       histVars
<1> QED BY <1>1, <1>2, <1>3, <1>4, <1>5, <1>6, <1>7, <1>8, <1>9, <1>10, <1>11, <1>12,
       <1>13, <1>14, <1>15, <1>16, <1>17, <1>18, <1>19, <1>20, <1>21, <1>22, <1>23,
       <1>24, <1>25, <1>26, <1>27, <1>28, <1>29, <1>30, <1>31, <1>32, <1>33, <1>34,
       <1>35, <1>36, <1>37, <1>38, <1>39, <1>40, <1>41
       DEF Next, Environment, Driver, StepActions, TurnActions

LEMMA DataStep ==
  ASSUME TypeData, Control, Placement, Next
  PROVE  TypeData'
<1> USE DEF TypeData, Targets, Endings, StepEnds, Points, NoCalls, Control, TurnPoints,
       StepPoints, At, vars, phaseVars, inboxVars, ctlVars, logVars, clearVars, frameVars, histVars
<1>1. ASSUME NEW m \in Msgs, NEW to \in Targets, NEW wake \in BOOLEAN, Send(m, to, wake)
       PROVE TypeData'
  <2>1. Append(nextTurn, m) \in Seq(Msgs)
    OBVIOUS
  <2>2. nextTurn' \in Seq(Msgs)
    BY <1>1, <2>1 DEF Send, Enqueue
  <2> QED BY <1>1, <2>2 DEF Send, Enqueue, WakingAfterAbort, Aborted, Mark
<1>2. ASSUME SendWake PROVE TypeData'
  BY <1>2 DEF SendWake, WakeDriver, StartDriver, LatchWake, Latches
<1>3. ASSUME NEW m \in Msgs, Withdraw(m) PROVE TypeData'
  <2>1. nextTurn' \in Seq(Msgs)
    BY <1>3, RemoveFromQueue DEF Withdraw, Placement, MessageAccounting, Distinct
  <2> QED BY <1>3, <2>1 DEF Withdraw, Mark
<1>4. ASSUME NEW cause \in Causes, NEW k \in BOOLEAN, Cancel(cause, k) PROVE TypeData'
  <2>1. nextTurn' \in Seq(Msgs)
    BY <1>4, EmptyQueue DEF Cancel
  <2> QED BY <1>4, <2>1 DEF Cancel, AbortActivity, Mark, Aborted
<1>5. ASSUME BeginMaintenance PROVE TypeData'
  BY <1>5 DEF BeginMaintenance
<1>6. ASSUME EndMaintenance PROVE TypeData'
  BY <1>6 DEF EndMaintenance, StartDriver, ReleasesWake, HasPending, Aborted
<1>7. ASSUME OpenTurn PROVE TypeData'
  BY <1>7 DEF OpenTurn, Unaborted, Aborted
<1>8. ASSUME ClaimBatch PROVE TypeData'
  BY <1>8 DEF ClaimBatch, Unaborted, Aborted, Mark
<1>9. ASSUME LoopAborted PROVE TypeData'
  BY <1>9 DEF LoopAborted, Aborted
<1>10. ASSUME PreStepThrows PROVE TypeData'
  BY <1>10 DEF PreStepThrows, DropUnadmitted, Mark
<1>11. ASSUME NEW verdict \in Verdicts, NEW kept \in SUBSET Msgs, PreStepReturns(verdict, kept)
       PROVE TypeData'
  BY <1>11 DEF PreStepReturns, Mark, Unaborted, Aborted, Verdicts
<1>12. ASSUME DecisionBlocks PROVE TypeData'
  BY <1>12 DEF DecisionBlocks, CloseTurn
<1>13. ASSUME AdmitRequest PROVE TypeData'
  BY <1>13 DEF AdmitRequest, FirstAttempt, Mark, Unaborted, Aborted
<1>14. ASSUME PrepareThrows PROVE TypeData'
  BY <1>14 DEF PrepareThrows, StepThrows
<1>15. ASSUME StreamThrows PROVE TypeData'
  BY <1>15 DEF StreamThrows, StepThrows
<1>16. ASSUME StreamFails PROVE TypeData'
  BY <1>16 DEF StreamFails
<1>17. ASSUME RetryRequest PROVE TypeData'
  BY <1>17 DEF RetryRequest
<1>18. ASSUME RequestErrorThrows PROVE TypeData'
  BY <1>18 DEF RequestErrorThrows, StepThrows
<1>19. ASSUME NEW end \in StepEnds, ReplyEndsStep(end) PROVE TypeData'
  BY <1>19 DEF ReplyEndsStep, StepReturns, StickyEnd
<1>20. ASSUME NEW calls \in SUBSET Calls, ReplyCallsTools(calls) PROVE TypeData'
  BY <1>20 DEF ReplyCallsTools
<1>21. ASSUME NEW c \in Calls, CallTool(c) PROVE TypeData'
  BY <1>21 DEF CallTool
<1>22. ASSUME NEW c \in Calls, ToolResult(c) PROVE TypeData'
  BY <1>22 DEF ToolResult
<1>23. ASSUME NEW contexts \in ContextChoices, NEW concluded \in BOOLEAN,
       ToolsReturn(contexts, concluded) PROVE TypeData'
  BY <1>23 DEF ToolsReturn, SpliceContexts, StepReturns, StickyEnd, Mark
<1>24. ASSUME NEW contexts \in ContextChoices, ToolsThrow(contexts) PROVE TypeData'
  BY <1>24 DEF ToolsThrow, SpliceContexts, StepThrows, Mark
<1>25. ASSUME RecoverCalls PROVE TypeData'
  BY <1>25 DEF RecoverCalls, Recovered
<1>26. ASSUME CloseFailedStep PROVE TypeData'
  BY <1>26 DEF CloseFailedStep, DropUnadmitted, Mark
<1>27. ASSUME AfterStep PROVE TypeData'
  BY <1>27 DEF AfterStep, Stops, ContinueTurn
<1>28. ASSUME StoppingSettles PROVE TypeData'
  BY <1>28 DEF StoppingSettles, CloseTurn, ContinueTurn
<1>29. ASSUME StoppingThrows PROVE TypeData'
  BY <1>29 DEF StoppingThrows
<1>30. ASSUME CatchTurn PROVE TypeData'
  BY <1>30 DEF CatchTurn, CloseTurn, Aborted
<1>31. ASSUME ReportError PROVE TypeData'
  BY <1>31 DEF ReportError, CloseTurn
<1>32. ASSUME AfterTurn PROVE TypeData'
  BY <1>32 DEF AfterTurn, HasPending
<1>33. ASSUME KickSettles PROVE TypeData'
  BY <1>33 DEF KickSettles
<1>34. ASSUME ReplayWake PROVE TypeData'
  BY <1>34 DEF ReplayWake, WakeDriver, StartDriver, LatchWake, Latches
<1>35. ASSUME NEW cause \in Causes, CancelClears(cause) PROVE TypeData'
  <2>1. nextTurn' \in Seq(Msgs)
    BY <1>35, EmptyQueue DEF CancelClears
  <2> QED BY <1>35, <2>1 DEF CancelClears, Mark
<1>36. ASSUME ClearNextTurn PROVE TypeData'
  <2>1. nextTurn' \in Seq(Msgs)
    BY <1>36, EmptyQueue DEF ClearNextTurn
  <2> QED BY <1>36, <2>1 DEF ClearNextTurn, Mark
<1>37. ASSUME AbortAfterClear PROVE TypeData'
  <2>1. Disposed \in Causes
    BY DriverConstants
  <2> QED BY <1>37, <2>1 DEF AbortAfterClear, AbortActivity, Aborted
<1>38. ASSUME DecisionEndsTurn PROVE TypeData'
  BY <1>38 DEF DecisionEndsTurn, CloseTurn
<1>39. ASSUME DecisionCompletes PROVE TypeData'
  BY <1>39 DEF DecisionCompletes, CloseTurn
<1>40. ASSUME OpenStep PROVE TypeData'
  BY <1>40 DEF OpenStep, EntersStep, Unaborted, Aborted
<1>41. ASSUME OpenStepThrows PROVE TypeData'
  BY <1>41 DEF OpenStepThrows, EntersStep, DropUnadmitted, Mark, Aborted
<1> HIDE DEF TypeData, Targets, Endings, StepEnds, Points, NoCalls, Control, TurnPoints,
       StepPoints, At, vars, phaseVars, inboxVars, ctlVars, logVars, clearVars, frameVars, histVars
<1> QED BY <1>1, <1>2, <1>3, <1>4, <1>5, <1>6, <1>7, <1>8, <1>9, <1>10, <1>11, <1>12,
       <1>13, <1>14, <1>15, <1>16, <1>17, <1>18, <1>19, <1>20, <1>21, <1>22, <1>23,
       <1>24, <1>25, <1>26, <1>27, <1>28, <1>29, <1>30, <1>31, <1>32, <1>33, <1>34,
       <1>35, <1>36, <1>37, <1>38, <1>39, <1>40, <1>41
       DEF Next, Environment, Driver, StepActions, TurnActions

LEMMA ControlStep ==
  ASSUME TypeData, Control, Next
  PROVE  Control'
<1> USE DEF TypeData, Targets, Endings, StepEnds, Points, NoCalls, Control, TurnPoints,
       StepPoints, At, vars, phaseVars, inboxVars, ctlVars, logVars, clearVars, frameVars, histVars
<1>1. ASSUME NEW m \in Msgs, NEW to \in Targets, NEW wake \in BOOLEAN, Send(m, to, wake)
       PROVE Control'
  BY <1>1 DEF Send, Enqueue, WakingAfterAbort, Aborted, Mark
<1>2. ASSUME SendWake PROVE Control'
  BY <1>2 DEF SendWake, WakeDriver, StartDriver, LatchWake, Latches
<1>3. ASSUME NEW m \in Msgs, Withdraw(m) PROVE Control'
  BY <1>3 DEF Withdraw, Mark
<1>4. ASSUME NEW cause \in Causes, NEW k \in BOOLEAN, Cancel(cause, k) PROVE Control'
  BY <1>4 DEF Cancel, AbortActivity, Mark, QueuedMsgs, Aborted
<1>5. ASSUME BeginMaintenance PROVE Control'
  BY <1>5 DEF BeginMaintenance
<1>6. ASSUME EndMaintenance PROVE Control'
  BY <1>6 DEF EndMaintenance, StartDriver, ReleasesWake, HasPending, Aborted
<1>7. ASSUME OpenTurn PROVE Control'
  BY <1>7 DEF OpenTurn, Unaborted, Aborted
<1>8. ASSUME ClaimBatch PROVE Control'
  BY <1>8 DEF ClaimBatch, Unaborted, Aborted, Mark
<1>9. ASSUME LoopAborted PROVE Control'
  BY <1>9 DEF LoopAborted, Aborted
<1>10. ASSUME PreStepThrows PROVE Control'
  BY <1>10 DEF PreStepThrows, DropUnadmitted, Mark
<1>11. ASSUME NEW verdict \in Verdicts, NEW kept \in SUBSET Msgs, PreStepReturns(verdict, kept)
       PROVE Control'
  BY <1>11 DEF PreStepReturns, Mark, Unaborted, Aborted, Verdicts
<1>12. ASSUME DecisionBlocks PROVE Control'
  BY <1>12 DEF DecisionBlocks, CloseTurn
<1>13. ASSUME AdmitRequest PROVE Control'
  BY <1>13 DEF AdmitRequest, FirstAttempt, Mark, Unaborted, Aborted
<1>14. ASSUME PrepareThrows PROVE Control'
  BY <1>14 DEF PrepareThrows, StepThrows
<1>15. ASSUME StreamThrows PROVE Control'
  BY <1>15 DEF StreamThrows, StepThrows
<1>16. ASSUME StreamFails PROVE Control'
  BY <1>16 DEF StreamFails
<1>17. ASSUME RetryRequest PROVE Control'
  BY <1>17 DEF RetryRequest
<1>18. ASSUME RequestErrorThrows PROVE Control'
  BY <1>18 DEF RequestErrorThrows, StepThrows
<1>19. ASSUME NEW end \in StepEnds, ReplyEndsStep(end) PROVE Control'
  BY <1>19 DEF ReplyEndsStep, StepReturns, StickyEnd
<1>20. ASSUME NEW calls \in SUBSET Calls, ReplyCallsTools(calls) PROVE Control'
  BY <1>20 DEF ReplyCallsTools
<1>21. ASSUME NEW c \in Calls, CallTool(c) PROVE Control'
  BY <1>21 DEF CallTool
<1>22. ASSUME NEW c \in Calls, ToolResult(c) PROVE Control'
  BY <1>22 DEF ToolResult
<1>23. ASSUME NEW contexts \in ContextChoices, NEW concluded \in BOOLEAN,
       ToolsReturn(contexts, concluded) PROVE Control'
  BY <1>23 DEF ToolsReturn, SpliceContexts, StepReturns, StickyEnd, Mark
<1>24. ASSUME NEW contexts \in ContextChoices, ToolsThrow(contexts) PROVE Control'
  BY <1>24 DEF ToolsThrow, SpliceContexts, StepThrows, Mark
<1>25. ASSUME RecoverCalls PROVE Control'
  BY <1>25 DEF RecoverCalls, Recovered
<1>26. ASSUME CloseFailedStep PROVE Control'
  BY <1>26 DEF CloseFailedStep, DropUnadmitted, Mark
<1>27. ASSUME AfterStep PROVE Control'
  BY <1>27 DEF AfterStep, Stops, ContinueTurn
<1>28. ASSUME StoppingSettles PROVE Control'
  BY <1>28 DEF StoppingSettles, CloseTurn, ContinueTurn
<1>29. ASSUME StoppingThrows PROVE Control'
  BY <1>29 DEF StoppingThrows
<1>30. ASSUME CatchTurn PROVE Control'
  BY <1>30 DEF CatchTurn, CloseTurn, Aborted
<1>31. ASSUME ReportError PROVE Control'
  BY <1>31 DEF ReportError, CloseTurn
<1>32. ASSUME AfterTurn PROVE Control'
  BY <1>32 DEF AfterTurn, HasPending
<1>33. ASSUME KickSettles PROVE Control'
  BY <1>33 DEF KickSettles
<1>34. ASSUME ReplayWake PROVE Control'
  BY <1>34 DEF ReplayWake, WakeDriver, StartDriver, LatchWake, Latches
<1>35. ASSUME NEW cause \in Causes, CancelClears(cause) PROVE Control'
  BY <1>35 DEF CancelClears, Mark
<1>36. ASSUME ClearNextTurn PROVE Control'
  BY <1>36 DEF ClearNextTurn, Mark
<1>37. ASSUME AbortAfterClear PROVE Control'
  BY <1>37 DEF AbortAfterClear, AbortActivity, Aborted
<1>38. ASSUME DecisionEndsTurn PROVE Control'
  BY <1>38 DEF DecisionEndsTurn, CloseTurn
<1>39. ASSUME DecisionCompletes PROVE Control'
  BY <1>39 DEF DecisionCompletes, CloseTurn
<1>40. ASSUME OpenStep PROVE Control'
  BY <1>40 DEF OpenStep, EntersStep, Unaborted, Aborted
<1>41. ASSUME OpenStepThrows PROVE Control'
  BY <1>41 DEF OpenStepThrows, EntersStep, DropUnadmitted, Mark, Aborted
<1> HIDE DEF TypeData, Targets, Endings, StepEnds, Points, NoCalls, Control, TurnPoints,
       StepPoints, At, vars, phaseVars, inboxVars, ctlVars, logVars, clearVars, frameVars, histVars
<1> QED BY <1>1, <1>2, <1>3, <1>4, <1>5, <1>6, <1>7, <1>8, <1>9, <1>10, <1>11, <1>12,
       <1>13, <1>14, <1>15, <1>16, <1>17, <1>18, <1>19, <1>20, <1>21, <1>22, <1>23,
       <1>24, <1>25, <1>26, <1>27, <1>28, <1>29, <1>30, <1>31, <1>32, <1>33, <1>34,
       <1>35, <1>36, <1>37, <1>38, <1>39, <1>40, <1>41
       DEF Next, Environment, Driver, StepActions, TurnActions

(* The inbox holds the messages S after the step, each in one place. *)
QueuedBecome(S) ==
    /\ QueuedMsgs' = S
    /\ Distinct(nextTurn')
    /\ (ToSet(nextTurn) \cap nextStep = {})'

LEMMA PlacementStep ==
  ASSUME TypeData, Control, Placement, Next
  PROVE  Placement'
<1> USE DEF TypeData, Placement, MessageAccounting, QueuedMsgs, Targets, Endings,
       StepEnds, Points, NoCalls, Control, TurnPoints, StepPoints, At, vars, phaseVars,
       inboxVars, ctlVars, logVars, clearVars, frameVars, histVars
<1>1. ASSUME NEW m \in Msgs, NEW to \in Targets, NEW wake \in BOOLEAN, Send(m, to, wake)
       PROVE Placement'
  <2>1. m \in Msgs /\ m \notin QueuedMsgs /\ m \notin batch /\ userLog[m] = 0
    BY <1>1 DEF Send
  <2>2. fate' = [fate EXCEPT ![m] = "queued"] /\ UNCHANGED <<pc, attempt, batch,
         decision, userLog>>
    BY <1>1 DEF Send, Mark
  <2>3. QueuedBecome(QueuedMsgs \cup {m})
    <3>1. CASE nextTurn' = Append(nextTurn, m) /\ UNCHANGED nextStep
      <4>1. /\ Distinct(Append(nextTurn, m))
            /\ ToSet(Append(nextTurn, m)) = ToSet(nextTurn) \cup {m}
        BY <2>1, AppendToQueue DEF Distinct, QueuedBecome
      <4> QED BY <3>1, <4>1, <2>1 DEF QueuedBecome
    <3>2. CASE nextStep' = nextStep \cup {m} /\ UNCHANGED nextTurn
      BY <3>2, <2>1 DEF Distinct, QueuedBecome
    <3> QED BY <1>1, <3>1, <3>2 DEF Send, Enqueue
  <2> QED BY <2>1, <2>2, <2>3 DEF Distinct, QueuedBecome
<1>2. ASSUME SendWake PROVE Placement'
  BY <1>2 DEF SendWake, WakeDriver, StartDriver, LatchWake, Latches
<1>3. ASSUME NEW m \in Msgs, Withdraw(m) PROVE Placement'
  <2>1. fate' = [fate EXCEPT ![m] = "discarded"] /\ UNCHANGED <<pc, attempt, batch,
         decision, userLog>>
    BY <1>3 DEF Withdraw, Mark
  <2>2. m \in QueuedMsgs /\ QueuedBecome(QueuedMsgs \ {m})
    <3>1. ASSUME NEW i \in 1 .. Len(nextTurn), nextTurn[i] = m,
                 nextTurn' = RemoveAt(nextTurn, i), nextStep' = nextStep
          PROVE  m \in QueuedMsgs /\ QueuedBecome(QueuedMsgs \ {m})
      <4>1. /\ Distinct(RemoveAt(nextTurn, i))
            /\ ToSet(RemoveAt(nextTurn, i)) = ToSet(nextTurn) \ {nextTurn[i]}
        BY <3>1, RemoveFromQueue DEF Distinct, QueuedBecome
      <4>2. m \in ToSet(nextTurn)
        BY <3>1, LenProperties DEF ToSet
      <4> QED BY <3>1, <4>1, <4>2 DEF QueuedBecome
    <3>2. CASE m \in nextStep /\ nextStep' = nextStep \ {m} /\ UNCHANGED nextTurn
      BY <3>2 DEF Distinct, QueuedBecome
    <3> QED BY <1>3, <3>1, <3>2 DEF Withdraw
  <2>3. userLog[m] = 0 /\ m \notin batch
    BY <2>2
  <2> QED BY <2>1, <2>2, <2>3 DEF Distinct, QueuedBecome
<1>4. ASSUME NEW cause \in Causes, NEW k \in BOOLEAN, Cancel(cause, k) PROVE Placement'
  <2>1. CASE k
    BY <1>4, <2>1 DEF Cancel
  <2>2. CASE ~k
    <3>1. /\ fate' = [m \in Msgs |-> IF m \in QueuedMsgs THEN "discarded" ELSE fate[m]]
          /\ nextTurn' = <<>> /\ nextStep' = {} /\ UNCHANGED <<pc, attempt, batch,
                 decision, userLog>>
      BY <1>4, <2>2 DEF Cancel, Mark
    <3>2. QueuedBecome({})
      BY <3>1, EmptyQueue DEF QueuedBecome
    <3> QED BY <3>1, <3>2 DEF Distinct, QueuedBecome
  <2> QED BY <2>1, <2>2
<1>5. ASSUME BeginMaintenance PROVE Placement'
  BY <1>5 DEF BeginMaintenance
<1>6. ASSUME EndMaintenance PROVE Placement'
  BY <1>6 DEF EndMaintenance, StartDriver, ReleasesWake, HasPending, Aborted
<1>7. ASSUME OpenTurn PROVE Placement'
  BY <1>7 DEF OpenTurn, Unaborted, Aborted
<1>8. ASSUME ClaimBatch PROVE Placement'
  <2> DEFINE prompt == target = "next-turn" /\ nextTurn # <<>>
             claimed == nextStep \cup (IF prompt THEN {Head(nextTurn)} ELSE {})
  <2>1. /\ fate' = [m \in Msgs |-> IF m \in claimed THEN "claimed" ELSE fate[m]]
        /\ batch' = claimed /\ nextStep' = {} /\ pc' = "resolving" /\ userLog' = userLog
        /\ nextTurn' = IF prompt THEN Tail(nextTurn) ELSE nextTurn
        /\ batch = {} /\ decision = "none" /\ decision' = decision
    BY <1>8 DEF ClaimBatch, Mark
  <2>2. claimed \subseteq QueuedMsgs /\ QueuedBecome(QueuedMsgs \ claimed)
    <3>1. CASE prompt
      <4>1. /\ Distinct(Tail(nextTurn))
            /\ ToSet(Tail(nextTurn)) = ToSet(nextTurn) \ {Head(nextTurn)}
            /\ Head(nextTurn) \in ToSet(nextTurn)
        BY <3>1, TailOfQueue DEF Distinct, QueuedBecome
      <4> QED BY <2>1, <3>1, <4>1 DEF QueuedBecome
    <3>2. CASE ~prompt
      BY <2>1, <3>2 DEF Distinct, QueuedBecome
    <3> QED BY <3>1, <3>2
  <2>3. claimed \subseteq Msgs
    BY TailOfQueue DEF Distinct
  <2> HIDE DEF claimed
  <2>4. \A m \in claimed : fate[m] = "queued" /\ userLog[m] = 0
    BY <2>2, <2>3
  <2> QED BY <2>1, <2>2, <2>3, <2>4 DEF Distinct, QueuedBecome
<1>9. ASSUME LoopAborted PROVE Placement'
  BY <1>9 DEF LoopAborted, Aborted
<1>10. ASSUME PreStepThrows PROVE Placement'
  BY <1>10 DEF PreStepThrows, DropUnadmitted, Mark
<1>11. ASSUME NEW verdict \in Verdicts, NEW kept \in SUBSET Msgs, PreStepReturns(verdict, kept)
       PROVE Placement'
  BY <1>11 DEF PreStepReturns, Mark, Unaborted, Aborted, Verdicts
<1>12. ASSUME DecisionBlocks PROVE Placement'
  BY <1>12 DEF DecisionBlocks, CloseTurn
<1>13. ASSUME AdmitRequest PROVE Placement'
  BY <1>13 DEF AdmitRequest, FirstAttempt, Mark, Unaborted, Aborted
<1>14. ASSUME PrepareThrows PROVE Placement'
  BY <1>14 DEF PrepareThrows, StepThrows
<1>15. ASSUME StreamThrows PROVE Placement'
  BY <1>15 DEF StreamThrows, StepThrows
<1>16. ASSUME StreamFails PROVE Placement'
  BY <1>16 DEF StreamFails
<1>17. ASSUME RetryRequest PROVE Placement'
  BY <1>17 DEF RetryRequest
<1>18. ASSUME RequestErrorThrows PROVE Placement'
  BY <1>18 DEF RequestErrorThrows, StepThrows
<1>19. ASSUME NEW end \in StepEnds, ReplyEndsStep(end) PROVE Placement'
  BY <1>19 DEF ReplyEndsStep, StepReturns, StickyEnd
<1>20. ASSUME NEW calls \in SUBSET Calls, ReplyCallsTools(calls) PROVE Placement'
  BY <1>20 DEF ReplyCallsTools
<1>21. ASSUME NEW c \in Calls, CallTool(c) PROVE Placement'
  BY <1>21 DEF CallTool
<1>22. ASSUME NEW c \in Calls, ToolResult(c) PROVE Placement'
  BY <1>22 DEF ToolResult
<1>23. ASSUME NEW contexts \in ContextChoices, NEW concluded \in BOOLEAN,
       ToolsReturn(contexts, concluded) PROVE Placement'
  BY <1>23 DEF ToolsReturn, SpliceContexts, StepReturns, StickyEnd, Mark
<1>24. ASSUME NEW contexts \in ContextChoices, ToolsThrow(contexts) PROVE Placement'
  BY <1>24 DEF ToolsThrow, SpliceContexts, StepThrows, Mark
<1>25. ASSUME RecoverCalls PROVE Placement'
  BY <1>25 DEF RecoverCalls, Recovered
<1>26. ASSUME CloseFailedStep PROVE Placement'
  BY <1>26 DEF CloseFailedStep, DropUnadmitted, Mark
<1>27. ASSUME AfterStep PROVE Placement'
  BY <1>27 DEF AfterStep, Stops, ContinueTurn
<1>28. ASSUME StoppingSettles PROVE Placement'
  BY <1>28 DEF StoppingSettles, CloseTurn, ContinueTurn
<1>29. ASSUME StoppingThrows PROVE Placement'
  BY <1>29 DEF StoppingThrows
<1>30. ASSUME CatchTurn PROVE Placement'
  BY <1>30 DEF CatchTurn, CloseTurn, Aborted
<1>31. ASSUME ReportError PROVE Placement'
  BY <1>31 DEF ReportError, CloseTurn
<1>32. ASSUME AfterTurn PROVE Placement'
  BY <1>32 DEF AfterTurn, HasPending
<1>33. ASSUME KickSettles PROVE Placement'
  BY <1>33 DEF KickSettles
<1>34. ASSUME ReplayWake PROVE Placement'
  BY <1>34 DEF ReplayWake, WakeDriver, StartDriver, LatchWake, Latches
<1>35. ASSUME NEW cause \in Causes, CancelClears(cause) PROVE Placement'
  <2>1. UNCHANGED <<pc, attempt, batch, decision, userLog>>
    BY <1>35 DEF CancelClears
  <2>2. CASE nextStep # {}
    <3>1. /\ fate' = [m \in Msgs |-> IF m \in nextStep THEN "discarded" ELSE fate[m]]
          /\ nextTurn' = nextTurn /\ nextStep' = {}
      BY <1>35, <2>2 DEF CancelClears, Mark
    <3>2. QueuedBecome(QueuedMsgs \ nextStep)
      BY <3>1 DEF Distinct, QueuedBecome
    <3> QED BY <2>1, <3>1, <3>2 DEF Distinct, QueuedBecome
  <2>3. CASE nextStep = {}
    <3>1. /\ fate' = [m \in Msgs |-> IF m \in ToSet(nextTurn) THEN "discarded" ELSE fate[m]]
          /\ nextTurn' = <<>> /\ nextStep' = nextStep
      BY <1>35, <2>3 DEF CancelClears, Mark
    <3>2. QueuedBecome(QueuedMsgs \ ToSet(nextTurn))
      BY <3>1, EmptyQueue DEF QueuedBecome
    <3> QED BY <2>1, <3>1, <3>2 DEF Distinct, QueuedBecome
  <2> QED BY <2>2, <2>3
<1>36. ASSUME ClearNextTurn PROVE Placement'
  <2>1. /\ fate' = [m \in Msgs |-> IF m \in ToSet(nextTurn) THEN "discarded" ELSE fate[m]]
        /\ nextTurn' = <<>> /\ nextStep' = nextStep
        /\ UNCHANGED <<pc, attempt, batch, decision, userLog>>
    BY <1>36 DEF ClearNextTurn, Mark
  <2>2. QueuedBecome(QueuedMsgs \ ToSet(nextTurn))
    BY <2>1, EmptyQueue DEF QueuedBecome
  <2> QED BY <2>1, <2>2 DEF Distinct, QueuedBecome
<1>37. ASSUME AbortAfterClear PROVE Placement'
  BY <1>37 DEF AbortAfterClear, AbortActivity, Aborted
<1>38. ASSUME DecisionEndsTurn PROVE Placement'
  BY <1>38 DEF DecisionEndsTurn, CloseTurn
<1>39. ASSUME DecisionCompletes PROVE Placement'
  BY <1>39 DEF DecisionCompletes, CloseTurn
<1>40. ASSUME OpenStep PROVE Placement'
  BY <1>40 DEF OpenStep, EntersStep, Unaborted, Aborted
<1>41. ASSUME OpenStepThrows PROVE Placement'
  BY <1>41 DEF OpenStepThrows, EntersStep, DropUnadmitted, Mark, Aborted
<1> HIDE DEF TypeData, Placement, MessageAccounting, QueuedMsgs, Targets, Endings,
       StepEnds, Points, NoCalls, Control, TurnPoints, StepPoints, At, vars, phaseVars,
       inboxVars, ctlVars, logVars, clearVars, frameVars, histVars
<1> QED BY <1>1, <1>2, <1>3, <1>4, <1>5, <1>6, <1>7, <1>8, <1>9, <1>10, <1>11, <1>12,
       <1>13, <1>14, <1>15, <1>16, <1>17, <1>18, <1>19, <1>20, <1>21, <1>22, <1>23,
       <1>24, <1>25, <1>26, <1>27, <1>28, <1>29, <1>30, <1>31, <1>32, <1>33, <1>34,
       <1>35, <1>36, <1>37, <1>38, <1>39, <1>40, <1>41
       DEF Next, Environment, Driver, StepActions, TurnActions

LEMMA ClearingStep ==
  ASSUME TypeData, Control, Placement, Clearing, Next
  PROVE  Clearing'
<1> USE DEF Clearing, TypeData, QueuedMsgs, SyncPoints, At, vars,
       phaseVars, inboxVars, ctlVars, logVars, clearVars, frameVars,
       histVars
<1>1. ASSUME NEW m \in Msgs, NEW to \in Targets, NEW wake \in BOOLEAN, Send(m, to, wake)
       PROVE Clearing'
  <2>1. /\ fate' = [fate EXCEPT ![m] = "queued"]
        /\ UNCHANGED <<clearing>>
        /\ amid' = IF clearing # "none" THEN amid \cup {m} ELSE amid
    BY <1>1 DEF Send, Mark
  <2>2. /\ nextStep' \subseteq nextStep \cup {m}
        /\ ToSet(nextTurn') \subseteq ToSet(nextTurn) \cup {m}
    <3>1. CASE nextTurn' = Append(nextTurn, m) /\ UNCHANGED nextStep
      <4>1. fate[m] = "new"
        BY <1>1 DEF Send
      <4>2. m \notin ToSet(nextTurn) /\ Distinct(nextTurn)
        BY <4>1 DEF Placement, MessageAccounting, Distinct
      <4> QED BY <3>1, <4>2, AppendToQueue
    <3>2. CASE nextStep' = nextStep \cup {m} /\ UNCHANGED nextTurn
      BY <3>2
    <3> QED BY <1>1, <3>1, <3>2 DEF Send, Enqueue
  <2> QED BY <2>1, <2>2
<1>2. ASSUME SendWake PROVE Clearing'
  BY <1>2 DEF SendWake, WakeDriver, StartDriver, LatchWake, Latches
<1>3. ASSUME NEW m \in Msgs, Withdraw(m) PROVE Clearing'
  <2>1. /\ fate' = [fate EXCEPT ![m] = "discarded"]
        /\ UNCHANGED <<clearing, amid>>
    BY <1>3 DEF Withdraw, Mark
  <2>2. nextStep' \subseteq nextStep /\ ToSet(nextTurn') \subseteq ToSet(nextTurn)
    <3>1. ASSUME NEW i \in 1 .. Len(nextTurn), nextTurn' = RemoveAt(nextTurn, i),
                 nextStep' = nextStep
          PROVE  nextStep' \subseteq nextStep /\ ToSet(nextTurn') \subseteq ToSet(nextTurn)
      <4>1. Distinct(nextTurn)
        BY DEF Placement, MessageAccounting, Distinct
      <4> QED BY <3>1, <4>1, RemoveFromQueue
    <3>2. CASE nextStep' = nextStep \ {m} /\ UNCHANGED nextTurn
      BY <3>2
    <3> QED BY <1>3, <3>1, <3>2 DEF Withdraw
  <2> QED BY <2>1, <2>2
<1>4. ASSUME NEW cause \in Causes, NEW k \in BOOLEAN, Cancel(cause, k) PROVE Clearing'
  <2>1. UNCHANGED <<clearing, amid>>
    BY <1>4 DEF Cancel
  <2>2. CASE k
    BY <1>4, <2>1, <2>2 DEF Cancel
  <2>3. CASE ~k
    <3>1. nextTurn' = <<>> /\ nextStep' = {} /\ ToSet(nextTurn') = {}
      BY <1>4, <2>3, EmptyQueue DEF Cancel
    <3>2. \A m \in Msgs : fate[m] # "new" => fate'[m] # "new"
      BY <1>4, <2>3 DEF Cancel, Mark
    <3> QED BY <2>1, <3>1, <3>2
  <2> QED BY <2>2, <2>3
<1>5. ASSUME BeginMaintenance PROVE Clearing'
  BY <1>5 DEF BeginMaintenance
<1>6. ASSUME EndMaintenance PROVE Clearing'
  BY <1>6 DEF EndMaintenance, StartDriver, ReleasesWake, HasPending, Aborted
<1>7. ASSUME OpenTurn PROVE Clearing'
  BY <1>7 DEF OpenTurn, Unaborted, Aborted
<1>8. ASSUME ClaimBatch PROVE Clearing'
  <2>1. UNCHANGED <<clearing, amid>> /\ nextStep' = {}
    BY <1>8 DEF ClaimBatch
  <2>2. \A m \in Msgs : fate[m] # "new" => fate'[m] # "new"
    BY <1>8 DEF ClaimBatch, Mark
  <2>3. ToSet(nextTurn') \subseteq ToSet(nextTurn)
    <3>1. CASE nextTurn' = nextTurn
      BY <3>1
    <3>2. CASE nextTurn # <<>> /\ nextTurn' = Tail(nextTurn)
      <4>1. Distinct(nextTurn)
        BY DEF Placement, MessageAccounting, Distinct
      <4> QED BY <3>2, <4>1, TailOfQueue
    <3> QED BY <1>8, <3>1, <3>2 DEF ClaimBatch
  <2> QED BY <2>1, <2>2, <2>3
<1>9. ASSUME LoopAborted PROVE Clearing'
  BY <1>9 DEF LoopAborted, Aborted
<1>10. ASSUME PreStepThrows PROVE Clearing'
  BY <1>10 DEF PreStepThrows, DropUnadmitted, Mark
<1>11. ASSUME NEW verdict \in Verdicts, NEW kept \in SUBSET Msgs, PreStepReturns(verdict, kept)
       PROVE Clearing'
  BY <1>11 DEF PreStepReturns, Mark, Unaborted, Aborted, Verdicts
<1>12. ASSUME DecisionBlocks PROVE Clearing'
  BY <1>12 DEF DecisionBlocks, CloseTurn
<1>13. ASSUME AdmitRequest PROVE Clearing'
  BY <1>13 DEF AdmitRequest, FirstAttempt, Mark, Unaborted, Aborted
<1>14. ASSUME PrepareThrows PROVE Clearing'
  BY <1>14 DEF PrepareThrows, StepThrows
<1>15. ASSUME StreamThrows PROVE Clearing'
  BY <1>15 DEF StreamThrows, StepThrows
<1>16. ASSUME StreamFails PROVE Clearing'
  BY <1>16 DEF StreamFails
<1>17. ASSUME RetryRequest PROVE Clearing'
  BY <1>17 DEF RetryRequest
<1>18. ASSUME RequestErrorThrows PROVE Clearing'
  BY <1>18 DEF RequestErrorThrows, StepThrows
<1>19. ASSUME NEW end \in StepEnds, ReplyEndsStep(end) PROVE Clearing'
  BY <1>19 DEF ReplyEndsStep, StepReturns, StickyEnd
<1>20. ASSUME NEW calls \in SUBSET Calls, ReplyCallsTools(calls) PROVE Clearing'
  BY <1>20 DEF ReplyCallsTools
<1>21. ASSUME NEW c \in Calls, CallTool(c) PROVE Clearing'
  BY <1>21 DEF CallTool
<1>22. ASSUME NEW c \in Calls, ToolResult(c) PROVE Clearing'
  BY <1>22 DEF ToolResult
<1>23. ASSUME NEW contexts \in ContextChoices, NEW concluded \in BOOLEAN,
       ToolsReturn(contexts, concluded) PROVE Clearing'
  BY <1>23 DEF ToolsReturn, SpliceContexts, StepReturns, StickyEnd, Mark
<1>24. ASSUME NEW contexts \in ContextChoices, ToolsThrow(contexts) PROVE Clearing'
  BY <1>24 DEF ToolsThrow, SpliceContexts, StepThrows, Mark
<1>25. ASSUME RecoverCalls PROVE Clearing'
  BY <1>25 DEF RecoverCalls, Recovered
<1>26. ASSUME CloseFailedStep PROVE Clearing'
  BY <1>26 DEF CloseFailedStep, DropUnadmitted, Mark
<1>27. ASSUME AfterStep PROVE Clearing'
  BY <1>27 DEF AfterStep, Stops, ContinueTurn
<1>28. ASSUME StoppingSettles PROVE Clearing'
  BY <1>28 DEF StoppingSettles, CloseTurn, ContinueTurn
<1>29. ASSUME StoppingThrows PROVE Clearing'
  BY <1>29 DEF StoppingThrows
<1>30. ASSUME CatchTurn PROVE Clearing'
  BY <1>30 DEF CatchTurn, CloseTurn, Aborted
<1>31. ASSUME ReportError PROVE Clearing'
  BY <1>31 DEF ReportError, CloseTurn
<1>32. ASSUME AfterTurn PROVE Clearing'
  BY <1>32 DEF AfterTurn, HasPending
<1>33. ASSUME KickSettles PROVE Clearing'
  BY <1>33 DEF KickSettles
<1>34. ASSUME ReplayWake PROVE Clearing'
  BY <1>34 DEF ReplayWake, WakeDriver, StartDriver, LatchWake, Latches
<1>35. ASSUME NEW cause \in Causes, CancelClears(cause) PROVE Clearing'
  <2>1. UNCHANGED amid /\ \A m \in Msgs : fate[m] # "new" => fate'[m] # "new"
    BY <1>35 DEF CancelClears, Mark
  <2>2. CASE nextStep # {}
    BY <1>35, <2>1, <2>2 DEF CancelClears
  <2>3. CASE nextStep = {}
    <3>1. nextTurn' = <<>> /\ nextStep' = {} /\ ToSet(nextTurn') = {}
      BY <1>35, <2>3, EmptyQueue DEF CancelClears
    <3>2. clearing' = "abort"
      BY <1>35, <2>3 DEF CancelClears
    <3> QED BY <2>1, <3>1, <3>2
  <2> QED BY <2>2, <2>3
<1>36. ASSUME ClearNextTurn PROVE Clearing'
  <2>1. UNCHANGED <<amid, nextStep>> /\ clearing = "nextTurn" /\ clearing' = "abort"
    BY <1>36 DEF ClearNextTurn
  <2>2. \A m \in Msgs : fate[m] # "new" => fate'[m] # "new"
    BY <1>36 DEF ClearNextTurn, Mark
  <2>3. ToSet(nextTurn') = {}
    BY <1>36, EmptyQueue DEF ClearNextTurn
  <2> QED BY <2>1, <2>2, <2>3
<1>37. ASSUME AbortAfterClear PROVE Clearing'
  BY <1>37 DEF AbortAfterClear, AbortActivity, Aborted
<1>38. ASSUME DecisionEndsTurn PROVE Clearing'
  BY <1>38 DEF DecisionEndsTurn, CloseTurn
<1>39. ASSUME DecisionCompletes PROVE Clearing'
  BY <1>39 DEF DecisionCompletes, CloseTurn
<1>40. ASSUME OpenStep PROVE Clearing'
  BY <1>40 DEF OpenStep, EntersStep, Unaborted, Aborted
<1>41. ASSUME OpenStepThrows PROVE Clearing'
  BY <1>41 DEF OpenStepThrows, EntersStep, DropUnadmitted, Mark, Aborted
<1> HIDE DEF Clearing, TypeData, QueuedMsgs, SyncPoints, At, vars,
       phaseVars, inboxVars, ctlVars, logVars, clearVars, frameVars,
       histVars
<1> QED BY <1>1, <1>2, <1>3, <1>4, <1>5, <1>6, <1>7, <1>8, <1>9, <1>10, <1>11, <1>12,
       <1>13, <1>14, <1>15, <1>16, <1>17, <1>18, <1>19, <1>20, <1>21, <1>22, <1>23,
       <1>24, <1>25, <1>26, <1>27, <1>28, <1>29, <1>30, <1>31, <1>32, <1>33, <1>34,
       <1>35, <1>36, <1>37, <1>38, <1>39, <1>40, <1>41
       DEF Next, Environment, Driver, StepActions, TurnActions

LEMMA LatchingStep ==
  ASSUME TypeData, Control, Latching, Next
  PROVE  Latching'
<1> USE DEF TypeData, Latching, Targets, Endings, StepEnds, Points, NoCalls, Control,
       TurnPoints, StepPoints, At, vars, phaseVars, inboxVars, ctlVars, logVars,
       clearVars, frameVars, histVars
<1>1. ASSUME NEW m \in Msgs, NEW to \in Targets, NEW wake \in BOOLEAN, Send(m, to, wake)
       PROVE Latching'
  BY <1>1 DEF Send, Enqueue, WakingAfterAbort, Aborted, Mark
<1>2. ASSUME SendWake PROVE Latching'
  BY <1>2 DEF SendWake, WakeDriver, StartDriver, LatchWake, Latches
<1>3. ASSUME NEW m \in Msgs, Withdraw(m) PROVE Latching'
  BY <1>3 DEF Withdraw, Mark
<1>4. ASSUME NEW cause \in Causes, NEW k \in BOOLEAN, Cancel(cause, k) PROVE Latching'
  <2>1. Disposed # "live"
    BY DriverConstants
  <2>2. CASE k
    BY <1>4, <2>1, <2>2 DEF Cancel, AbortActivity, Aborted
  <2>3. CASE ~k
    BY <1>4, <2>1, <2>3 DEF Cancel, AbortActivity, Aborted
  <2> QED BY <2>2, <2>3
<1>5. ASSUME BeginMaintenance PROVE Latching'
  BY <1>5 DEF BeginMaintenance
<1>6. ASSUME EndMaintenance PROVE Latching'
  BY <1>6 DEF EndMaintenance, StartDriver, ReleasesWake, HasPending, Aborted
<1>7. ASSUME OpenTurn PROVE Latching'
  BY <1>7 DEF OpenTurn, Unaborted, Aborted
<1>8. ASSUME ClaimBatch PROVE Latching'
  BY <1>8 DEF ClaimBatch, Unaborted, Aborted, Mark
<1>9. ASSUME LoopAborted PROVE Latching'
  BY <1>9 DEF LoopAborted, Aborted
<1>10. ASSUME PreStepThrows PROVE Latching'
  BY <1>10 DEF PreStepThrows, DropUnadmitted, Mark
<1>11. ASSUME NEW verdict \in Verdicts, NEW kept \in SUBSET Msgs, PreStepReturns(verdict, kept)
       PROVE Latching'
  BY <1>11 DEF PreStepReturns, Mark, Unaborted, Aborted, Verdicts
<1>12. ASSUME DecisionBlocks PROVE Latching'
  BY <1>12 DEF DecisionBlocks, CloseTurn
<1>13. ASSUME AdmitRequest PROVE Latching'
  BY <1>13 DEF AdmitRequest, FirstAttempt, Mark, Unaborted, Aborted
<1>14. ASSUME PrepareThrows PROVE Latching'
  BY <1>14 DEF PrepareThrows, StepThrows
<1>15. ASSUME StreamThrows PROVE Latching'
  BY <1>15 DEF StreamThrows, StepThrows
<1>16. ASSUME StreamFails PROVE Latching'
  BY <1>16 DEF StreamFails
<1>17. ASSUME RetryRequest PROVE Latching'
  BY <1>17 DEF RetryRequest
<1>18. ASSUME RequestErrorThrows PROVE Latching'
  BY <1>18 DEF RequestErrorThrows, StepThrows
<1>19. ASSUME NEW end \in StepEnds, ReplyEndsStep(end) PROVE Latching'
  BY <1>19 DEF ReplyEndsStep, StepReturns, StickyEnd
<1>20. ASSUME NEW calls \in SUBSET Calls, ReplyCallsTools(calls) PROVE Latching'
  BY <1>20 DEF ReplyCallsTools
<1>21. ASSUME NEW c \in Calls, CallTool(c) PROVE Latching'
  BY <1>21 DEF CallTool
<1>22. ASSUME NEW c \in Calls, ToolResult(c) PROVE Latching'
  BY <1>22 DEF ToolResult
<1>23. ASSUME NEW contexts \in ContextChoices, NEW concluded \in BOOLEAN,
       ToolsReturn(contexts, concluded) PROVE Latching'
  BY <1>23 DEF ToolsReturn, SpliceContexts, StepReturns, StickyEnd, Mark
<1>24. ASSUME NEW contexts \in ContextChoices, ToolsThrow(contexts) PROVE Latching'
  BY <1>24 DEF ToolsThrow, SpliceContexts, StepThrows, Mark
<1>25. ASSUME RecoverCalls PROVE Latching'
  BY <1>25 DEF RecoverCalls, Recovered
<1>26. ASSUME CloseFailedStep PROVE Latching'
  BY <1>26 DEF CloseFailedStep, DropUnadmitted, Mark
<1>27. ASSUME AfterStep PROVE Latching'
  BY <1>27 DEF AfterStep, Stops, ContinueTurn
<1>28. ASSUME StoppingSettles PROVE Latching'
  BY <1>28 DEF StoppingSettles, CloseTurn, ContinueTurn
<1>29. ASSUME StoppingThrows PROVE Latching'
  BY <1>29 DEF StoppingThrows
<1>30. ASSUME CatchTurn PROVE Latching'
  BY <1>30 DEF CatchTurn, CloseTurn, Aborted
<1>31. ASSUME ReportError PROVE Latching'
  BY <1>31 DEF ReportError, CloseTurn
<1>32. ASSUME AfterTurn PROVE Latching'
  BY <1>32 DEF AfterTurn, HasPending
<1>33. ASSUME KickSettles PROVE Latching'
  BY <1>33 DEF KickSettles
<1>34. ASSUME ReplayWake PROVE Latching'
  BY <1>34 DEF ReplayWake, WakeDriver, StartDriver, LatchWake, Latches
<1>35. ASSUME NEW cause \in Causes, CancelClears(cause) PROVE Latching'
  BY <1>35 DEF CancelClears, Mark
<1>36. ASSUME ClearNextTurn PROVE Latching'
  BY <1>36 DEF ClearNextTurn, Mark
<1>37. ASSUME AbortAfterClear PROVE Latching'
  <2>1. Disposed # "live"
    BY DriverConstants
  <2> QED BY <1>37, <2>1 DEF AbortAfterClear, AbortActivity, Aborted
<1>38. ASSUME DecisionEndsTurn PROVE Latching'
  BY <1>38 DEF DecisionEndsTurn, CloseTurn
<1>39. ASSUME DecisionCompletes PROVE Latching'
  BY <1>39 DEF DecisionCompletes, CloseTurn
<1>40. ASSUME OpenStep PROVE Latching'
  BY <1>40 DEF OpenStep, EntersStep, Unaborted, Aborted
<1>41. ASSUME OpenStepThrows PROVE Latching'
  BY <1>41 DEF OpenStepThrows, EntersStep, DropUnadmitted, Mark, Aborted
<1> HIDE DEF TypeData, Latching, Targets, Endings, StepEnds, Points, NoCalls, Control,
       TurnPoints, StepPoints, At, vars, phaseVars, inboxVars, ctlVars, logVars,
       clearVars, frameVars, histVars
<1> QED BY <1>1, <1>2, <1>3, <1>4, <1>5, <1>6, <1>7, <1>8, <1>9, <1>10, <1>11, <1>12,
       <1>13, <1>14, <1>15, <1>16, <1>17, <1>18, <1>19, <1>20, <1>21, <1>22, <1>23,
       <1>24, <1>25, <1>26, <1>27, <1>28, <1>29, <1>30, <1>31, <1>32, <1>33, <1>34,
       <1>35, <1>36, <1>37, <1>38, <1>39, <1>40, <1>41
       DEF Next, Environment, Driver, StepActions, TurnActions

LEMMA PendingIsQueued ==
  ASSUME TypeData, Placement
  PROVE  HasPending <=> \E m \in Msgs : fate[m] = "queued"
<1>1. nextTurn # <<>> <=> ToSet(nextTurn) # {}
  <2>1. CASE nextTurn = <<>>
    BY <2>1, EmptyQueue
  <2>2. CASE nextTurn # <<>>
    <3>1. 1 \in DOMAIN nextTurn
      BY <2>2, EmptySeq, LenProperties DEF TypeData
    <3> QED BY <2>2, <3>1 DEF ToSet
  <2> QED BY <2>1, <2>2
<1>2. QueuedMsgs \subseteq Msgs
  BY LenProperties, ElementOfSeq DEF TypeData, QueuedMsgs, ToSet
<1> QED BY <1>1, <1>2 DEF HasPending, QueuedMsgs, Placement, MessageAccounting

LEMMA DeliveryStep ==
  ASSUME TypeData, Control, Placement, Clearing, Latching, Delivery, Next
  PROVE  Delivery'
<1> USE DEF TypeData, Latching, WakeAhead, Delivery, Aborted, Targets, Endings,
       StepEnds, Points, NoCalls, Control, TurnPoints, StepPoints, At, vars, phaseVars,
       inboxVars, ctlVars, logVars, clearVars, frameVars, histVars
<1>1. ASSUME NEW m \in Msgs, NEW to \in Targets, NEW wake \in BOOLEAN, Send(m, to, wake)
       PROVE Delivery'
  BY <1>1 DEF Send, Enqueue, WakingAfterAbort, Aborted, Mark
<1>2. ASSUME SendWake PROVE Delivery'
  <2>1. CASE phase = "idle"
    BY <1>2, <2>1 DEF SendWake, WakeDriver, StartDriver
  <2>2. CASE phase # "idle"
    <3>1. /\ UNCHANGED <<phase, signal, pc, owed, woken, gap, amid, fate, exitedBy, settling>>
          /\ sending # "none" /\ sending' = "none"
      BY <1>2, <2>2 DEF SendWake, WakeDriver, LatchWake
    <3>2. wakeRequested' = (wakeRequested \/ Latches(sending = "late"))
      BY <1>2, <2>2 DEF SendWake, WakeDriver, LatchWake
    <3>3. wakeRequested => wakeRequested'
      BY <3>2, Zenon
    <3>4. Latches(sending = "late") => wakeRequested'
      BY <3>2, Zenon
    <3>5. signal # Disposed /\ (phase = "maintenance" \/ sending = "late") => wakeRequested'
      BY <3>4 DEF Latches
    <3>6. \A m \in owed \ amid : fate[m] = "queued" => WakeAhead'
      BY <2>2, <3>1, <3>3, <3>5
    <3> QED BY <2>2, <3>1, <3>3, <3>5, <3>6, DriverConstants
  <2> QED BY <2>1, <2>2
<1>3. ASSUME NEW m \in Msgs, Withdraw(m) PROVE Delivery'
  BY <1>3 DEF Withdraw, Mark
<1>4. ASSUME NEW cause \in Causes, NEW k \in BOOLEAN, Cancel(cause, k) PROVE Delivery'
  <2>1. CASE k
    <3>1. /\ UNCHANGED <<phase, pc, owed, woken, gap, amid, fate, exitedBy, settling,
           sending>>
          /\ cause = Disposed => phase # "running"
          /\ signal' = IF phase # "idle" /\ signal = "live" THEN cause ELSE signal
      BY <1>4, <2>1 DEF Cancel, AbortActivity
    <3>2. UNCHANGED wakeRequested
      BY <1>4, <2>1, Zenon DEF Cancel
    <3>3. ASSUME WakeAhead PROVE WakeAhead'
      <4>1. CASE wakeRequested
        BY <3>2, <4>1
      <4>2. CASE settling = "wake" /\ phase # "running"
        BY <3>1, <4>2
      <4>3. CASE phase = "maintenance" /\ (signal = Disposed \/ sending = "live")
        BY <3>1, <4>3, DriverConstants
      <4>4. CASE sending = "late" /\ signal # Disposed
        BY <3>1, <4>4
      <4> QED BY <3>3, <4>1, <4>2, <4>3, <4>4
    <3> QED BY <3>1, <3>2, <3>3, DriverConstants
  <2>2. CASE ~k
    <3>1. fate' = [m \in Msgs |-> IF m \in QueuedMsgs THEN "discarded" ELSE fate[m]]
      BY <1>4, <2>2 DEF Cancel, Mark
    <3>2. UNCHANGED <<owed, woken>>
      BY <1>4 DEF Cancel
    <3>3. \A m \in Msgs : fate'[m] # "queued" /\ (fate[m] # "new" => fate'[m] # "new")
      BY <3>1 DEF Placement, MessageAccounting
    <3> QED BY <3>2, <3>3
  <2> QED BY <2>1, <2>2
<1>5. ASSUME BeginMaintenance PROVE Delivery'
  BY <1>5 DEF BeginMaintenance
<1>6. ASSUME EndMaintenance PROVE Delivery'
  <2>1. CASE ReleasesWake
    BY <1>6, <2>1 DEF EndMaintenance, StartDriver
  <2>2. CASE ~ReleasesWake
    <3>1. /\ phase = "maintenance" /\ phase' = "idle" /\ sending = "none" /\ settling = "none"
          /\ UNCHANGED <<woken, gap, amid, fate, settling>>
          /\ owed' = IF signal = Disposed THEN {} ELSE owed
          /\ Aborted => exitedBy' = "aborted"
          /\ ~Aborted => exitedBy' = exitedBy
      BY <1>6, <2>2 DEF EndMaintenance
    <3>2. signal # Disposed /\ wakeRequested => \A m \in Msgs : fate[m] # "queued"
      BY <2>2, PendingIsQueued DEF ReleasesWake
    <3>3. \A m \in owed' \ amid : fate[m] # "queued"
      BY <3>1, <3>2
    <3>4. ~Aborted => signal # Disposed
      BY DriverConstants
    <3> QED BY <3>1, <3>2, <3>3, <3>4
  <2> QED BY <2>1, <2>2
<1>7. ASSUME OpenTurn PROVE Delivery'
  BY <1>7 DEF OpenTurn, Unaborted, Aborted
<1>8. ASSUME ClaimBatch PROVE Delivery'
  BY <1>8 DEF ClaimBatch, Unaborted, Aborted, Mark
<1>9. ASSUME LoopAborted PROVE Delivery'
  BY <1>9 DEF LoopAborted, Aborted
<1>10. ASSUME PreStepThrows PROVE Delivery'
  BY <1>10 DEF PreStepThrows, DropUnadmitted, Mark
<1>11. ASSUME NEW verdict \in Verdicts, NEW kept \in SUBSET Msgs, PreStepReturns(verdict, kept)
       PROVE Delivery'
  BY <1>11 DEF PreStepReturns, Mark, Unaborted, Aborted, Verdicts
<1>12. ASSUME DecisionBlocks PROVE Delivery'
  BY <1>12 DEF DecisionBlocks, CloseTurn
<1>13. ASSUME AdmitRequest PROVE Delivery'
  BY <1>13 DEF AdmitRequest, FirstAttempt, Mark, Unaborted, Aborted
<1>14. ASSUME PrepareThrows PROVE Delivery'
  BY <1>14 DEF PrepareThrows, StepThrows
<1>15. ASSUME StreamThrows PROVE Delivery'
  BY <1>15 DEF StreamThrows, StepThrows
<1>16. ASSUME StreamFails PROVE Delivery'
  BY <1>16 DEF StreamFails
<1>17. ASSUME RetryRequest PROVE Delivery'
  BY <1>17 DEF RetryRequest
<1>18. ASSUME RequestErrorThrows PROVE Delivery'
  BY <1>18 DEF RequestErrorThrows, StepThrows
<1>19. ASSUME NEW end \in StepEnds, ReplyEndsStep(end) PROVE Delivery'
  BY <1>19 DEF ReplyEndsStep, StepReturns, StickyEnd
<1>20. ASSUME NEW calls \in SUBSET Calls, ReplyCallsTools(calls) PROVE Delivery'
  BY <1>20 DEF ReplyCallsTools
<1>21. ASSUME NEW c \in Calls, CallTool(c) PROVE Delivery'
  BY <1>21 DEF CallTool
<1>22. ASSUME NEW c \in Calls, ToolResult(c) PROVE Delivery'
  BY <1>22 DEF ToolResult
<1>23. ASSUME NEW contexts \in ContextChoices, NEW concluded \in BOOLEAN,
       ToolsReturn(contexts, concluded) PROVE Delivery'
  BY <1>23 DEF ToolsReturn, SpliceContexts, StepReturns, StickyEnd, Mark
<1>24. ASSUME NEW contexts \in ContextChoices, ToolsThrow(contexts) PROVE Delivery'
  BY <1>24 DEF ToolsThrow, SpliceContexts, StepThrows, Mark
<1>25. ASSUME RecoverCalls PROVE Delivery'
  BY <1>25 DEF RecoverCalls, Recovered
<1>26. ASSUME CloseFailedStep PROVE Delivery'
  BY <1>26 DEF CloseFailedStep, DropUnadmitted, Mark
<1>27. ASSUME AfterStep PROVE Delivery'
  BY <1>27 DEF AfterStep, Stops, ContinueTurn
<1>28. ASSUME StoppingSettles PROVE Delivery'
  BY <1>28 DEF StoppingSettles, CloseTurn, ContinueTurn
<1>29. ASSUME StoppingThrows PROVE Delivery'
  BY <1>29 DEF StoppingThrows
<1>30. ASSUME CatchTurn PROVE Delivery'
  BY <1>30 DEF CatchTurn, CloseTurn, Aborted
<1>31. ASSUME ReportError PROVE Delivery'
  BY <1>31 DEF ReportError, CloseTurn
<1>32. ASSUME AfterTurn PROVE Delivery'
  BY <1>32, PendingIsQueued DEF AfterTurn
<1>33. ASSUME KickSettles PROVE Delivery'
  BY <1>33 DEF KickSettles
<1>34. ASSUME ReplayWake PROVE Delivery'
  <2>1. CASE settling = "wake" /\ HasPending /\ phase = "idle"
    BY <1>34, PendingIsQueued, <2>1 DEF ReplayWake, WakeDriver, StartDriver, LatchWake,
           Latches
  <2>2. CASE settling = "wake" /\ HasPending /\ phase # "idle"
    BY <1>34, PendingIsQueued, <2>2 DEF ReplayWake, WakeDriver, StartDriver, LatchWake,
           Latches
  <2>3. CASE ~(settling = "wake" /\ HasPending)
    BY <1>34, PendingIsQueued, <2>3 DEF ReplayWake, WakeDriver, StartDriver, LatchWake,
           Latches
  <2> QED BY <2>1, <2>2, <2>3
<1>35. ASSUME NEW cause \in Causes, CancelClears(cause) PROVE Delivery'
  BY <1>35 DEF CancelClears, Mark
<1>36. ASSUME ClearNextTurn PROVE Delivery'
  BY <1>36 DEF ClearNextTurn, Mark
<1>37. ASSUME AbortAfterClear PROVE Delivery'
  <2>1. \A m \in QueuedMsgs : m \in amid
    BY <1>37, EmptyQueue DEF AbortAfterClear, Clearing, QueuedMsgs
  <2>2. \A m \in Msgs : fate[m] = "queued" => m \in amid
    BY <2>1 DEF Placement, MessageAccounting
  <2>3. UNCHANGED <<phase, pc, owed, woken, gap, amid, fate, exitedBy, settling, sending>>
    BY <1>37 DEF AbortAfterClear
  <2>4. phase = "maintenance" => signal' # "live"
    BY <1>37, DriverConstants DEF AbortAfterClear, AbortActivity
  <2> QED BY <2>2, <2>3, <2>4
<1>38. ASSUME DecisionEndsTurn PROVE Delivery'
  BY <1>38 DEF DecisionEndsTurn, CloseTurn
<1>39. ASSUME DecisionCompletes PROVE Delivery'
  BY <1>39 DEF DecisionCompletes, CloseTurn
<1>40. ASSUME OpenStep PROVE Delivery'
  BY <1>40 DEF OpenStep, EntersStep, Unaborted, Aborted
<1>41. ASSUME OpenStepThrows PROVE Delivery'
  BY <1>41 DEF OpenStepThrows, EntersStep, DropUnadmitted, Mark, Aborted
<1> HIDE DEF TypeData, Latching, WakeAhead, Delivery, Aborted, Targets, Endings,
       StepEnds, Points, NoCalls, Control, TurnPoints, StepPoints, At, vars, phaseVars,
       inboxVars, ctlVars, logVars, clearVars, frameVars, histVars
<1> QED BY <1>1, <1>2, <1>3, <1>4, <1>5, <1>6, <1>7, <1>8, <1>9, <1>10, <1>11, <1>12,
       <1>13, <1>14, <1>15, <1>16, <1>17, <1>18, <1>19, <1>20, <1>21, <1>22, <1>23,
       <1>24, <1>25, <1>26, <1>27, <1>28, <1>29, <1>30, <1>31, <1>32, <1>33, <1>34,
       <1>35, <1>36, <1>37, <1>38, <1>39, <1>40, <1>41
       DEF Next, Environment, Driver, StepActions, TurnActions

LEMMA InductiveInit == Init => IInv
<1> SUFFICES ASSUME Init PROVE IInv
  OBVIOUS
<1>1. TypeFlags
  BY DEF Init, TypeFlags
<1>2. TypeData
  BY EmptyQueue, DriverConstants
     DEF Init, TypeData, Verdicts, Points, Targets, Endings, StepEnds, NoCalls
<1>3. Control
  BY DEF Init, Control, TurnPoints, StepPoints, NoCalls
<1>4. Placement
  BY EmptyQueue DEF Init, Placement, MessageAccounting, QueuedMsgs, Distinct, StepPoints
<1>5. Latching
  BY DEF Init, Latching
<1>6. Delivery
  BY DEF Init, Delivery
<1>7. Clearing
  BY DEF Init, Clearing
<1> QED BY <1>1, <1>2, <1>3, <1>4, <1>5, <1>6, <1>7 DEF IInv, TypeOK

LEMMA InductiveStep == IInv /\ [Next]_vars => IInv'
<1> SUFFICES ASSUME IInv, [Next]_vars PROVE IInv'
  OBVIOUS
<1>1. CASE Next
  BY <1>1, FlagsStep, DataStep, ControlStep, PlacementStep, ClearingStep, LatchingStep,
         DeliveryStep
         DEF IInv, TypeOK
<1>2. CASE UNCHANGED vars
  <2> USE DEF vars, phaseVars, inboxVars, ctlVars, logVars, clearVars, frameVars, histVars
  <2>1. TypeFlags'
    BY <1>2 DEF IInv, TypeOK, TypeFlags
  <2>2. TypeData'
    BY <1>2 DEF IInv, TypeOK, TypeData
  <2>3. Control'
    BY <1>2 DEF IInv, Control
  <2>4. Placement'
    BY <1>2 DEF IInv, Placement, MessageAccounting, QueuedMsgs
  <2>5. Latching'
    BY <1>2 DEF IInv, Latching
  <2>6. Delivery'
    BY <1>2 DEF IInv, Delivery, WakeAhead, Aborted
  <2>7. Clearing'
    BY <1>2 DEF IInv, Clearing, QueuedMsgs
  <2> QED BY <2>1, <2>2, <2>3, <2>4, <2>5, <2>6, <2>7 DEF IInv, TypeOK
<1> QED BY <1>1, <1>2

LEMMA Inductive == Spec => []IInv
<1> QED BY InductiveInit, InductiveStep, PTL DEF Spec

-----------------------------------------------------------------------------

(* Every variable keeps its type; every turn/end carries an ending.        *)
THEOREM TypeCorrect == Spec => []TypeOK
<1>1. IInv => TypeOK
  BY DEF IInv
<1> QED BY <1>1, Inductive, PTL

(* A delivered message is queued in one place, claimed, or at its end, is  *)
(* in the log once if admitted, and shares its turn with no other prompt.  *)
THEOREM InboxIsKept == Spec => []InboxKept
<1>1. IInv => InboxKept
  BY DEF IInv, Control, Placement, SoleOrdinaryMessage, InboxKept
<1> QED BY <1>1, Inductive, PTL

(* No wake sent behind maintenance or an abort is left in an idle inbox,   *)
(* but for those a listener of inbox.clear() sends from inside a cancel(); *)
(* and a latched wake stands for one of them.                              *)
THEOREM LatchIsExact == Spec => []WakeLatchExact
<1>1. IInv => LatchJustified
  BY DEF IInv, Latching, LatchJustified
<1>2. IInv => LatchedWakeDelivered
  BY DEF IInv, TypeOK, TypeData, Control, Placement, MessageAccounting, Delivery,
         WakeAhead, LatchedWakeDelivered
<1> QED BY <1>1, <1>2, Inductive, PTL DEF WakeLatchExact

(* A driver that drained its inbox strands no wake but one in the gap.     *)
THEOREM QueuesDrained == Spec => []DrainedQueue
<1>1. IInv => DrainedQueue
  BY DEF IInv, TypeOK, TypeData, Control, Placement, MessageAccounting, Delivery,
         DrainedQueue
<1> QED BY <1>1, Inductive, PTL

-----------------------------------------------------------------------------
(* What a step may not do. *)

LEMMA AbortStep ==
  ASSUME IInv, Next
  PROVE  StartsNoWork
<1> USE DEF StartsNoWork, Aborted, Unaborted, Control, At, NoCalls, TurnPoints,
       StepPoints, vars, phaseVars, inboxVars, ctlVars, logVars, clearVars, frameVars, histVars
<1>1. ASSUME NEW m \in Msgs, NEW to \in Targets, NEW wake \in BOOLEAN, Send(m, to, wake)
       PROVE StartsNoWork
  BY <1>1 DEF Send, Enqueue, WakingAfterAbort, Aborted, Mark
<1>2. ASSUME SendWake PROVE StartsNoWork
  BY <1>2 DEF SendWake, WakeDriver, StartDriver, LatchWake, Latches
<1>3. ASSUME NEW m \in Msgs, Withdraw(m) PROVE StartsNoWork
  BY <1>3 DEF Withdraw, Mark
<1>4. ASSUME NEW cause \in Causes, NEW k \in BOOLEAN, Cancel(cause, k)
       PROVE StartsNoWork
  BY <1>4 DEF Cancel, AbortActivity, Mark, QueuedMsgs, Aborted
<1>5. ASSUME BeginMaintenance PROVE StartsNoWork
  BY <1>5 DEF BeginMaintenance
<1>6. ASSUME EndMaintenance PROVE StartsNoWork
  BY <1>6 DEF EndMaintenance, StartDriver, ReleasesWake, HasPending, Aborted
<1>7. ASSUME OpenTurn PROVE StartsNoWork
  BY <1>7 DEF OpenTurn, Unaborted, Aborted
<1>8. ASSUME ClaimBatch PROVE StartsNoWork
  BY <1>8 DEF ClaimBatch, Unaborted, Aborted, Mark
<1>9. ASSUME LoopAborted PROVE StartsNoWork
  BY <1>9 DEF LoopAborted, Aborted
<1>10. ASSUME PreStepThrows PROVE StartsNoWork
  BY <1>10 DEF PreStepThrows, DropUnadmitted, Mark
<1>11. ASSUME NEW verdict \in Verdicts, NEW kept \in SUBSET Msgs, PreStepReturns(verdict, kept)
       PROVE StartsNoWork
  BY <1>11 DEF PreStepReturns, Mark, Unaborted, Aborted, Verdicts
<1>12. ASSUME DecisionBlocks PROVE StartsNoWork
  BY <1>12 DEF DecisionBlocks, CloseTurn
<1>13. ASSUME AdmitRequest PROVE StartsNoWork
  BY <1>13 DEF AdmitRequest, FirstAttempt, Mark, Unaborted, Aborted
<1>14. ASSUME PrepareThrows PROVE StartsNoWork
  BY <1>14 DEF PrepareThrows, StepThrows
<1>15. ASSUME StreamThrows PROVE StartsNoWork
  BY <1>15 DEF StreamThrows, StepThrows
<1>16. ASSUME StreamFails PROVE StartsNoWork
  BY <1>16 DEF StreamFails
<1>17. ASSUME RetryRequest PROVE StartsNoWork
  BY <1>17 DEF RetryRequest
<1>18. ASSUME RequestErrorThrows PROVE StartsNoWork
  BY <1>18 DEF RequestErrorThrows, StepThrows
<1>19. ASSUME NEW end \in StepEnds, ReplyEndsStep(end) PROVE StartsNoWork
  BY <1>19 DEF ReplyEndsStep, StepReturns, StickyEnd
<1>20. ASSUME NEW calls \in SUBSET Calls, ReplyCallsTools(calls) PROVE StartsNoWork
  BY <1>20 DEF ReplyCallsTools
<1>21. ASSUME NEW c \in Calls, CallTool(c) PROVE StartsNoWork
  BY <1>21 DEF CallTool
<1>22. ASSUME NEW c \in Calls, ToolResult(c) PROVE StartsNoWork
  BY <1>22 DEF ToolResult
<1>23. ASSUME NEW contexts \in ContextChoices, NEW concluded \in BOOLEAN,
       ToolsReturn(contexts, concluded) PROVE StartsNoWork
  BY <1>23 DEF ToolsReturn, SpliceContexts, StepReturns, StickyEnd, Mark
<1>24. ASSUME NEW contexts \in ContextChoices, ToolsThrow(contexts) PROVE StartsNoWork
  BY <1>24 DEF ToolsThrow, SpliceContexts, StepThrows, Mark
<1>25. ASSUME RecoverCalls PROVE StartsNoWork
  BY <1>25 DEF RecoverCalls, Recovered
<1>26. ASSUME CloseFailedStep PROVE StartsNoWork
  BY <1>26 DEF CloseFailedStep, DropUnadmitted, Mark
<1>27. ASSUME AfterStep PROVE StartsNoWork
  BY <1>27 DEF AfterStep, Stops, ContinueTurn
<1>28. ASSUME StoppingSettles PROVE StartsNoWork
  BY <1>28 DEF StoppingSettles, CloseTurn, ContinueTurn
<1>29. ASSUME StoppingThrows PROVE StartsNoWork
  BY <1>29 DEF StoppingThrows
<1>30. ASSUME CatchTurn PROVE StartsNoWork
  BY <1>30 DEF CatchTurn, CloseTurn, Aborted
<1>31. ASSUME ReportError PROVE StartsNoWork
  BY <1>31 DEF ReportError, CloseTurn
<1>32. ASSUME AfterTurn PROVE StartsNoWork
  BY <1>32 DEF AfterTurn, HasPending
<1>33. ASSUME KickSettles PROVE StartsNoWork
  BY <1>33 DEF KickSettles
<1>34. ASSUME ReplayWake PROVE StartsNoWork
  BY <1>34 DEF ReplayWake, WakeDriver, StartDriver, LatchWake, Latches
<1>35. ASSUME NEW cause \in Causes, CancelClears(cause) PROVE StartsNoWork
  BY <1>35 DEF CancelClears, Mark
<1>36. ASSUME ClearNextTurn PROVE StartsNoWork
  BY <1>36 DEF ClearNextTurn, Mark
<1>37. ASSUME AbortAfterClear PROVE StartsNoWork
  BY <1>37 DEF AbortAfterClear, AbortActivity, Aborted
<1>38. ASSUME DecisionEndsTurn PROVE StartsNoWork
  BY <1>38 DEF DecisionEndsTurn, CloseTurn
<1>39. ASSUME DecisionCompletes PROVE StartsNoWork
  BY <1>39 DEF DecisionCompletes, CloseTurn
<1>40. ASSUME OpenStep PROVE StartsNoWork
  BY <1>40 DEF OpenStep, EntersStep, Unaborted, Aborted
<1>41. ASSUME OpenStepThrows PROVE StartsNoWork
  BY <1>41 DEF OpenStepThrows, EntersStep, DropUnadmitted, Mark, Aborted
<1> HIDE DEF StartsNoWork, Aborted, Unaborted, Control, At, NoCalls, TurnPoints,
       StepPoints, vars, phaseVars, inboxVars, ctlVars, logVars, clearVars, frameVars, histVars
<1> QED BY <1>1, <1>2, <1>3, <1>4, <1>5, <1>6, <1>7, <1>8, <1>9, <1>10, <1>11, <1>12,
       <1>13, <1>14, <1>15, <1>16, <1>17, <1>18, <1>19, <1>20, <1>21, <1>22, <1>23,
       <1>24, <1>25, <1>26, <1>27, <1>28, <1>29, <1>30, <1>31, <1>32, <1>33, <1>34,
       <1>35, <1>36, <1>37, <1>38, <1>39, <1>40, <1>41
       DEF Next, Environment, Driver, StepActions, TurnActions

(* Under an aborted signal no step opens, no message is admitted and no    *)
(* request starts.                                                         *)
THEOREM AbortStopsWork == Spec => NoWorkUnderAbort
<1>1. IInv /\ [Next]_vars => [StartsNoWork]_vars
  <2> SUFFICES ASSUME IInv, Next PROVE StartsNoWork
    BY DEF vars
  <2> QED BY AbortStep
<1> QED BY <1>1, Inductive, PTL DEF Spec, NoWorkUnderAbort

LEMMA CancelStep ==
  ASSUME IInv, Next
  PROVE  RecordsCancel
<1> USE DEF RecordsCancel, ClosesTurn, StepEnds, Endings, Aborted, Unaborted, IInv,
       TypeOK, TypeData, Control, At, NoCalls, TurnPoints, StepPoints, vars, phaseVars,
       inboxVars, ctlVars, logVars, clearVars, frameVars, histVars
<1>1. ASSUME NEW m \in Msgs, NEW to \in Targets, NEW wake \in BOOLEAN, Send(m, to, wake)
       PROVE RecordsCancel
  BY <1>1 DEF Send, Enqueue, WakingAfterAbort, Aborted, Mark
<1>2. ASSUME SendWake PROVE RecordsCancel
  BY <1>2 DEF SendWake, WakeDriver, StartDriver, LatchWake, Latches
<1>3. ASSUME NEW m \in Msgs, Withdraw(m) PROVE RecordsCancel
  BY <1>3 DEF Withdraw, Mark
<1>4. ASSUME NEW cause \in Causes, NEW k \in BOOLEAN, Cancel(cause, k)
       PROVE RecordsCancel
  BY <1>4 DEF Cancel, AbortActivity, Mark, QueuedMsgs, Aborted
<1>5. ASSUME BeginMaintenance PROVE RecordsCancel
  BY <1>5 DEF BeginMaintenance
<1>6. ASSUME EndMaintenance PROVE RecordsCancel
  BY <1>6 DEF EndMaintenance, StartDriver, ReleasesWake, HasPending, Aborted
<1>7. ASSUME OpenTurn PROVE RecordsCancel
  BY <1>7 DEF OpenTurn, Unaborted, Aborted
<1>8. ASSUME ClaimBatch PROVE RecordsCancel
  BY <1>8 DEF ClaimBatch, Unaborted, Aborted, Mark
<1>9. ASSUME LoopAborted PROVE RecordsCancel
  BY <1>9 DEF LoopAborted, Aborted
<1>10. ASSUME PreStepThrows PROVE RecordsCancel
  BY <1>10 DEF PreStepThrows, DropUnadmitted, Mark
<1>11. ASSUME NEW verdict \in Verdicts, NEW kept \in SUBSET Msgs, PreStepReturns(verdict, kept)
       PROVE RecordsCancel
  BY <1>11 DEF PreStepReturns, Mark, Unaborted, Aborted, Verdicts
<1>12. ASSUME DecisionBlocks PROVE RecordsCancel
  <2>1. \A x \in Causes : x \notin StepEnds \cup {"blocked", "error", "null", "live"}
    BY DriverConstants
  <2> QED BY <1>12, <2>1 DEF DecisionBlocks, CloseTurn, DecidedBeforeAbort
<1>13. ASSUME AdmitRequest PROVE RecordsCancel
  BY <1>13 DEF AdmitRequest, FirstAttempt, Mark, Unaborted, Aborted
<1>14. ASSUME PrepareThrows PROVE RecordsCancel
  BY <1>14 DEF PrepareThrows, StepThrows
<1>15. ASSUME StreamThrows PROVE RecordsCancel
  BY <1>15 DEF StreamThrows, StepThrows
<1>16. ASSUME StreamFails PROVE RecordsCancel
  BY <1>16 DEF StreamFails
<1>17. ASSUME RetryRequest PROVE RecordsCancel
  BY <1>17 DEF RetryRequest
<1>18. ASSUME RequestErrorThrows PROVE RecordsCancel
  BY <1>18 DEF RequestErrorThrows, StepThrows
<1>19. ASSUME NEW end \in StepEnds, ReplyEndsStep(end) PROVE RecordsCancel
  BY <1>19 DEF ReplyEndsStep, StepReturns, StickyEnd
<1>20. ASSUME NEW calls \in SUBSET Calls, ReplyCallsTools(calls) PROVE RecordsCancel
  BY <1>20 DEF ReplyCallsTools
<1>21. ASSUME NEW c \in Calls, CallTool(c) PROVE RecordsCancel
  BY <1>21 DEF CallTool
<1>22. ASSUME NEW c \in Calls, ToolResult(c) PROVE RecordsCancel
  BY <1>22 DEF ToolResult
<1>23. ASSUME NEW contexts \in ContextChoices, NEW concluded \in BOOLEAN,
       ToolsReturn(contexts, concluded) PROVE RecordsCancel
  BY <1>23 DEF ToolsReturn, SpliceContexts, StepReturns, StickyEnd, Mark
<1>24. ASSUME NEW contexts \in ContextChoices, ToolsThrow(contexts) PROVE RecordsCancel
  BY <1>24 DEF ToolsThrow, SpliceContexts, StepThrows, Mark
<1>25. ASSUME RecoverCalls PROVE RecordsCancel
  BY <1>25 DEF RecoverCalls, Recovered
<1>26. ASSUME CloseFailedStep PROVE RecordsCancel
  BY <1>26 DEF CloseFailedStep, DropUnadmitted, Mark
<1>27. ASSUME AfterStep PROVE RecordsCancel
  BY <1>27 DEF AfterStep, Stops, ContinueTurn
<1>28. ASSUME StoppingSettles PROVE RecordsCancel
  <2>1. \A x \in Causes : x \notin StepEnds \cup {"blocked", "error", "null", "live"}
    BY DriverConstants DEF StepEnds
  <2> QED BY <1>28, <2>1 DEF StoppingSettles, CloseTurn, ContinueTurn
<1>29. ASSUME StoppingThrows PROVE RecordsCancel
  BY <1>29 DEF StoppingThrows
<1>30. ASSUME CatchTurn PROVE RecordsCancel
  <2>1. \A x \in Causes : x \notin StepEnds \cup {"blocked", "error", "null", "live"}
    BY DriverConstants DEF StepEnds
  <2> QED BY <1>30, <2>1 DEF CatchTurn, CloseTurn, Aborted
<1>31. ASSUME ReportError PROVE RecordsCancel
  <2>1. \A x \in Causes : x \notin StepEnds \cup {"blocked", "error", "null", "live"}
    BY DriverConstants DEF StepEnds
  <2> QED BY <1>31, <2>1 DEF ReportError, CloseTurn
<1>32. ASSUME AfterTurn PROVE RecordsCancel
  BY <1>32 DEF AfterTurn, HasPending
<1>33. ASSUME KickSettles PROVE RecordsCancel
  BY <1>33 DEF KickSettles
<1>34. ASSUME ReplayWake PROVE RecordsCancel
  BY <1>34 DEF ReplayWake, WakeDriver, StartDriver, LatchWake, Latches
<1>35. ASSUME NEW cause \in Causes, CancelClears(cause) PROVE RecordsCancel
  BY <1>35 DEF CancelClears, Mark
<1>36. ASSUME ClearNextTurn PROVE RecordsCancel
  BY <1>36 DEF ClearNextTurn, Mark
<1>37. ASSUME AbortAfterClear PROVE RecordsCancel
  BY <1>37 DEF AbortAfterClear, AbortActivity, Aborted
<1>38. ASSUME DecisionEndsTurn PROVE RecordsCancel
  <2>1. \A x \in Causes : x \notin StepEnds \cup {"blocked", "error", "null", "live"}
    BY DriverConstants
  <2> QED BY <1>38, <2>1 DEF DecisionEndsTurn, CloseTurn, DecidedBeforeAbort
<1>39. ASSUME DecisionCompletes PROVE RecordsCancel
  <2>1. \A x \in Causes : x \notin StepEnds \cup {"blocked", "error", "null", "live"}
    BY DriverConstants
  <2> QED BY <1>39, <2>1 DEF DecisionCompletes, CloseTurn, DecidedBeforeAbort
<1>40. ASSUME OpenStep PROVE RecordsCancel
  BY <1>40 DEF OpenStep, EntersStep, Unaborted, Aborted
<1>41. ASSUME OpenStepThrows PROVE RecordsCancel
  BY <1>41 DEF OpenStepThrows, EntersStep, DropUnadmitted, Mark, Aborted
<1> HIDE DEF RecordsCancel, ClosesTurn, StepEnds, Endings, Aborted, Unaborted, IInv,
       TypeOK, TypeData, Control, At, NoCalls, TurnPoints, StepPoints, vars, phaseVars,
       inboxVars, ctlVars, logVars, clearVars, frameVars, histVars
<1> QED BY <1>1, <1>2, <1>3, <1>4, <1>5, <1>6, <1>7, <1>8, <1>9, <1>10, <1>11, <1>12,
       <1>13, <1>14, <1>15, <1>16, <1>17, <1>18, <1>19, <1>20, <1>21, <1>22, <1>23,
       <1>24, <1>25, <1>26, <1>27, <1>28, <1>29, <1>30, <1>31, <1>32, <1>33, <1>34,
       <1>35, <1>36, <1>37, <1>38, <1>39, <1>40, <1>41
       DEF Next, Environment, Driver, StepActions, TurnActions

LEMMA TruncationStep ==
  ASSUME IInv, Next
  PROVE  RecordsTruncation
<1> USE DEF RecordsTruncation, ClosesTurn, StepEnds, Endings, Aborted, Unaborted, IInv,
       TypeOK, TypeData, Control, At, NoCalls, TurnPoints, StepPoints, vars, phaseVars,
       inboxVars, ctlVars, logVars, clearVars, frameVars, histVars
<1>1. ASSUME NEW m \in Msgs, NEW to \in Targets, NEW wake \in BOOLEAN, Send(m, to, wake)
       PROVE RecordsTruncation
  BY <1>1 DEF Send, Enqueue, WakingAfterAbort, Aborted, Mark
<1>2. ASSUME SendWake PROVE RecordsTruncation
  BY <1>2 DEF SendWake, WakeDriver, StartDriver, LatchWake, Latches
<1>3. ASSUME NEW m \in Msgs, Withdraw(m) PROVE RecordsTruncation
  BY <1>3 DEF Withdraw, Mark
<1>4. ASSUME NEW cause \in Causes, NEW k \in BOOLEAN, Cancel(cause, k)
       PROVE RecordsTruncation
  BY <1>4 DEF Cancel, AbortActivity, Mark, QueuedMsgs, Aborted
<1>5. ASSUME BeginMaintenance PROVE RecordsTruncation
  BY <1>5 DEF BeginMaintenance
<1>6. ASSUME EndMaintenance PROVE RecordsTruncation
  BY <1>6 DEF EndMaintenance, StartDriver, ReleasesWake, HasPending, Aborted
<1>7. ASSUME OpenTurn PROVE RecordsTruncation
  BY <1>7 DEF OpenTurn, Unaborted, Aborted
<1>8. ASSUME ClaimBatch PROVE RecordsTruncation
  BY <1>8 DEF ClaimBatch, Unaborted, Aborted, Mark
<1>9. ASSUME LoopAborted PROVE RecordsTruncation
  BY <1>9 DEF LoopAborted, Aborted
<1>10. ASSUME PreStepThrows PROVE RecordsTruncation
  BY <1>10 DEF PreStepThrows, DropUnadmitted, Mark
<1>11. ASSUME NEW verdict \in Verdicts, NEW kept \in SUBSET Msgs, PreStepReturns(verdict, kept)
       PROVE RecordsTruncation
  BY <1>11 DEF PreStepReturns, Mark, Unaborted, Aborted, Verdicts
<1>12. ASSUME DecisionBlocks PROVE RecordsTruncation
  BY <1>12 DEF DecisionBlocks, CloseTurn
<1>13. ASSUME AdmitRequest PROVE RecordsTruncation
  BY <1>13 DEF AdmitRequest, FirstAttempt, Mark, Unaborted, Aborted
<1>14. ASSUME PrepareThrows PROVE RecordsTruncation
  BY <1>14 DEF PrepareThrows, StepThrows
<1>15. ASSUME StreamThrows PROVE RecordsTruncation
  BY <1>15 DEF StreamThrows, StepThrows
<1>16. ASSUME StreamFails PROVE RecordsTruncation
  BY <1>16 DEF StreamFails
<1>17. ASSUME RetryRequest PROVE RecordsTruncation
  BY <1>17 DEF RetryRequest
<1>18. ASSUME RequestErrorThrows PROVE RecordsTruncation
  BY <1>18 DEF RequestErrorThrows, StepThrows
<1>19. ASSUME NEW end \in StepEnds, ReplyEndsStep(end) PROVE RecordsTruncation
  BY <1>19 DEF ReplyEndsStep, StepReturns, StickyEnd
<1>20. ASSUME NEW calls \in SUBSET Calls, ReplyCallsTools(calls) PROVE RecordsTruncation
  BY <1>20 DEF ReplyCallsTools
<1>21. ASSUME NEW c \in Calls, CallTool(c) PROVE RecordsTruncation
  BY <1>21 DEF CallTool
<1>22. ASSUME NEW c \in Calls, ToolResult(c) PROVE RecordsTruncation
  BY <1>22 DEF ToolResult
<1>23. ASSUME NEW contexts \in ContextChoices, NEW concluded \in BOOLEAN,
       ToolsReturn(contexts, concluded) PROVE RecordsTruncation
  BY <1>23 DEF ToolsReturn, SpliceContexts, StepReturns, StickyEnd, Mark
<1>24. ASSUME NEW contexts \in ContextChoices, ToolsThrow(contexts)
       PROVE RecordsTruncation
  BY <1>24 DEF ToolsThrow, SpliceContexts, StepThrows, Mark
<1>25. ASSUME RecoverCalls PROVE RecordsTruncation
  BY <1>25 DEF RecoverCalls, Recovered
<1>26. ASSUME CloseFailedStep PROVE RecordsTruncation
  BY <1>26 DEF CloseFailedStep, DropUnadmitted, Mark
<1>27. ASSUME AfterStep PROVE RecordsTruncation
  BY <1>27 DEF AfterStep, Stops, ContinueTurn
<1>28. ASSUME StoppingSettles PROVE RecordsTruncation
  <2>1. \A x \in Causes : x \notin StepEnds \cup {"blocked", "error", "null", "live"}
    BY DriverConstants DEF StepEnds
  <2> QED BY <1>28, <2>1 DEF StoppingSettles, CloseTurn, ContinueTurn
<1>29. ASSUME StoppingThrows PROVE RecordsTruncation
  BY <1>29 DEF StoppingThrows
<1>30. ASSUME CatchTurn PROVE RecordsTruncation
  <2>1. \A x \in Causes : x \notin StepEnds \cup {"blocked", "error", "null", "live"}
    BY DriverConstants DEF StepEnds
  <2> QED BY <1>30, <2>1 DEF CatchTurn, CloseTurn, Aborted
<1>31. ASSUME ReportError PROVE RecordsTruncation
  <2>1. \A x \in Causes : x \notin StepEnds \cup {"blocked", "error", "null", "live"}
    BY DriverConstants DEF StepEnds
  <2> QED BY <1>31, <2>1 DEF ReportError, CloseTurn
<1>32. ASSUME AfterTurn PROVE RecordsTruncation
  BY <1>32 DEF AfterTurn, HasPending
<1>33. ASSUME KickSettles PROVE RecordsTruncation
  BY <1>33 DEF KickSettles
<1>34. ASSUME ReplayWake PROVE RecordsTruncation
  BY <1>34 DEF ReplayWake, WakeDriver, StartDriver, LatchWake, Latches
<1>35. ASSUME NEW cause \in Causes, CancelClears(cause) PROVE RecordsTruncation
  BY <1>35 DEF CancelClears, Mark
<1>36. ASSUME ClearNextTurn PROVE RecordsTruncation
  BY <1>36 DEF ClearNextTurn, Mark
<1>37. ASSUME AbortAfterClear PROVE RecordsTruncation
  BY <1>37 DEF AbortAfterClear, AbortActivity, Aborted
<1>38. ASSUME DecisionEndsTurn PROVE RecordsTruncation
  BY <1>38 DEF DecisionEndsTurn, CloseTurn
<1>39. ASSUME DecisionCompletes PROVE RecordsTruncation
  BY <1>39 DEF DecisionCompletes, CloseTurn
<1>40. ASSUME OpenStep PROVE RecordsTruncation
  BY <1>40 DEF OpenStep, EntersStep, Unaborted, Aborted
<1>41. ASSUME OpenStepThrows PROVE RecordsTruncation
  BY <1>41 DEF OpenStepThrows, EntersStep, DropUnadmitted, Mark, Aborted
<1> HIDE DEF RecordsTruncation, ClosesTurn, StepEnds, Endings, Aborted, Unaborted, IInv,
       TypeOK, TypeData, Control, At, NoCalls, TurnPoints, StepPoints, vars, phaseVars,
       inboxVars, ctlVars, logVars, clearVars, frameVars, histVars
<1> QED BY <1>1, <1>2, <1>3, <1>4, <1>5, <1>6, <1>7, <1>8, <1>9, <1>10, <1>11, <1>12,
       <1>13, <1>14, <1>15, <1>16, <1>17, <1>18, <1>19, <1>20, <1>21, <1>22, <1>23,
       <1>24, <1>25, <1>26, <1>27, <1>28, <1>29, <1>30, <1>31, <1>32, <1>33, <1>34,
       <1>35, <1>36, <1>37, <1>38, <1>39, <1>40, <1>41
       DEF Next, Environment, Driver, StepActions, TurnActions

(* A cancelled turn ends with the cause of its first cancel, or with what  *)
(* preStep() decided a microtask before it; a truncated turn never ends as *)
(* completed.                                                              *)
THEOREM EndingsAreHonest == Spec => EndingsHonest
<1>1. IInv /\ [Next]_vars => [RecordsCancel /\ RecordsTruncation]_vars
  <2> SUFFICES ASSUME IInv, Next PROVE RecordsCancel /\ RecordsTruncation
    BY DEF vars
  <2> QED BY CancelStep, TruncationStep
<1> QED BY <1>1, Inductive, PTL DEF Spec, EndingsHonest

LEMMA ParkedStep ==
  ASSUME IInv, Next
  PROVE  StaysParked
<1> USE DEF StaysParked, Aborted, Unaborted, IInv, Latching, Control, At, NoCalls,
       TurnPoints, StepPoints, vars, phaseVars, inboxVars, ctlVars, logVars, clearVars, frameVars,
       histVars
<1>1. ASSUME NEW m \in Msgs, NEW to \in Targets, NEW wake \in BOOLEAN, Send(m, to, wake)
       PROVE StaysParked
  BY <1>1 DEF Send, Enqueue, WakingAfterAbort, Aborted, Mark
<1>2. ASSUME SendWake PROVE StaysParked
  BY <1>2 DEF SendWake, WakeDriver, StartDriver, LatchWake, Latches
<1>3. ASSUME NEW m \in Msgs, Withdraw(m) PROVE StaysParked
  BY <1>3 DEF Withdraw, Mark
<1>4. ASSUME NEW cause \in Causes, NEW k \in BOOLEAN, Cancel(cause, k) PROVE StaysParked
  BY <1>4 DEF Cancel, AbortActivity, Mark, QueuedMsgs, Aborted
<1>5. ASSUME BeginMaintenance PROVE StaysParked
  BY <1>5 DEF BeginMaintenance
<1>6. ASSUME EndMaintenance PROVE StaysParked
  BY <1>6 DEF EndMaintenance, StartDriver, ReleasesWake, HasPending, Aborted
<1>7. ASSUME OpenTurn PROVE StaysParked
  BY <1>7 DEF OpenTurn, Unaborted, Aborted
<1>8. ASSUME ClaimBatch PROVE StaysParked
  BY <1>8 DEF ClaimBatch, Unaborted, Aborted, Mark
<1>9. ASSUME LoopAborted PROVE StaysParked
  BY <1>9 DEF LoopAborted, Aborted
<1>10. ASSUME PreStepThrows PROVE StaysParked
  BY <1>10 DEF PreStepThrows, DropUnadmitted, Mark
<1>11. ASSUME NEW verdict \in Verdicts, NEW kept \in SUBSET Msgs, PreStepReturns(verdict, kept)
       PROVE StaysParked
  BY <1>11 DEF PreStepReturns, Mark, Unaborted, Aborted, Verdicts
<1>12. ASSUME DecisionBlocks PROVE StaysParked
  BY <1>12 DEF DecisionBlocks, CloseTurn
<1>13. ASSUME AdmitRequest PROVE StaysParked
  BY <1>13 DEF AdmitRequest, FirstAttempt, Mark, Unaborted, Aborted
<1>14. ASSUME PrepareThrows PROVE StaysParked
  BY <1>14 DEF PrepareThrows, StepThrows
<1>15. ASSUME StreamThrows PROVE StaysParked
  BY <1>15 DEF StreamThrows, StepThrows
<1>16. ASSUME StreamFails PROVE StaysParked
  BY <1>16 DEF StreamFails
<1>17. ASSUME RetryRequest PROVE StaysParked
  BY <1>17 DEF RetryRequest
<1>18. ASSUME RequestErrorThrows PROVE StaysParked
  BY <1>18 DEF RequestErrorThrows, StepThrows
<1>19. ASSUME NEW end \in StepEnds, ReplyEndsStep(end) PROVE StaysParked
  BY <1>19 DEF ReplyEndsStep, StepReturns, StickyEnd
<1>20. ASSUME NEW calls \in SUBSET Calls, ReplyCallsTools(calls) PROVE StaysParked
  BY <1>20 DEF ReplyCallsTools
<1>21. ASSUME NEW c \in Calls, CallTool(c) PROVE StaysParked
  BY <1>21 DEF CallTool
<1>22. ASSUME NEW c \in Calls, ToolResult(c) PROVE StaysParked
  BY <1>22 DEF ToolResult
<1>23. ASSUME NEW contexts \in ContextChoices, NEW concluded \in BOOLEAN,
       ToolsReturn(contexts, concluded) PROVE StaysParked
  BY <1>23 DEF ToolsReturn, SpliceContexts, StepReturns, StickyEnd, Mark
<1>24. ASSUME NEW contexts \in ContextChoices, ToolsThrow(contexts) PROVE StaysParked
  BY <1>24 DEF ToolsThrow, SpliceContexts, StepThrows, Mark
<1>25. ASSUME RecoverCalls PROVE StaysParked
  BY <1>25 DEF RecoverCalls, Recovered
<1>26. ASSUME CloseFailedStep PROVE StaysParked
  BY <1>26 DEF CloseFailedStep, DropUnadmitted, Mark
<1>27. ASSUME AfterStep PROVE StaysParked
  BY <1>27 DEF AfterStep, Stops, ContinueTurn
<1>28. ASSUME StoppingSettles PROVE StaysParked
  BY <1>28 DEF StoppingSettles, CloseTurn, ContinueTurn
<1>29. ASSUME StoppingThrows PROVE StaysParked
  BY <1>29 DEF StoppingThrows
<1>30. ASSUME CatchTurn PROVE StaysParked
  BY <1>30 DEF CatchTurn, CloseTurn, Aborted
<1>31. ASSUME ReportError PROVE StaysParked
  BY <1>31 DEF ReportError, CloseTurn
<1>32. ASSUME AfterTurn PROVE StaysParked
  BY <1>32 DEF AfterTurn, HasPending
<1>33. ASSUME KickSettles PROVE StaysParked
  BY <1>33 DEF KickSettles
<1>34. ASSUME ReplayWake PROVE StaysParked
  BY <1>34 DEF ReplayWake, WakeDriver, StartDriver, LatchWake, Latches
<1>35. ASSUME NEW cause \in Causes, CancelClears(cause) PROVE StaysParked
  BY <1>35 DEF CancelClears, Mark
<1>36. ASSUME ClearNextTurn PROVE StaysParked
  BY <1>36 DEF ClearNextTurn, Mark
<1>37. ASSUME AbortAfterClear PROVE StaysParked
  BY <1>37 DEF AbortAfterClear, AbortActivity, Aborted
<1>38. ASSUME DecisionEndsTurn PROVE StaysParked
  BY <1>38 DEF DecisionEndsTurn, CloseTurn
<1>39. ASSUME DecisionCompletes PROVE StaysParked
  BY <1>39 DEF DecisionCompletes, CloseTurn
<1>40. ASSUME OpenStep PROVE StaysParked
  BY <1>40 DEF OpenStep, EntersStep, Unaborted, Aborted
<1>41. ASSUME OpenStepThrows PROVE StaysParked
  BY <1>41 DEF OpenStepThrows, EntersStep, DropUnadmitted, Mark, Aborted
<1> HIDE DEF StaysParked, Aborted, Unaborted, IInv, Latching, Control, At, NoCalls,
       TurnPoints, StepPoints, vars, phaseVars, inboxVars, ctlVars, logVars, clearVars, frameVars,
       histVars
<1> QED BY <1>1, <1>2, <1>3, <1>4, <1>5, <1>6, <1>7, <1>8, <1>9, <1>10, <1>11, <1>12,
       <1>13, <1>14, <1>15, <1>16, <1>17, <1>18, <1>19, <1>20, <1>21, <1>22, <1>23,
       <1>24, <1>25, <1>26, <1>27, <1>28, <1>29, <1>30, <1>31, <1>32, <1>33, <1>34,
       <1>35, <1>36, <1>37, <1>38, <1>39, <1>40, <1>41
       DEF Next, Environment, Driver, StepActions, TurnActions

(* A disposed cancel ends the activity without another driver.             *)
THEOREM DisposedParks == Spec => DisposedStaysParked
<1>1. IInv /\ [Next]_vars => [StaysParked]_vars
  <2> SUFFICES ASSUME IInv, Next PROVE StaysParked
    BY DEF vars
  <2> QED BY ParkedStep
<1> QED BY <1>1, Inductive, PTL DEF Spec, DisposedStaysParked


-----------------------------------------------------------------------------
(* The driver's log implements Transcript. *)

LEMMA LogStep ==
  ASSUME IInv, Next
  PROVE  [Log!Next]_(Log!vars)
<1> USE DEF IInv, TypeOK, TypeData, Control, At, NoCalls, TurnPoints, StepPoints, vars,
       phaseVars, inboxVars, ctlVars, logVars, clearVars, frameVars, histVars
<1>1. ASSUME NEW m \in Msgs, NEW to \in Targets, NEW wake \in BOOLEAN, Send(m, to, wake)
       PROVE [Log!Next]_(Log!vars)
  BY <1>1 DEF Send, Enqueue, WakingAfterAbort, Aborted, Mark, Log!vars
<1>2. ASSUME SendWake PROVE [Log!Next]_(Log!vars)
  <2>1. Log!ResetSteps \/ UNCHANGED Log!vars
    BY <1>2 DEF SendWake, WakeDriver, StartDriver, LatchWake, Latches, Log!ResetSteps,
           Log!vars
  <2> QED BY <2>1 DEF Log!Next
<1>3. ASSUME NEW m \in Msgs, Withdraw(m) PROVE [Log!Next]_(Log!vars)
  BY <1>3 DEF Withdraw, Mark, Log!vars
<1>4. ASSUME NEW cause \in Causes, NEW k \in BOOLEAN, Cancel(cause, k)
       PROVE [Log!Next]_(Log!vars)
  BY <1>4 DEF Cancel, AbortActivity, Mark, QueuedMsgs, Aborted, Log!vars
<1>5. ASSUME BeginMaintenance PROVE [Log!Next]_(Log!vars)
  BY <1>5 DEF BeginMaintenance, Log!vars
<1>6. ASSUME EndMaintenance PROVE [Log!Next]_(Log!vars)
  <2>1. Log!ResetSteps \/ UNCHANGED Log!vars
    BY <1>6 DEF EndMaintenance, StartDriver, ReleasesWake, HasPending, Aborted,
           Log!ResetSteps, Log!vars
  <2> QED BY <2>1 DEF Log!Next
<1>7. ASSUME OpenTurn PROVE [Log!Next]_(Log!vars)
  <2>1. Log!StartTurn \/ UNCHANGED Log!vars
    BY <1>7 DEF OpenTurn, Unaborted, Aborted, Log!StartTurn, Log!Unanswered, Log!vars
  <2> QED BY <2>1 DEF Log!Next
<1>8. ASSUME ClaimBatch PROVE [Log!Next]_(Log!vars)
  BY <1>8 DEF ClaimBatch, Unaborted, Aborted, Mark, Log!vars
<1>9. ASSUME LoopAborted PROVE [Log!Next]_(Log!vars)
  BY <1>9 DEF LoopAborted, Aborted, Log!vars
<1>10. ASSUME PreStepThrows PROVE [Log!Next]_(Log!vars)
  BY <1>10 DEF PreStepThrows, DropUnadmitted, Mark, Log!vars
<1>11. ASSUME NEW verdict \in Verdicts, NEW kept \in SUBSET Msgs, PreStepReturns(verdict, kept)
       PROVE [Log!Next]_(Log!vars)
  BY <1>11 DEF PreStepReturns, Mark, Unaborted, Aborted, Verdicts, Log!vars
<1>12. ASSUME DecisionBlocks PROVE [Log!Next]_(Log!vars)
  <2>1. Log!EndTurn \/ UNCHANGED Log!vars
    BY <1>12 DEF DecisionBlocks, CloseTurn, Log!EndTurn, Log!Unanswered, Log!vars
  <2> QED BY <2>1 DEF Log!Next
<1>13. ASSUME AdmitRequest PROVE [Log!Next]_(Log!vars)
  <2>1. CASE FirstAttempt
    <3>1. /\ openStep # 0 /\ ~Log!Unanswered /\ batch \in SUBSET Msgs
          /\ \A m \in batch : userLog[m] = 0
      BY <1>13, <2>1 DEF AdmitRequest, FirstAttempt, Placement, MessageAccounting,
             Log!Unanswered
    <3>2. /\ userLog' = [m \in Msgs |-> IF m \in batch THEN 1 ELSE userLog[m]]
          /\ UNCHANGED <<turn, openTurn, step, openStep, pending>>
      BY <1>13, <2>1, <3>1 DEF AdmitRequest
    <3>3. Log!AdmitMessages
      BY <3>1, <3>2 DEF Log!AdmitMessages
    <3> QED BY <3>3 DEF Log!Next
  <2>2. CASE ~FirstAttempt
    BY <1>13, <2>2 DEF AdmitRequest, Log!vars
  <2> QED BY <2>1, <2>2
<1>14. ASSUME PrepareThrows PROVE [Log!Next]_(Log!vars)
  BY <1>14 DEF PrepareThrows, StepThrows, Log!vars
<1>15. ASSUME StreamThrows PROVE [Log!Next]_(Log!vars)
  BY <1>15 DEF StreamThrows, StepThrows, Log!vars
<1>16. ASSUME StreamFails PROVE [Log!Next]_(Log!vars)
  BY <1>16 DEF StreamFails, Log!vars
<1>17. ASSUME RetryRequest PROVE [Log!Next]_(Log!vars)
  BY <1>17 DEF RetryRequest, Log!vars
<1>18. ASSUME RequestErrorThrows PROVE [Log!Next]_(Log!vars)
  BY <1>18 DEF RequestErrorThrows, StepThrows, Log!vars
<1>19. ASSUME NEW end \in StepEnds, ReplyEndsStep(end) PROVE [Log!Next]_(Log!vars)
  <2>1. Log!EndStep \/ UNCHANGED Log!vars
    BY <1>19 DEF ReplyEndsStep, StepReturns, StickyEnd, Log!EndStep, Log!Unanswered,
           Log!vars
  <2> QED BY <2>1 DEF Log!Next
<1>20. ASSUME NEW calls \in SUBSET Calls, ReplyCallsTools(calls)
       PROVE [Log!Next]_(Log!vars)
  <2>1. /\ openStep # 0 /\ ~Log!Unanswered /\ calls \in SUBSET Calls
        /\ pending' = [c \in Calls |-> IF c \in calls THEN "requested" ELSE "none"]
        /\ UNCHANGED <<turn, openTurn, step, openStep, userLog>>
    BY <1>20 DEF ReplyCallsTools, Log!Unanswered
  <2>2. Log!RequestTools
    BY ONLY <2>1, Zenon DEF Log!RequestTools
  <2> QED BY <2>2 DEF Log!Next
<1>21. ASSUME NEW c \in Calls, CallTool(c) PROVE [Log!Next]_(Log!vars)
  <2>1. Log!RecordCall(c) \/ UNCHANGED Log!vars
    BY <1>21 DEF CallTool, Log!RecordCall, Log!Unanswered, Log!vars
  <2> QED BY <2>1 DEF Log!Next
<1>22. ASSUME NEW c \in Calls, ToolResult(c) PROVE [Log!Next]_(Log!vars)
  <2>1. /\ pending[c] # "none" /\ openStep # 0
        /\ pending' = [pending EXCEPT ![c] = "none"]
        /\ UNCHANGED <<turn, openTurn, step, openStep, userLog>>
    BY <1>22 DEF ToolResult
  <2>2. pending' = [x \in Calls |-> IF x \in {c} THEN "none" ELSE pending[x]]
    BY <2>1
  <2>3. {c} \in SUBSET Calls /\ \A x \in {c} : pending[x] # "none"
    BY <1>22, <2>1
  <2>4. Log!AnswerCalls
    BY ONLY <2>1, <2>2, <2>3, Zenon DEF Log!AnswerCalls
  <2> QED BY <2>4 DEF Log!Next
<1>23. ASSUME NEW contexts \in ContextChoices, NEW concluded \in BOOLEAN,
       ToolsReturn(contexts, concluded) PROVE [Log!Next]_(Log!vars)
  <2>1. Log!EndStep \/ UNCHANGED Log!vars
    BY <1>23 DEF ToolsReturn, SpliceContexts, StepReturns, StickyEnd, Mark, Log!EndStep,
           Log!Unanswered, Log!vars
  <2> QED BY <2>1 DEF Log!Next
<1>24. ASSUME NEW contexts \in ContextChoices, ToolsThrow(contexts)
       PROVE [Log!Next]_(Log!vars)
  BY <1>24 DEF ToolsThrow, SpliceContexts, StepThrows, Mark, Log!vars
<1>25. ASSUME RecoverCalls PROVE [Log!Next]_(Log!vars)
  <2> DEFINE C == {x \in Calls : pending[x] # "none"}
  <2>1. /\ openStep # 0 /\ \A c \in C : pending[c] # "none"
        /\ pending' = [c \in Calls |-> IF c \in C THEN "none" ELSE pending[c]]
        /\ UNCHANGED <<turn, openTurn, step, openStep, userLog>>
    BY <1>25 DEF RecoverCalls, Recovered
  <2>2. C \in SUBSET Calls
    OBVIOUS
  <2> HIDE DEF C
  <2>3. Log!AnswerCalls
    BY ONLY <2>1, <2>2, Zenon DEF Log!AnswerCalls
  <2> QED BY <2>3 DEF Log!Next
<1>26. ASSUME CloseFailedStep PROVE [Log!Next]_(Log!vars)
  <2>1. Log!EndStep \/ UNCHANGED Log!vars
    BY <1>26 DEF CloseFailedStep, DropUnadmitted, Mark, Log!EndStep, Log!Unanswered,
           Log!vars
  <2> QED BY <2>1 DEF Log!Next
<1>27. ASSUME AfterStep PROVE [Log!Next]_(Log!vars)
  BY <1>27 DEF AfterStep, Stops, ContinueTurn, Log!vars
<1>28. ASSUME StoppingSettles PROVE [Log!Next]_(Log!vars)
  <2>1. Log!EndTurn \/ UNCHANGED Log!vars
    BY <1>28 DEF StoppingSettles, CloseTurn, ContinueTurn, Log!EndTurn, Log!Unanswered,
           Log!vars
  <2> QED BY <2>1 DEF Log!Next
<1>29. ASSUME StoppingThrows PROVE [Log!Next]_(Log!vars)
  BY <1>29 DEF StoppingThrows, Log!vars
<1>30. ASSUME CatchTurn PROVE [Log!Next]_(Log!vars)
  <2>1. Log!EndTurn \/ UNCHANGED Log!vars
    BY <1>30 DEF CatchTurn, CloseTurn, Aborted, Log!EndTurn, Log!Unanswered, Log!vars
  <2> QED BY <2>1 DEF Log!Next
<1>31. ASSUME ReportError PROVE [Log!Next]_(Log!vars)
  <2>1. Log!EndTurn \/ UNCHANGED Log!vars
    BY <1>31 DEF ReportError, CloseTurn, Log!EndTurn, Log!Unanswered, Log!vars
  <2> QED BY <2>1 DEF Log!Next
<1>32. ASSUME AfterTurn PROVE [Log!Next]_(Log!vars)
  <2>1. Log!ResetSteps \/ UNCHANGED Log!vars
    BY <1>32 DEF AfterTurn, HasPending, Log!ResetSteps, Log!vars
  <2> QED BY <2>1 DEF Log!Next
<1>33. ASSUME KickSettles PROVE [Log!Next]_(Log!vars)
  BY <1>33 DEF KickSettles, Log!vars
<1>34. ASSUME ReplayWake PROVE [Log!Next]_(Log!vars)
  <2>1. Log!ResetSteps \/ UNCHANGED Log!vars
    BY <1>34 DEF ReplayWake, WakeDriver, StartDriver, LatchWake, Latches,
           Log!ResetSteps, Log!vars
  <2> QED BY <2>1 DEF Log!Next
<1>35. ASSUME NEW cause \in Causes, CancelClears(cause) PROVE [Log!Next]_(Log!vars)
  BY <1>35 DEF CancelClears, Mark, Log!vars
<1>36. ASSUME ClearNextTurn PROVE [Log!Next]_(Log!vars)
  BY <1>36 DEF ClearNextTurn, Mark, Log!vars
<1>37. ASSUME AbortAfterClear PROVE [Log!Next]_(Log!vars)
  BY <1>37 DEF AbortAfterClear, AbortActivity, Aborted, Log!vars
<1>38. ASSUME DecisionEndsTurn PROVE [Log!Next]_(Log!vars)
  <2>1. Log!EndTurn \/ UNCHANGED Log!vars
    BY <1>38 DEF DecisionEndsTurn, CloseTurn, Log!EndTurn, Log!Unanswered, Log!vars
  <2> QED BY <2>1 DEF Log!Next
<1>39. ASSUME DecisionCompletes PROVE [Log!Next]_(Log!vars)
  <2>1. Log!EndTurn \/ UNCHANGED Log!vars
    BY <1>39 DEF DecisionCompletes, CloseTurn, Log!EndTurn, Log!Unanswered, Log!vars
  <2> QED BY <2>1 DEF Log!Next
<1>40. ASSUME OpenStep PROVE [Log!Next]_(Log!vars)
  <2>1. Log!StartStep
    BY <1>40 DEF OpenStep, Log!StartStep
  <2> QED BY <2>1 DEF Log!Next
<1>41. ASSUME OpenStepThrows PROVE [Log!Next]_(Log!vars)
  BY <1>41 DEF OpenStepThrows, EntersStep, DropUnadmitted, Mark, Aborted, Log!vars
<1> HIDE DEF IInv, TypeOK, TypeData, Control, At, NoCalls, TurnPoints, StepPoints, vars,
       phaseVars, inboxVars, ctlVars, logVars, clearVars, frameVars, histVars
<1> QED BY <1>1, <1>2, <1>3, <1>4, <1>5, <1>6, <1>7, <1>8, <1>9, <1>10, <1>11, <1>12,
       <1>13, <1>14, <1>15, <1>16, <1>17, <1>18, <1>19, <1>20, <1>21, <1>22, <1>23,
       <1>24, <1>25, <1>26, <1>27, <1>28, <1>29, <1>30, <1>31, <1>32, <1>33, <1>34,
       <1>35, <1>36, <1>37, <1>38, <1>39, <1>40, <1>41
       DEF Next, Environment, Driver, StepActions, TurnActions

(* The session log the driver writes is a transcript its readers accept.   *)
THEOREM TranscriptRefined == Spec => TranscriptWellFormed
<1>1. Init => Log!Init
  BY DEF Init, NoCalls, Log!Init
<1>2. IInv /\ [Next]_vars => [Log!Next]_(Log!vars)
  <2>1. CASE Next
    BY <2>1, LogStep
  <2>2. CASE UNCHANGED vars
    BY <2>2 DEF vars, phaseVars, logVars, Log!vars
  <2> QED BY <2>1, <2>2
<1> QED BY <1>1, <1>2, Inductive, PTL DEF Spec, TranscriptWellFormed, Log!Spec
=============================================================================
