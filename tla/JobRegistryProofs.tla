-------------------------- MODULE JobRegistryProofs --------------------------
(***************************************************************************)
(* Proofs about JobRegistry, for every set of jobs, waits and owners and   *)
(* every limit: an inductive invariant, the safety properties, and the     *)
(* refinement of JobLedger.                                                *)
(***************************************************************************)
EXTENDS JobRegistryProps, FiniteSetTheorems, TLAPS

(* Pushing a frame keeps the others one place further down.                *)
LEMMA PushLemma ==
  ASSUME stack \in Seq(Frames), NEW f \in Frames, Push(f)
  PROVE  /\ stack' \in Seq(Frames) /\ 1 \in DOMAIN stack' /\ stack'[1] = f
         /\ \A i \in DOMAIN stack' : i = 1 \/ (i - 1 \in DOMAIN stack /\ stack'[i] = stack[i - 1])
         /\ DOMAIN stack' \subseteq Nat
  BY DEF Push

(* Popping moves every other frame one place up.                           *)
LEMMA PopLemma ==
  ASSUME stack \in Seq(Frames), NEW f, Top(f), stack' = Tail(stack)
  PROVE  /\ stack' \in Seq(Frames) /\ 1 \in DOMAIN stack /\ stack[1] = f
         /\ \A i \in DOMAIN stack' : i + 1 \in DOMAIN stack /\ stack'[i] = stack[i + 1]
         /\ DOMAIN stack' \subseteq Nat \ {0}
  BY DEF Top

(* No action breaks the types; a job's settlement is recorded once.        *)
LEMMA TypeStep ==
  ASSUME IInv, [Next]_vars PROVE TypeOK'
<1> USE DEF TypeOK, Statuses, Active, Terminal, Waiting
<1>0. TypeOK /\ Records /\ Waiting
  BY DEF IInv
<1>1. ASSUME NEW j \in Jobs, NEW o \in Buckets, Start(j, o) PROVE TypeOK'
  BY <1>0, <1>1, JobConstants DEF Start, vars, jobVars, prodVars, waitVars, tearVars
<1>2. ASSUME NEW o \in Owners, StarterThrows(o) PROVE TypeOK'
  BY <1>0, <1>2 DEF StarterThrows, vars, jobVars, prodVars, waitVars, tearVars
<1>3. ASSUME NEW j \in Jobs, Kill(j) PROVE TypeOK'
  BY <1>0, <1>3 DEF Kill, Live, vars, jobVars, prodVars, waitVars, tearVars
<1>4. ASSUME NEW j \in Jobs, Remove(j) PROVE TypeOK'
  BY <1>0, <1>4 DEF Remove, Drop, vars, jobVars, prodVars, waitVars, tearVars
<1>5. ASSUME NEW w \in Waits, NEW j \in Jobs, Wait(w, j) PROVE TypeOK'
  <2>1. resolvers' \in [Jobs -> SUBSET Waits]
    BY <1>0, <1>5 DEF Wait
  <2>2. seen' \in [Waits -> Statuses \cup {"none"}]
    BY <1>0, <1>5 DEF Wait
  <2>3. /\ wait' \in [Waits -> {"idle", "waiting", "released", "timedout", "aborted", "returned"}]
        /\ waitJob' \in [Waits -> Jobs \cup {"none"}]
    BY <1>0, <1>5 DEF Wait
  <2> QED BY <1>0, <1>5, <2>1, <2>2, <2>3
    DEF Wait, vars, jobVars, prodVars, waitVars, tearVars
<1>6. ASSUME NEW w \in Waits, NEW how \in {"timedout", "aborted"}, LeaveWait(w, how)
  PROVE TypeOK'
  BY <1>0, <1>6 DEF LeaveWait, Unregister, vars, jobVars, prodVars, waitVars, tearVars
<1>7. ASSUME NEW o \in Owners, CloseScope(o) PROVE TypeOK'
  <2>1. CASE o \in ownerCleanups
    <3>1. TearFrame(o) \in Frames /\ o \in Teardowns
      BY DEF Frames, TearFrame, Teardowns
    <3>2. stack' \in Seq(Frames)
      BY <1>0, <1>7, <2>1, <3>1, PushLemma DEF CloseScope, BeginTeardown
    <3>3. Snapshot(o) \subseteq Jobs
      BY <1>0 DEF Snapshot, JobsOf
    <3>4. /\ scope' \in [Owners -> {"open", "unloading", "gone"}]
          /\ ownerCleanups' \subseteq Owners
          /\ UNCHANGED <<jobVars, prodVars, settled, waitVars>>
      BY <1>0, <1>7, <2>1 DEF CloseScope, ForgetCleanup
    <3>5. /\ teardown' \in [Teardowns -> {"none", "cancelling", "awaiting", "dropping", "done"}]
          /\ victims' \in [Teardowns -> SUBSET Jobs] /\ todo' \in [Teardowns -> SUBSET Jobs]
      <4>1. BeginTeardown(o)
        BY <1>7, <2>1 DEF CloseScope
      <4> QED BY <1>0, <3>1, <3>3, <4>1 DEF BeginTeardown
    <3> QED BY <1>0, <3>2, <3>4, <3>5 DEF jobVars, prodVars, waitVars
  <2>2. CASE o \notin ownerCleanups
    BY <1>0, <1>7, <2>2 DEF CloseScope, vars, jobVars, prodVars, waitVars, tearVars
  <2> QED BY <2>1, <2>2
<1>8. ASSUME DisposeService PROVE TypeOK'
  <2>1. TearFrame(Service) \in Frames /\ Service \in Teardowns
    BY DEF Frames, TearFrame, Teardowns
  <2>2. stack' \in Seq(Frames)
    BY <1>0, <1>8, <2>1, PushLemma DEF DisposeService, BeginTeardown
  <2> QED BY <1>0, <1>8, <2>1, <2>2
    DEF DisposeService, BeginTeardown, Snapshot, JobsOf, vars, jobVars, prodVars, waitVars, tearVars
<1>9. ASSUME NEW w \in Waits, WaitReturns(w) PROVE TypeOK'
  BY <1>0, <1>9 DEF WaitReturns, vars, jobVars, prodVars, waitVars, tearVars
<1>10. ASSUME NEW j \in Jobs, SettleReleases(j) PROVE TypeOK'
  <2>1. stack' \in Seq(Frames)
    BY <1>0, <1>10, PopLemma DEF SettleReleases
  <2> QED BY <1>0, <1>10, <2>1
    DEF SettleReleases, vars, jobVars, prodVars, waitVars, tearVars
<1>11. ASSUME NEW j \in Jobs, ProducerSettles(j) PROVE TypeOK'
  <2>1. CASE Unsettled(j)
    <3>1. SettleFrame(j) \in Frames
      BY DEF Frames, SettleFrame
    <3>2. PICK out \in Outcomes : SettleRecords(j, out, IF settleCause[j] = "none" THEN "producer" ELSE settleCause[j])
      BY <1>11, <2>1 DEF ProducerSettles
    <3>3. stack' \in Seq(Frames)
      BY <1>0, <3>1, <3>2, PushLemma DEF SettleRecords
    <3>4. recorded' \in [Jobs -> {0, 1}]
      BY <1>0, <2>1, <3>2 DEF SettleRecords, Unsettled, Records
    <3>5. status' \in [Jobs -> Statuses] /\ cause' \in [Jobs -> {"none", "producer", "kill", "teardown"}]
      BY <1>0, <3>2, JobConstants DEF SettleRecords
    <3> QED BY <1>0, <1>11, <3>3, <3>4, <3>5
      DEF ProducerSettles, vars, jobVars, prodVars, waitVars, tearVars
  <2>2. CASE ~Unsettled(j)
    BY <1>0, <1>11, <2>2 DEF ProducerSettles, vars, jobVars, prodVars, waitVars, tearVars
  <2> QED BY <2>1, <2>2
<1>12. ASSUME NEW t \in Teardowns, NEW j \in Jobs, CancelVictim(t, j) PROVE TypeOK'
  <2>1. CASE status[j] \in Terminal
    BY <1>0, <1>12, <2>1 DEF CancelVictim, vars, jobVars, prodVars, waitVars, tearVars
  <2>2. CASE status[j] \notin Terminal /\ ForceFail(j)
    <3>1. SettleFrame(j) \in Frames
      BY DEF Frames, SettleFrame
    <3>2. stack' \in Seq(Frames)
      BY <1>0, <2>2, <3>1, PushLemma DEF ForceFail, SettleRecords
    <3>3. recorded' \in [Jobs -> {0, 1}]
      BY <1>0, <2>2 DEF ForceFail, SettleRecords, Records
    <3>4. status' \in [Jobs -> Statuses] /\ cause' \in [Jobs -> {"none", "producer", "kill", "teardown"}]
      BY <1>0, <2>2 DEF ForceFail, SettleRecords
    <3>5. todo' \in [Teardowns -> SUBSET Jobs]
      BY <1>0, <1>12 DEF CancelVictim
    <3>7. settleCause' \in [Jobs -> {"none", "kill", "teardown"}]
      BY <1>0, <1>12, <2>2 DEF CancelVictim
    <3>6. UNCHANGED <<store, owner, announced, producer, cancelled, settled, waitVars, scope, ownerCleanups, teardown, victims>>
      BY <1>12, <2>2 DEF CancelVictim, ForceFail
    <3> QED BY <1>0, <3>2, <3>3, <3>4, <3>5, <3>6, <3>7 DEF waitVars
  <2>3. CASE status[j] \notin Terminal /\ status' = [status EXCEPT ![j] = "stopping"]
             /\ UNCHANGED <<cause, recorded, stack>> /\ cancelled' \subseteq Jobs
    BY <1>0, <1>12, <2>3 DEF CancelVictim, vars, jobVars, prodVars, waitVars, tearVars
  <2> QED BY <1>0, <1>12, <2>1, <2>2, <2>3 DEF CancelVictim
<1>13. ASSUME NEW t \in Teardowns, NEW j \in Jobs, DropVictim(t, j) PROVE TypeOK'
  BY <1>0, <1>13 DEF DropVictim, Drop, vars, jobVars, prodVars, waitVars, tearVars
<1>14. ASSUME NEW t \in Teardowns, AllCancelled(t) PROVE TypeOK'
  <2>1. stack' \in Seq(Frames)
    BY <1>0, <1>14, PopLemma DEF AllCancelled
  <2> QED BY <1>0, <1>14, <2>1 DEF AllCancelled, vars, jobVars, prodVars, waitVars, tearVars
<1>15. ASSUME NEW t \in Teardowns, BeginDrop(t) PROVE TypeOK'
  <2>1. TearFrame(t) \in Frames
    BY DEF Frames, TearFrame, Teardowns
  <2>2. stack' \in Seq(Frames)
    BY <1>0, <1>15, <2>1, PushLemma DEF BeginDrop
  <2> QED BY <1>0, <1>15, <2>2 DEF BeginDrop, vars, jobVars, prodVars, waitVars, tearVars
<1>16. ASSUME NEW t \in Teardowns, AllDropped(t) PROVE TypeOK'
  <2>1. stack' \in Seq(Frames)
    BY <1>0, <1>16, PopLemma DEF AllDropped
  <2> QED BY <1>0, <1>16, <2>1 DEF AllDropped, vars, jobVars, prodVars, waitVars, tearVars
<1>17. ASSUME NEW o \in Owners, DetachCleanup(o) PROVE TypeOK'
  <2>1. TearFrame(o) \in Frames /\ o \in Teardowns
    BY DEF Frames, TearFrame, Teardowns
  <2>2. stack' \in Seq(Frames)
    BY <1>0, <1>17, <2>1, PushLemma DEF DetachCleanup, BeginTeardown
  <2> QED BY <1>0, <1>17, <2>1, <2>2
    DEF DetachCleanup, BeginTeardown, Snapshot, JobsOf, ForgetCleanup, vars, jobVars, prodVars, waitVars, tearVars
<1>18. ASSUME NEW j \in Jobs, ProducerReports(j) PROVE TypeOK'
  BY <1>0, <1>18 DEF ProducerReports, vars, jobVars, prodVars, waitVars, tearVars
<1>19. ASSUME UNCHANGED vars PROVE TypeOK'
  BY <1>0, <1>19 DEF vars, jobVars, prodVars, waitVars, tearVars
<1> HIDE DEF TypeOK, Statuses, Active, Terminal, Waiting
<1> QED BY <1>1, <1>2, <1>3, <1>4, <1>5, <1>6, <1>7, <1>8, <1>9, <1>10, <1>11, <1>12, <1>13,
         <1>14, <1>15, <1>16, <1>17, <1>18, <1>19
  DEF Next, Callers, Registry

(* The parts of a record keep agreeing.                                    *)
LEMMA RecordsStep ==
  ASSUME IInv, [Next]_vars PROVE Records'
<1> USE DEF TypeOK, Records, Statuses, Active, Terminal
<1>0. TypeOK /\ Records /\ Settling /\ Victims
  BY DEF IInv
<1>1. ASSUME NEW j \in Jobs, NEW o \in Buckets, Start(j, o) PROVE Records'
  <2>1. owner'[j] # "none" /\ o # "none"
    BY <1>0, <1>1, JobConstants DEF Start
  <2> QED BY <1>0, <1>1, <2>1 DEF Start, waitVars
<1>2. ASSUME NEW o \in Owners, StarterThrows(o) PROVE Records'
  BY <1>0, <1>2
    DEF StarterThrows, BeginTeardown, vars, jobVars, prodVars, waitVars, tearVars
<1>3. ASSUME NEW j \in Jobs, Kill(j) PROVE Records'
  BY <1>0, <1>3 DEF Kill, Live
<1>4. ASSUME NEW j \in Jobs, Remove(j) PROVE Records'
  BY <1>0, <1>4 DEF Remove, Drop, Removable, prodVars
<1>5. ASSUME NEW w \in Waits, NEW j \in Jobs, Wait(w, j) PROVE Records'
  BY <1>0, <1>5 DEF Wait, BeginTeardown, vars, jobVars, prodVars, waitVars, tearVars
<1>6. ASSUME NEW w \in Waits, NEW how \in {"timedout", "aborted"}, LeaveWait(w, how)
  PROVE Records'
  BY <1>0, <1>6 DEF LeaveWait, BeginTeardown, vars, jobVars, prodVars, waitVars, tearVars
<1>7. ASSUME NEW o \in Owners, CloseScope(o) PROVE Records'
  BY <1>0, <1>7 DEF CloseScope, BeginTeardown, vars, jobVars, prodVars, waitVars, tearVars
<1>8. ASSUME DisposeService PROVE Records'
  BY <1>0, <1>8
    DEF DisposeService, BeginTeardown, vars, jobVars, prodVars, waitVars, tearVars
<1>9. ASSUME NEW w \in Waits, WaitReturns(w) PROVE Records'
  BY <1>0, <1>9 DEF WaitReturns, BeginTeardown, vars, jobVars, prodVars, waitVars, tearVars
<1>10. ASSUME NEW j \in Jobs, SettleReleases(j) PROVE Records'
  <2>1. \A i \in DOMAIN stack : stack[i] = SettleFrame(j) => status[j] \in Terminal
    BY <1>0 DEF Settling
  <2>2. status[j] \in Terminal
    BY <1>0, <1>10, <2>1, PopLemma DEF SettleReleases
  <2> QED BY <1>0, <1>10, <2>2 DEF SettleReleases, prodVars
<1>11. ASSUME NEW j \in Jobs, ProducerSettles(j) PROVE Records'
  <2>1. CASE Unsettled(j)
    <3>1. PICK out \in Outcomes : SettleRecords(j, out, IF settleCause[j] = "none" THEN "producer" ELSE settleCause[j])
      BY <1>11, <2>1 DEF ProducerSettles
    <3>2. status' = [status EXCEPT ![j] = out] /\ recorded' = [recorded EXCEPT ![j] = @ + 1]
      BY <3>1 DEF SettleRecords
    <3> QED BY <1>0, <1>11, <2>1, <3>2, JobConstants DEF ProducerSettles, Unsettled
  <2>2. CASE ~Unsettled(j)
    BY <1>0, <1>11, <2>2 DEF ProducerSettles
  <2> QED BY <2>1, <2>2
<1>12. ASSUME NEW t \in Teardowns, NEW j \in Jobs, CancelVictim(t, j) PROVE Records'
  <2>1. CASE status[j] \in Terminal
    BY <1>0, <1>12, <2>1 DEF CancelVictim
  <2>2. status[j] # "new"
    BY <1>0, <1>12 DEF CancelVictim, Victims
  <2>3. CASE status[j] \notin Terminal /\ ForceFail(j)
    BY <1>0, <1>12, <2>2, <2>3 DEF CancelVictim, ForceFail, SettleRecords
  <2>4. CASE status[j] \notin Terminal /\ status' = [status EXCEPT ![j] = "stopping"] /\ UNCHANGED recorded
    BY <1>0, <1>12, <2>2, <2>4 DEF CancelVictim
  <2> QED BY <1>12, <2>1, <2>3, <2>4 DEF CancelVictim
<1>13. ASSUME NEW t \in Teardowns, NEW j \in Jobs, DropVictim(t, j) PROVE Records'
  <2>1. status[j] \in Terminal
    BY <1>0, <1>13 DEF DropVictim, Victims
  <2> QED BY <1>0, <1>13, <2>1 DEF DropVictim, Drop, prodVars
<1>14. ASSUME NEW t \in Teardowns, AllCancelled(t) PROVE Records'
  BY <1>0, <1>14
    DEF AllCancelled, BeginTeardown, vars, jobVars, prodVars, waitVars, tearVars
<1>15. ASSUME NEW t \in Teardowns, BeginDrop(t) PROVE Records'
  BY <1>0, <1>15 DEF BeginDrop, BeginTeardown, vars, jobVars, prodVars, waitVars, tearVars
<1>16. ASSUME NEW t \in Teardowns, AllDropped(t) PROVE Records'
  BY <1>0, <1>16 DEF AllDropped, BeginTeardown, vars, jobVars, prodVars, waitVars, tearVars
<1>17. ASSUME NEW o \in Owners, DetachCleanup(o) PROVE Records'
  BY <1>0, <1>17
    DEF DetachCleanup, BeginTeardown, vars, jobVars, prodVars, waitVars, tearVars
<1>18. ASSUME NEW j \in Jobs, ProducerReports(j) PROVE Records'
  BY <1>0, <1>18 DEF ProducerReports, jobVars
<1>19. ASSUME UNCHANGED vars PROVE Records'
  BY <1>0, <1>19 DEF BeginTeardown, vars, jobVars, prodVars, waitVars, tearVars
<1> HIDE DEF TypeOK, Records, Statuses, Active, Terminal
<1> QED BY <1>1, <1>2, <1>3, <1>4, <1>5, <1>6, <1>7, <1>8, <1>9, <1>10, <1>11, <1>12, <1>13,
         <1>14, <1>15, <1>16, <1>17, <1>18, <1>19
  DEF Next, Callers, Registry

(* What no step undoes: registration, a terminal status, a settlement.     *)
Stable ==
    /\ \A j \in Jobs : /\ status[j] \in Terminal => status'[j] = status[j]
                       /\ status[j] # "new" => status'[j] # "new" /\ owner'[j] = owner[j]
    /\ settled \subseteq settled'

(* Every step is stable.                                                   *)
LEMMA StableStep ==
  ASSUME IInv, [Next]_vars PROVE Stable
<1> USE DEF Stable, TypeOK, Statuses, Active, Terminal
<1>0. TypeOK
  BY DEF IInv
<1>1. ASSUME NEW j \in Jobs, NEW o \in Buckets, Start(j, o) PROVE Stable
  BY <1>0, <1>1 DEF Start
<1>2. ASSUME NEW o \in Owners, StarterThrows(o) PROVE Stable
  BY <1>0, <1>2
    DEF StarterThrows, BeginTeardown, vars, jobVars, prodVars, waitVars, tearVars
<1>3. ASSUME NEW j \in Jobs, Kill(j) PROVE Stable
  BY <1>0, <1>3 DEF Kill, Live
<1>4. ASSUME NEW j \in Jobs, Remove(j) PROVE Stable
  BY <1>0, <1>4 DEF Remove, BeginTeardown, vars, jobVars, prodVars, waitVars, tearVars
<1>5. ASSUME NEW w \in Waits, NEW j \in Jobs, Wait(w, j) PROVE Stable
  BY <1>0, <1>5 DEF Wait, BeginTeardown, vars, jobVars, prodVars, waitVars, tearVars
<1>6. ASSUME NEW w \in Waits, NEW how \in {"timedout", "aborted"}, LeaveWait(w, how)
  PROVE Stable
  BY <1>0, <1>6 DEF LeaveWait, BeginTeardown, vars, jobVars, prodVars, waitVars, tearVars
<1>7. ASSUME NEW o \in Owners, CloseScope(o) PROVE Stable
  BY <1>0, <1>7 DEF CloseScope, BeginTeardown, vars, jobVars, prodVars, waitVars, tearVars
<1>8. ASSUME DisposeService PROVE Stable
  BY <1>0, <1>8
    DEF DisposeService, BeginTeardown, vars, jobVars, prodVars, waitVars, tearVars
<1>9. ASSUME NEW w \in Waits, WaitReturns(w) PROVE Stable
  BY <1>0, <1>9 DEF WaitReturns, BeginTeardown, vars, jobVars, prodVars, waitVars, tearVars
<1>10. ASSUME NEW j \in Jobs, SettleReleases(j) PROVE Stable
  BY <1>0, <1>10 DEF SettleReleases
<1>11. ASSUME NEW j \in Jobs, ProducerSettles(j) PROVE Stable
  <2>1. CASE Unsettled(j)
    <3>1. PICK out \in Outcomes : SettleRecords(j, out, IF settleCause[j] = "none" THEN "producer" ELSE settleCause[j])
      BY <1>11, <2>1 DEF ProducerSettles
    <3> QED BY <1>0, <1>11, <2>1, <3>1, JobConstants
      DEF ProducerSettles, Unsettled, SettleRecords
  <2>2. CASE ~Unsettled(j)
    BY <1>0, <1>11, <2>2 DEF ProducerSettles
  <2> QED BY <2>1, <2>2
<1>12. ASSUME NEW t \in Teardowns, NEW j \in Jobs, CancelVictim(t, j) PROVE Stable
  <2>1. CASE status[j] \in Terminal
    BY <1>0, <1>12, <2>1 DEF CancelVictim
  <2>2. CASE status[j] \notin Terminal /\ ForceFail(j)
    BY <1>0, <1>12, <2>2 DEF CancelVictim, ForceFail, SettleRecords
  <2>3. CASE status[j] \notin Terminal /\ status' = [status EXCEPT ![j] = "stopping"]
    BY <1>0, <1>12, <2>3 DEF CancelVictim
  <2> QED BY <1>12, <2>1, <2>2, <2>3 DEF CancelVictim
<1>13. ASSUME NEW t \in Teardowns, NEW j \in Jobs, DropVictim(t, j) PROVE Stable
  BY <1>0, <1>13 DEF DropVictim, BeginTeardown, vars, jobVars, prodVars, waitVars, tearVars
<1>14. ASSUME NEW t \in Teardowns, AllCancelled(t) PROVE Stable
  BY <1>0, <1>14
    DEF AllCancelled, BeginTeardown, vars, jobVars, prodVars, waitVars, tearVars
<1>15. ASSUME NEW t \in Teardowns, BeginDrop(t) PROVE Stable
  BY <1>0, <1>15 DEF BeginDrop, BeginTeardown, vars, jobVars, prodVars, waitVars, tearVars
<1>16. ASSUME NEW t \in Teardowns, AllDropped(t) PROVE Stable
  BY <1>0, <1>16 DEF AllDropped, BeginTeardown, vars, jobVars, prodVars, waitVars, tearVars
<1>17. ASSUME NEW o \in Owners, DetachCleanup(o) PROVE Stable
  BY <1>0, <1>17
    DEF DetachCleanup, BeginTeardown, vars, jobVars, prodVars, waitVars, tearVars
<1>18. ASSUME NEW j \in Jobs, ProducerReports(j) PROVE Stable
  BY <1>0, <1>18
    DEF ProducerReports, BeginTeardown, vars, jobVars, prodVars, waitVars, tearVars
<1>19. ASSUME UNCHANGED vars PROVE Stable
  BY <1>0, <1>19 DEF BeginTeardown, vars, jobVars, prodVars, waitVars, tearVars
<1> HIDE DEF Stable, TypeOK, Statuses, Active, Terminal
<1> QED BY <1>1, <1>2, <1>3, <1>4, <1>5, <1>6, <1>7, <1>8, <1>9, <1>10, <1>11, <1>12, <1>13,
         <1>14, <1>15, <1>16, <1>17, <1>18, <1>19
  DEF Next, Callers, Registry

(* A step that keeps the stack and settles nothing keeps Settling.         *)
LEMMA SettlingKept ==
  ASSUME Settling, Stable, UNCHANGED <<stack, settled>> PROVE Settling'
  BY DEF Settling, Stable, SettleFrame

(* So does a teardown that begins a loop.                                  *)
LEMMA SettlingTearPush ==
  ASSUME Settling, Stable, stack \in Seq(Frames), UNCHANGED settled,
         NEW t \in Teardowns, Push(TearFrame(t))
  PROVE  Settling'
<1>1. TearFrame(t) \in Frames
  BY DEF Frames
<1>2. \A j \in Jobs : TearFrame(t) # SettleFrame(j)
  BY DEF TearFrame, SettleFrame
<1>3. \A i \in DOMAIN stack', j \in Jobs :
        stack'[i] = SettleFrame(j) => i - 1 \in DOMAIN stack /\ stack[i - 1] = SettleFrame(j)
  BY <1>1, <1>2, PushLemma
<1>4. DOMAIN stack' \subseteq Nat
  BY <1>1, PushLemma
<1>5. \A j \in Jobs : SettleFrame(j)' = SettleFrame(j)
  BY DEF SettleFrame
<1>6. \A i \in DOMAIN stack', j \in Jobs :
        stack'[i] = SettleFrame(j) => status'[j] \in Terminal /\ j \notin settled'
  BY <1>3 DEF Settling, Stable
<1>7. ASSUME NEW i \in DOMAIN stack', NEW k \in DOMAIN stack', NEW j \in Jobs,
             stack'[i] = SettleFrame(j), stack'[k] = SettleFrame(j)
      PROVE  i = k
  <2>1. i - 1 = k - 1
    BY <1>3, <1>7 DEF Settling
  <2> QED BY <2>1, <1>4
<1> QED BY <1>5, <1>6, <1>7 DEF Settling

(* A first outcome pushes the only frame of its job.                       *)
LEMMA SettlingSettlePush ==
  ASSUME Settling, Stable, stack \in Seq(Frames), UNCHANGED settled,
         NEW x \in Jobs, Push(SettleFrame(x)),
         status[x] \notin Terminal, status'[x] \in Terminal, x \notin settled
  PROVE  Settling'
<1>1. SettleFrame(x) \in Frames
  BY DEF Frames
<1>2. \A j \in Jobs : SettleFrame(x) = SettleFrame(j) => x = j
  BY DEF SettleFrame
<1>3. \A i \in DOMAIN stack', j \in Jobs : stack'[i] = SettleFrame(j) =>
        \/ i = 1 /\ j = x
        \/ i - 1 \in DOMAIN stack /\ stack[i - 1] = SettleFrame(j) /\ j # x
  BY <1>1, <1>2, PushLemma DEF Settling
<1>4. DOMAIN stack' \subseteq Nat
  BY <1>1, PushLemma
<1>5. \A j \in Jobs : SettleFrame(j)' = SettleFrame(j)
  BY DEF SettleFrame
<1>6. \A i \in DOMAIN stack', j \in Jobs :
        stack'[i] = SettleFrame(j) => status'[j] \in Terminal /\ j \notin settled'
  BY <1>3 DEF Settling, Stable
<1>7. ASSUME NEW i \in DOMAIN stack', NEW k \in DOMAIN stack', NEW j \in Jobs,
             stack'[i] = SettleFrame(j), stack'[k] = SettleFrame(j)
      PROVE  i = k
  <2>1. CASE j = x
    BY <1>3, <1>7, <2>1
  <2>2. CASE j # x
    <3>1. i - 1 = k - 1
      BY <1>3, <1>7, <2>2 DEF Settling
    <3> QED BY <3>1, <1>4
  <2> QED BY <2>1, <2>2
<1> QED BY <1>5, <1>6, <1>7 DEF Settling

(* Popping the top frame keeps the others alone.                           *)
LEMMA SettlingPop ==
  ASSUME Settling, Stable, stack \in Seq(Frames), NEW f, Top(f), stack' = Tail(stack),
         \A j \in settled' \ settled : f = SettleFrame(j)
  PROVE  Settling'
<1>1. \A i \in DOMAIN stack' : i + 1 \in DOMAIN stack /\ stack'[i] = stack[i + 1]
  BY PopLemma
<1>2. DOMAIN stack' \subseteq Nat \ {0} /\ 1 \in DOMAIN stack /\ stack[1] = f
  BY PopLemma
<1>3. \A j \in Jobs : SettleFrame(j)' = SettleFrame(j)
  BY DEF SettleFrame
<1>4. ASSUME NEW i \in DOMAIN stack', NEW j \in Jobs, stack'[i] = SettleFrame(j)
      PROVE  status'[j] \in Terminal /\ j \notin settled'
  <2>1. i + 1 \in DOMAIN stack /\ stack[i + 1] = SettleFrame(j) /\ i + 1 # 1
    BY <1>1, <1>2, <1>4
  <2>2. f # SettleFrame(j)
    BY <1>2, <2>1 DEF Settling
  <2> QED BY <2>1, <2>2 DEF Settling, Stable
<1>5. ASSUME NEW i \in DOMAIN stack', NEW k \in DOMAIN stack', NEW j \in Jobs,
             stack'[i] = SettleFrame(j), stack'[k] = SettleFrame(j)
      PROVE  i = k
  <2>1. i + 1 = k + 1
    BY <1>1, <1>5 DEF Settling
  <2> QED BY <2>1, <1>2
<1> QED BY <1>3, <1>4, <1>5 DEF Settling

(* A settlement under way stays the only one of its job.                   *)
LEMMA SettlingStep ==
  ASSUME IInv, [Next]_vars PROVE Settling'
<1>0. TypeOK /\ Records /\ Settling /\ Stable /\ stack \in Seq(Frames)
  BY StableStep DEF IInv, TypeOK
<1>1. ASSUME NEW j \in Jobs, NEW o \in Buckets, Start(j, o) PROVE Settling'
  <2>1. UNCHANGED <<stack, settled>>
    BY <1>1 DEF Start, vars, jobVars, prodVars, waitVars, tearVars
  <2> QED BY <1>0, <2>1, SettlingKept
<1>2. ASSUME NEW o \in Owners, StarterThrows(o) PROVE Settling'
  <2>1. UNCHANGED <<stack, settled>>
    BY <1>2 DEF StarterThrows, vars, jobVars, prodVars, waitVars, tearVars
  <2> QED BY <1>0, <2>1, SettlingKept
<1>3. ASSUME NEW j \in Jobs, Kill(j) PROVE Settling'
  <2>1. UNCHANGED <<stack, settled>>
    BY <1>3 DEF Kill, vars, jobVars, prodVars, waitVars, tearVars
  <2> QED BY <1>0, <2>1, SettlingKept
<1>4. ASSUME NEW j \in Jobs, Remove(j) PROVE Settling'
  <2>1. UNCHANGED <<stack, settled>>
    BY <1>4 DEF Remove, vars, jobVars, prodVars, waitVars, tearVars
  <2> QED BY <1>0, <2>1, SettlingKept
<1>5. ASSUME NEW w \in Waits, NEW j \in Jobs, Wait(w, j) PROVE Settling'
  <2>1. UNCHANGED <<stack, settled>>
    BY <1>5 DEF Wait, vars, jobVars, prodVars, waitVars, tearVars
  <2> QED BY <1>0, <2>1, SettlingKept
<1>6. ASSUME NEW w \in Waits, NEW how \in {"timedout", "aborted"}, LeaveWait(w, how)
  PROVE Settling'
  <2>1. UNCHANGED <<stack, settled>>
    BY <1>6 DEF LeaveWait, vars, jobVars, prodVars, waitVars, tearVars
  <2> QED BY <1>0, <2>1, SettlingKept
<1>7. ASSUME NEW o \in Owners, CloseScope(o) PROVE Settling'
  <2>1. CASE o \in ownerCleanups
    <3>1. Push(TearFrame(o)) /\ UNCHANGED settled /\ o \in Teardowns
      BY <1>7, <2>1 DEF CloseScope, BeginTeardown, Teardowns
    <3> QED BY <1>0, <3>1, SettlingTearPush
  <2>2. CASE o \notin ownerCleanups
    <3>1. UNCHANGED <<stack, settled>>
      BY <1>7, <2>2 DEF CloseScope
    <3> QED BY <1>0, <3>1, SettlingKept
  <2> QED BY <2>1, <2>2
<1>8. ASSUME DisposeService PROVE Settling'
  <2>1. Push(TearFrame(Service)) /\ UNCHANGED settled /\ Service \in Teardowns
    BY <1>8 DEF DisposeService, BeginTeardown, Teardowns
  <2> QED BY <1>0, <2>1, SettlingTearPush
<1>9. ASSUME NEW w \in Waits, WaitReturns(w) PROVE Settling'
  <2>1. UNCHANGED <<stack, settled>>
    BY <1>9 DEF WaitReturns, vars, jobVars, prodVars, waitVars, tearVars
  <2> QED BY <1>0, <2>1, SettlingKept
<1>10. ASSUME NEW j \in Jobs, SettleReleases(j) PROVE Settling'
  <2>1. Top(SettleFrame(j)) /\ stack' = Tail(stack) /\ settled' = settled \cup {j}
    BY <1>10 DEF SettleReleases
  <2> QED BY <1>0, <2>1, SettlingPop
<1>11. ASSUME NEW j \in Jobs, ProducerSettles(j) PROVE Settling'
  <2>1. CASE Unsettled(j)
    <3>1. PICK out \in Outcomes : SettleRecords(j, out, IF settleCause[j] = "none" THEN "producer" ELSE settleCause[j])
      BY <1>11, <2>1 DEF ProducerSettles
    <3>2. Push(SettleFrame(j)) /\ status'[j] \in Terminal
      BY <1>0, <3>1, JobConstants DEF SettleRecords, TypeOK
    <3>3. status[j] \notin Terminal /\ j \notin settled /\ UNCHANGED settled
      BY <1>0, <1>11, <2>1 DEF ProducerSettles, Unsettled, Records
    <3> QED BY <1>0, <3>2, <3>3, SettlingSettlePush
  <2>2. CASE ~Unsettled(j)
    BY <1>0, <1>11, <2>2, SettlingKept DEF ProducerSettles
  <2> QED BY <2>1, <2>2
<1>12. ASSUME NEW t \in Teardowns, NEW j \in Jobs, CancelVictim(t, j) PROVE Settling'
  <2>1. CASE status[j] \notin Terminal /\ ForceFail(j)
    <3>1. Push(SettleFrame(j)) /\ status'[j] \in Terminal
      BY <1>0, <2>1 DEF ForceFail, SettleRecords, TypeOK, Terminal
    <3>2. j \notin settled /\ UNCHANGED settled
      BY <1>0, <1>12, <2>1 DEF CancelVictim, Records
    <3> QED BY <1>0, <2>1, <3>1, <3>2, SettlingSettlePush
  <2>2. CASE UNCHANGED stack
    BY <1>0, <1>12, <2>2, SettlingKept DEF CancelVictim
  <2> QED BY <1>12, <2>1, <2>2 DEF CancelVictim
<1>13. ASSUME NEW t \in Teardowns, NEW j \in Jobs, DropVictim(t, j) PROVE Settling'
  <2>1. UNCHANGED <<stack, settled>>
    BY <1>13 DEF DropVictim, vars, jobVars, prodVars, waitVars, tearVars
  <2> QED BY <1>0, <2>1, SettlingKept
<1>14. ASSUME NEW t \in Teardowns, AllCancelled(t) PROVE Settling'
  <2>1. Top(TearFrame(t)) /\ stack' = Tail(stack) /\ settled' = settled
    BY <1>14 DEF AllCancelled
  <2> QED BY <1>0, <2>1, SettlingPop
<1>15. ASSUME NEW t \in Teardowns, BeginDrop(t) PROVE Settling'
  <2>1. Push(TearFrame(t)) /\ UNCHANGED settled /\ t \in Teardowns
    BY <1>15 DEF BeginDrop, Teardowns
  <2> QED BY <1>0, <2>1, SettlingTearPush
<1>16. ASSUME NEW t \in Teardowns, AllDropped(t) PROVE Settling'
  <2>1. Top(TearFrame(t)) /\ stack' = Tail(stack) /\ settled' = settled
    BY <1>16 DEF AllDropped
  <2> QED BY <1>0, <2>1, SettlingPop
<1>17. ASSUME NEW o \in Owners, DetachCleanup(o) PROVE Settling'
  <2>1. Push(TearFrame(o)) /\ UNCHANGED settled /\ o \in Teardowns
    BY <1>17 DEF DetachCleanup, BeginTeardown, Teardowns
  <2> QED BY <1>0, <2>1, SettlingTearPush
<1>18. ASSUME NEW j \in Jobs, ProducerReports(j) PROVE Settling'
  <2>1. UNCHANGED <<stack, settled>>
    BY <1>18 DEF ProducerReports, vars, jobVars, prodVars, waitVars, tearVars
  <2> QED BY <1>0, <2>1, SettlingKept
<1>19. ASSUME UNCHANGED vars PROVE Settling'
  <2>1. UNCHANGED <<stack, settled>>
    BY <1>19 DEF vars, jobVars, prodVars, waitVars, tearVars
  <2> QED BY <1>0, <2>1, SettlingKept
<1> QED BY <1>1, <1>2, <1>3, <1>4, <1>5, <1>6, <1>7, <1>8, <1>9, <1>10, <1>11, <1>12, <1>13,
         <1>14, <1>15, <1>16, <1>17, <1>18, <1>19
  DEF Next, Callers, Registry

(* A step that touches no wait keeps the facts about waits.                *)
LEMMA WaitingKept ==
  ASSUME TypeOK, Records, Waiting, Stable, WaitersReleased, AwaitedMeansServed,
         UNCHANGED <<resolvers, wait, waitJob, seen, served, settled, announced>>
  PROVE  (Waiting /\ WaitersReleased /\ AwaitedMeansServed)'
<1>1. \A w \in served : waitJob[w] \in Jobs
  BY DEF Waiting, TypeOK
<1>2. Waiting' /\ WaitersReleased'
  BY DEF Waiting, WaitersReleased
<1>3. \A j \in settled : CollectedBy(j)' = CollectedBy(j)
  BY DEF CollectedBy
<1>4. \A w \in served : status[waitJob[w]] \in Terminal => status'[waitJob[w]] \in Terminal
  BY <1>1 DEF Stable
<1> QED BY <1>2, <1>3, <1>4 DEF AwaitedMeansServed

(* A wait that times out or aborts leaves its job's resolvers.             *)
LEMMA LeaveKeepsPairs ==
  ASSUME TypeOK, Waiting, AwaitedMeansServed, NEW w \in Waits, NEW how \in {"timedout", "aborted"},
         waitJob[w] \in Jobs, w \notin served,
         wait' = [wait EXCEPT ![w] = how],
         resolvers' = [resolvers EXCEPT ![waitJob[w]] = resolvers[waitJob[w]] \ {w}],
         UNCHANGED <<settled, served, seen, announced, status, waitJob>>
  PROVE  Waiting' /\ AwaitedMeansServed'
<1>1. \A i \in Jobs : resolvers'[i] = resolvers[i] \ {w}
  BY DEF Waiting, TypeOK
<1>2. wait'[w] = how /\ \A v \in Waits \ {w} : wait'[v] = wait[v]
  BY DEF TypeOK
<1>3. waitJob' = waitJob /\ served' = served /\ settled' = settled
  OBVIOUS
<1>4. \A v \in Waits : wait'[v] # "idle" => waitJob[v] \in Jobs
  BY ONLY <1>2, Waiting, waitJob[w] \in Jobs DEF Waiting
<1>5. \A v \in Waits : wait'[v] = "waiting" => v \in resolvers'[waitJob[v]]
  BY <1>1, <1>2, <1>3 DEF Waiting
<1>6. \A i \in Jobs : \A v \in resolvers[i] : v # w => wait'[v] = "waiting" /\ waitJob[v] = i
  BY ONLY <1>2, Waiting, TypeOK DEF Waiting, TypeOK
<1>7. \A i \in Jobs : \A v \in resolvers'[i] : wait'[v] = "waiting" /\ waitJob[v] = i
  BY ONLY <1>1, <1>6
<1>8. \A v \in served : waitJob[v] \in settled
  BY DEF Waiting
<1>9. Waiting'
  BY ONLY <1>3, <1>4, <1>5, <1>7, <1>8 DEF Waiting
<1>10. \A v \in served : wait'[v] = wait[v]
  BY <1>2 DEF TypeOK
<1>11. \A i \in Jobs : CollectedBy(i)' = CollectedBy(i)
  BY DEF CollectedBy
<1>12. \A i \in settled : announced'[i] = "awaited" <=> CollectedBy(i)' # {}
  BY <1>11 DEF AwaitedMeansServed, TypeOK
<1>13. AwaitedMeansServed'
  BY <1>10, <1>12 DEF AwaitedMeansServed
<1> QED BY <1>9, <1>13

(* Waits and resolvers stay paired, and settlements release them all.      *)
LEMMA WaitingStep ==
  ASSUME IInv, [Next]_vars PROVE (Waiting /\ WaitersReleased /\ AwaitedMeansServed)'
<1>0. TypeOK /\ Records /\ Settling /\ Waiting /\ Stable /\ WaitersReleased /\ AwaitedMeansServed
  BY StableStep DEF IInv
<1>1. ASSUME NEW j \in Jobs, NEW o \in Buckets, Start(j, o)
  PROVE (Waiting /\ WaitersReleased /\ AwaitedMeansServed)'
  <2>1. UNCHANGED <<resolvers, wait, waitJob, seen, served, settled, announced>>
    BY <1>1 DEF Start, BeginTeardown, vars, jobVars, prodVars, waitVars, tearVars
  <2> QED BY <1>0, <2>1, WaitingKept
<1>2. ASSUME NEW o \in Owners, StarterThrows(o)
  PROVE (Waiting /\ WaitersReleased /\ AwaitedMeansServed)'
  <2>1. UNCHANGED <<resolvers, wait, waitJob, seen, served, settled, announced>>
    BY <1>2 DEF StarterThrows, BeginTeardown, vars, jobVars, prodVars, waitVars, tearVars
  <2> QED BY <1>0, <2>1, WaitingKept
<1>3. ASSUME NEW j \in Jobs, Kill(j)
  PROVE (Waiting /\ WaitersReleased /\ AwaitedMeansServed)'
  <2>1. UNCHANGED <<resolvers, wait, waitJob, seen, served, settled, announced>>
    BY <1>3 DEF Kill, BeginTeardown, vars, jobVars, prodVars, waitVars, tearVars
  <2> QED BY <1>0, <2>1, WaitingKept
<1>4. ASSUME NEW j \in Jobs, Remove(j)
  PROVE (Waiting /\ WaitersReleased /\ AwaitedMeansServed)'
  <2>1. UNCHANGED <<resolvers, wait, waitJob, seen, served, settled, announced>>
    BY <1>4 DEF Remove, BeginTeardown, vars, jobVars, prodVars, waitVars, tearVars
  <2> QED BY <1>0, <2>1, WaitingKept
<1>5. ASSUME NEW w \in Waits, NEW j \in Jobs, Wait(w, j)
  PROVE (Waiting /\ WaitersReleased /\ AwaitedMeansServed)'
  <2>1. w \notin served /\ \A i \in Jobs : w \notin resolvers[i]
    BY <1>0, <1>5 DEF Wait, AwaitedMeansServed, Waiting
  <2>2. MustWait(j) => j \notin settled
    BY <1>0 DEF MustWait, Records
  <2>3. CASE MustWait(j)
    <3>1. /\ wait' = [wait EXCEPT ![w] = "waiting"] /\ waitJob' = [waitJob EXCEPT ![w] = j]
          /\ resolvers' = [resolvers EXCEPT ![j] = resolvers[j] \cup {w}]
          /\ UNCHANGED <<settled, served, seen, announced, status>>
      BY <1>5, <2>3 DEF Wait, jobVars
    <3>2. Waiting'
      BY <1>0, <2>1, <3>1 DEF Waiting, TypeOK
    <3>3. WaitersReleased'
      BY <1>0, <2>2, <2>3, <3>1 DEF WaitersReleased, TypeOK
    <3>4. \A i \in Jobs : CollectedBy(i)' = CollectedBy(i)
      BY <1>0, <2>1, <3>1 DEF CollectedBy, TypeOK
    <3>5. AwaitedMeansServed'
      BY <1>0, <2>1, <3>1, <3>4 DEF AwaitedMeansServed, TypeOK
    <3> QED BY <3>2, <3>3, <3>5
  <2>4. CASE ~MustWait(j)
    <3>1. /\ wait' = [wait EXCEPT ![w] = "returned"] /\ waitJob' = [waitJob EXCEPT ![w] = j]
          /\ seen' = [seen EXCEPT ![w] = status[j]]
          /\ UNCHANGED <<settled, served, resolvers, announced, status>>
      BY <1>5, <2>4 DEF Wait, jobVars
    <3>2. Waiting'
      BY <1>0, <2>1, <3>1 DEF Waiting, TypeOK
    <3>3. WaitersReleased'
      BY <1>0, <3>1 DEF WaitersReleased, TypeOK
    <3>4. \A i \in Jobs : CollectedBy(i)' = CollectedBy(i)
      BY <1>0, <2>1, <3>1 DEF CollectedBy, TypeOK
    <3>5. AwaitedMeansServed'
      BY <1>0, <2>1, <3>1, <3>4 DEF AwaitedMeansServed, TypeOK
    <3> QED BY <3>2, <3>3, <3>5
  <2> QED BY <2>3, <2>4
<1>6. ASSUME NEW w \in Waits, NEW how \in {"timedout", "aborted"}, LeaveWait(w, how)
  PROVE (Waiting /\ WaitersReleased /\ AwaitedMeansServed)'
  <2>1. waitJob[w] \in Jobs /\ w \notin served
    BY <1>0, <1>6 DEF LeaveWait, Waiting, AwaitedMeansServed
  <2>2. /\ wait' = [wait EXCEPT ![w] = how]
        /\ resolvers' = [resolvers EXCEPT ![waitJob[w]] = resolvers[waitJob[w]] \ {w}]
        /\ UNCHANGED <<settled, served, seen, announced, status, waitJob>>
    BY <1>6 DEF LeaveWait, Unregister, jobVars
  <2>3. Waiting' /\ AwaitedMeansServed'
    BY <1>0, <2>1, <2>2, LeaveKeepsPairs
  <2>4. WaitersReleased'
    BY <1>0, <2>2 DEF WaitersReleased, TypeOK
  <2> QED BY <2>3, <2>4
<1>7. ASSUME NEW o \in Owners, CloseScope(o)
  PROVE (Waiting /\ WaitersReleased /\ AwaitedMeansServed)'
  <2>1. UNCHANGED <<resolvers, wait, waitJob, seen, served, settled, announced>>
    BY <1>7 DEF CloseScope, BeginTeardown, vars, jobVars, prodVars, waitVars, tearVars
  <2> QED BY <1>0, <2>1, WaitingKept
<1>8. ASSUME DisposeService PROVE (Waiting /\ WaitersReleased /\ AwaitedMeansServed)'
  <2>1. UNCHANGED <<resolvers, wait, waitJob, seen, served, settled, announced>>
    BY <1>8 DEF DisposeService, BeginTeardown, vars, jobVars, prodVars, waitVars, tearVars
  <2> QED BY <1>0, <2>1, WaitingKept
<1>9. ASSUME NEW w \in Waits, WaitReturns(w)
  PROVE (Waiting /\ WaitersReleased /\ AwaitedMeansServed)'
  <2>1. waitJob[w] \in Jobs
    BY <1>0, <1>9 DEF WaitReturns, Waiting
  <2>2. /\ wait[w] \in {"released", "timedout"} /\ wait' = [wait EXCEPT ![w] = "returned"]
        /\ seen' = [seen EXCEPT ![w] = status[waitJob[w]]]
        /\ UNCHANGED <<settled, served, resolvers, announced, status, waitJob>>
    BY <1>9 DEF WaitReturns, jobVars
  <2>3. Waiting'
    BY <1>0, <2>1, <2>2 DEF Waiting, TypeOK
  <2>4. WaitersReleased'
    BY <1>0, <2>2 DEF WaitersReleased, TypeOK
  <2>5. \A i \in Jobs : CollectedBy(i)' = CollectedBy(i)
    BY <2>2 DEF CollectedBy
  <2>6. AwaitedMeansServed'
    BY <1>0, <2>1, <2>2, <2>5 DEF AwaitedMeansServed, TypeOK
  <2> QED BY <2>3, <2>4, <2>6
<1>10. ASSUME NEW j \in Jobs, SettleReleases(j)
  PROVE (Waiting /\ WaitersReleased /\ AwaitedMeansServed)'
  <2>1. 1 \in DOMAIN stack /\ stack[1] = SettleFrame(j)
    BY <1>0, <1>10, PopLemma DEF SettleReleases, TypeOK
  <2>2. status[j] \in Terminal /\ j \notin settled
    BY <1>0, <2>1 DEF Settling
  <2>3. \A w \in resolvers[j] : w \in Waits /\ wait[w] = "waiting" /\ waitJob[w] = j
    BY <1>0 DEF Waiting, TypeOK
  <2>4. /\ wait' = [w \in Waits |-> IF w \in resolvers[j] THEN "released" ELSE wait[w]]
        /\ served' = served \cup resolvers[j]
        /\ resolvers' = [resolvers EXCEPT ![j] = {}]
        /\ settled' = settled \cup {j}
        /\ UNCHANGED <<waitJob, seen, status>>
    BY <1>10, <2>3 DEF SettleReleases
  <2>5. announced' = [announced EXCEPT ![j] = IF resolvers[j] # {} THEN "awaited" ELSE "plain"]
    BY <1>10 DEF SettleReleases
  <2>6. Waiting'
    BY <1>0, <2>3, <2>4 DEF Waiting, TypeOK
  <2>7. WaitersReleased'
    BY <1>0, <2>3, <2>4 DEF WaitersReleased, Waiting, TypeOK
  <2>8. CollectedBy(j)' = resolvers[j] /\ \A i \in Jobs \ {j} : CollectedBy(i)' = CollectedBy(i)
    <3>1. \A w \in served : waitJob[w] # j
      BY <1>0, <2>2 DEF Waiting
    <3> QED BY <2>3, <2>4, <3>1 DEF CollectedBy
  <2>9. \A i \in settled' : announced'[i] = "awaited" <=> CollectedBy(i)' # {}
    BY <1>0, <2>2, <2>4, <2>5, <2>8 DEF AwaitedMeansServed, TypeOK
  <2>10. \A w \in served' : \/ wait'[w] = "released" /\ status'[waitJob'[w]] \in Terminal
                            \/ wait'[w] = "returned" /\ seen'[w] \in Terminal
    <3>1. \A w \in resolvers[j] : wait'[w] = "released" /\ status'[waitJob'[w]] \in Terminal
      BY <2>2, <2>3, <2>4
    <3>2. \A w \in served : w \in Waits /\ w \notin resolvers[j] /\ wait'[w] = wait[w]
      BY <1>0, <2>3, <2>4 DEF AwaitedMeansServed, TypeOK
    <3> QED BY <1>0, <2>4, <3>1, <3>2 DEF AwaitedMeansServed
  <2>11. AwaitedMeansServed'
    BY <2>9, <2>10 DEF AwaitedMeansServed
  <2> QED BY <2>6, <2>7, <2>11
<1>11. ASSUME NEW j \in Jobs, ProducerSettles(j)
  PROVE (Waiting /\ WaitersReleased /\ AwaitedMeansServed)'
  <2>1. UNCHANGED <<resolvers, wait, waitJob, seen, served, settled, announced>>
    BY <1>11 DEF ProducerSettles, BeginTeardown, vars, jobVars, prodVars, waitVars, tearVars
  <2> QED BY <1>0, <2>1, WaitingKept
<1>12. ASSUME NEW t \in Teardowns, NEW j \in Jobs, CancelVictim(t, j)
  PROVE (Waiting /\ WaitersReleased /\ AwaitedMeansServed)'
  <2>1. UNCHANGED <<resolvers, wait, waitJob, seen, served, settled, announced>>
    BY <1>12 DEF CancelVictim, BeginTeardown, vars, jobVars, prodVars, waitVars, tearVars
  <2> QED BY <1>0, <2>1, WaitingKept
<1>13. ASSUME NEW t \in Teardowns, NEW j \in Jobs, DropVictim(t, j)
  PROVE (Waiting /\ WaitersReleased /\ AwaitedMeansServed)'
  <2>1. UNCHANGED <<resolvers, wait, waitJob, seen, served, settled, announced>>
    BY <1>13 DEF DropVictim, BeginTeardown, vars, jobVars, prodVars, waitVars, tearVars
  <2> QED BY <1>0, <2>1, WaitingKept
<1>14. ASSUME NEW t \in Teardowns, AllCancelled(t)
  PROVE (Waiting /\ WaitersReleased /\ AwaitedMeansServed)'
  <2>1. UNCHANGED <<resolvers, wait, waitJob, seen, served, settled, announced>>
    BY <1>14 DEF AllCancelled, BeginTeardown, vars, jobVars, prodVars, waitVars, tearVars
  <2> QED BY <1>0, <2>1, WaitingKept
<1>15. ASSUME NEW t \in Teardowns, BeginDrop(t)
  PROVE (Waiting /\ WaitersReleased /\ AwaitedMeansServed)'
  <2>1. UNCHANGED <<resolvers, wait, waitJob, seen, served, settled, announced>>
    BY <1>15 DEF BeginDrop, BeginTeardown, vars, jobVars, prodVars, waitVars, tearVars
  <2> QED BY <1>0, <2>1, WaitingKept
<1>16. ASSUME NEW t \in Teardowns, AllDropped(t)
  PROVE (Waiting /\ WaitersReleased /\ AwaitedMeansServed)'
  <2>1. UNCHANGED <<resolvers, wait, waitJob, seen, served, settled, announced>>
    BY <1>16 DEF AllDropped, BeginTeardown, vars, jobVars, prodVars, waitVars, tearVars
  <2> QED BY <1>0, <2>1, WaitingKept
<1>17. ASSUME NEW o \in Owners, DetachCleanup(o)
  PROVE (Waiting /\ WaitersReleased /\ AwaitedMeansServed)'
  <2>1. UNCHANGED <<resolvers, wait, waitJob, seen, served, settled, announced>>
    BY <1>17 DEF DetachCleanup, BeginTeardown, vars, jobVars, prodVars, waitVars, tearVars
  <2> QED BY <1>0, <2>1, WaitingKept
<1>18. ASSUME NEW j \in Jobs, ProducerReports(j)
  PROVE (Waiting /\ WaitersReleased /\ AwaitedMeansServed)'
  <2>1. UNCHANGED <<resolvers, wait, waitJob, seen, served, settled, announced>>
    BY <1>18 DEF ProducerReports, BeginTeardown, vars, jobVars, prodVars, waitVars, tearVars
  <2> QED BY <1>0, <2>1, WaitingKept
<1>19. ASSUME UNCHANGED vars PROVE (Waiting /\ WaitersReleased /\ AwaitedMeansServed)'
  <2>1. UNCHANGED <<resolvers, wait, waitJob, seen, served, settled, announced>>
    BY <1>19 DEF BeginTeardown, vars, jobVars, prodVars, waitVars, tearVars
  <2> QED BY <1>0, <2>1, WaitingKept
<1> QED BY <1>1, <1>2, <1>3, <1>4, <1>5, <1>6, <1>7, <1>8, <1>9, <1>10, <1>11, <1>12, <1>13,
         <1>14, <1>15, <1>16, <1>17, <1>18, <1>19
  DEF Next, Callers, Registry

-----------------------------------------------------------------------------
(* Teardown. *)

(* Membership in the jobs of an owner.                                     *)
LEMMA OwnersJobs ==
  ASSUME NEW o \in Owners PROVE JobsOf(o) = {j \in store : owner[j] = o}
  BY JobConstants DEF JobsOf, Buckets

(* No step but a start gives an owner a job.                               *)
LEMMA NoNewJobs ==
  ASSUME TypeOK, Records, Stable, store' \subseteq store, NEW o \in Owners
  PROVE  JobsOf(o)' \subseteq JobsOf(o)
<1>1. \A j \in store : owner'[j] = owner[j]
  BY DEF TypeOK, Records, Stable
<1>2. JobsOf(o)' = {j \in store' : owner'[j] = o}
  BY JobConstants DEF JobsOf, Buckets
<1> QED BY <1>1, <1>2, OwnersJobs

(* What Ownership says of one owner after a step.                          *)
Owned(o) ==
    /\ o \notin ownerCleanups /\ teardown[o] = "none" => JobsOf(o) = {}
    /\ teardown[o] \in {"cancelling", "awaiting"} => JobsOf(o) \subseteq victims[o]
    /\ teardown[o] = "dropping" => JobsOf(o) \subseteq todo[o]
    /\ teardown[o] = "done" => JobsOf(o) = {}
    /\ teardown[o] # "none" =>
          o \notin ownerCleanups /\ (scope[o] # "open" \/ teardown[Service] = "done")
    /\ scope[o] = "gone" => JobsOf(o) = {}

(* Owned, of every owner, is Ownership with OwnerLeavesNothing.            *)
LEMMA OwnedAll ==
  (Ownership /\ OwnerLeavesNothing) <=> \A o \in Owners : Owned(o)
  BY DEF Ownership, OwnerLeavesNothing, Owned

(* An owner whose own state a step leaves alone, and to whom it gives no   *)
(* job, keeps what it had.                                                 *)
LEMMA OtherOwner ==
  ASSUME NEW o \in Owners, Owned(o), JobsOf(o)' \subseteq JobsOf(o),
         scope'[o] = scope[o], (o \in ownerCleanups') <=> (o \in ownerCleanups),
         teardown'[o] = teardown[o], victims'[o] = victims[o], todo'[o] = todo[o],
         teardown[Service] = "done" => teardown'[Service] = "done"
  PROVE  Owned(o)'
  BY DEF Owned

(* Each stage of a teardown keeps covering what its owner still has.        *)
LEMMA OwnershipStep ==
  ASSUME IInv, [Next]_vars PROVE \A p \in Owners : Owned(p)'
<1>0. TypeOK /\ Records /\ Stable /\ \A p \in Owners : Owned(p)
  BY StableStep, OwnedAll DEF IInv
<1>1. ASSUME NEW j \in Jobs, NEW o \in Buckets, Start(j, o)
  PROVE \A p \in Owners : Owned(p)'
  <2>1. store' = store \cup {j} /\ owner' = [owner EXCEPT ![j] = o] /\ status[j] = "new"
        /\ UNCHANGED <<scope, teardown, victims, todo>> /\ teardown[Service] # "done"
    BY <1>1 DEF Start, ServesOwner
  <2>2. ASSUME NEW p \in Owners, p # o PROVE Owned(p)'
    <3>1. JobsOf(p)' \subseteq JobsOf(p)
      <4>1. JobsOf(p)' = {k \in store' : owner'[k] = p}
        BY JobConstants DEF JobsOf, Buckets
      <4>2. JobsOf(p) = {k \in store : owner[k] = p}
        BY OwnersJobs
      <4> QED BY <1>0, <2>1, <2>2, <4>1, <4>2 DEF TypeOK
    <3>2. (p \in ownerCleanups') <=> (p \in ownerCleanups)
      BY <1>1, <2>2 DEF Start
    <3> QED BY <1>0, <2>1, <3>1, <3>2, OtherOwner
  <2>3. CASE o \in Owners
    <3>1. o \in ownerCleanups' /\ scope'[o] # "gone" /\ (o \in ownerCleanups \/ scope[o] = "open")
      BY <1>1, <2>3 DEF Start, CleanupEnsured
    <3>2. teardown[o] = "none"
      BY <1>0, <2>1, <2>3, <3>1 DEF Owned
    <3>3. Owned(o)'
      BY <2>1, <3>1, <3>2 DEF Owned
    <3> QED BY <2>2, <3>3
  <2> QED BY <2>2, <2>3
<1>2. ASSUME NEW o \in Owners, StarterThrows(o) PROVE \A p \in Owners : Owned(p)'
  <2>1. /\ ownerCleanups' = ownerCleanups \cup {o} /\ scope[o] = "open" /\ teardown[Service] # "done"
        /\ UNCHANGED <<store, owner, scope, teardown, victims, todo>>
    BY <1>2 DEF StarterThrows, ServesOwner, jobVars
  <2>2. teardown[o] = "none"
    BY <1>0, <2>1 DEF Owned
  <2>3. \A p \in Owners : JobsOf(p)' \subseteq JobsOf(p)
    BY <1>0, <2>1, NoNewJobs
  <2>4. ASSUME NEW p \in Owners, p # o PROVE Owned(p)'
    BY <1>0, <2>1, <2>3, <2>4, OtherOwner
  <2>5. Owned(o)'
    BY <2>1, <2>2 DEF Owned
  <2> QED BY <2>4, <2>5
<1>3. ASSUME NEW j \in Jobs, Kill(j) PROVE \A p \in Owners : Owned(p)'
  <2>1. store' \subseteq store /\ UNCHANGED tearVars
    BY <1>3 DEF Kill, Drop, vars, jobVars, prodVars, waitVars, tearVars
  <2> QED BY <1>0, <2>1, NoNewJobs, OtherOwner DEF tearVars
<1>4. ASSUME NEW j \in Jobs, Remove(j) PROVE \A p \in Owners : Owned(p)'
  <2>1. store' \subseteq store /\ UNCHANGED tearVars
    BY <1>4 DEF Remove, Drop, vars, jobVars, prodVars, waitVars, tearVars
  <2> QED BY <1>0, <2>1, NoNewJobs, OtherOwner DEF tearVars
<1>5. ASSUME NEW w \in Waits, NEW j \in Jobs, Wait(w, j) PROVE \A p \in Owners : Owned(p)'
  <2>1. store' \subseteq store /\ UNCHANGED tearVars
    BY <1>5 DEF Wait, Drop, vars, jobVars, prodVars, waitVars, tearVars
  <2> QED BY <1>0, <2>1, NoNewJobs, OtherOwner DEF tearVars
<1>6. ASSUME NEW w \in Waits, NEW how \in {"timedout", "aborted"}, LeaveWait(w, how)
  PROVE \A p \in Owners : Owned(p)'
  <2>1. store' \subseteq store /\ UNCHANGED tearVars
    BY <1>6 DEF LeaveWait, Drop, vars, jobVars, prodVars, waitVars, tearVars
  <2> QED BY <1>0, <2>1, NoNewJobs, OtherOwner DEF tearVars
<1>7. ASSUME NEW o \in Owners, CloseScope(o) PROVE \A p \in Owners : Owned(p)'
  <2>1. UNCHANGED <<store, owner>> /\ o \in Teardowns /\ o # Service
    BY <1>7, JobConstants DEF CloseScope, jobVars, Teardowns, Buckets
  <2>2. \A p \in Owners : JobsOf(p)' = JobsOf(p)
    BY <2>1 DEF JobsOf
  <2>3. CASE o \in ownerCleanups
    <3>1. /\ scope' = [scope EXCEPT ![o] = "unloading"] /\ ownerCleanups' = ownerCleanups \ {o}
          /\ BeginTeardown(o)
      BY <1>7, <2>3 DEF CloseScope, ForgetCleanup
    <3>2. /\ teardown' = [teardown EXCEPT ![o] = "cancelling"]
          /\ victims' = [victims EXCEPT ![o] = JobsOf(o)] /\ todo' = [todo EXCEPT ![o] = JobsOf(o)]
      BY <3>1 DEF BeginTeardown, Snapshot
    <3>3. Owned(o)'
      BY <1>0, <2>1, <2>2, <3>1, <3>2 DEF Owned, TypeOK
    <3>4. ASSUME NEW p \in Owners, p # o PROVE Owned(p)'
      <4>1. /\ scope'[p] = scope[p] /\ (p \in ownerCleanups' <=> p \in ownerCleanups)
            /\ teardown'[p] = teardown[p] /\ victims'[p] = victims[p] /\ todo'[p] = todo[p]
            /\ teardown'[Service] = teardown[Service]
        BY <1>0, <2>1, <3>1, <3>2, <3>4 DEF TypeOK, Teardowns
      <4> QED BY <1>0, <2>2, <4>1, OtherOwner
    <3> QED BY <3>3, <3>4
  <2>4. CASE o \notin ownerCleanups
    <3>1. /\ scope' = [scope EXCEPT ![o] = "gone"] /\ teardown[o] \in {"none", "done"}
          /\ UNCHANGED <<ownerCleanups, teardown, victims, todo>>
      BY <1>7, <2>4 DEF CloseScope
    <3>2. Owned(o)'
      BY <1>0, <2>2, <2>4, <3>1 DEF Owned, TypeOK
    <3>3. ASSUME NEW p \in Owners, p # o PROVE Owned(p)'
      BY <1>0, <2>2, <3>1, <3>3, OtherOwner DEF TypeOK
    <3> QED BY <3>2, <3>3
  <2> QED BY <2>3, <2>4
<1>8. ASSUME DisposeService PROVE \A p \in Owners : Owned(p)'
  <2>1. UNCHANGED <<store, owner, scope, ownerCleanups>> /\ Service \in Teardowns /\ Service \notin Owners
    BY <1>8, JobConstants DEF DisposeService, jobVars, Teardowns, Buckets
  <2>2. \A p \in Owners : JobsOf(p)' = JobsOf(p)
    BY <2>1 DEF JobsOf
  <2>3. /\ teardown' = [teardown EXCEPT ![Service] = "cancelling"]
        /\ victims' = [victims EXCEPT ![Service] = Snapshot(Service)]
        /\ todo' = [todo EXCEPT ![Service] = Snapshot(Service)]
    BY <1>8 DEF DisposeService, BeginTeardown
  <2>4. ASSUME NEW p \in Owners PROVE Owned(p)'
    <3>1. p \in Teardowns /\ p # Service
      BY <2>1 DEF Teardowns
    <3>2. /\ teardown'[p] = teardown[p] /\ victims'[p] = victims[p] /\ todo'[p] = todo[p]
          /\ teardown[Service] = "none"
      BY <1>0, <1>8, <2>1, <2>3, <3>1 DEF TypeOK, DisposeService
    <3> QED BY <1>0, <2>1, <2>2, <3>2, OtherOwner
  <2> QED BY <2>4
<1>9. ASSUME NEW w \in Waits, WaitReturns(w) PROVE \A p \in Owners : Owned(p)'
  <2>1. store' \subseteq store /\ UNCHANGED tearVars
    BY <1>9 DEF WaitReturns, Drop, vars, jobVars, prodVars, waitVars, tearVars
  <2> QED BY <1>0, <2>1, NoNewJobs, OtherOwner DEF tearVars
<1>10. ASSUME NEW j \in Jobs, SettleReleases(j) PROVE \A p \in Owners : Owned(p)'
  <2>1. store' \subseteq store /\ UNCHANGED tearVars
    BY <1>10 DEF SettleReleases, Drop, vars, jobVars, prodVars, waitVars, tearVars
  <2> QED BY <1>0, <2>1, NoNewJobs, OtherOwner DEF tearVars
<1>11. ASSUME NEW j \in Jobs, ProducerSettles(j) PROVE \A p \in Owners : Owned(p)'
  <2>1. store' \subseteq store /\ UNCHANGED tearVars
    BY <1>11 DEF ProducerSettles, Drop, vars, jobVars, prodVars, waitVars, tearVars
  <2> QED BY <1>0, <2>1, NoNewJobs, OtherOwner DEF tearVars
<1>12. ASSUME NEW t \in Teardowns, NEW j \in Jobs, CancelVictim(t, j)
  PROVE \A p \in Owners : Owned(p)'
  <2>1. UNCHANGED <<store, owner, scope, ownerCleanups, teardown, victims>>
    BY <1>12 DEF CancelVictim
  <2>2. \A p \in Owners : JobsOf(p)' = JobsOf(p)
    BY <2>1 DEF JobsOf
  <2>3. teardown[t] = "cancelling" /\ todo' = [todo EXCEPT ![t] = todo[t] \ {j}]
    BY <1>12 DEF CancelVictim
  <2>4. ASSUME NEW p \in Owners PROVE Owned(p)'
    <3>1. p \in Teardowns
      BY DEF Teardowns
    <3>2. CASE p # t
      BY <1>0, <2>1, <2>2, <2>3, <3>1, <3>2, OtherOwner DEF TypeOK
    <3>3. CASE p = t
      BY <1>0, <2>1, <2>2, <2>3, <3>3 DEF Owned
    <3> QED BY <3>2, <3>3
  <2> QED BY <2>4
<1>13. ASSUME NEW t \in Teardowns, NEW j \in Jobs, DropVictim(t, j)
  PROVE \A p \in Owners : Owned(p)'
  <2>1. UNCHANGED <<owner, scope, ownerCleanups, teardown, victims>> /\ store' = store \ {j}
    BY <1>13 DEF DropVictim, Drop
  <2>2. \A p \in Owners : JobsOf(p)' \subseteq JobsOf(p) \ {j}
    <3>1. \A p \in Owners : JobsOf(p)' = {k \in store' : owner'[k] = p}
      BY JobConstants DEF JobsOf, Buckets
    <3> QED BY <2>1, <3>1, OwnersJobs
  <2>3. teardown[t] = "dropping" /\ todo' = [todo EXCEPT ![t] = todo[t] \ {j}]
    BY <1>13 DEF DropVictim
  <2>4. ASSUME NEW p \in Owners PROVE Owned(p)'
    <3>1. p \in Teardowns
      BY DEF Teardowns
    <3>2. CASE p # t
      <4>1. todo'[p] = todo[p]
        BY <1>0, <2>3, <3>1, <3>2 DEF TypeOK
      <4> QED BY <1>0, <2>1, <2>2, <4>1, OtherOwner
    <3>3. CASE p = t
      <4>1. todo'[p] = todo[p] \ {j}
        BY <1>0, <2>3, <3>1, <3>3 DEF TypeOK
      <4> QED BY <1>0, <2>1, <2>2, <2>3, <3>3, <4>1 DEF Owned
    <3> QED BY <3>2, <3>3
  <2> QED BY <2>4
<1>14. ASSUME NEW t \in Teardowns, AllCancelled(t) PROVE \A p \in Owners : Owned(p)'
  <2>1. UNCHANGED <<store, owner>>
    BY <1>14 DEF AllCancelled, jobVars
  <2>2. \A p \in Owners : JobsOf(p)' = JobsOf(p)
    BY <2>1 DEF JobsOf
  <2>3. /\ teardown[t] = "cancelling" /\ teardown' = [teardown EXCEPT ![t] = "awaiting"]
        /\ UNCHANGED <<scope, ownerCleanups, victims, todo>>
    BY <1>14 DEF AllCancelled
  <2>4. ASSUME NEW p \in Owners PROVE Owned(p)'
    <3>1. p \in Teardowns /\ (teardown[Service] = "done" => teardown'[Service] = "done")
      BY <1>0, <2>3 DEF TypeOK, Teardowns
    <3>2. CASE p # t
      <4>1. teardown'[p] = teardown[p] /\ victims'[p] = victims[p] /\ todo'[p] = todo[p]
        BY <1>0, <2>3, <3>1, <3>2 DEF TypeOK
      <4>2. scope'[p] = scope[p] /\ ownerCleanups' = ownerCleanups
        BY <1>0, <2>3, <3>2 DEF TypeOK
      <4> QED BY <1>0, <2>2, <3>1, <4>1, <4>2, OtherOwner
    <3>3. CASE p = t
      <4>1. teardown'[p] = "awaiting"
        BY <1>0, <2>3, <3>1, <3>3 DEF TypeOK
      <4> QED BY <1>0, <2>2, <2>3, <3>1, <3>3, <4>1 DEF Owned
    <3> QED BY <3>2, <3>3
  <2> QED BY <2>4
<1>15. ASSUME NEW t \in Teardowns, BeginDrop(t) PROVE \A p \in Owners : Owned(p)'
  <2>1. UNCHANGED <<store, owner>>
    BY <1>15 DEF BeginDrop, jobVars
  <2>2. \A p \in Owners : JobsOf(p)' = JobsOf(p)
    BY <2>1 DEF JobsOf
  <2>3. /\ teardown[t] = "awaiting" /\ teardown' = [teardown EXCEPT ![t] = "dropping"]
        /\ todo' = [todo EXCEPT ![t] = victims[t]] /\ UNCHANGED <<scope, ownerCleanups, victims>>
    BY <1>15 DEF BeginDrop
  <2>4. ASSUME NEW p \in Owners PROVE Owned(p)'
    <3>1. p \in Teardowns /\ (teardown[Service] = "done" => teardown'[Service] = "done")
      BY <1>0, <2>3 DEF TypeOK, Teardowns
    <3>2. CASE p # t
      <4>1. teardown'[p] = teardown[p] /\ victims'[p] = victims[p] /\ todo'[p] = todo[p]
        BY <1>0, <2>3, <3>1, <3>2 DEF TypeOK
      <4>2. scope'[p] = scope[p] /\ ownerCleanups' = ownerCleanups
        BY <1>0, <2>3, <3>2 DEF TypeOK
      <4> QED BY <1>0, <2>2, <3>1, <4>1, <4>2, OtherOwner
    <3>3. CASE p = t
      <4>1. teardown'[p] = "dropping" /\ todo'[p] = victims[p]
        BY <1>0, <2>3, <3>1, <3>3 DEF TypeOK
      <4> QED BY <1>0, <2>2, <2>3, <3>1, <3>3, <4>1 DEF Owned
    <3> QED BY <3>2, <3>3
  <2> QED BY <2>4
<1>16. ASSUME NEW t \in Teardowns, AllDropped(t) PROVE \A p \in Owners : Owned(p)'
  <2>1. UNCHANGED <<store, owner>>
    BY <1>16 DEF AllDropped, jobVars
  <2>2. \A p \in Owners : JobsOf(p)' = JobsOf(p)
    BY <2>1 DEF JobsOf
  <2>3. /\ teardown[t] = "dropping" /\ teardown' = [teardown EXCEPT ![t] = "done"] /\ todo[t] = {}
        /\ victims' = [victims EXCEPT ![t] = {}] /\ UNCHANGED <<todo, ownerCleanups>>
        /\ scope' = IF t \in Owners /\ scope[t] = "unloading" THEN [scope EXCEPT ![t] = "gone"] ELSE scope
    BY <1>16 DEF AllDropped
  <2>4. ASSUME NEW p \in Owners PROVE Owned(p)'
    <3>1. p \in Teardowns /\ (teardown[Service] = "done" => teardown'[Service] = "done")
      BY <1>0, <2>3 DEF TypeOK, Teardowns
    <3>2. CASE p # t
      <4>1. teardown'[p] = teardown[p] /\ victims'[p] = victims[p] /\ todo'[p] = todo[p]
        BY <1>0, <2>3, <3>1, <3>2 DEF TypeOK
      <4>2. scope'[p] = scope[p] /\ ownerCleanups' = ownerCleanups
        BY <1>0, <2>3, <3>2 DEF TypeOK
      <4> QED BY <1>0, <2>2, <3>1, <4>1, <4>2, OtherOwner
    <3>3. CASE p = t
      <4>1. teardown'[p] = "done"
        BY <1>0, <2>3, <3>1, <3>3 DEF TypeOK
      <4>2. JobsOf(p) = {}
        BY <1>0, <2>3, <3>3 DEF Owned
      <4>3. scope[p] # "open" => scope'[p] # "open"
        BY <1>0, <2>3, <3>3 DEF TypeOK
      <4> QED BY <1>0, <2>2, <2>3, <3>1, <3>3, <4>1, <4>2, <4>3 DEF Owned
    <3> QED BY <3>2, <3>3
  <2> QED BY <2>4
<1>17. ASSUME NEW o \in Owners, DetachCleanup(o) PROVE \A p \in Owners : Owned(p)'
  <2>1. UNCHANGED <<store, owner, scope>> /\ o \in Teardowns /\ o # Service
    BY <1>17, JobConstants DEF DetachCleanup, jobVars, Teardowns, Buckets
  <2>2. \A p \in Owners : JobsOf(p)' = JobsOf(p)
    BY <2>1 DEF JobsOf
  <2>3. /\ ownerCleanups' = ownerCleanups \ {o} /\ o \in ownerCleanups /\ teardown[Service] = "done"
        /\ teardown' = [teardown EXCEPT ![o] = "cancelling"]
        /\ victims' = [victims EXCEPT ![o] = JobsOf(o)] /\ todo' = [todo EXCEPT ![o] = JobsOf(o)]
    BY <1>17 DEF DetachCleanup, BeginTeardown, Snapshot, ForgetCleanup
  <2>4. teardown'[Service] = "done"
    BY <1>0, <2>1, <2>3 DEF TypeOK, Teardowns
  <2>5. Owned(o)'
    BY <1>0, <2>1, <2>2, <2>3, <2>4 DEF Owned, TypeOK
  <2>6. ASSUME NEW p \in Owners, p # o PROVE Owned(p)'
    <3>1. /\ (p \in ownerCleanups' <=> p \in ownerCleanups)
          /\ teardown'[p] = teardown[p] /\ victims'[p] = victims[p] /\ todo'[p] = todo[p]
      BY <1>0, <2>3, <2>6 DEF TypeOK, Teardowns
    <3> QED BY <1>0, <2>1, <2>2, <2>4, <3>1, OtherOwner
  <2> QED BY <2>5, <2>6
<1>18. ASSUME NEW j \in Jobs, ProducerReports(j) PROVE \A p \in Owners : Owned(p)'
  <2>1. store' \subseteq store /\ UNCHANGED tearVars
    BY <1>18 DEF ProducerReports, Drop, vars, jobVars, prodVars, waitVars, tearVars
  <2> QED BY <1>0, <2>1, NoNewJobs, OtherOwner DEF tearVars
<1>19. ASSUME UNCHANGED vars PROVE \A p \in Owners : Owned(p)'
  <2>1. store' \subseteq store /\ UNCHANGED tearVars
    BY <1>19 DEF Drop, vars, jobVars, prodVars, waitVars, tearVars
  <2> QED BY <1>0, <2>1, NoNewJobs, OtherOwner DEF tearVars
<1> QED BY <1>1, <1>2, <1>3, <1>4, <1>5, <1>6, <1>7, <1>8, <1>9, <1>10, <1>11, <1>12, <1>13,
         <1>14, <1>15, <1>16, <1>17, <1>18, <1>19
  DEF Next, Callers, Registry

(* Victims of a teardown whose own state a step leaves alone.              *)
LEMMA VictimsKept ==
  ASSUME TypeOK, Victims, Stable, NEW t \in Teardowns,
         victims'[t] \subseteq victims[t], todo'[t] \subseteq todo[t],
         teardown'[t] = "dropping" => teardown[t] = "dropping"
  PROVE  /\ \A j \in victims'[t] \cup todo'[t] : status'[j] # "new"
         /\ teardown'[t] = "dropping" => todo'[t] \subseteq settled'
<1>1. \A j \in victims'[t] \cup todo'[t] : j \in Jobs /\ status[j] # "new"
  BY DEF TypeOK, Victims
<1> QED BY <1>1 DEF Stable, Victims

Handled(t) ==
    /\ \A j \in victims[t] \cup todo[t] : status[j] # "new"
    /\ teardown[t] = "dropping" => todo[t] \subseteq settled

(* A teardown handles registered jobs only, and drops settled ones only.   *)
LEMMA VictimsStep ==
  ASSUME IInv, [Next]_vars PROVE \A p \in Teardowns : Handled(p)'
<1>0. TypeOK /\ Records /\ Stable /\ Victims
  BY StableStep DEF IInv
<1>1. ASSUME NEW j \in Jobs, NEW o \in Buckets, Start(j, o)
  PROVE \A p \in Teardowns : Handled(p)'
  <2>1. UNCHANGED <<teardown, victims, todo>>
    BY <1>1 DEF Start, vars, jobVars, prodVars, waitVars, tearVars
  <2> QED BY <1>0, <2>1, VictimsKept DEF Handled
<1>2. ASSUME NEW o \in Owners, StarterThrows(o) PROVE \A p \in Teardowns : Handled(p)'
  <2>1. UNCHANGED <<teardown, victims, todo>>
    BY <1>2 DEF StarterThrows, vars, jobVars, prodVars, waitVars, tearVars
  <2> QED BY <1>0, <2>1, VictimsKept DEF Handled
<1>3. ASSUME NEW j \in Jobs, Kill(j) PROVE \A p \in Teardowns : Handled(p)'
  <2>1. UNCHANGED <<teardown, victims, todo>>
    BY <1>3 DEF Kill, vars, jobVars, prodVars, waitVars, tearVars
  <2> QED BY <1>0, <2>1, VictimsKept DEF Handled
<1>4. ASSUME NEW j \in Jobs, Remove(j) PROVE \A p \in Teardowns : Handled(p)'
  <2>1. UNCHANGED <<teardown, victims, todo>>
    BY <1>4 DEF Remove, vars, jobVars, prodVars, waitVars, tearVars
  <2> QED BY <1>0, <2>1, VictimsKept DEF Handled
<1>5. ASSUME NEW w \in Waits, NEW j \in Jobs, Wait(w, j)
  PROVE \A p \in Teardowns : Handled(p)'
  <2>1. UNCHANGED <<teardown, victims, todo>>
    BY <1>5 DEF Wait, vars, jobVars, prodVars, waitVars, tearVars
  <2> QED BY <1>0, <2>1, VictimsKept DEF Handled
<1>6. ASSUME NEW w \in Waits, NEW how \in {"timedout", "aborted"}, LeaveWait(w, how)
  PROVE \A p \in Teardowns : Handled(p)'
  <2>1. UNCHANGED <<teardown, victims, todo>>
    BY <1>6 DEF LeaveWait, vars, jobVars, prodVars, waitVars, tearVars
  <2> QED BY <1>0, <2>1, VictimsKept DEF Handled
<1>7. ASSUME NEW o \in Owners, CloseScope(o) PROVE \A p \in Teardowns : Handled(p)'
  <2>1. CASE o \in ownerCleanups
    <3>1. BeginTeardown(o) /\ o \in Teardowns
      BY <1>7, <2>1 DEF CloseScope, Teardowns
    <3>2. /\ teardown' = [teardown EXCEPT ![o] = "cancelling"]
          /\ victims' = [victims EXCEPT ![o] = JobsOf(o)]
          /\ todo' = [todo EXCEPT ![o] = JobsOf(o)]
      BY <3>1 DEF BeginTeardown, Snapshot
    <3>3. ASSUME NEW p \in Teardowns, p # o PROVE Handled(p)'
      BY <1>0, <3>2, <3>3, VictimsKept DEF TypeOK, Handled
    <3>4. \A k \in JobsOf(o) : k \in Jobs /\ status'[k] # "new"
      BY <1>0 DEF JobsOf, TypeOK, Records, Stable
    <3>5. Handled(o)'
      BY <1>0, <3>1, <3>2, <3>4 DEF TypeOK, Handled
    <3> QED BY <3>3, <3>5
  <2>2. CASE o \notin ownerCleanups
    <3>1. UNCHANGED <<teardown, victims, todo>>
      BY <1>7, <2>2 DEF CloseScope
    <3> QED BY <1>0, <3>1, VictimsKept DEF Handled
  <2> QED BY <2>1, <2>2
<1>8. ASSUME DisposeService PROVE \A p \in Teardowns : Handled(p)'
  <2>1. BeginTeardown(Service) /\ Service \in Teardowns
    BY <1>8 DEF DisposeService, Teardowns
  <2>2. /\ teardown' = [teardown EXCEPT ![Service] = "cancelling"]
        /\ victims' = [victims EXCEPT ![Service] = JobsOf(Service)]
        /\ todo' = [todo EXCEPT ![Service] = JobsOf(Service)]
    BY <2>1 DEF BeginTeardown, Snapshot
  <2>3. ASSUME NEW p \in Teardowns, p # Service PROVE Handled(p)'
    BY <1>0, <2>2, <2>3, VictimsKept DEF TypeOK, Handled
  <2>4. \A k \in JobsOf(Service) : k \in Jobs /\ status'[k] # "new"
    BY <1>0 DEF JobsOf, TypeOK, Records, Stable
  <2>5. Handled(Service)'
    BY <1>0, <2>1, <2>2, <2>4 DEF TypeOK, Handled
  <2> QED BY <2>3, <2>5
<1>9. ASSUME NEW w \in Waits, WaitReturns(w) PROVE \A p \in Teardowns : Handled(p)'
  <2>1. UNCHANGED <<teardown, victims, todo>>
    BY <1>9 DEF WaitReturns, vars, jobVars, prodVars, waitVars, tearVars
  <2> QED BY <1>0, <2>1, VictimsKept DEF Handled
<1>10. ASSUME NEW j \in Jobs, SettleReleases(j) PROVE \A p \in Teardowns : Handled(p)'
  <2>1. UNCHANGED <<teardown, victims, todo>>
    BY <1>10 DEF SettleReleases, vars, jobVars, prodVars, waitVars, tearVars
  <2> QED BY <1>0, <2>1, VictimsKept DEF Handled
<1>11. ASSUME NEW j \in Jobs, ProducerSettles(j) PROVE \A p \in Teardowns : Handled(p)'
  <2>1. UNCHANGED <<teardown, victims, todo>>
    BY <1>11 DEF ProducerSettles, vars, jobVars, prodVars, waitVars, tearVars
  <2> QED BY <1>0, <2>1, VictimsKept DEF Handled
<1>12. ASSUME NEW t \in Teardowns, NEW j \in Jobs, CancelVictim(t, j)
  PROVE \A p \in Teardowns : Handled(p)'
  <2>1. todo' = [todo EXCEPT ![t] = todo[t] \ {j}] /\ UNCHANGED <<victims, teardown>>
    BY <1>12 DEF CancelVictim
  <2>2. ASSUME NEW p \in Teardowns PROVE Handled(p)'
    BY <1>0, <2>1, VictimsKept DEF TypeOK, Handled
  <2> QED BY <2>2
<1>13. ASSUME NEW t \in Teardowns, NEW j \in Jobs, DropVictim(t, j)
  PROVE \A p \in Teardowns : Handled(p)'
  <2>1. todo' = [todo EXCEPT ![t] = todo[t] \ {j}] /\ UNCHANGED <<victims, teardown>>
    BY <1>13 DEF DropVictim
  <2>2. ASSUME NEW p \in Teardowns PROVE Handled(p)'
    BY <1>0, <2>1, VictimsKept DEF TypeOK, Handled
  <2> QED BY <2>2
<1>14. ASSUME NEW t \in Teardowns, AllCancelled(t) PROVE \A p \in Teardowns : Handled(p)'
  <2>1. teardown' = [teardown EXCEPT ![t] = "awaiting"] /\ UNCHANGED <<victims, todo>>
    BY <1>14 DEF AllCancelled
  <2>2. ASSUME NEW p \in Teardowns PROVE Handled(p)'
    BY <1>0, <2>1, VictimsKept DEF TypeOK, Handled
  <2> QED BY <2>2
<1>15. ASSUME NEW t \in Teardowns, BeginDrop(t) PROVE \A p \in Teardowns : Handled(p)'
  <2>1. /\ teardown' = [teardown EXCEPT ![t] = "dropping"] /\ UNCHANGED <<victims, settled>>
        /\ todo' = [todo EXCEPT ![t] = victims[t]] /\ victims[t] \subseteq settled
    BY <1>15 DEF BeginDrop, VictimsSettled
  <2>2. ASSUME NEW p \in Teardowns, p # t PROVE Handled(p)'
    BY <1>0, <2>1, <2>2, VictimsKept DEF TypeOK, Handled
  <2>3. \A k \in victims[t] : k \in Jobs /\ status'[k] # "new"
    BY <1>0 DEF TypeOK, Victims, Stable
  <2>4. Handled(t)'
    BY <1>0, <2>1, <2>3 DEF TypeOK, Handled
  <2> QED BY <2>2, <2>4
<1>16. ASSUME NEW t \in Teardowns, AllDropped(t) PROVE \A p \in Teardowns : Handled(p)'
  <2>1. /\ teardown' = [teardown EXCEPT ![t] = "done"] /\ UNCHANGED todo
        /\ victims' = [victims EXCEPT ![t] = {}]
    BY <1>16 DEF AllDropped
  <2>2. ASSUME NEW p \in Teardowns PROVE Handled(p)'
    BY <1>0, <2>1, VictimsKept DEF TypeOK, Handled
  <2> QED BY <2>2
<1>17. ASSUME NEW o \in Owners, DetachCleanup(o) PROVE \A p \in Teardowns : Handled(p)'
  <2>1. BeginTeardown(o) /\ o \in Teardowns
    BY <1>17 DEF DetachCleanup, Teardowns
  <2>2. /\ teardown' = [teardown EXCEPT ![o] = "cancelling"]
        /\ victims' = [victims EXCEPT ![o] = JobsOf(o)]
        /\ todo' = [todo EXCEPT ![o] = JobsOf(o)]
    BY <2>1 DEF BeginTeardown, Snapshot
  <2>3. ASSUME NEW p \in Teardowns, p # o PROVE Handled(p)'
    BY <1>0, <2>2, <2>3, VictimsKept DEF TypeOK, Handled
  <2>4. \A k \in JobsOf(o) : k \in Jobs /\ status'[k] # "new"
    BY <1>0 DEF JobsOf, TypeOK, Records, Stable
  <2>5. Handled(o)'
    BY <1>0, <2>1, <2>2, <2>4 DEF TypeOK, Handled
  <2> QED BY <2>3, <2>5
<1>18. ASSUME NEW j \in Jobs, ProducerReports(j) PROVE \A p \in Teardowns : Handled(p)'
  <2>1. UNCHANGED <<teardown, victims, todo>>
    BY <1>18 DEF ProducerReports, vars, jobVars, prodVars, waitVars, tearVars
  <2> QED BY <1>0, <2>1, VictimsKept DEF Handled
<1>19. ASSUME UNCHANGED vars PROVE \A p \in Teardowns : Handled(p)'
  <2>1. UNCHANGED <<teardown, victims, todo>>
    BY <1>19 DEF vars, jobVars, prodVars, waitVars, tearVars
  <2> QED BY <1>0, <2>1, VictimsKept DEF Handled
<1> QED BY <1>1, <1>2, <1>3, <1>4, <1>5, <1>6, <1>7, <1>8, <1>9, <1>10, <1>11, <1>12, <1>13,
         <1>14, <1>15, <1>16, <1>17, <1>18, <1>19
  DEF Next, Callers, Registry

-----------------------------------------------------------------------------
(* The limit. *)

(* A bucket whose active jobs only leave stays within the limit.           *)
LEMMA FewerActive ==
  ASSUME TypeOK, NEW o \in Buckets, ActiveOf(o)' \subseteq ActiveOf(o), ActiveJobs(o) <= Limit
  PROVE  ActiveJobs(o)' <= Limit
<1>1. IsFiniteSet(ActiveOf(o)) /\ IsFiniteSet(ActiveOf(o)')
  BY JobConstants, FS_Subset DEF TypeOK, ActiveOf
<1>2. Cardinality(ActiveOf(o)') <= Cardinality(ActiveOf(o))
  BY <1>1, FS_Subset
<1>3. Cardinality(ActiveOf(o)) \in Nat /\ Cardinality(ActiveOf(o)') \in Nat
  BY <1>1, FS_CardinalityType
<1> QED BY <1>2, <1>3, JobConstants DEF ActiveJobs, ActiveOf

(* A start adds one job to a bucket that was below its limit.              *)
LEMMA StartCounts ==
  ASSUME TypeOK, Records, NEW j \in Jobs, NEW o \in Buckets, Start(j, o)
  PROVE  ActiveJobs(o)' <= Limit
<1>1. /\ store' = store \cup {j} /\ owner' = [owner EXCEPT ![j] = o]
      /\ status' = [status EXCEPT ![j] = "running"] /\ status[j] = "new" /\ ActiveJobs(o) < Limit
  BY DEF Start
<1>2. j \notin ActiveOf(o) /\ ActiveOf(o)' = ActiveOf(o) \cup {j}
  BY <1>1 DEF TypeOK, Records, ActiveOf, Active
<1>3. IsFiniteSet(ActiveOf(o))
  BY JobConstants, FS_Subset DEF TypeOK, ActiveOf
<1>4. Cardinality(ActiveOf(o)') = Cardinality(ActiveOf(o)) + 1
  BY <1>2, <1>3, FS_AddElement
<1>5. Cardinality(ActiveOf(o)) \in Nat
  BY <1>3, FS_CardinalityType
<1> QED BY <1>1, <1>4, <1>5, JobConstants DEF ActiveJobs, ActiveOf

(* A job that is terminal or new does not become active but by a start.    *)
LEMMA StartAlone ==
  ASSUME IInv, [Next]_vars, ~\E j \in Jobs, o \in Buckets : Start(j, o)
  PROVE  store' \subseteq store
<1> USE DEF vars, jobVars, prodVars, waitVars, tearVars
<1>1. ASSUME NEW j \in Jobs, Remove(j) PROVE store' \subseteq store
  BY <1>1 DEF Remove, Drop
<1>2. ASSUME NEW j \in Jobs, NEW t \in Teardowns, DropVictim(t, j)
  PROVE store' \subseteq store
  BY <1>2 DEF DropVictim, Drop
<1>3. ASSUME NEW o \in Owners, StarterThrows(o) \/ CloseScope(o) \/ DetachCleanup(o)
  PROVE UNCHANGED store
  BY <1>3 DEF StarterThrows, CloseScope, DetachCleanup
<1>4. ASSUME NEW j \in Jobs, Kill(j) \/ SettleReleases(j) \/ ProducerSettles(j) \/ ProducerReports(j)
      PROVE  UNCHANGED store
  BY <1>4 DEF Kill, SettleReleases, ProducerSettles, ProducerReports
<1>5. ASSUME NEW w \in Waits, NEW j \in Jobs, Wait(w, j) PROVE UNCHANGED store
  BY <1>5 DEF Wait
<1>6. ASSUME NEW w \in Waits, WaitReturns(w) \/ \E how \in {"timedout", "aborted"} : LeaveWait(w, how)
      PROVE  UNCHANGED store
  BY <1>6 DEF WaitReturns, LeaveWait
<1>7. ASSUME NEW t \in Teardowns, AllCancelled(t) \/ BeginDrop(t) \/ AllDropped(t)
  PROVE UNCHANGED store
  BY <1>7 DEF AllCancelled, BeginDrop, AllDropped
<1>8. ASSUME NEW t \in Teardowns, NEW j \in Jobs, CancelVictim(t, j) PROVE UNCHANGED store
  BY <1>8 DEF CancelVictim
<1>9. DisposeService => UNCHANGED store
  BY DEF DisposeService
<1>10. UNCHANGED vars => UNCHANGED store
  OBVIOUS
<1> HIDE DEF vars, jobVars, prodVars, waitVars, tearVars
<1> QED BY <1>1, <1>2, <1>3, <1>4, <1>5, <1>6, <1>7, <1>8, <1>9, <1>10
  DEF Next, Callers, Registry

(* No step takes a bucket over the limit.                                  *)
LEMMA LimitStep ==
  ASSUME IInv, [Next]_vars PROVE WithinLimit'
<1>0. TypeOK /\ Records /\ Stable /\ \A o \in Buckets : ActiveJobs(o) <= Limit
  BY StableStep DEF IInv, WithinLimit, ActiveJobs, ActiveOf
<1>1. ASSUME NEW j \in Jobs, NEW o \in Buckets, Start(j, o) PROVE WithinLimit'
  <2>1. /\ store' = store \cup {j} /\ owner' = [owner EXCEPT ![j] = o] /\ status[j] = "new"
        /\ status' = [status EXCEPT ![j] = "running"]
    BY <1>1 DEF Start
  <2>2. ASSUME NEW p \in Buckets, p # o PROVE ActiveJobs(p)' <= Limit
    <3>1. ActiveOf(p)' \subseteq ActiveOf(p)
      BY <1>0, <2>1, <2>2 DEF ActiveOf, TypeOK
    <3> QED BY <1>0, <3>1, FewerActive
  <2>3. ActiveJobs(o)' <= Limit
    BY <1>0, <1>1, StartCounts
  <2> QED BY <2>2, <2>3 DEF WithinLimit, ActiveJobs, ActiveOf
<1>2. ASSUME ~\E j \in Jobs, o \in Buckets : Start(j, o) PROVE WithinLimit'
  <2>1. store' \subseteq store
    BY <1>2, StartAlone
  <2>2. ASSUME NEW p \in Buckets PROVE ActiveJobs(p)' <= Limit
    <3>1. ASSUME NEW j \in ActiveOf(p)' PROVE j \in ActiveOf(p)
      <4>1. j \in store /\ j \in Jobs /\ status[j] # "new" /\ owner[j] = p
        BY <1>0, <2>1, <3>1 DEF ActiveOf, TypeOK, Records, Stable
      <4>2. status[j] \in Active
        BY <1>0, <3>1, <4>1 DEF ActiveOf, TypeOK, Statuses, Stable, Active, Terminal
      <4> QED BY <4>1, <4>2 DEF ActiveOf
    <3> QED BY <1>0, <3>1, FewerActive
  <2> QED BY <2>2 DEF WithinLimit, ActiveJobs, ActiveOf
<1> QED BY <1>1, <1>2

-----------------------------------------------------------------------------
(* The invariant is inductive.                                             *)
LEMMA InductiveStep ==
  ASSUME IInv, [Next]_vars PROVE IInv'
<1>1. (Ownership /\ OwnerLeavesNothing)'
  BY OwnershipStep, OwnedAll DEF Ownership, OwnerLeavesNothing, Owned
<1>2. Victims'
  BY VictimsStep DEF Victims, Handled
<1> QED BY <1>1, <1>2, TypeStep, RecordsStep, SettlingStep, WaitingStep, LimitStep DEF IInv

(* The registry starts within it.                                         *)
LEMMA InitIInv == Init => IInv
<1>1. ASSUME Init PROVE TypeOK
  BY <1>1 DEF Init, TypeOK, Frames, Statuses
<1>2. ASSUME Init PROVE Records /\ Settling /\ Victims
  BY <1>2 DEF Init, Records, Settling, Victims, Active, Terminal
<1>3. ASSUME Init PROVE Waiting /\ WaitersReleased /\ AwaitedMeansServed
  BY <1>3 DEF Init, Waiting, WaitersReleased, AwaitedMeansServed
<1>4. ASSUME Init PROVE Ownership /\ OwnerLeavesNothing
  <2>1. \A o \in Owners : JobsOf(o) = {} /\ teardown[o] = "none"
    BY <1>4 DEF Init, JobsOf, Teardowns
  <2> QED BY <2>1 DEF Ownership, OwnerLeavesNothing
<1>5. ASSUME Init PROVE WithinLimit
  <2>1. \A o \in Buckets : ActiveOf(o) = {}
    BY <1>5 DEF Init, ActiveOf
  <2>2. \A o \in Buckets : Cardinality(ActiveOf(o)) = 0
    BY <2>1, FS_EmptySet
  <2> QED BY <2>2, JobConstants DEF WithinLimit
<1> QED BY <1>1, <1>2, <1>3, <1>4, <1>5 DEF IInv

(* The registry's invariant: the types, the agreement of each record's     *)
(* parts, and what holds at every stage of settlement, wait and teardown.  *)
THEOREM RegistryInductive == Spec => []IInv
<1>1. Init => IInv
  BY InitIInv
<1>2. IInv /\ [Next]_vars => IInv'
  BY InductiveStep
<1> QED BY <1>1, <1>2, PTL DEF Spec

(* The state of the registry is always of its types, and each job has at   *)
(* most one durable settlement.                                            *)
THEOREM RegistryTypeCorrect == Spec => []TypeOK
<1>1. IInv => TypeOK
  BY DEF IInv
<1> QED BY <1>1, RegistryInductive, PTL

(* start() keeps every owner within maxConcurrentJobsPerOwner.             *)
THEOREM LimitKept == Spec => []WithinLimit
<1>1. IInv => WithinLimit
  BY DEF IInv
<1> QED BY <1>1, RegistryInductive, PTL

(* A settlement leaves no wait behind, and its event is marked awaited for *)
(* the waits that do return it.                                            *)
THEOREM WaitsEnd == Spec => []WaitsAnswered
<1>1. IInv => WaitsAnswered
  BY DEF IInv, WaitsAnswered
<1> QED BY <1>1, RegistryInductive, PTL

(* Disposal of an owner leaves none of its jobs.                           *)
THEOREM OwnersLeaveNothing == Spec => []OwnerLeavesNothing
<1>1. IInv => OwnerLeavesNothing
  BY DEF IInv
<1> QED BY <1>1, RegistryInductive, PTL

-----------------------------------------------------------------------------
(* The refinement of JobLedger. *)

Verdict(j) == IF status[j] \in Terminal THEN status[j] ELSE "none"
Closed == {o \in Owners : scope[o] = "gone"}

(* The stage of a job in the ledger, from its record.                      *)
LEMMA LifeOf ==
  ASSUME NEW j \in Jobs
  PROVE  /\ status[j] = "new" => Life(j) = "new"
         /\ status[j] \in Active => Life(j) = "live"
         /\ status[j] \in Terminal => Life(j) = IF j \in store THEN "settled" ELSE "removed"
  BY DEF Life, Active, Terminal

(* The same facts of the next state.                                       *)
LEMMA LifeNext ==
  ASSUME NEW j \in Jobs
  PROVE  /\ status'[j] = "new" => Life(j)' = "new"
         /\ status'[j] \in Active => Life(j)' = "live"
         /\ status'[j] \in Terminal => Life(j)' = IF j \in store' THEN "settled" ELSE "removed"
  BY DEF Life, Active, Terminal

(* What the ledger sees unchanged leaves it unchanged.                     *)
LEMMA LedgerSame ==
  ASSUME UNCHANGED <<owner, recorded, Closed>>,
         \A j \in Jobs : Life(j)' = Life(j) /\ Verdict(j)' = Verdict(j)
  PROVE  UNCHANGED Ledger!vars
  BY DEF Ledger!vars, Verdict, Closed

(* A step that keeps registry, statuses, records and scopes is a stutter.  *)
LEMMA LedgerIdle ==
  ASSUME UNCHANGED <<owner, recorded, status, store>>, UNCHANGED Closed
  PROVE  UNCHANGED Ledger!vars
<1>1. \A j \in Jobs : Life(j)' = Life(j) /\ Verdict(j)' = Verdict(j)
  BY DEF Life, Verdict
<1> QED BY <1>1, LedgerSame

(* A settlement is the ledger's, whatever caused it.                       *)
LEMMA LedgerSettles ==
  ASSUME TypeOK, Records, NEW j \in Jobs, status[j] \in Active, NEW out \in Terminal,
         status' = [status EXCEPT ![j] = out], recorded' = [recorded EXCEPT ![j] = @ + 1],
         UNCHANGED <<store, owner, scope>>
  PROVE  Ledger!Settle(j, out)
<1>1. j \in store /\ recorded[j] = 0 /\ status[j] \notin Terminal
  BY DEF Records, TypeOK, Active, Terminal
<1>2. status'[j] = out /\ \A k \in Jobs \ {j} : status'[k] = status[k]
  BY DEF TypeOK
<1>3. Life(j) = "live" /\ Life(j)' = "settled"
  BY <1>1, <1>2, LifeOf, LifeNext
<1>4. \A k \in Jobs \ {j} : Life(k)' = Life(k) /\ Verdict(k)' = Verdict(k)
  BY <1>2 DEF Life, Verdict
<1>5. Verdict(j)' = out
  BY <1>2 DEF Verdict
<1>6. recorded' = [recorded EXCEPT ![j] = 1]
  BY <1>1 DEF TypeOK
<1>7. [k \in Jobs |-> Life(k)]' = [[k \in Jobs |-> Life(k)] EXCEPT ![j] = "settled"]
  BY <1>3, <1>4
<1>8. [k \in Jobs |-> Verdict(k)]' = [[k \in Jobs |-> Verdict(k)] EXCEPT ![j] = out]
  BY <1>4, <1>5
<1> QED BY <1>3, <1>6, <1>7, <1>8 DEF Ledger!Settle, Verdict

(* Dropping a settled record is the ledger's removal, or it was removed.   *)
LEMMA LedgerRemoves ==
  ASSUME TypeOK, NEW j \in Jobs, status[j] \in Terminal, store' = store \ {j},
         UNCHANGED <<owner, status, recorded, scope>>
  PROVE  Ledger!Remove(j) \/ UNCHANGED Ledger!vars
<1>1. CASE j \notin store
  BY <1>1, LedgerIdle DEF Closed
<1>2. CASE j \in store
  <2>1. Life(j) = "settled" /\ Life(j)' = "removed"
    BY <1>2, LifeOf, LifeNext
  <2>2. \A k \in Jobs \ {j} : Life(k)' = Life(k)
    BY DEF Life
  <2>3. [k \in Jobs |-> Life(k)]' = [[k \in Jobs |-> Life(k)] EXCEPT ![j] = "removed"]
    BY <2>1, <2>2
  <2> QED BY <2>1, <2>3 DEF Ledger!Remove
<1> QED BY <1>1, <1>2

(* An owner whose scope is gone closes over removed jobs only.             *)
LEMMA LedgerCloses ==
  ASSUME TypeOK, Records, OwnerLeavesNothing', NEW o \in Owners,
         scope' = [scope EXCEPT ![o] = "gone"], UNCHANGED <<store, owner, status, recorded>>
  PROVE  Ledger!Close(o)
<1>1. JobsOf(o)' = {} /\ JobsOf(o)' = JobsOf(o)
  BY DEF OwnerLeavesNothing, TypeOK, JobsOf
<1>2. \A j \in Jobs : owner[j] = o => j \notin store /\ status[j] # "new"
  BY <1>1, OwnersJobs, JobConstants DEF Records, Buckets
<1>3. \A j \in Jobs : owner[j] = o => status[j] \in Terminal
  BY <1>2 DEF Records, TypeOK, Statuses
<1>4. \A j \in Jobs : owner[j] = o => Life(j) = "removed"
  BY <1>2, <1>3, LifeOf
<1>5. Closed' = Closed \cup {o}
  BY DEF Closed, TypeOK
<1>6. \A j \in Jobs : Life(j)' = Life(j)
  BY DEF Life
<1> QED BY <1>4, <1>5, <1>6 DEF Ledger!Close, Closed

(* The ledger counts as the registry does.                                 *)
LEMMA LedgerCounts ==
  \A S : Ledger!Cardinality(S) = Cardinality(S)
  BY DEF Ledger!Cardinality, Cardinality

(* A start is a registration within the limit.                             *)
LEMMA LedgerRegisters ==
  ASSUME TypeOK, Records, NEW j \in Jobs, NEW o \in Buckets, Start(j, o)
  PROVE  Ledger!Register(j, o)
<1>1. /\ store' = store \cup {j} /\ owner' = [owner EXCEPT ![j] = o]
      /\ status' = [status EXCEPT ![j] = "running"] /\ status[j] = "new" /\ ActiveJobs(o) < Limit
      /\ o \in Owners => scope[o] # "gone"
      /\ UNCHANGED <<recorded, scope>>
  BY DEF Start
<1>2. status'[j] = "running" /\ \A k \in Jobs \ {j} : status'[k] = status[k]
  BY <1>1 DEF TypeOK
<1>3. Life(j) = "new" /\ Life(j)' = "live"
  BY <1>1, <1>2, LifeOf, LifeNext DEF Active
<1>4. \A k \in Jobs \ {j} : Life(k)' = Life(k) /\ Verdict(k)' = Verdict(k)
  BY <1>1, <1>2 DEF Life, Verdict
<1>5. Verdict(j)' = Verdict(j)
  BY <1>1, <1>2 DEF Verdict, Terminal
<1>6. [k \in Jobs |-> Life(k)]' = [[k \in Jobs |-> Life(k)] EXCEPT ![j] = "live"]
  BY <1>3, <1>4
<1>7. {k \in Jobs : Life(k) = "live" /\ owner[k] = o} = {k \in store : owner[k] = o /\ status[k] \in Active}
  <2>1. \A k \in Jobs : Life(k) = "live" <=> status[k] \in Active
    BY LifeOf DEF TypeOK, Statuses
  <2> QED BY <2>1 DEF TypeOK, Records
<1>8. Cardinality({k \in Jobs : Life(k) = "live" /\ owner[k] = o}) < Limit
  BY <1>1, <1>7 DEF ActiveJobs
<1>9. o \notin Closed
  BY <1>1 DEF Closed
<1>10. {k \in Jobs : [i \in Jobs |-> Life(i)][k] = "live" /\ owner[k] = o}
        = {k \in Jobs : Life(k) = "live" /\ owner[k] = o}
  OBVIOUS
<1>11. [k \in Jobs |-> Verdict(k)]' = [k \in Jobs |-> Verdict(k)]
  BY <1>4, <1>5
<1>12. [k \in Jobs |-> Life(k)][j] = "new"
  BY <1>3
<1>13. Closed' = Closed
  BY <1>1 DEF Closed
<1>14. /\ [k \in Jobs |-> Life(k)][j] = "new" /\ o \notin Closed
       /\ Cardinality({k \in Jobs : [i \in Jobs |-> Life(i)][k] = "live" /\ owner[k] = o}) < Limit
       /\ [k \in Jobs |-> Life(k)]' = [[k \in Jobs |-> Life(k)] EXCEPT ![j] = "live"]
       /\ owner' = [owner EXCEPT ![j] = o]
       /\ UNCHANGED <<[k \in Jobs |-> Verdict(k)], recorded, Closed>>
  BY <1>1, <1>6, <1>8, <1>9, <1>10, <1>11, <1>12, <1>13
<1> QED BY <1>14, LedgerCounts DEF Ledger!Register, Verdict, Closed

(* Every step of the registry is a step of the ledger, or a stutter.       *)
LEMMA LedgerStep ==
  ASSUME IInv, [Next]_vars PROVE [Ledger!Next]_(Ledger!vars)
<1>0. TypeOK /\ Records /\ Victims /\ OwnerLeavesNothing'
  BY OwnershipStep, OwnedAll DEF IInv, OwnerLeavesNothing, Owned
<1>1. ASSUME NEW j \in Jobs, NEW o \in Buckets, Start(j, o)
  PROVE [Ledger!Next]_(Ledger!vars)
  <2>1. Ledger!Register(j, o)
    BY <1>0, <1>1, LedgerRegisters
  <2> QED BY <2>1 DEF Ledger!Next, Buckets
<1>2. ASSUME NEW o \in Owners, StarterThrows(o) PROVE [Ledger!Next]_(Ledger!vars)
  <2>1. UNCHANGED <<owner, recorded, status, store, scope>>
    BY <1>2 DEF StarterThrows, vars, jobVars, prodVars, waitVars, tearVars
  <2> QED BY <2>1, LedgerIdle DEF Closed
<1>3. ASSUME NEW j \in Jobs, Kill(j) PROVE [Ledger!Next]_(Ledger!vars)
  <2>1. /\ status[j] \in Active /\ status' = [status EXCEPT ![j] = "stopping"]
        /\ UNCHANGED <<owner, recorded, store, scope>>
    BY <1>3 DEF Kill, Live, tearVars
  <2>2. \A k \in Jobs : Life(k)' = Life(k) /\ Verdict(k)' = Verdict(k)
    BY <1>0, <2>1 DEF TypeOK, Life, Verdict, Active, Terminal
  <2> QED BY <2>1, <2>2, LedgerSame DEF Closed
<1>4. ASSUME NEW j \in Jobs, Remove(j) PROVE [Ledger!Next]_(Ledger!vars)
  <2>1. status[j] \in Terminal /\ store' = store \ {j} /\ UNCHANGED <<owner, status, recorded, scope>>
    BY <1>4 DEF Remove, Removable, Drop, tearVars
  <2> QED BY <1>0, <2>1, LedgerRemoves DEF Ledger!Next
<1>5. ASSUME NEW w \in Waits, NEW j \in Jobs, Wait(w, j) PROVE [Ledger!Next]_(Ledger!vars)
  <2>1. UNCHANGED <<owner, recorded, status, store, scope>>
    BY <1>5 DEF Wait, vars, jobVars, prodVars, waitVars, tearVars
  <2> QED BY <2>1, LedgerIdle DEF Closed
<1>6. ASSUME NEW w \in Waits, NEW how \in {"timedout", "aborted"}, LeaveWait(w, how)
  PROVE [Ledger!Next]_(Ledger!vars)
  <2>1. UNCHANGED <<owner, recorded, status, store, scope>>
    BY <1>6 DEF LeaveWait, vars, jobVars, prodVars, waitVars, tearVars
  <2> QED BY <2>1, LedgerIdle DEF Closed
<1>7. ASSUME NEW o \in Owners, CloseScope(o) PROVE [Ledger!Next]_(Ledger!vars)
  <2>1. UNCHANGED <<owner, recorded, status, store>>
    BY <1>7 DEF CloseScope, jobVars
  <2>2. CASE scope' = [scope EXCEPT ![o] = "gone"]
    <3>1. Ledger!Close(o)
      BY <1>0, <2>1, <2>2, LedgerCloses
    <3> QED BY <3>1 DEF Ledger!Next
  <2>3. CASE scope[o] = "open" /\ scope' = [scope EXCEPT ![o] = "unloading"]
    <3>1. Closed' = Closed
      BY <1>0, <2>3 DEF Closed, TypeOK
    <3> QED BY <2>1, <3>1, LedgerIdle
  <2> QED BY <1>7, <2>2, <2>3 DEF CloseScope
<1>8. ASSUME DisposeService PROVE [Ledger!Next]_(Ledger!vars)
  <2>1. UNCHANGED <<owner, recorded, status, store, scope>>
    BY <1>8 DEF DisposeService, vars, jobVars, prodVars, waitVars, tearVars
  <2> QED BY <2>1, LedgerIdle DEF Closed
<1>9. ASSUME NEW w \in Waits, WaitReturns(w) PROVE [Ledger!Next]_(Ledger!vars)
  <2>1. UNCHANGED <<owner, recorded, status, store, scope>>
    BY <1>9 DEF WaitReturns, vars, jobVars, prodVars, waitVars, tearVars
  <2> QED BY <2>1, LedgerIdle DEF Closed
<1>10. ASSUME NEW j \in Jobs, SettleReleases(j) PROVE [Ledger!Next]_(Ledger!vars)
  <2>1. UNCHANGED <<owner, recorded, status, store, scope>>
    BY <1>10 DEF SettleReleases, vars, jobVars, prodVars, waitVars, tearVars
  <2> QED BY <2>1, LedgerIdle DEF Closed
<1>11. ASSUME NEW j \in Jobs, ProducerSettles(j) PROVE [Ledger!Next]_(Ledger!vars)
  <2>1. CASE Unsettled(j)
    <3>1. PICK out \in Outcomes : SettleRecords(j, out, IF settleCause[j] = "none" THEN "producer" ELSE settleCause[j])
      BY <1>11, <2>1 DEF ProducerSettles
    <3>2. /\ status' = [status EXCEPT ![j] = out] /\ recorded' = [recorded EXCEPT ![j] = @ + 1]
          /\ UNCHANGED <<store, owner, scope>> /\ out \in Terminal
      BY <1>11, <3>1, JobConstants DEF SettleRecords, ProducerSettles, tearVars
    <3>3. status[j] \in Active
      BY <1>0, <1>11, <2>1 DEF ProducerSettles, Unsettled, Records, TypeOK, Statuses
    <3>4. Ledger!Settle(j, out)
      BY <1>0, <3>2, <3>3, LedgerSettles
    <3> QED BY <3>2, <3>4 DEF Ledger!Next, Terminal
  <2>2. CASE ~Unsettled(j)
    <3>1. UNCHANGED <<owner, recorded, status, store, scope>>
      BY <1>11, <2>2 DEF ProducerSettles, tearVars
    <3> QED BY <3>1, LedgerIdle DEF Closed
  <2> QED BY <2>1, <2>2
<1>12. ASSUME NEW t \in Teardowns, NEW j \in Jobs, CancelVictim(t, j)
  PROVE [Ledger!Next]_(Ledger!vars)
  <2>1. UNCHANGED <<owner, store, scope>>
    BY <1>12 DEF CancelVictim
  <2>2. CASE status[j] \in Terminal
    <3>1. UNCHANGED <<recorded, status>>
      BY <1>12, <2>2 DEF CancelVictim
    <3> QED BY <2>1, <3>1, LedgerIdle DEF Closed
  <2>3. CASE status[j] \notin Terminal
    <3>1. status[j] \in Active
      BY <1>0, <1>12, <2>3 DEF CancelVictim, Victims, TypeOK, Statuses
    <3>2. CASE ForceFail(j)
      <4>1. status' = [status EXCEPT ![j] = "failed"] /\ recorded' = [recorded EXCEPT ![j] = @ + 1]
        BY <3>2 DEF ForceFail, SettleRecords
      <4>2. Ledger!Settle(j, "failed")
        BY <1>0, <2>1, <3>1, <4>1, LedgerSettles DEF Terminal
      <4> QED BY <4>2 DEF Ledger!Next
    <3>3. CASE status' = [status EXCEPT ![j] = "stopping"] /\ UNCHANGED recorded
      <4>1. \A k \in Jobs : Life(k)' = Life(k) /\ Verdict(k)' = Verdict(k)
        BY <1>0, <2>1, <3>1, <3>3 DEF TypeOK, Life, Verdict, Active, Terminal
      <4> QED BY <2>1, <3>3, <4>1, LedgerSame DEF Closed
    <3> QED BY <1>12, <2>3, <3>2, <3>3 DEF CancelVictim
  <2> QED BY <2>2, <2>3
<1>13. ASSUME NEW t \in Teardowns, NEW j \in Jobs, DropVictim(t, j)
  PROVE [Ledger!Next]_(Ledger!vars)
  <2>1. status[j] \in Terminal /\ store' = store \ {j} /\ UNCHANGED <<owner, status, recorded, scope>>
    BY <1>0, <1>13 DEF DropVictim, Victims, Records, Drop
  <2> QED BY <1>0, <2>1, LedgerRemoves DEF Ledger!Next
<1>14. ASSUME NEW t \in Teardowns, AllCancelled(t) PROVE [Ledger!Next]_(Ledger!vars)
  <2>1. UNCHANGED <<owner, recorded, status, store, scope>>
    BY <1>14 DEF AllCancelled, vars, jobVars, prodVars, waitVars, tearVars
  <2> QED BY <2>1, LedgerIdle DEF Closed
<1>15. ASSUME NEW t \in Teardowns, BeginDrop(t) PROVE [Ledger!Next]_(Ledger!vars)
  <2>1. UNCHANGED <<owner, recorded, status, store, scope>>
    BY <1>15 DEF BeginDrop, vars, jobVars, prodVars, waitVars, tearVars
  <2> QED BY <2>1, LedgerIdle DEF Closed
<1>16. ASSUME NEW t \in Teardowns, AllDropped(t) PROVE [Ledger!Next]_(Ledger!vars)
  <2>1. UNCHANGED <<owner, recorded, status, store>>
    BY <1>16 DEF AllDropped, jobVars
  <2>2. CASE t \in Owners /\ scope' = [scope EXCEPT ![t] = "gone"]
    <3>1. Ledger!Close(t)
      BY <1>0, <2>1, <2>2, LedgerCloses
    <3> QED BY <2>2, <3>1 DEF Ledger!Next
  <2>3. CASE UNCHANGED scope
    BY <2>1, <2>3, LedgerIdle DEF Closed
  <2> QED BY <1>16, <2>2, <2>3 DEF AllDropped
<1>17. ASSUME NEW o \in Owners, DetachCleanup(o) PROVE [Ledger!Next]_(Ledger!vars)
  <2>1. UNCHANGED <<owner, recorded, status, store, scope>>
    BY <1>17 DEF DetachCleanup, vars, jobVars, prodVars, waitVars, tearVars
  <2> QED BY <2>1, LedgerIdle DEF Closed
<1>18. ASSUME NEW j \in Jobs, ProducerReports(j) PROVE [Ledger!Next]_(Ledger!vars)
  <2>1. UNCHANGED <<owner, recorded, status, store, scope>>
    BY <1>18 DEF ProducerReports, vars, jobVars, prodVars, waitVars, tearVars
  <2> QED BY <2>1, LedgerIdle DEF Closed
<1>19. ASSUME UNCHANGED vars PROVE [Ledger!Next]_(Ledger!vars)
  <2>1. UNCHANGED <<owner, recorded, status, store, scope>>
    BY <1>19 DEF vars, jobVars, prodVars, waitVars, tearVars
  <2> QED BY <2>1, LedgerIdle DEF Closed
<1> QED BY <1>1, <1>2, <1>3, <1>4, <1>5, <1>6, <1>7, <1>8, <1>9, <1>10, <1>11, <1>12, <1>13,
         <1>14, <1>15, <1>16, <1>17, <1>18, <1>19
  DEF Next, Callers, Registry

(* The empty registry is an empty ledger.                                  *)
LEMMA InitLedger == Init => Ledger!Init
<1>1. ASSUME Init
      PROVE \A j \in Jobs : status[j] = "new" /\ Life(j) = "new" /\ Verdict(j) = "none"
  BY <1>1, LifeOf DEF Init, Verdict, Terminal
<1>2. ASSUME Init
      PROVE Closed = {} /\ recorded = [j \in Jobs |-> 0] /\ owner = [j \in Jobs |-> "none"]
  BY <1>2 DEF Init, Closed
<1> QED BY <1>1, <1>2 DEF Ledger!Init, Verdict, Closed

(* The registry implements JobLedger.                                      *)
THEOREM LedgerRefined == Spec => LedgerKept
<1>1. IInv /\ [Next]_vars => [Ledger!Next]_(Ledger!vars)
  BY LedgerStep
<1> QED BY <1>1, InitLedger, RegistryInductive, PTL DEF Spec, LedgerKept, Ledger!Spec
=============================================================================
