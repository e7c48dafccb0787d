-------------------------- MODULE JobNoticesProofs --------------------------
(***************************************************************************)
(* Theorems of the job tools over the registry, for every set of jobs,     *)
(* calls and owners and every limit.  The registry's own invariant holds   *)
(* under the tools as well; NInv adds what the tools keep.                 *)
(***************************************************************************)
EXTENDS JobNoticesProps, JobRegistryProofs

-----------------------------------------------------------------------------
(* The registry under the tools. *)

(* job_output that reads at once or claims: a wait() that never waited.    *)
LEMMA ReadsNowKeepsRegistry ==
  ASSUME IInv, NEW w \in Waits, NEW j \in Jobs, NEW c \in BOOLEAN, OutputReadsNow(w, j, c)
  PROVE  IInv' /\ Stable
<1>0. TypeOK /\ Records /\ Settling /\ Waiting /\ WaitersReleased /\ AwaitedMeansServed
  BY DEF IInv
<1>1. /\ waitJob' = [waitJob EXCEPT ![w] = j] /\ wait[w] = "idle"
      /\ \E how \in {"aborted", "returned"} : wait' = [wait EXCEPT ![w] = how]
      /\ UNCHANGED <<jobVars, prodVars, settled, resolvers, seen, served, tearVars, stack>>
  BY DEF OutputReadsNow
<1>2. Stable
  BY <1>1 DEF Stable, jobVars
<1>3. PICK how \in {"aborted", "returned"} : wait' = [wait EXCEPT ![w] = how]
  BY <1>1
<1>4. w \notin served /\ \A i \in Jobs : w \notin resolvers[i]
  BY <1>0, <1>1 DEF AwaitedMeansServed, Waiting
<1>5. TypeOK'
  BY <1>0, <1>1, <1>3 DEF TypeOK, Statuses, Frames, SettleFrame, TearFrame, jobVars, prodVars, tearVars
<1>6. Records' /\ Settling' /\ Ownership' /\ OwnerLeavesNothing' /\ Victims' /\ WithinLimit'
  BY <1>1 DEF IInv, Records, Settling, SettleFrame, Ownership, OwnerLeavesNothing, JobsOf, Victims,
     WithinLimit, ActiveOf, jobVars, prodVars, tearVars
<1>7. Waiting'
  BY <1>0, <1>1, <1>3, <1>4 DEF Waiting, TypeOK
<1>8. WaitersReleased'
  BY <1>0, <1>1, <1>3 DEF WaitersReleased, TypeOK
<1>9. \A i \in Jobs : CollectedBy(i)' = CollectedBy(i)
  BY <1>0, <1>1, <1>4 DEF CollectedBy, TypeOK
<1>10. AwaitedMeansServed'
  BY <1>0, <1>1, <1>3, <1>4, <1>9 DEF AwaitedMeansServed, TypeOK, jobVars
<1> QED BY <1>2, <1>5, <1>6, <1>7, <1>8, <1>10 DEF IInv

(* The abort of a step withdraws all its waits at once.                    *)
LEMMA CancelKeepsRegistry ==
  ASSUME IInv, CallsCancelled
  PROVE  IInv' /\ Stable
<1>0. TypeOK /\ Records /\ Settling /\ Waiting /\ WaitersReleased /\ AwaitedMeansServed
  BY DEF IInv
<1>1. /\ wait' = [w \in Waits |-> IF wait[w] = "waiting" THEN "aborted" ELSE wait[w]]
      /\ resolvers' = [j \in Jobs |-> {}]
      /\ UNCHANGED <<jobVars, prodVars, settled, waitJob, seen, served, tearVars, stack>>
  BY DEF CallsCancelled
<1>2. Stable
  BY <1>1 DEF Stable, jobVars
<1>5. TypeOK'
  BY <1>0, <1>1 DEF TypeOK, Statuses, Frames, SettleFrame, TearFrame, jobVars, prodVars, tearVars
<1>6. Records' /\ Settling' /\ Ownership' /\ OwnerLeavesNothing' /\ Victims' /\ WithinLimit'
  BY <1>1 DEF IInv, Records, Settling, SettleFrame, Ownership, OwnerLeavesNothing, JobsOf, Victims,
     WithinLimit, ActiveOf, jobVars, prodVars, tearVars
<1>7. Waiting' /\ WaitersReleased'
  BY <1>0, <1>1 DEF Waiting, WaitersReleased, TypeOK
<1>9. \A i \in Jobs : CollectedBy(i)' = CollectedBy(i)
  BY <1>1 DEF CollectedBy
<1>10. AwaitedMeansServed'
  BY <1>0, <1>1, <1>9 DEF AwaitedMeansServed, TypeOK, jobVars
<1> QED BY <1>2, <1>5, <1>6, <1>7, <1>10 DEF IInv

(* Every other step of the tools is a step of the registry, or none.       *)
LEMMA RegistryUnderTools ==
  ASSUME NNext
  PROVE  \/ [Next]_vars
         \/ \E w \in Waits, j \in Jobs, c \in BOOLEAN : OutputReadsNow(w, j, c)
         \/ CallsCancelled
<1>1. CASE RegistryAlone
  <2>1. \A o \in Owners : o \in Teardowns
    BY DEF Teardowns
  <2> QED BY <1>1, <2>1 DEF RegistryAlone, Next, Callers, Registry
<1>2. ASSUME NEW j \in Jobs, Settled(j) \/ NoticeLogged(j) \/ NoticeDiscarded(j) \/ ModelKills(j)
      PROVE [Next]_vars
  BY <1>2 DEF Settled, NoticeLogged, NoticeDiscarded, ModelKills, Next, Callers, Registry
<1>3. ASSUME NEW o \in Owners, NEW j \in Jobs, Removed(o, j) PROVE [Next]_vars
  BY <1>3 DEF Removed, Next, Registry, Teardowns
<1>4. ASSUME NEW w \in Waits, NEW j \in Jobs, OutputWaits(w, j) PROVE [Next]_vars
  BY <1>4 DEF OutputWaits, Next, Callers
<1>5. ASSUME NEW w \in Waits, InputReleases(w) PROVE [Next]_vars
  BY <1>5 DEF InputReleases, Next, Callers
<1>6. ASSUME NEW w \in Waits,
             OutputFails(w) \/ OutputReads(w) \/ ResultCommits(w) \/ ResultReplaced(w)
      PROVE UNCHANGED vars
  BY <1>6 DEF OutputFails, OutputReads, ResultCommits, ResultReplaced
<1> QED BY <1>1, <1>2, <1>3, <1>4, <1>5, <1>6 DEF NNext

(* So the registry's invariant is kept, and every step is stable.          *)
LEMMA RegistryKept ==
  ASSUME IInv, [NNext]_allVars PROVE IInv' /\ Stable
<1>1. CASE [Next]_vars
  <2>1. IInv /\ [Next]_vars => IInv'
    BY InductiveStep
  <2> QED BY <1>1, <2>1, StableStep
<1>2. CASE UNCHANGED allVars
  BY <1>1, <1>2 DEF allVars
<1> QED BY <1>1, <1>2, RegistryUnderTools, ReadsNowKeepsRegistry, CancelKeepsRegistry

-----------------------------------------------------------------------------
(* A frame of a settle() leaves the stack only with the announcement.      *)
LEMMA PopKeepsFrames ==
  ASSUME Announced, TypeOK, NEW f, Top(f), stack' = Tail(stack), UNCHANGED <<status, settled>>,
         \A j \in Jobs : f # SettleFrame(j)
  PROVE  Announced'
<1>1. ASSUME NEW j \in Jobs, NEW i \in DOMAIN stack, stack[i] = SettleFrame(j)
      PROVE \E k \in DOMAIN stack' : stack'[k] = SettleFrame(j)
  <2>1. i # 1 /\ i \in 1..Len(stack)
    BY <1>1 DEF TypeOK, Top
  <2>2. i - 1 \in DOMAIN stack' /\ stack'[i - 1] = stack[i]
    BY <2>1 DEF TypeOK
  <2> QED BY <1>1, <2>2
<1> QED BY <1>1 DEF Announced, SettleFrame

LEMMA PushKeepsFrames ==
  ASSUME TypeOK, NEW f \in Frames, Push(f), NEW j \in Jobs,
         \E i \in DOMAIN stack : stack[i] = SettleFrame(j)
  PROVE  \E i \in DOMAIN stack' : stack'[i] = SettleFrame(j)
<1>1. PICK i \in DOMAIN stack : stack[i] = SettleFrame(j)
  OBVIOUS
<1>2. i + 1 \in DOMAIN stack' /\ stack'[i + 1] = stack[i]
  BY DEF TypeOK, Push
<1> QED BY <1>1, <1>2

LEMMA QuietFrames ==
  ASSUME Announced, UNCHANGED <<stack, settled>>,
         \A j \in Jobs : status'[j] \in Terminal => status[j] \in Terminal
  PROVE  Announced'
  BY DEF Announced, SettleFrame

LEMMA TearPushKeepsFrames ==
  ASSUME Announced, TypeOK, UNCHANGED <<status, settled>>, NEW t \in Teardowns, Push(TearFrame(t))
  PROVE  Announced'
<1>1. TearFrame(t) \in Frames
  BY DEF Frames
<1> QED BY <1>1, PushKeepsFrames DEF Announced, SettleFrame

LEMMA SettlePushKeepsFrames ==
  ASSUME Announced, TypeOK, UNCHANGED settled, NEW j \in Jobs, NEW out \in Terminal,
         status' = [status EXCEPT ![j] = out], Push(SettleFrame(j))
  PROVE  Announced'
<1>1. SettleFrame(j) \in Frames
  BY DEF Frames
<1>2. 1 \in DOMAIN stack' /\ stack'[1] = SettleFrame(j)
  BY DEF Push, TypeOK
<1>3. \A i \in Jobs \ {j} : status'[i] = status[i]
  BY DEF TypeOK
<1> QED BY <1>1, <1>2, <1>3, PushKeepsFrames DEF Announced, SettleFrame

(* Every terminal job is announced, or its settle() is on the stack.       *)
LEMMA AnnouncedStep ==
  ASSUME IInv, Announced, [Next]_vars PROVE Announced'
<1>0. TypeOK /\ \A t \in Teardowns, j \in Jobs : TearFrame(t) # SettleFrame(j)
  BY DEF IInv, TearFrame, SettleFrame
<1> USE DEF Active, Terminal
<1>1. ASSUME NEW j \in Jobs, NEW o \in Buckets, Start(j, o) PROVE Announced'
  BY <1>0, <1>1, QuietFrames DEF Start, TypeOK
<1>2. ASSUME NEW o \in Owners, StarterThrows(o) PROVE Announced'
  BY <1>2, QuietFrames DEF StarterThrows, jobVars
<1>3. ASSUME NEW j \in Jobs, Kill(j) PROVE Announced'
  BY <1>0, <1>3, QuietFrames DEF Kill, TypeOK
<1>4. ASSUME NEW j \in Jobs, Remove(j) PROVE Announced'
  BY <1>4, QuietFrames DEF Remove
<1>5. ASSUME NEW w \in Waits, NEW j \in Jobs, Wait(w, j) PROVE Announced'
  BY <1>5, QuietFrames DEF Wait, jobVars
<1>6. ASSUME NEW w \in Waits, NEW how \in {"timedout", "aborted"}, LeaveWait(w, how)
      PROVE Announced'
  BY <1>6, QuietFrames DEF LeaveWait, jobVars
<1>7. ASSUME NEW o \in Owners, CloseScope(o) PROVE Announced'
  <2>1. UNCHANGED <<status, settled>> /\ o \in Teardowns /\ (stack' = stack \/ Push(TearFrame(o)))
    BY <1>7 DEF CloseScope, BeginTeardown, jobVars, Teardowns
  <2> QED BY <1>0, <2>1, QuietFrames, TearPushKeepsFrames
<1>8. ASSUME DisposeService PROVE Announced'
  <2>1. UNCHANGED <<status, settled>> /\ Service \in Teardowns /\ Push(TearFrame(Service))
    BY <1>8 DEF DisposeService, BeginTeardown, jobVars, Teardowns
  <2> QED BY <1>0, <2>1, TearPushKeepsFrames
<1>9. ASSUME NEW w \in Waits, WaitReturns(w) PROVE Announced'
  BY <1>9, QuietFrames DEF WaitReturns, jobVars
<1>10. ASSUME NEW j \in Jobs, SettleReleases(j) PROVE Announced'
  <2>1. stack' = Tail(stack) /\ Top(SettleFrame(j)) /\ settled' = settled \cup {j} /\ status' = status
    BY <1>10 DEF SettleReleases
  <2>2. ASSUME NEW x \in Jobs, x # j, NEW i \in DOMAIN stack, stack[i] = SettleFrame(x)
        PROVE \E k \in DOMAIN stack' : stack'[k] = SettleFrame(x)
    <3>1. i # 1 /\ i \in 1..Len(stack)
      BY <1>0, <2>1, <2>2 DEF TypeOK, Top, SettleFrame
    <3>2. i - 1 \in DOMAIN stack' /\ stack'[i - 1] = stack[i]
      BY <1>0, <2>1, <3>1 DEF TypeOK
    <3> QED BY <2>2, <3>2
  <2> QED BY <2>1, <2>2 DEF Announced, SettleFrame
<1>11. ASSUME NEW j \in Jobs, ProducerSettles(j) PROVE Announced'
  <2>1. CASE Unsettled(j)
    <3>1. PICK out \in Outcomes : SettleRecords(j, out, IF settleCause[j] = "none" THEN "producer" ELSE settleCause[j])
      BY <1>11, <2>1 DEF ProducerSettles
    <3>2. out \in Terminal /\ settled' = settled
      BY <1>11, JobConstants DEF ProducerSettles
    <3> QED BY <1>0, <3>1, <3>2, SettlePushKeepsFrames DEF SettleRecords
  <2>2. CASE ~Unsettled(j)
    BY <1>11, <2>2, QuietFrames DEF ProducerSettles
  <2> QED BY <2>1, <2>2
<1>12. ASSUME NEW t \in Teardowns, NEW j \in Jobs, CancelVictim(t, j) PROVE Announced'
  <2>1. CASE status[j] \in Terminal
    BY <1>12, <2>1, QuietFrames DEF CancelVictim
  <2>2. CASE status[j] \notin Terminal /\ ForceFail(j)
    BY <1>0, <1>12, <2>2, SettlePushKeepsFrames DEF CancelVictim, ForceFail, SettleRecords
  <2>3. CASE status[j] \notin Terminal /\ status' = [status EXCEPT ![j] = "stopping"] /\ stack' = stack
    BY <1>0, <1>12, <2>3, QuietFrames DEF CancelVictim, TypeOK
  <2> QED BY <1>12, <2>1, <2>2, <2>3 DEF CancelVictim
<1>13. ASSUME NEW t \in Teardowns, NEW j \in Jobs, DropVictim(t, j) PROVE Announced'
  BY <1>13, QuietFrames DEF DropVictim
<1>14. ASSUME NEW t \in Teardowns, AllCancelled(t) PROVE Announced'
  BY <1>0, <1>14, PopKeepsFrames DEF AllCancelled, jobVars
<1>15. ASSUME NEW t \in Teardowns, BeginDrop(t) PROVE Announced'
  BY <1>0, <1>15, TearPushKeepsFrames DEF BeginDrop, jobVars
<1>16. ASSUME NEW t \in Teardowns, AllDropped(t) PROVE Announced'
  BY <1>0, <1>16, PopKeepsFrames DEF AllDropped, jobVars
<1>17. ASSUME NEW o \in Owners, DetachCleanup(o) PROVE Announced'
  <2>1. UNCHANGED <<status, settled>> /\ o \in Teardowns /\ Push(TearFrame(o))
    BY <1>17 DEF DetachCleanup, BeginTeardown, jobVars, Teardowns
  <2> QED BY <1>0, <2>1, TearPushKeepsFrames
<1>18. ASSUME NEW j \in Jobs, ProducerReports(j) PROVE Announced'
  BY <1>18, QuietFrames DEF ProducerReports, jobVars
<1>19. ASSUME UNCHANGED vars PROVE Announced'
  BY <1>19, QuietFrames DEF vars, jobVars
<1> QED BY <1>1, <1>2, <1>3, <1>4, <1>5, <1>6, <1>7, <1>8, <1>9, <1>10, <1>11, <1>12, <1>13,
         <1>14, <1>15, <1>16, <1>17, <1>18, <1>19
  DEF Next, Callers, Registry

(* The same for every step of the tools.                                   *)
LEMMA AnnouncedKept ==
  ASSUME IInv, Announced, [NNext]_allVars PROVE Announced'
<1>1. ASSUME NEW w \in Waits, NEW j \in Jobs, NEW c \in BOOLEAN, OutputReadsNow(w, j, c)
      PROVE Announced'
  BY <1>1, QuietFrames DEF OutputReadsNow, jobVars
<1>2. ASSUME CallsCancelled PROVE Announced'
  BY <1>2, QuietFrames DEF CallsCancelled, jobVars
<1>3. CASE UNCHANGED allVars
  BY <1>3, AnnouncedStep DEF allVars
<1> QED BY <1>1, <1>2, <1>3, AnnouncedStep, RegistryUnderTools

-----------------------------------------------------------------------------
(* What a step of the registry that the tools do not observe may change.   *)
Quiet ==
    /\ Stable
    /\ UNCHANGED <<settled, served, waitJob>>
    /\ \A w \in Waits : /\ wait'[w] = "idle" <=> wait[w] = "idle"
                        /\ wait'[w] = "waiting" => wait[w] = "waiting"
    /\ \A j \in store' : j \in store \/ status[j] = "new"
    /\ \A j \in settled : cause'[j] = cause[j]
    /\ \A o \in Owners : scope'[o] = "open" => scope[o] = "open"

LEMMA QuietStep ==
  ASSUME IInv, Stable,
         \/ RegistryAlone \/ UNCHANGED vars \/ \E j \in Jobs : Kill(j)
         \/ \E o \in Owners, j \in Jobs : DropVictim(o, j)
         \/ \E w \in Waits : LeaveWait(w, "aborted")
  PROVE  Quiet
<1>0. TypeOK /\ Records
  BY DEF IInv
<1> USE DEF Quiet
<1>1. ASSUME NEW j \in Jobs, NEW o \in Buckets, Start(j, o) PROVE Quiet
  BY <1>0, <1>1 DEF Start, waitVars
<1>2. ASSUME NEW o \in Owners, StarterThrows(o) PROVE Quiet
  BY <1>0, <1>2 DEF StarterThrows, jobVars, waitVars
<1>3. ASSUME NEW j \in Jobs, Kill(j) PROVE Quiet
  BY <1>0, <1>3 DEF Kill, waitVars, tearVars
<1>6. ASSUME NEW w \in Waits, NEW how \in {"timedout", "aborted"}, LeaveWait(w, how) PROVE Quiet
  BY <1>0, <1>6 DEF LeaveWait, jobVars, tearVars, TypeOK
<1>7. ASSUME NEW o \in Owners, CloseScope(o) PROVE Quiet
  BY <1>0, <1>7 DEF CloseScope, jobVars, waitVars, TypeOK
<1>9. ASSUME NEW w \in Waits, WaitReturns(w) PROVE Quiet
  BY <1>0, <1>9 DEF WaitReturns, jobVars, tearVars, TypeOK
<1>11. ASSUME NEW j \in Jobs, ProducerSettles(j) PROVE Quiet
  <2>1. CASE Unsettled(j)
    <3>1. PICK by \in {"producer", settleCause[j]} : \E out \in Outcomes : SettleRecords(j, out, by)
      BY <1>11, <2>1 DEF ProducerSettles
    <3>2. j \notin settled
      BY <1>0, <2>1 DEF Records, Unsettled
    <3> QED BY <1>0, <1>11, <3>1, <3>2 DEF ProducerSettles, SettleRecords, waitVars, tearVars, TypeOK
  <2>2. CASE ~Unsettled(j)
    BY <1>0, <1>11, <2>2 DEF ProducerSettles, waitVars, tearVars
  <2> QED BY <2>1, <2>2
<1>12. ASSUME NEW t \in Teardowns, NEW j \in Jobs, CancelVictim(t, j) PROVE Quiet
  <2>1. CASE UNCHANGED cause
    BY <1>0, <1>12, <2>1 DEF CancelVictim, waitVars
  <2>2. CASE status[j] \notin Terminal /\ ForceFail(j)
    BY <1>0, <1>12, <2>2 DEF CancelVictim, ForceFail, SettleRecords, Records, waitVars, TypeOK
  <2> QED BY <1>12, <2>1, <2>2 DEF CancelVictim
<1>13. ASSUME NEW t \in Teardowns, NEW j \in Jobs, DropVictim(t, j) PROVE Quiet
  BY <1>0, <1>13 DEF DropVictim, Drop, waitVars
<1>14. ASSUME NEW t \in Teardowns, AllCancelled(t) PROVE Quiet
  BY <1>0, <1>14 DEF AllCancelled, jobVars, waitVars
<1>15. ASSUME NEW t \in Teardowns, BeginDrop(t) PROVE Quiet
  BY <1>0, <1>15 DEF BeginDrop, jobVars, waitVars
<1>16. ASSUME NEW t \in Teardowns, AllDropped(t) PROVE Quiet
  BY <1>0, <1>16 DEF AllDropped, jobVars, waitVars, TypeOK
<1>18. ASSUME NEW j \in Jobs, ProducerReports(j) PROVE Quiet
  BY <1>0, <1>18 DEF ProducerReports, jobVars, waitVars, tearVars
<1>19. ASSUME UNCHANGED vars PROVE Quiet
  BY <1>0, <1>19 DEF vars, jobVars, waitVars, tearVars
<1> HIDE DEF Quiet
<1>20. \A o \in Owners : o \in Teardowns
  BY DEF Teardowns
<1> QED BY <1>1, <1>2, <1>3, <1>6, <1>7, <1>9, <1>11, <1>12, <1>13, <1>14, <1>15, <1>16,
         <1>18, <1>19, <1>20
  DEF RegistryAlone

(* The steps of the tools that leave the registry as quiet.                *)
LEMMA QuietTools ==
  ASSUME IInv, Stable,
         \/ RegistryAlone \/ UNCHANGED allVars \/ CallsCancelled
         \/ \E j \in Jobs : NoticeLogged(j) \/ NoticeDiscarded(j) \/ ModelKills(j)
         \/ \E o \in Owners, j \in Jobs : Removed(o, j)
         \/ \E w \in Waits : \/ InputReleases(w) \/ OutputFails(w) \/ OutputReads(w)
                             \/ ResultCommits(w) \/ ResultReplaced(w)
  PROVE  Quiet
<1>1. CASE CallsCancelled
  BY <1>1 DEF CallsCancelled, Quiet, IInv, TypeOK, jobVars, tearVars
<1>2. CASE \E j \in Jobs : NoticeLogged(j) \/ NoticeDiscarded(j) \/ ModelKills(j)
  BY <1>2, QuietStep DEF NoticeLogged, NoticeDiscarded, ModelKills
<1>3. CASE \E o \in Owners, j \in Jobs : Removed(o, j)
  BY <1>3, QuietStep DEF Removed
<1>4. CASE \E w \in Waits : \/ InputReleases(w) \/ OutputFails(w) \/ OutputReads(w)
                            \/ ResultCommits(w) \/ ResultReplaced(w)
  BY <1>4, QuietStep DEF InputReleases, OutputFails, OutputReads, ResultCommits, ResultReplaced
<1>5. CASE UNCHANGED allVars
  BY <1>5, QuietStep DEF allVars
<1> QED BY <1>1, <1>2, <1>3, <1>4, <1>5, QuietStep

(* The second half of settle(), seen by the tools.                         *)
LEMMA Releasing ==
  ASSUME IInv, NEW j \in Jobs, SettleReleases(j)
  PROVE  /\ j \notin settled /\ status[j] \in Terminal /\ settled' = settled \cup {j}
         /\ served' = served \cup resolvers[j]
         /\ \A w \in resolvers[j] : w \in Waits /\ wait[w] = "waiting" /\ waitJob[w] = j
         /\ \A w \in Waits : /\ wait'[w] = "idle" <=> wait[w] = "idle"
                             /\ wait'[w] = "waiting" => wait[w] = "waiting"
         /\ UNCHANGED <<waitJob, store, status, owner, cause, scope>>
<1>0. TypeOK /\ Settling /\ Waiting
  BY DEF IInv
<1>1. 1 \in DOMAIN stack /\ stack[1] = SettleFrame(j)
  BY <1>0, PopLemma DEF SettleReleases, TypeOK
<1>2. \A w \in resolvers[j] : w \in Waits /\ wait[w] = "waiting" /\ waitJob[w] = j
  BY <1>0 DEF Waiting, TypeOK
<1> QED BY <1>0, <1>1, <1>2 DEF SettleReleases, Settling, tearVars

(* A job_output call that begins.                                          *)
Begins(w, j) ==
    /\ wait[w] = "idle" /\ wait'[w] # "idle"
    /\ waitJob' = [waitJob EXCEPT ![w] = j] /\ \A v \in Waits \ {w} : wait'[v] = wait[v]
    /\ call' = [call EXCEPT ![w] = call'[w]] /\ call'[w] \in {"waiting", "reading"}
    /\ wait'[w] = "waiting" => call'[w] = "waiting"
    /\ UNCHANGED <<settled, served, store, status, owner, cause, scope>>

LEMMA Beginning ==
  ASSUME IInv, NoticesTypeOK, NEW w \in Waits, NEW j \in Jobs,
         OutputWaits(w, j) \/ \E c \in BOOLEAN : OutputReadsNow(w, j, c)
  PROVE  Begins(w, j)
<1>0. TypeOK
  BY DEF IInv
<1>1. CASE OutputWaits(w, j)
  <2>1. /\ wait[w] = "idle" /\ waitJob' = [waitJob EXCEPT ![w] = j]
        /\ \E x \in {"waiting", "returned"} : wait' = [wait EXCEPT ![w] = x]
        /\ call' = [call EXCEPT ![w] = "waiting"]
        /\ UNCHANGED <<settled, served, store, status, owner, cause, scope>>
    BY <1>1 DEF OutputWaits, Wait, jobVars, tearVars
  <2> QED BY <1>0, <2>1 DEF Begins, TypeOK, NoticesTypeOK
<1>2. ASSUME NEW c \in BOOLEAN, OutputReadsNow(w, j, c) PROVE Begins(w, j)
  <2>1. /\ wait[w] = "idle" /\ waitJob' = [waitJob EXCEPT ![w] = j]
        /\ \E x \in {"aborted", "returned"} : wait' = [wait EXCEPT ![w] = x]
        /\ \E x \in {"waiting", "reading"} : call' = [call EXCEPT ![w] = x]
        /\ UNCHANGED <<settled, served, store, status, owner, cause, scope>>
    BY <1>2 DEF OutputReadsNow, jobVars, tearVars
  <2> QED BY <1>0, <2>1 DEF Begins, TypeOK, NoticesTypeOK
<1> QED BY <1>1, <1>2

-----------------------------------------------------------------------------
(* Calls and their waits. *)

LEMMA CallsStep ==
  ASSUME IInv, NInv, [NNext]_allVars, Stable PROVE Calls'
<1>0. TypeOK /\ NoticesTypeOK /\ Calls /\ Announced /\ Waiting /\ Records
  BY DEF IInv, NInv
<1> USE DEF Calls, NoticesTypeOK
<1>1. ASSUME RegistryAlone \/ UNCHANGED allVars PROVE Calls'
  <2>1. Quiet /\ UNCHANGED notVars
    BY <1>1, QuietTools DEF RegistryAlone, allVars
  <2> QED BY <1>0, <2>1 DEF Quiet, notVars, toolVars, noticeVars
<1>2. ASSUME NEW j \in Jobs, Settled(j) PROVE Calls'
  <2>1. SettleReleases(j) /\ UNCHANGED <<toolVars, claims>>
    BY <1>2 DEF Settled
  <2> QED BY <1>0, <2>1, Releasing DEF toolVars
<1>3. ASSUME NEW j \in Jobs, NoticeLogged(j) \/ NoticeDiscarded(j) \/ ModelKills(j) PROVE Calls'
  <2>1. Quiet /\ UNCHANGED <<toolVars, claims>>
    BY <1>3, QuietTools DEF NoticeLogged, NoticeDiscarded, ModelKills
  <2> QED BY <1>0, <2>1 DEF Quiet, toolVars
<1>4. ASSUME NEW o \in Owners, NEW j \in Jobs, Removed(o, j) PROVE Calls'
  <2>1. Quiet /\ UNCHANGED <<toolVars, claims>>
    BY <1>4, QuietTools DEF Removed
  <2> QED BY <1>0, <2>1 DEF Quiet, toolVars
<1>5. ASSUME NEW w \in Waits, NEW j \in Jobs,
             OutputWaits(w, j) \/ \E c \in BOOLEAN : OutputReadsNow(w, j, c)
      PROVE Calls'
  <2>1. Begins(w, j) /\ UNCHANGED <<answer, carries>>
    BY <1>0, <1>5, Beginning DEF OutputWaits, OutputReadsNow
  <2>2. \/ UNCHANGED <<steered, claims>>
        \/ steered' = steered \cup {w} /\ claims' = claims \cup {w} /\ call'[w] = "waiting"
    BY <1>0, <1>5 DEF OutputWaits, OutputReadsNow, noticeVars
  <2>3. call[w] = "idle" /\ w \notin claims /\ w \notin steered
    BY <1>0, <2>1 DEF Begins
  <2>4. \A v \in Waits \ {w} : call'[v] = call[v] /\ waitJob'[v] = waitJob[v] /\ wait'[v] = wait[v]
    BY <1>0, <2>1 DEF Begins, TypeOK
  <2> QED BY <1>0, <2>1, <2>2, <2>3, <2>4 DEF Begins
<1>6. ASSUME NEW w \in Waits, InputReleases(w) PROVE Calls'
  <2>1. Quiet
    BY <1>6, QuietTools
  <2> QED BY <1>0, <1>6, <2>1 DEF InputReleases, Quiet
<1>7. ASSUME NEW w \in Waits, OutputFails(w) PROVE Calls'
  <2>1. Quiet
    BY <1>7, QuietTools
  <2>2. call[w] \in {"waiting", "reading"} /\ wait[w] # "waiting"
    BY <1>0, <1>7 DEF OutputFails, AtRead
  <2>3. call' = [call EXCEPT ![w] = "done"] /\ claims' = claims \ {w}
        /\ UNCHANGED <<steered, answer, carries>>
    BY <1>7 DEF OutputFails, EndClaim
  <2> QED BY <1>0, <2>1, <2>2, <2>3 DEF Quiet
<1>8. ASSUME NEW w \in Waits, OutputReads(w) PROVE Calls'
  <2>1. Quiet
    BY <1>8, QuietTools
  <2>2. call[w] \in {"waiting", "reading"} /\ wait[w] # "waiting" /\ stack = <<>>
    BY <1>0, <1>8 DEF OutputReads, AtRead
  <2>3. call' = [call EXCEPT ![w] = "answered"] /\ claims' = claims \ {w} /\ UNCHANGED steered
        /\ carries' \subseteq carries \cup {w}
    BY <1>8 DEF OutputReads, EndClaim
  <2>4. answer' = [answer EXCEPT ![w] = IF status[waitJob[w]] \in Terminal THEN "finished" ELSE "live"]
    BY <1>8 DEF OutputReads
  <2>5. waitJob[w] \in Jobs
    BY <1>0, <2>2 DEF Waiting
  <2>6. status[waitJob[w]] \in Terminal => waitJob[w] \in settled
    BY <1>0, <2>2, <2>5 DEF Announced
  <2> QED BY <1>0, <2>1, <2>2, <2>3, <2>4, <2>6 DEF Quiet
<1>9. ASSUME NEW w \in Waits, ResultCommits(w) \/ ResultReplaced(w) PROVE Calls'
  <2>1. Quiet
    BY <1>9, QuietTools
  <2>2. /\ call[w] = "answered" /\ call' = [call EXCEPT ![w] = "done"]
        /\ carries' \subseteq carries /\ UNCHANGED <<steered, answer, claims>>
    BY <1>9 DEF ResultCommits, ResultReplaced, noticeVars
  <2> QED BY <1>0, <2>1, <2>2 DEF Quiet
<1>10. ASSUME CallsCancelled PROVE Calls'
  <2>1. Quiet
    BY <1>10, QuietTools
  <2> QED BY <1>0, <1>10, <2>1 DEF CallsCancelled, Quiet, noticeVars
<1> QED BY <1>1, <1>2, <1>3, <1>4, <1>5, <1>6, <1>7, <1>8, <1>9, <1>10 DEF NNext

-----------------------------------------------------------------------------
(* Types, and the claims behind a suppressed settlement. *)

(* A delivery keeps the types and holds a text only in a pending notice.   *)
LEMMA DeliverTypes ==
  ASSUME NoticesTypeOK, NEW j \in Jobs, Deliver(j)
  PROVE  /\ pending' \subseteq Jobs /\ inline' \subseteq Jobs /\ held' \subseteq pending'
         /\ notice' \in [Jobs -> {"none", "queued", "logged", "withdrawn", "discarded"}]
         /\ taken' \subseteq Jobs
  BY DEF Deliver, QueueNotice, NoticesTypeOK

(* The end of a claim leaves suppressed only what is claimed still.        *)
LEMMA EndClaimKeeps ==
  ASSUME NoticesTypeOK, NEW w \in Waits, NEW left, left \subseteq suppressed,
         EndClaim(w, waitJob[w], left), UNCHANGED waitJob
  PROVE  claims' \subseteq Waits /\ \A i \in suppressed' : Claimants(i)' # {}
<1>1. claims' = claims \ {w}
  BY DEF EndClaim
<1>2. ASSUME NEW i \in suppressed', i # waitJob[w] PROVE Claimants(i)' # {}
  <2>1. i \in suppressed /\ Claimants(i)' = Claimants(i)
    BY <1>1, <1>2 DEF EndClaim, Claimants
  <2> QED BY <2>1 DEF NoticesTypeOK
<1>3. ASSUME waitJob[w] \in suppressed' PROVE Claimants(waitJob[w])' # {}
  <2>1. waitJob[w] \in suppressed /\ Claimants(waitJob[w]) # {w}
    BY <1>3 DEF EndClaim
  <2>2. Claimants(waitJob[w]) # {}
    BY <2>1 DEF NoticesTypeOK
  <2>3. PICK v \in Claimants(waitJob[w]) : v # w
    BY <2>1, <2>2
  <2> QED BY <1>1, <2>3 DEF Claimants
<1> QED BY <1>1, <1>2, <1>3 DEF NoticesTypeOK

LEMMA NoticesTypeStep ==
  ASSUME IInv, NInv, [NNext]_allVars, Stable PROVE NoticesTypeOK'
<1>0. TypeOK /\ NoticesTypeOK /\ Calls /\ Texts /\ Waiting
  BY DEF IInv, NInv
<1> USE DEF NoticesTypeOK
<1>1. ASSUME RegistryAlone \/ UNCHANGED allVars PROVE NoticesTypeOK'
  <2>1. Quiet /\ UNCHANGED notVars
    BY <1>1, QuietTools DEF RegistryAlone, allVars
  <2> QED BY <1>0, <2>1 DEF Quiet, notVars, toolVars, noticeVars, factVars, Claimants
<1>2. ASSUME NEW j \in Jobs, Settled(j) PROVE NoticesTypeOK'
  <2>1. UNCHANGED <<toolVars, claims, shown, waitJob>>
    BY <1>2, Releasing DEF Settled
  <2>2. killedByModel' \subseteq Jobs /\ told' \subseteq Jobs
    BY <1>0, <1>2 DEF Settled
  <2>3. \/ UNCHANGED <<notice, pending, inline, held, taken>> \/ Deliver(j)
    BY <1>2 DEF Settled
  <2>4. suppressed' = suppressed \/ (Claimants(j) # {} /\ suppressed' = suppressed \cup {j})
    BY <1>2 DEF Settled, Withheld
  <2>5. \A i : Claimants(i)' = Claimants(i)
    BY <2>1 DEF Claimants
  <2> QED BY <1>0, <2>1, <2>2, <2>3, <2>4, <2>5, DeliverTypes DEF toolVars
<1>3. ASSUME NEW j \in Jobs, NoticeLogged(j) PROVE NoticesTypeOK'
  <2>1. Quiet /\ UNCHANGED <<toolVars, claims, suppressed, killedByModel, inline, taken>>
    BY <1>3, QuietTools DEF NoticeLogged
  <2>2. held' \subseteq pending' /\ pending' \subseteq Jobs
    BY <1>0, <1>3 DEF NoticeLogged, SpendNotice
  <2>3. /\ notice' = [notice EXCEPT ![j] = "logged"] /\ told' = told \cup {j}
        /\ shown' = IF j \in inline \cap held THEN [shown EXCEPT ![j] = shown[j] + 1] ELSE shown
    BY <1>3 DEF NoticeLogged
  <2>4. j \in held => shown[j] = 0
    BY <1>0 DEF Texts
  <2>5. shown' \in [Jobs -> {0, 1}]
    BY <1>0, <2>3, <2>4
  <2> QED BY <1>0, <2>1, <2>2, <2>3, <2>5 DEF Quiet, toolVars, Claimants
<1>4. ASSUME NEW j \in Jobs, NoticeDiscarded(j) \/ ModelKills(j) PROVE NoticesTypeOK'
  <2>1. Quiet
    BY <1>4, QuietTools
  <2> QED BY <1>0, <1>4, <2>1
    DEF NoticeDiscarded, ModelKills, Quiet, toolVars, factVars, Claimants
<1>5. ASSUME NEW o \in Owners, NEW j \in Jobs, Removed(o, j) PROVE NoticesTypeOK'
  <2>1. Quiet
    BY <1>5, QuietTools
  <2> QED BY <1>0, <1>5, <2>1 DEF Removed, Quiet, toolVars, factVars, Claimants
<1>6. ASSUME NEW w \in Waits, NEW j \in Jobs,
             OutputWaits(w, j) \/ \E c \in BOOLEAN : OutputReadsNow(w, j, c)
      PROVE NoticesTypeOK'
  <2>1. Begins(w, j)
    BY <1>0, <1>6, Beginning
  <2>2. /\ claims \subseteq claims' /\ claims' \subseteq claims \cup {w}
        /\ steered' \subseteq steered \cup {w}
        /\ UNCHANGED <<aborted, answer, carries, factVars, killedByModel, suppressed, pending, inline,
                       held, notice>>
    BY <1>6 DEF OutputWaits, OutputReadsNow, noticeVars
  <2>3. w \notin claims /\ \A v \in Waits \ {w} : waitJob'[v] = waitJob[v]
    BY <1>0, <2>1 DEF Calls, Begins, TypeOK
  <2>4. \A i \in suppressed : Claimants(i) \subseteq Claimants(i)'
    BY <1>0, <2>2, <2>3 DEF Claimants
  <2> QED BY <1>0, <2>1, <2>2, <2>4 DEF Begins, factVars
<1>7. ASSUME NEW w \in Waits, InputReleases(w) PROVE NoticesTypeOK'
  <2>1. Quiet
    BY <1>7, QuietTools
  <2> QED BY <1>0, <1>7, <2>1 DEF InputReleases, Quiet, factVars, Claimants
<1>8. ASSUME NEW w \in Waits, OutputFails(w) PROVE NoticesTypeOK'
  <2>1. Quiet
    BY <1>8, QuietTools
  <2>2. call[w] # "idle" /\ waitJob[w] \in Jobs
    BY <1>0, <1>8 DEF OutputFails, AtRead, Calls, Waiting
  <2>3. /\ call' = [call EXCEPT ![w] = "done"] /\ EndClaim(w, waitJob[w], suppressed)
        /\ UNCHANGED <<steered, aborted, answer, carries, killedByModel, told, shown>>
        /\ Deliver(waitJob[w]) \/ UNCHANGED <<notice, pending, inline, held, taken>>
    BY <1>8 DEF OutputFails
  <2> QED BY <1>0, <2>1, <2>2, <2>3, EndClaimKeeps, DeliverTypes DEF Quiet
<1>9. ASSUME NEW w \in Waits, OutputReads(w) PROVE NoticesTypeOK'
  <2>1. Quiet
    BY <1>9, QuietTools
  <2>2. call[w] # "idle" /\ waitJob[w] \in Jobs
    BY <1>0, <1>9 DEF OutputReads, AtRead, Calls, Waiting
  <2>3. /\ call' = [call EXCEPT ![w] = "answered"]
        /\ EndClaim(w, waitJob[w], Committed(w, waitJob[w]))
        /\ UNCHANGED <<steered, aborted, killedByModel, told, shown>>
        /\ carries' \subseteq carries \cup {w} /\ taken' \subseteq taken \cup {waitJob[w]}
        /\ inline' \subseteq inline /\ held' = held \ {waitJob[w]}
        /\ pending' = pending \cup {waitJob[w]} \/ pending' = pending \ {waitJob[w]}
        /\ \E x \in {"live", "finished"} : answer' = [answer EXCEPT ![w] = x]
    BY <1>9 DEF OutputReads
  <2>4. \/ notice' = notice
        \/ \E x \in {"queued", "withdrawn"} : notice' = [notice EXCEPT ![waitJob[w]] = x]
    BY <1>9 DEF OutputReads, WithdrawNotice
  <2>5. Committed(w, waitJob[w]) \subseteq suppressed
    BY DEF Committed
  <2>6. claims' \subseteq Waits /\ \A i \in suppressed' : Claimants(i)' # {}
    BY <1>0, <2>1, <2>3, <2>5, EndClaimKeeps DEF Quiet
  <2> QED BY <1>0, <2>2, <2>3, <2>4, <2>6
<1>10. ASSUME NEW w \in Waits, ResultCommits(w) PROVE NoticesTypeOK'
  <2>1. Quiet
    BY <1>10, QuietTools
  <2>2. waitJob[w] \in Jobs
    BY <1>0, <1>10 DEF ResultCommits, Calls, Waiting
  <2>3. w \in carries => shown[waitJob[w]] = 0
    BY <1>0, <2>2 DEF Texts
  <2> QED BY <1>0, <1>10, <2>1, <2>2, <2>3 DEF ResultCommits, Quiet, noticeVars, Claimants
<1>11. ASSUME NEW w \in Waits, ResultReplaced(w) PROVE NoticesTypeOK'
  <2>1. Quiet
    BY <1>11, QuietTools
  <2> QED BY <1>0, <1>11, <2>1 DEF ResultReplaced, Quiet, noticeVars, factVars, Claimants
<1>12. ASSUME CallsCancelled PROVE NoticesTypeOK'
  <2>1. Quiet
    BY <1>12, QuietTools
  <2> QED BY <1>0, <1>12, <2>1 DEF CallsCancelled, Unfinished, Quiet, noticeVars, factVars, Claimants
<1> QED BY <1>1, <1>2, <1>3, <1>4, <1>5, <1>6, <1>7, <1>8, <1>9, <1>10, <1>11, <1>12 DEF NNext

-----------------------------------------------------------------------------
(* Notices and suppressed settlements. *)

(* A delivered notice is pending, and delivery makes nothing else queued.  *)
LEMMA DeliverNotices ==
  ASSUME NoticesTypeOK, NEW j \in Jobs, Deliver(j), NEW i \in Jobs
  PROVE  /\ notice'[i] = notice[i] \/ (i = j /\ notice'[i] = "queued")
         /\ i = j /\ notice'[i] # notice[i] => i \in pending'
         /\ i \in pending => i \in pending'
  BY DEF Deliver, QueueNotice, NoticesTypeOK

LEMMA NoticedStep ==
  ASSUME IInv, NInv, [NNext]_allVars, Stable PROVE Noticed'
<1>0. TypeOK /\ NoticesTypeOK /\ Calls /\ Noticed /\ Waiting /\ Records
  BY DEF IInv, NInv
<1> USE DEF Noticed
<1>1. ASSUME RegistryAlone \/ UNCHANGED allVars PROVE Noticed'
  <2>1. Quiet /\ UNCHANGED notVars
    BY <1>1, QuietTools DEF RegistryAlone, allVars
  <2> QED BY <1>0, <2>1 DEF Quiet, Stable, notVars, toolVars, noticeVars
<1>2. ASSUME NEW j \in Jobs, Settled(j) PROVE Noticed'
  <2>1. /\ j \notin settled /\ settled' = settled \cup {j} /\ status[j] \in Terminal
        /\ UNCHANGED <<toolVars, waitJob, store, status>>
    BY <1>2, Releasing DEF Settled
  <2>2. UNCHANGED <<notice, pending>> \/ Deliver(j)
    BY <1>2 DEF Settled
  <2>3. suppressed' \subseteq suppressed \cup {j}
    BY <1>2 DEF Settled
  <2>4. \A w \in Waits : waitJob[w] = j => answer[w] # "finished"
    BY <1>0, <2>1 DEF Calls
  <2>5. \A i \in Jobs : /\ notice'[i] # "none" => status'[i] # "new"
                        /\ notice'[i] = "queued" /\ i \in store' => i \in pending'
    BY <1>0, <2>1, <2>2, DeliverNotices DEF Terminal
  <2>6. \A i \in suppressed' : i \in settled' /\ \A v \in steered' : waitJob'[v] = i => answer'[v] # "finished"
    BY <1>0, <2>1, <2>3, <2>4 DEF toolVars, NoticesTypeOK
  <2> QED BY <2>5, <2>6
<1>3. ASSUME NEW j \in Jobs, NoticeLogged(j) PROVE Noticed'
  <2>1. Quiet /\ UNCHANGED <<toolVars, suppressed>>
    BY <1>3, QuietTools DEF NoticeLogged
  <2>2. notice[j] = "queued" /\ notice' = [notice EXCEPT ![j] = "logged"]
        /\ pending \ {j} \subseteq pending'
    BY <1>3 DEF NoticeLogged, SpendNotice
  <2> QED BY <1>0, <2>1, <2>2 DEF Quiet, Stable, toolVars, NoticesTypeOK
<1>4. ASSUME NEW j \in Jobs, NoticeDiscarded(j) PROVE Noticed'
  <2>1. Quiet
    BY <1>4, QuietTools
  <2> QED BY <1>0, <1>4, <2>1 DEF NoticeDiscarded, Quiet, Stable, toolVars, NoticesTypeOK
<1>5. ASSUME NEW j \in Jobs, ModelKills(j) PROVE Noticed'
  <2>1. Quiet
    BY <1>5, QuietTools
  <2> QED BY <1>0, <1>5, <2>1 DEF ModelKills, Quiet, Stable, toolVars
<1>6. ASSUME NEW o \in Owners, NEW j \in Jobs, Removed(o, j) PROVE Noticed'
  <2>1. Quiet
    BY <1>6, QuietTools
  <2>2. store' = store \ {j} /\ pending' = pending \ {j} /\ UNCHANGED <<notice, suppressed, toolVars>>
    BY <1>6 DEF Removed, DropVictim, Drop
  <2> QED BY <1>0, <2>1, <2>2 DEF Quiet, Stable, toolVars
<1>7. ASSUME NEW w \in Waits, NEW j \in Jobs,
             OutputWaits(w, j) \/ \E c \in BOOLEAN : OutputReadsNow(w, j, c)
      PROVE Noticed'
  <2>1. Begins(w, j)
    BY <1>0, <1>7, Beginning
  <2>2. steered' \subseteq steered \cup {w} /\ UNCHANGED <<answer, suppressed, pending, notice>>
    BY <1>7 DEF OutputWaits, OutputReadsNow, noticeVars
  <2>3. answer[w] = "none" /\ \A v \in Waits \ {w} : waitJob'[v] = waitJob[v]
    BY <1>0, <2>1 DEF Begins, Calls, TypeOK
  <2> QED BY <1>0, <2>1, <2>2, <2>3 DEF Begins, NoticesTypeOK
<1>8. ASSUME NEW w \in Waits, InputReleases(w) PROVE Noticed'
  <2>1. Quiet
    BY <1>8, QuietTools
  <2>2. answer[w] = "none"
    BY <1>0, <1>8 DEF InputReleases, Calls
  <2> QED BY <1>0, <1>8, <2>1, <2>2 DEF InputReleases, Quiet, Stable
<1>9. ASSUME NEW w \in Waits, OutputFails(w) PROVE Noticed'
  <2>1. Quiet
    BY <1>9, QuietTools
  <2>2. waitJob[w] \in Jobs
    BY <1>0, <1>9 DEF OutputFails, AtRead, Calls, Waiting
  <2>3. UNCHANGED <<steered, answer>> /\ suppressed' \subseteq suppressed
        /\ (UNCHANGED <<notice, pending>> \/ (Deliver(waitJob[w]) /\ waitJob[w] \in suppressed))
    BY <1>9 DEF OutputFails, EndClaim, Undelivered
  <2>4. \A i \in Jobs : /\ notice'[i] # "none" => notice[i] # "none" \/ i \in settled
                        /\ notice'[i] = "queued" => i \in pending' \/ notice[i] = "queued"
                        /\ i \in pending => i \in pending'
    BY <1>0, <2>2, <2>3, DeliverNotices
  <2>5. \A i \in settled : status[i] # "new"
    BY <1>0 DEF Records, Terminal
  <2>6. \A i \in suppressed' : i \in settled' /\ \A v \in steered' : waitJob'[v] = i => answer'[v] # "finished"
    BY <1>0, <2>1, <2>3 DEF Quiet
  <2>7. UNCHANGED <<status, store>>
    BY <1>9 DEF OutputFails, vars, jobVars
  <2>8. \A i \in Jobs : /\ notice'[i] # "none" => status'[i] # "new"
                        /\ notice'[i] = "queued" /\ i \in store' => i \in pending'
    BY <1>0, <2>4, <2>5, <2>7
  <2> QED BY <2>6, <2>8
<1>10. ASSUME NEW w \in Waits, OutputReads(w) PROVE Noticed'
  <2>1. Quiet /\ UNCHANGED vars
    BY <1>10, QuietTools DEF OutputReads
  <2>2. waitJob[w] \in Jobs /\ waitJob[w] \in store
    BY <1>0, <1>10 DEF OutputReads, AtRead, Calls, Waiting
  <2>3. /\ UNCHANGED steered /\ \A v \in Waits \ {w} : answer'[v] = answer[v]
        /\ suppressed' \subseteq suppressed
        /\ w \in steered => waitJob[w] \notin suppressed'
    BY <1>10 DEF OutputReads, EndClaim, Committed
  <2>4. \A i \in suppressed' : i \in settled /\ \A v \in steered : waitJob[v] = i => answer'[v] # "finished"
    BY <1>0, <2>3 DEF NoticesTypeOK
  <2>5. \/ notice' = [notice EXCEPT ![waitJob[w]] = "queued"] /\ pending' = pending \cup {waitJob[w]}
        \/ /\ pending' = pending \ {waitJob[w]}
           /\ notice' = IF waitJob[w] \in pending /\ notice[waitJob[w]] = "queued"
                        THEN [notice EXCEPT ![waitJob[w]] = "withdrawn"] ELSE notice
    BY <1>10 DEF OutputReads, WithdrawNotice
  <2>6. status[waitJob[w]] # "new"
    BY <1>0, <2>2 DEF Records
  <2>7. \A i \in Jobs : /\ notice'[i] # "none" => status[i] # "new"
                        /\ notice'[i] = "queued" /\ i \in store => i \in pending'
    BY <1>0, <2>2, <2>5, <2>6 DEF NoticesTypeOK
  <2>8. UNCHANGED <<status, store, settled, waitJob>>
    BY <2>1 DEF vars, jobVars, waitVars
  <2>9. \A i \in suppressed' : i \in settled' /\ \A v \in steered' : waitJob'[v] = i => answer'[v] # "finished"
    BY <2>3, <2>4, <2>8
  <2>10. \A i \in Jobs : /\ notice'[i] # "none" => status'[i] # "new"
                         /\ notice'[i] = "queued" /\ i \in store' => i \in pending'
    BY <2>7, <2>8
  <2> QED BY <2>9, <2>10
<1>11. ASSUME NEW w \in Waits, ResultCommits(w) \/ ResultReplaced(w) PROVE Noticed'
  <2>1. Quiet /\ UNCHANGED <<steered, answer, noticeVars>>
    BY <1>11, QuietTools DEF ResultCommits, ResultReplaced
  <2> QED BY <1>0, <2>1 DEF Quiet, Stable, noticeVars
<1>12. ASSUME CallsCancelled PROVE Noticed'
  <2>1. Quiet
    BY <1>12, QuietTools
  <2> QED BY <1>0, <1>12, <2>1 DEF CallsCancelled, Quiet, Stable, noticeVars
<1> QED BY <1>1, <1>2, <1>3, <1>4, <1>5, <1>6, <1>7, <1>8, <1>9, <1>10, <1>11, <1>12 DEF NNext

-----------------------------------------------------------------------------
(* The texts. *)

(* What is said of one job. *)
Text(j) ==
    /\ j \in taken => status[j] # "new"
    /\ j \notin taken \/ j \in held \/ shown[j] = 1 => \A w \in carries : waitJob[w] # j
    /\ j \notin taken \/ j \in held => shown[j] = 0
    /\ j \in held => j \in taken
    /\ \A v, w \in carries : waitJob[v] = j /\ waitJob[w] = j => v = w
    /\ j \in store /\ j \in taken =>
          j \in held \/ shown[j] = 1 \/ \E w \in carries : waitJob[w] = j

LEMMA TextsAll == Texts <=> \A j \in Jobs : Text(j)
  BY DEF Texts, Text

(* A job whose text a step does not move.                                  *)
LEMMA TextStays ==
  ASSUME IInv, Records, Stable, NEW j \in Jobs, Text(j),
         j \in store' => j \in store \/ status[j] = "new",
         j \in taken' <=> j \in taken, j \in held' <=> j \in held, shown'[j] = shown[j],
         \A w : w \in carries' /\ waitJob'[w] = j <=> w \in carries /\ waitJob[w] = j
  PROVE  Text(j)'
<1>1. j \in taken => status'[j] # "new"
  BY DEF Stable, Text
<1>2. j \in store' /\ j \in taken => j \in store
  BY DEF Text
<1> QED BY <1>1, <1>2 DEF Text

(* A delivery takes the text out of the registry, or leaves it.            *)
LEMMA DeliverTexts ==
  ASSUME IInv, NoticesTypeOK, Texts, NEW j \in Jobs, Deliver(j),
         UNCHANGED <<carries, shown, waitJob, store, status>>
  PROVE  Texts'
<1>1. CASE UNCHANGED <<held, taken>>
  BY <1>1 DEF Texts
<1>2. CASE j \in store /\ taken' = taken \cup {j}
           /\ held' = IF j \in taken THEN held ELSE held \cup {j}
  <2>1. status[j] # "new"
    BY <1>2 DEF IInv, Records
  <2> QED BY <1>2, <2>1 DEF Texts
<1> QED BY <1>1, <1>2 DEF Deliver, QueueNotice

LEMMA TextsStep ==
  ASSUME IInv, NInv, [NNext]_allVars, Stable PROVE Texts'
<1>0. TypeOK /\ NoticesTypeOK /\ Calls /\ Texts /\ Waiting /\ Records
  BY DEF IInv, NInv
<1>1. ASSUME Quiet, UNCHANGED <<taken, held, shown, carries>> PROVE Texts'
  <2>1. ASSUME NEW i \in Jobs PROVE Text(i)'
    BY <1>0, <1>1, <2>1, TextsAll, TextStays DEF Quiet
  <2>2. (\A i \in Jobs : Text(i))'
    BY <2>1
  <2> QED BY <2>2 DEF Texts, Text
<1>2. ASSUME RegistryAlone \/ UNCHANGED allVars PROVE Texts'
  BY <1>1, <1>2, QuietTools DEF RegistryAlone, allVars, notVars, noticeVars, factVars, toolVars
<1>3. ASSUME NEW j \in Jobs, Settled(j) PROVE Texts'
  <2>1. UNCHANGED <<carries, shown, waitJob, store, status>>
    BY <1>3, Releasing DEF Settled, toolVars
  <2>2. UNCHANGED <<held, taken>> \/ Deliver(j)
    BY <1>3 DEF Settled
  <2>3. CASE UNCHANGED <<held, taken>>
    BY <1>0, <2>1, <2>3 DEF Texts
  <2> QED BY <1>0, <2>1, <2>2, <2>3, DeliverTexts
<1>4. ASSUME NEW j \in Jobs, NoticeLogged(j) PROVE Texts'
  <2>1. Quiet /\ UNCHANGED <<vars, carries, taken>>
    BY <1>4, QuietTools DEF NoticeLogged, toolVars
  <2>2. CASE j \in inline /\ j \in held
    <3>1. shown' = [shown EXCEPT ![j] = shown[j] + 1] /\ held' = held \ {j}
      BY <1>0, <1>4, <2>2 DEF NoticeLogged, SpendNotice, NoticesTypeOK
    <3>2. shown[j] = 0 /\ shown'[j] = 1 /\ \A i \in Jobs \ {j} : shown'[i] = shown[i]
      BY <1>0, <2>2, <3>1 DEF Texts, NoticesTypeOK
    <3>3. UNCHANGED <<status, store, waitJob>>
      BY <2>1 DEF vars, jobVars, waitVars
    <3> QED BY <1>0, <2>1, <2>2, <3>1, <3>2, <3>3 DEF Texts
  <2>3. CASE ~(j \in inline /\ j \in held)
    <3>1. shown' = shown /\ held' = held
      BY <1>0, <1>4, <2>3 DEF NoticeLogged, SpendNotice, NoticesTypeOK
    <3> QED BY <1>1, <2>1, <3>1
  <2> QED BY <2>2, <2>3
<1>5. ASSUME NEW j \in Jobs, NoticeDiscarded(j) \/ ModelKills(j) PROVE Texts'
  BY <1>1, <1>5, QuietTools DEF NoticeDiscarded, ModelKills, toolVars, factVars
<1>6. ASSUME NEW o \in Owners, NEW j \in Jobs, Removed(o, j) PROVE Texts'
  <2>1. Quiet /\ j \notin store' /\ held' = held \ {j} /\ UNCHANGED <<taken, shown, carries, waitJob, status>>
    BY <1>6, QuietTools DEF Removed, DropVictim, Drop, toolVars, factVars, waitVars
  <2>2. ASSUME NEW i \in Jobs, i # j PROVE Text(i)'
    BY <1>0, <2>1, <2>2, TextsAll, TextStays DEF Quiet
  <2>3. Text(j)'
    BY <1>0, <2>1 DEF Texts, Text
  <2>4. (\A i \in Jobs : Text(i))'
    BY <2>2, <2>3
  <2> QED BY <2>4 DEF Texts, Text
<1>7. ASSUME NEW w \in Waits, NEW j \in Jobs,
             OutputWaits(w, j) \/ \E c \in BOOLEAN : OutputReadsNow(w, j, c)
      PROVE Texts'
  <2>1. Begins(w, j) /\ UNCHANGED <<taken, held, shown, carries>>
    BY <1>0, <1>7, Beginning DEF OutputWaits, OutputReadsNow, noticeVars, factVars
  <2>2. w \notin carries
    BY <1>0, <2>1 DEF Begins, Calls
  <2>3. \A v \in carries : waitJob'[v] = waitJob[v]
    BY <1>0, <2>1, <2>2 DEF Begins, NoticesTypeOK, TypeOK
  <2>4. UNCHANGED <<status, store>>
    BY <2>1 DEF Begins
  <2> QED BY <1>0, <2>1, <2>3, <2>4 DEF Texts
<1>8. ASSUME NEW w \in Waits, InputReleases(w) PROVE Texts'
  BY <1>1, <1>8, QuietTools DEF InputReleases, factVars
<1>9. ASSUME NEW w \in Waits, OutputFails(w) PROVE Texts'
  <2>1. Quiet
    BY <1>9, QuietTools
  <2>2. waitJob[w] \in Jobs
    BY <1>0, <1>9 DEF OutputFails, AtRead, Calls, Waiting
  <2>3. UNCHANGED <<carries, shown, waitJob, store, status>>
        /\ (Deliver(waitJob[w]) \/ UNCHANGED <<held, taken>>)
    BY <1>9 DEF OutputFails, vars, jobVars, waitVars
  <2> QED BY <1>0, <1>1, <2>1, <2>2, <2>3, DeliverTexts
<1>10. ASSUME NEW w \in Waits, OutputReads(w) PROVE Texts'
  <2>0. PICK j \in Jobs : j = waitJob[w]
    BY <1>0, <1>10 DEF OutputReads, AtRead, Calls, Waiting
  <2>1. UNCHANGED <<shown, waitJob, store, status>> /\ j \in store
    BY <1>10, <2>0 DEF OutputReads, vars, jobVars, waitVars
  <2>2. w \notin carries
    BY <1>0, <1>10 DEF OutputReads, AtRead, Calls
  <2>3. /\ carries' = IF j \in held \/ (status[j] \in Terminal /\ j \notin taken)
                      THEN carries \cup {w} ELSE carries
        /\ taken' = IF status[j] \in Terminal THEN taken \cup {j} ELSE taken
        /\ held' = held \ {j}
    BY <1>10, <2>0 DEF OutputReads
  <2>4. status[j] # "new"
    BY <1>0, <2>1 DEF Records
  <2>5. ASSUME NEW i \in Jobs, i # j PROVE Text(i)'
    <3>1. \A v : v \in carries' /\ waitJob'[v] = i <=> v \in carries /\ waitJob[v] = i
      BY <2>0, <2>1, <2>3, <2>5
    <3> QED BY <1>0, <2>1, <2>3, <2>5, <3>1, TextsAll, TextStays
  <2>6. Text(j)'
    <3>1. CASE j \in held
      BY <1>0, <2>0, <2>1, <2>2, <2>3, <2>4, <3>1 DEF Texts, Text
    <3>2. CASE j \notin held /\ status[j] \in Terminal /\ j \notin taken
      BY <1>0, <2>0, <2>1, <2>2, <2>3, <2>4, <3>2 DEF Texts, Text
    <3>3. CASE j \notin held /\ ~(status[j] \in Terminal /\ j \notin taken)
      BY <1>0, <2>0, <2>1, <2>2, <2>3, <2>4, <3>3 DEF Texts, Text
    <3> QED BY <3>1, <3>2, <3>3
  <2>7. (\A i \in Jobs : Text(i))'
    BY <2>5, <2>6
  <2> QED BY <2>7 DEF Texts, Text
<1>11. ASSUME NEW w \in Waits, ResultCommits(w) PROVE Texts'
  <2>0. PICK j \in Jobs : j = waitJob[w]
    BY <1>0, <1>11 DEF ResultCommits, Calls, Waiting
  <2>1. UNCHANGED <<waitJob, store, status, held, taken>>
    BY <1>11 DEF ResultCommits, vars, jobVars, waitVars, noticeVars
  <2>2. carries' = carries \ {w} /\ shown' = IF w \in carries THEN [shown EXCEPT ![j] = shown[j] + 1] ELSE shown
    BY <1>11, <2>0 DEF ResultCommits
  <2>3. CASE w \in carries
    <3>1. shown[j] = 0 /\ j \in taken /\ j \notin held
      BY <1>0, <2>0, <2>1, <2>3 DEF Texts, NoticesTypeOK
    <3>2. shown'[j] = 1 /\ \A i \in Jobs \ {j} : shown'[i] = shown[i]
      BY <1>0, <2>1, <2>2, <2>3, <3>1 DEF NoticesTypeOK
    <3>3. ASSUME NEW i \in Jobs, i # j PROVE Text(i)'
      <4>1. \A v : v \in carries' /\ waitJob'[v] = i <=> v \in carries /\ waitJob[v] = i
        BY <2>0, <2>1, <2>2, <3>3
      <4> QED BY <1>0, <2>1, <3>2, <3>3, <4>1, TextsAll, TextStays
    <3>4. Text(j)'
      BY <1>0, <2>0, <2>1, <2>2, <2>3, <3>1, <3>2 DEF Texts, Text
    <3>5. (\A i \in Jobs : Text(i))'
      BY <3>3, <3>4
    <3> QED BY <3>5 DEF Texts, Text
  <2>4. CASE w \notin carries
    <3>1. UNCHANGED <<carries, shown>>
      BY <2>2, <2>4
    <3> QED BY <1>0, <2>1, <3>1 DEF Texts
  <2> QED BY <2>3, <2>4
<1>12. ASSUME (\E w \in Waits : ResultReplaced(w)) \/ CallsCancelled PROVE Texts'
  BY <1>1, <1>12, QuietTools DEF ResultReplaced, CallsCancelled, noticeVars, factVars
<1> QED BY <1>2, <1>3, <1>4, <1>5, <1>6, <1>7, <1>8, <1>9, <1>10, <1>11, <1>12 DEF NNext

-----------------------------------------------------------------------------
(* Completions. *)

(* The jobs whose completion the agent is owed.                            *)
Due(j) ==
    /\ j \in settled \cap store
    /\ cause[j] # "teardown" /\ owner[j] \in Owners /\ scope[owner[j]] = "open"

Reached(j) ==
    j \in told \/ notice[j] # "none" \/ j \in suppressed \/ \E w \in Waits : Answers(w, j)

LEMMA ReachingAll ==
  ASSUME TypeOK PROVE Reaching <=> \A j \in Jobs : Due(j) => Reached(j)
  BY DEF TypeOK, Reaching, Due, Reached

(* No quiet step makes a job due.                                          *)
LEMMA DueBefore ==
  ASSUME IInv, Quiet, NEW j \in Jobs, Due(j)' PROVE Due(j) /\ status[j] \in Terminal
<1>1. j \in settled /\ status[j] \in Terminal
  BY DEF Due, Quiet, IInv, Records
<1>2. j \in store /\ cause'[j] = cause[j] /\ owner'[j] = owner[j]
  BY <1>1 DEF Due, Quiet, Stable, Terminal
<1> QED BY <1>1, <1>2 DEF Due, Quiet

(* What was reached stays so where the facts about it stay.                *)
LEMMA ReachedStays ==
  ASSUME NEW j \in Jobs, Reached(j), told \subseteq told', notice[j] # "none" => notice'[j] # "none",
         j \in suppressed => j \in suppressed' \/ notice'[j] # "none" \/ \E w \in Waits : Answers(w, j)',
         \A w \in Waits : Answers(w, j) => Answers(w, j)'
  PROVE  Reached(j)'
  BY DEF Reached

LEMMA ReachingStep ==
  ASSUME IInv, NInv, [NNext]_allVars, Stable, TypeOK' PROVE Reaching'
<1>0. /\ TypeOK /\ NoticesTypeOK /\ Calls /\ Noticed /\ Waiting /\ Records /\ AwaitedMeansServed
      /\ \A j \in Jobs : Due(j) => Reached(j)
  BY ReachingAll DEF IInv, NInv
<1>1. ASSUME \A j \in Jobs : Due(j)' => Reached(j)' PROVE Reaching'
  BY <1>1 DEF TypeOK, Reaching, Due, Reached
<1>2. ASSUME Quiet, UNCHANGED <<notice, suppressed, answer>>, told \subseteq told',
             \A w \in served : call[w] = "waiting" => call'[w] = "waiting"
      PROVE Reaching'
  <2>1. ASSUME NEW j \in Jobs, Due(j)' PROVE Reached(j)'
    <3>1. Reached(j)
      BY <1>0, <1>2, <2>1, DueBefore
    <3>2. \A w \in Waits : Answers(w, j) => Answers(w, j)'
      BY <1>2 DEF Answers, Quiet
    <3> QED BY <1>2, <3>1, <3>2, ReachedStays
  <2> QED BY <1>1, <2>1
<1>3. ASSUME RegistryAlone \/ UNCHANGED allVars PROVE Reaching'
  BY <1>2, <1>3, QuietTools DEF RegistryAlone, allVars, notVars, noticeVars, factVars, toolVars
<1>4. ASSUME NEW j \in Jobs, Settled(j) PROVE Reaching'
  <2>1. /\ j \notin settled /\ settled' = settled \cup {j}
        /\ served' = served \cup resolvers[j]
        /\ \A w \in resolvers[j] : w \in Waits /\ wait[w] = "waiting" /\ waitJob[w] = j
        /\ UNCHANGED <<waitJob, store, status, owner, cause, scope, toolVars>>
    BY <1>4, Releasing DEF Settled
  <2>2. told \subseteq told' /\ (j \in killedByModel => j \in told')
    BY <1>4 DEF Settled
  <2>3. suppressed' = suppressed \/ suppressed' = suppressed \cup {j}
    BY <1>4 DEF Settled
  <2>4. UNCHANGED notice \/ Deliver(j)
    BY <1>4 DEF Settled
  <2>5. ASSUME NEW i \in Jobs, i # j, Due(i)' PROVE Reached(i)'
    <3>1. Reached(i)
      BY <1>0, <2>1, <2>5 DEF Due
    <3>2. \A w \in Waits : Answers(w, i) => Answers(w, i)'
      BY <2>1 DEF Answers, toolVars
    <3>3. notice'[i] = notice[i]
      BY <1>0, <2>4, <2>5, DeliverNotices
    <3> QED BY <2>2, <2>3, <3>1, <3>2, <3>3, ReachedStays
  <2>6. ASSUME Due(j)' PROVE Reached(j)'
    <3>1. CASE j \in killedByModel
      BY <2>2, <3>1 DEF Reached
    <3>2. CASE resolvers[j] # {}
      <4>1. PICK w \in resolvers[j] : TRUE
        BY <3>2
      <4>2. w \in Waits /\ w \in served' /\ call'[w] = "waiting" /\ waitJob'[w] = j
        BY <1>0, <2>1, <4>1 DEF Calls, toolVars
      <4> QED BY <4>2 DEF Reached, Answers
    <3>3. CASE ~(j \in killedByModel \/ resolvers[j] # {}) /\ Withheld(j)
      BY <1>4, <3>3 DEF Settled, Reached
    <3>4. CASE ~(j \in killedByModel \/ resolvers[j] # {}) /\ ~Withheld(j)
      <4>1. Deliver(j)
        BY <1>4, <3>4 DEF Settled
      <4>2. Addressable(j) /\ j \in store /\ scope[owner[j]] = "open"
        BY <2>1, <2>6 DEF Due, Addressable
      <4>3. QueueNotice(j)
        BY <4>1, <4>2 DEF Deliver
      <4>4. notice'[j] = "queued"
        BY <1>0, <4>3 DEF QueueNotice, NoticesTypeOK
      <4> QED BY <4>4 DEF Reached
    <3> QED BY <3>1, <3>2, <3>3, <3>4
  <2> QED BY <1>1, <2>5, <2>6
<1>5. ASSUME NEW j \in Jobs, NoticeLogged(j) \/ NoticeDiscarded(j) PROVE Reaching'
  <2>1. Quiet
    BY <1>5, QuietTools
  <2>2. /\ \E x \in {"logged", "discarded"} : notice' = [notice EXCEPT ![j] = x]
        /\ told \subseteq told' /\ UNCHANGED <<suppressed, toolVars>>
    BY <1>5 DEF NoticeLogged, NoticeDiscarded, factVars
  <2>3. ASSUME NEW i \in Jobs, Due(i)' PROVE Reached(i)'
    <3>1. Reached(i)
      BY <1>0, <2>1, <2>3, DueBefore
    <3>2. \A w \in Waits : Answers(w, i) => Answers(w, i)'
      BY <2>1, <2>2 DEF Answers, Quiet, toolVars
    <3>3. notice[i] # "none" => notice'[i] # "none"
      BY <1>0, <2>2 DEF NoticesTypeOK
    <3> QED BY <2>2, <3>1, <3>2, <3>3, ReachedStays
  <2> QED BY <1>1, <2>3
<1>6. ASSUME (\E j \in Jobs : ModelKills(j)) \/ \E o \in Owners, j \in Jobs : Removed(o, j)
      PROVE Reaching'
  BY <1>2, <1>6, QuietTools DEF ModelKills, Removed, toolVars, factVars
<1>7. ASSUME NEW w \in Waits, NEW j \in Jobs,
             OutputWaits(w, j) \/ \E c \in BOOLEAN : OutputReadsNow(w, j, c)
      PROVE Reaching'
  <2>1. Begins(w, j) /\ UNCHANGED <<told, notice, suppressed, answer>>
    BY <1>0, <1>7, Beginning DEF OutputWaits, OutputReadsNow, noticeVars, factVars
  <2>2. answer[w] = "none" /\ call[w] = "idle"
    BY <1>0, <2>1 DEF Begins, Calls
  <2>3. ASSUME NEW i \in Jobs, Due(i)' PROVE Reached(i)'
    <3>1. Reached(i)
      BY <1>0, <2>1, <2>3 DEF Due, Begins
    <3>2. ASSUME NEW v \in Waits, Answers(v, i) PROVE Answers(v, i)'
      <4>1. v # w
        BY <2>2, <3>2 DEF Answers
      <4> QED BY <1>0, <2>1, <3>2, <4>1 DEF Answers, Begins, TypeOK, NoticesTypeOK
    <3> QED BY <2>1, <3>1, <3>2, ReachedStays
  <2> QED BY <1>1, <2>3
<1>8. ASSUME NEW w \in Waits, InputReleases(w) PROVE Reaching'
  BY <1>2, <1>8, QuietTools DEF InputReleases, factVars
<1>9. ASSUME NEW w \in Waits, OutputFails(w) PROVE Reaching'
  <2>1. Quiet
    BY <1>9, QuietTools
  <2>2. waitJob[w] \in Jobs
    BY <1>0, <1>9 DEF OutputFails, AtRead, Calls, Waiting
  <2>3. /\ call' = [call EXCEPT ![w] = "done"]
        /\ UNCHANGED <<vars, answer, told>>
        /\ \A i \in suppressed : i # waitJob[w] => i \in suppressed'
        /\ UNCHANGED notice \/ Deliver(waitJob[w])
    BY <1>9 DEF OutputFails, EndClaim
  <2>4. UNCHANGED <<waitJob, served, store, settled, cause, owner, scope>>
    BY <2>3 DEF vars, jobVars, waitVars, tearVars
  <2>5. ASSUME NEW i \in Jobs, Due(i)' PROVE Reached(i)'
    <3>1. Reached(i) /\ Due(i) /\ i \in store
      BY <1>0, <2>1, <2>5, DueBefore DEF Due
    <3>2. notice[i] # "none" => notice'[i] # "none"
      BY <1>0, <2>2, <2>3, DeliverNotices
    <3>3. ASSUME NEW v \in Waits, Answers(v, i) PROVE Answers(v, i)'
      <4>1. CASE v # w
        BY <1>0, <2>3, <2>4, <3>3, <4>1 DEF Answers, NoticesTypeOK
      <4>2. CASE v = w /\ w \in served
        <5>1. FALSE
          BY <1>0, <1>9, <3>1, <3>3, <4>2 DEF OutputFails, Rejected, AwaitedMeansServed, Answers
        <5> QED BY <5>1
      <4>3. CASE v = w /\ answer[w] = "finished"
        BY <2>3, <2>4, <3>3, <4>3 DEF Answers
      <4> QED BY <3>3, <4>1, <4>2, <4>3 DEF Answers
    <3>4. ASSUME i \in suppressed, i \notin suppressed' PROVE notice'[i] # "none"
      <4>1. i = waitJob[w]
        BY <2>3, <3>4
      <4>2. Undelivered(w, i, suppressed)
        BY <1>9, <3>4, <4>1 DEF OutputFails, EndClaim, Undelivered
      <4>3. Deliver(i)
        BY <1>9, <4>1, <4>2 DEF OutputFails
      <4>4. QueueNotice(i)
        BY <3>1, <4>3 DEF Deliver, Addressable, Due
      <4> QED BY <1>0, <4>4 DEF QueueNotice, NoticesTypeOK
    <3> QED BY <2>3, <3>1, <3>2, <3>3, <3>4, ReachedStays
  <2> QED BY <1>1, <2>5
<1>10. ASSUME NEW w \in Waits, OutputReads(w) PROVE Reaching'
  <2>1. Quiet
    BY <1>10, QuietTools
  <2>2. waitJob[w] \in Jobs /\ answer[w] = "none"
    BY <1>0, <1>10 DEF OutputReads, AtRead, Calls, Waiting
  <2>3. /\ call' = [call EXCEPT ![w] = "answered"]
        /\ UNCHANGED <<vars, told>>
        /\ \A i \in suppressed : i # waitJob[w] => i \in suppressed'
        /\ answer' = [answer EXCEPT ![w] = IF status[waitJob[w]] \in Terminal THEN "finished" ELSE "live"]
    BY <1>10 DEF OutputReads, EndClaim, Committed
  <2>4. \/ notice' = [notice EXCEPT ![waitJob[w]] = "queued"]
        \/ notice' = [notice EXCEPT ![waitJob[w]] = "withdrawn"]
        \/ notice' = notice
    BY <1>10 DEF OutputReads, WithdrawNotice
  <2>5. UNCHANGED <<waitJob, served>>
    BY <2>3 DEF vars, waitVars
  <2>6. ASSUME NEW i \in Jobs, Due(i)', i # waitJob[w] PROVE Reached(i)'
    <3>1. Reached(i)
      BY <1>0, <2>1, <2>6, DueBefore
    <3>2. notice'[i] = notice[i]
      BY <1>0, <2>4, <2>6 DEF NoticesTypeOK
    <3>3. ASSUME NEW v \in Waits, Answers(v, i) PROVE Answers(v, i)'
      <4>1. v # w
        BY <2>6, <3>3 DEF Answers
      <4> QED BY <1>0, <2>3, <2>5, <3>3, <4>1 DEF Answers, NoticesTypeOK
    <3> QED BY <2>3, <2>6, <3>1, <3>2, <3>3, ReachedStays
  <2>7. ASSUME Due(waitJob[w])' PROVE Reached(waitJob[w])'
    <3>1. status[waitJob[w]] \in Terminal
      BY <1>0, <2>2, <2>5, <2>7, <2>3 DEF Due, Records, vars, jobVars
    <3>2. answer'[w] = "finished"
      BY <1>0, <2>3, <3>1 DEF NoticesTypeOK
    <3> QED BY <3>2 DEF Reached, Answers
  <2> QED BY <1>1, <2>5, <2>6, <2>7
<1>11. ASSUME NEW w \in Waits, ResultCommits(w) \/ ResultReplaced(w) PROVE Reaching'
  <2>1. call[w] = "answered" /\ call' = [call EXCEPT ![w] = "done"]
        /\ told \subseteq told' /\ UNCHANGED <<notice, suppressed, answer>>
    BY <1>11 DEF ResultCommits, ResultReplaced, noticeVars, factVars
  <2>2. \A v \in served : call[v] = "waiting" => call'[v] = "waiting"
    BY <1>0, <2>1 DEF NoticesTypeOK
  <2> QED BY <1>2, <1>11, <2>1, <2>2, QuietTools
<1>12. ASSUME CallsCancelled PROVE Reaching'
  BY <1>2, <1>12, QuietTools DEF CallsCancelled, noticeVars, factVars
<1> QED BY <1>3, <1>4, <1>5, <1>6, <1>7, <1>8, <1>9, <1>10, <1>11, <1>12 DEF NNext

-----------------------------------------------------------------------------
(* Under the tools the registry keeps its invariant, and the tools keep    *)
(* theirs.                                                                 *)
THEOREM ToolsInductive == NSpec => [](IInv /\ NInv)
<1>1. NInit => IInv /\ NInv
  <2>1. ASSUME NInit PROVE IInv
    BY <2>1, InitIInv DEF NInit
  <2>2. ASSUME NInit PROVE NoticesTypeOK
    BY <2>2 DEF NInit, NoticesTypeOK
  <2>3. ASSUME NInit PROVE Announced /\ Calls /\ Noticed
    BY <2>3 DEF NInit, Init, Announced, Calls, Noticed, Terminal
  <2>4. ASSUME NInit PROVE Texts /\ Reaching
    BY <2>4 DEF NInit, Init, Texts, Reaching
  <2> QED BY <2>1, <2>2, <2>3, <2>4 DEF NInv
<1>2. IInv /\ NInv /\ [NNext]_allVars => IInv' /\ NInv'
  <2>1. ASSUME IInv, NInv, [NNext]_allVars PROVE IInv' /\ NInv'
    <3>1. IInv' /\ Stable /\ TypeOK'
      BY <2>1, RegistryKept DEF IInv
    <3>2. Announced'
      BY <2>1, AnnouncedKept DEF NInv
    <3> QED BY <2>1, <3>1, <3>2, NoticesTypeStep, CallsStep, NoticedStep, TextsStep, ReachingStep DEF NInv
  <2> QED BY <2>1
<1> QED BY <1>1, <1>2, PTL DEF NSpec

(* The types of the plugin's state; nothing is withheld without a claim.   *)
THEOREM NoticesTypeCorrect == NSpec => []NoticesTypeOK
<1>1. NInv => NoticesTypeOK
  BY DEF NInv
<1> QED BY <1>1, ToolsInductive, PTL

(* job_output's releases, cancels and reads leave `awaited` truthful.      *)
THEOREM AwaitedUnderTools == NSpec => []WaitsAnswered
<1>1. IInv => WaitsAnswered
  BY DEF IInv, WaitsAnswered
<1> QED BY <1>1, ToolsInductive, PTL

(* Nor do they let an owner hold more active jobs than its limit.          *)
THEOREM LimitUnderTools == NSpec => []WithinLimit
<1>1. IInv => WithinLimit
  BY DEF IInv
<1> QED BY <1>1, ToolsInductive, PTL

(* Nor is a job left behind by an owner whose disposal delivered notices.  *)
THEOREM OwnersUnderTools == NSpec => []OwnerLeavesNothing
<1>1. IInv => OwnerLeavesNothing
  BY DEF IInv
<1> QED BY <1>1, ToolsInductive, PTL

(* The registry under the tools still implements JobLedger: their own      *)
(* steps, which end waits, are stutters of the ledger.                     *)
THEOREM LedgerUnderTools == NSpec => LedgerKept
<1>1. NInit => Ledger!Init
  BY InitLedger DEF NInit
<1>2. ASSUME IInv, [NNext]_allVars PROVE [Ledger!Next]_(Ledger!vars)
  <2>1. CASE [Next]_vars
    BY <1>2, <2>1, LedgerStep
  <2>2. ASSUME UNCHANGED <<owner, recorded, status, store, scope>>
        PROVE [Ledger!Next]_(Ledger!vars)
    BY <2>2, LedgerIdle DEF Closed
  <2>3. ASSUME NEW w \in Waits, NEW j \in Jobs, NEW c \in BOOLEAN, OutputReadsNow(w, j, c)
        PROVE [Ledger!Next]_(Ledger!vars)
    BY <2>2, <2>3 DEF OutputReadsNow, jobVars, prodVars, tearVars
  <2>4. CASE CallsCancelled
    BY <2>2, <2>4 DEF CallsCancelled, jobVars, prodVars, tearVars
  <2>5. CASE UNCHANGED allVars
    BY <2>1, <2>5 DEF allVars
  <2> QED BY <1>2, <2>1, <2>3, <2>4, <2>5, RegistryUnderTools
<1>3. IInv /\ NInv /\ [NNext]_allVars => [Ledger!Next]_(Ledger!vars)
  BY <1>2
<1> QED BY <1>1, <1>3, ToolsInductive, PTL DEF NSpec, LedgerKept, Ledger!Spec

(* No completion of a live owner's job is forgotten.                       *)
THEOREM CompletionsReach == NSpec => []CompletionReaches
<1>1. ASSUME IInv, NInv PROVE CompletionReaches
  <2>1. ASSUME NEW j \in settled \cap store, j \in suppressed PROVE \E w \in Waits : Covers(w, j)
    <3>1. PICK w \in Claimants(j) : TRUE
      BY <1>1, <2>1 DEF NInv, NoticesTypeOK
    <3>2. w \in Waits /\ w \in claims /\ waitJob[w] = j /\ call[w] = "waiting"
      BY <1>1, <3>1 DEF Claimants, NInv, NoticesTypeOK, Calls
    <3> QED BY <3>2 DEF Covers
  <2>2. ASSUME NEW w \in Waits, NEW j, Answers(w, j) PROVE Covers(w, j)
    BY <2>2 DEF Answers, Covers
  <2> QED BY <1>1, <2>1, <2>2 DEF NInv, Reaching, CompletionReaches
<1> QED BY <1>1, ToolsInductive, PTL

(* The output of a registered job is always in exactly one place.          *)
THEOREM OutputsOnce == NSpec => []OutputOnce
<1>1. ASSUME IInv, NInv PROVE OutputOnce
  <2>1. ASSUME NEW j \in store PROVE Places(j) = 1
    <3> DEFINE C == {w \in carries : waitJob[w] = j}
    <3>1. Text(j) /\ j \in Jobs /\ shown[j] \in {0, 1}
      BY <1>1, <2>1, TextsAll DEF NInv, IInv, TypeOK, NoticesTypeOK
    <3>2. CASE C = {}
      <4>1. Cardinality(C) = 0
        BY <3>2, FS_EmptySet
      <4>2. IF j \in taken THEN (j \in held /\ shown[j] = 0) \/ (j \notin held /\ shown[j] = 1)
            ELSE j \notin held /\ shown[j] = 0
        BY <2>1, <3>1, <3>2 DEF Text
      <4> QED BY <4>1, <4>2 DEF Places
    <3>3. CASE C # {}
      <4>1. PICK w \in C : TRUE
        BY <3>3
      <4>2. C = {w}
        BY <3>1, <4>1 DEF Text
      <4>3. Cardinality(C) = 1
        BY <4>2, FS_Singleton
      <4>4. j \in taken /\ j \notin held /\ shown[j] = 0
        BY <3>1, <4>1 DEF Text
      <4> QED BY <4>3, <4>4 DEF Places
    <3> QED BY <3>2, <3>3
  <2> QED BY <2>1 DEF OutputOnce
<1> QED BY <1>1, ToolsInductive, PTL

(* A completion that a released read collected is not announced, and a     *)
(* notice that a result covered is not logged.                             *)
THEOREM ToldAtMostOnce == NSpec => ToldOnce
<1> DEFINE Told(j) ==
      /\ notice[j] = "none" /\ notice'[j] = "queued"
         => ~\E w \in steered : waitJob[w] = j /\ answer'[w] = "finished"
      /\ notice[j] = "queued" /\ notice'[j] = "logged" /\ j \in store => j \in pending
<1>1. ASSUME IInv, NInv, [NNext]_allVars, NEW j \in Jobs PROVE Told(j)
  <2>0. NoticesTypeOK /\ Calls /\ Noticed /\ Waiting
    BY <1>1 DEF NInv, IInv
  <2>1. notice[j] = "queued" /\ j \in store => j \in pending
    BY <2>0 DEF Noticed
  <2>2. ASSUME notice[j] = "none", notice'[j] = "queued",
               NEW v \in steered, waitJob[v] = j, answer'[v] = "finished"
        PROVE FALSE
    <3>1. ASSUME NEW i \in Jobs, Settled(i) PROVE FALSE
      <4>1. i = j
        BY <2>0, <2>2, <3>1, DeliverNotices DEF Settled
      <4>2. j \notin settled /\ answer' = answer
        BY <1>1, <3>1, <4>1, Releasing DEF Settled, toolVars
      <4> QED BY <2>0, <2>2, <4>2 DEF Calls, NoticesTypeOK
    <3>2. ASSUME NEW w \in Waits, OutputFails(w) PROVE FALSE
      <4>1. waitJob[w] \in Jobs
        BY <2>0, <3>2 DEF OutputFails, AtRead, Calls, Waiting
      <4>2. j \in suppressed /\ answer' = answer
        BY <2>0, <2>2, <3>2, <4>1, DeliverNotices DEF OutputFails, Undelivered
      <4> QED BY <2>0, <2>2, <4>2 DEF Noticed
    <3>3. ASSUME NEW w \in Waits, OutputReads(w) PROVE FALSE
      <4>1. waitJob[w] = j /\ Undelivered(w, j, Committed(w, j))
        BY <2>0, <2>2, <3>3 DEF OutputReads, WithdrawNotice, NoticesTypeOK
      <4>2. w \in claims /\ w \in steered
        BY <2>0, <4>1 DEF Undelivered, Claimants, Calls, NoticesTypeOK
      <4> QED BY <4>1, <4>2 DEF Undelivered, Committed
    <3>4. ASSUME NEW i \in Jobs, NoticeLogged(i) \/ NoticeDiscarded(i) \/ ModelKills(i) PROVE FALSE
      BY <2>0, <2>2, <3>4 DEF NoticeLogged, NoticeDiscarded, ModelKills, NoticesTypeOK
    <3>5. ASSUME UNCHANGED notice PROVE FALSE
      BY <2>2, <3>5
    <3> QED BY <1>1, <3>1, <3>2, <3>3, <3>4, <3>5
      DEF NNext, RegistryAlone, Removed, OutputWaits, OutputReadsNow, InputReleases, ResultCommits,
          ResultReplaced, CallsCancelled, allVars, notVars, noticeVars
  <2> QED BY <2>1, <2>2
<1>2. IInv /\ NInv /\ [NNext]_allVars => [\A j \in Jobs : Told(j)]_allVars
  BY <1>1
<1> QED BY <1>2, ToolsInductive, PTL DEF NSpec, ToldOnce
=============================================================================
