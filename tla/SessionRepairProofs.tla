------------------------ MODULE SessionRepairProofs ------------------------
(***************************************************************************)
(* What is proved of a session's log over crashes, repairs and forks, for  *)
(* every number of calls, turns, steps and faults and every log length.    *)
(***************************************************************************)
EXTENDS SessionRepairProps, SequenceTheorems, TLAPS

(* The fold of a log up to its n-th entry, and the entry that e adds.      *)
Entries == [ev : Events, at : Readers]
In(L, n) == IF n = 0 THEN Unread ELSE L[n].at
Final(L) == In(L, Len(L))
Entry(L, e) == [ev |-> e, at |-> Observe(Final(L), e)]

Same(e, r) == e.turn = r.turn /\ e.step = r.step

(* What the open turn, step and calls of a fold have to do with each other.*)
Shape(r) ==
    /\ r.turn # 0 => r.turn = r.last
    /\ r.turn = 0 => r.step = 0 /\ r.steps = 0
    /\ r.step # 0 => r.step = r.steps
    /\ r.step = 0 => r.pending = NoCalls

(* The event e may follow a log whose fold is r.                           *)
Allowed(r, e) ==
    /\ e.type = "turn/start" => r.turn = 0 /\ e.turn = r.last + 1 /\ e.step = 0
    /\ e.type = "turn/end" => r.turn # 0 /\ r.step = 0 /\ e.turn = r.turn /\ e.step = 0
    /\ e.type = "step/start" => r.turn # 0 /\ r.step = 0 /\ e.turn = r.turn /\ e.step = r.steps + 1
    /\ e.type \in {"step/end", "assistant/message", "tool/call", "tool/result"} =>
          r.step # 0 /\ Same(e, r)
    /\ e.type \in {"step/end", "assistant/message"} => r.pending = NoCalls
    /\ e.type = "tool/call" => e.call \in CallIds /\ r.pending[e.call] = "requested"
    /\ e.type = "tool/result" => e.call \in CallIds /\ r.pending[e.call] # "none"
    /\ e.type = "session/end-seed" => e.turn = 0 /\ e.step = 0

Chained(L) ==
    \A n \in 1..Len(L) :
        /\ Allowed(In(L, n - 1), L[n].ev)
        /\ L[n].at = Observe(In(L, n - 1), L[n].ev)
        /\ Shape(L[n].at)

(* No event is numbered ahead of the fold.                                 *)
Numbered(L) ==
    \A n \in 1..Len(L) : \A i \in 1..n :
        /\ L[i].ev.turn <= In(L, n).last
        /\ In(L, n).turn # 0 /\ L[i].ev.turn = In(L, n).turn => L[i].ev.step <= In(L, n).steps

(* A call of the open step whose tool/call is in the log is not "requested".*)
Truthful(L) ==
    \A n \in 1..Len(L) : \A i \in 1..n :
        L[i].ev.type = "tool/call" /\ Same(L[i].ev, In(L, n)) /\ In(L, n).step # 0
            => In(L, n).pending[L[i].ev.call] # "requested"

LogOK(L) == L \in Seq(Entries) /\ Chained(L) /\ Numbered(L) /\ Truthful(L)

Uncalled(L, r) == \A i \in 1..Len(L) : L[i].ev.type = "tool/call" => ~Same(L[i].ev, r)
Unrecovered(L, r) == \A i \in 1..Len(L) : NotStarted(L[i].ev) => ~Same(L[i].ev, r)

(* Turn t is over; step s was opened.                                      *)
Past(t, r) == t <= r.last /\ (t = r.last => r.turn = 0)
Reached(s, r) == s[1] < r.last \/ (s[1] = r.last /\ (r.turn = 0 \/ s[2] <= r.steps))

CalledBy(L, a, x) ==
    \E i \in 1..a : /\ L[i].ev.type = "tool/call" /\ L[i].ev.call = x[3]
                    /\ L[i].ev.turn = x[1] /\ L[i].ev.step = x[2]

(* What was sent or has run is in every prefix that a crash may leave,     *)
(* unless it belongs to the history a fork took over.                      *)
SentKept(L) == \A s \in sent : \A n \in acked..Len(L) : Reached(s, In(L, n))
RanKept(L) ==
    \A x \in ran : CalledBy(L, acked, x) \/ \A n \in acked..Len(L) : Past(x[1], In(L, n))

SeedKept(L) ==
    /\ loaded = 0 /\ Len(L) > 0
    /\ \A s \in sent : s[1] <= Final(L).last
    /\ \A x \in ran : x[1] <= Final(L).last

Honest(L) ==
    \A i \in 1..Len(L) :
        NotStarted(L[i].ev) => <<L[i].ev.turn, L[i].ev.step, L[i].ev.call>> \notin ran

Kept(L) ==
    /\ LogOK(L) /\ acked \in 0..Len(L) /\ Honest(L)
    /\ phase # "seeding" => SentKept(L) /\ RanKept(L)
    /\ phase = "seeding" => SeedKept(L)

(* Where the driver rests says what is open.                               *)
Resting ==
    /\ phase # "live" => pc = "idle"
    /\ phase = "live" /\ pc = "idle" => Reader.turn = 0
    /\ pc \in {"loop", "closing"} => Reader.turn # 0 /\ Reader.step = 0
    /\ pc \in {"request", "streaming"} => Reader.step # 0 /\ Answered
    /\ pc \in {"tools", "skipping", "failing"} => Reader.step # 0

(* A call of the batch is started in the log, at the number kept of it.    *)
Batched ==
    \A c \in CallIds : body[c] # "idle" =>
        /\ pc \in {"tools", "skipping"} /\ Started(c)
        /\ callSeq[c] \in 1..Len(log)
        /\ log[callSeq[c]].ev = Event("tool/call", Reader.turn, Reader.step, c, "none", "agent")

(* Nothing was recovered yet in the step that runs.                        *)
Running ==
    /\ pc \in {"request", "streaming"} => Uncalled(log, Reader)
    /\ pc \in {"request", "streaming", "tools"} => Unrecovered(log, Reader)

IInv == TypeOK /\ Kept(log) /\ Resting /\ Batched /\ Running
-----------------------------------------------------------------------------
(* The fold of one event, and the logs it makes.                           *)

LEMMA UnreadOK == Unread \in Readers /\ Shape(Unread)
<1>1. NoCalls \in [CallIds -> {"none", "requested", "started"}] BY DEF NoCalls
<1> QED BY <1>1 DEF Unread, Readers, Shape

LEMMA PendingType ==
    ASSUME NEW r \in Readers, NEW e \in Events
    PROVE  Pending(r, e) \in [CallIds -> {"none", "requested", "started"}]
<1>1. ASSUME NEW c \in CallIds
      PROVE  Pending(r, e)[c] \in {"none", "requested", "started"}
  <2>1. r.pending[c] \in {"none", "requested", "started"} BY DEF Readers
  <2> QED BY <2>1 DEF Pending
<1> QED BY <1>1 DEF Pending

LEMMA ObserveOK ==
    ASSUME NEW r \in Readers, Shape(r), NEW e \in Events, Allowed(r, e)
    PROVE  Observe(r, e) \in Readers /\ Shape(Observe(r, e))
<1> DEFINE o == Observe(r, e)
<1>1. Pending(r, e) \in [CallIds -> {"none", "requested", "started"}] BY PendingType
<1>2. o.last \in Nat /\ o.turn \in Nat /\ o.step \in Nat /\ o.steps \in Nat
  BY DEF Observe, Readers, Events
<1>3. o.pending = Pending(r, e) BY DEF Observe
<1>4. o \in Readers BY <1>1, <1>2, <1>3 DEF Observe, Readers
<1>5. o.step = 0 => Pending(r, e) = NoCalls
  <2>1. CASE e.type \in {"turn/start", "turn/end", "step/end"}
    BY <2>1 DEF Pending, NoCalls
  <2>2. CASE e.type = "step/start"
    BY <2>2 DEF Observe, Allowed, Readers
  <2>3. CASE e.type \in {"assistant/message", "tool/call", "tool/result"}
    BY <2>3 DEF Observe, Allowed
  <2>4. CASE e.type = "session/end-seed"
    <3>1. \A c \in CallIds : Pending(r, e)[c] = r.pending[c] BY <2>4 DEF Pending
    <3>2. o.step = r.step BY <2>4 DEF Observe
    <3>3. r.step = 0 => r.pending = NoCalls BY DEF Shape
    <3>4. r.step = 0 => \A c \in CallIds : Pending(r, e)[c] = NoCalls[c] BY <3>1, <3>3
    <3>5. NoCalls \in [CallIds -> {"none", "requested", "started"}] BY DEF NoCalls
    <3> QED BY ONLY <3>2, <3>4, <3>5, <1>1
  <2> QED BY <2>1, <2>2, <2>3, <2>4 DEF Events, Types
<1>6. /\ o.turn # 0 => o.turn = o.last
      /\ o.turn = 0 => o.step = 0 /\ o.steps = 0
      /\ o.step # 0 => o.step = o.steps
  <2>1. CASE e.type \in {"turn/start", "turn/end", "step/end"}
    BY <2>1 DEF Observe, Allowed, Shape, Readers, Events
  <2>2. CASE e.type = "step/start"
    BY <2>2 DEF Observe, Allowed, Shape, Readers, Events
  <2>3. CASE e.type \in {"assistant/message", "tool/call", "tool/result", "session/end-seed"}
    BY <2>3 DEF Observe, Allowed, Shape, Readers, Events
  <2> QED BY <2>1, <2>2, <2>3 DEF Events, Types
<1> QED BY <1>3, <1>4, <1>5, <1>6 DEF Shape

LEMMA MarkerKeeps ==
    ASSUME NEW r \in Readers
    PROVE  Observe(r, Marker) = r
<1>1. Marker.type = "session/end-seed" BY DEF Marker, Boundary, Event
<1>2. \A c \in CallIds : Pending(r, Marker)[c] = r.pending[c] BY <1>1 DEF Pending
<1>3. Pending(r, Marker) = r.pending
  BY <1>2 DEF Pending, Readers
<1> QED BY <1>1, <1>3 DEF Observe, Readers

LEMMA InOK ==
    ASSUME NEW L, L \in Seq(Entries), Chained(L), NEW n \in 0..Len(L)
    PROVE  In(L, n) \in Readers /\ Shape(In(L, n))
<1>1. CASE n = 0 BY <1>1, UnreadOK DEF In
<1>2. CASE n # 0
  <2>1. n \in 1..Len(L) BY <1>2
  <2>2. L[n] \in Entries BY <2>1, ElementOfSeq
  <2> QED BY <1>2, <2>1, <2>2 DEF In, Chained, Entries
<1> QED BY <1>1, <1>2

LEMMA Appended ==
    ASSUME NEW L, LogOK(L), NEW e \in Events, Allowed(Final(L), e)
    PROVE  LET M == Append(L, Entry(L, e)) IN
           /\ M \in Seq(Entries) /\ Len(M) = Len(L) + 1 /\ Len(L) \in Nat
           /\ \A i \in 1..Len(L) : M[i] = L[i]
           /\ \A n \in 0..Len(L) : In(M, n) = In(L, n)
           /\ M[Len(L) + 1].ev = e
           /\ In(M, Len(L) + 1) = Observe(Final(L), e)
           /\ Final(M) = Observe(Final(L), e)
           /\ Final(L) \in Readers /\ Shape(Final(L))
           /\ Final(M) \in Readers /\ Shape(Final(M))
<1> DEFINE M == Append(L, Entry(L, e))
<1>0. L \in Seq(Entries) /\ Chained(L) BY DEF LogOK
<1>1. Len(L) \in Nat BY <1>0, LenProperties
<1>2. Final(L) \in Readers /\ Shape(Final(L)) BY <1>0, <1>1, InOK DEF Final
<1>3. Observe(Final(L), e) \in Readers /\ Shape(Observe(Final(L), e)) BY <1>2, ObserveOK
<1>4. Entry(L, e) \in Entries BY <1>3 DEF Entry, Entries
<1>5. M \in Seq(Entries) /\ Len(M) = Len(L) + 1 BY <1>0, <1>4, AppendProperties
<1>6. \A i \in 1..Len(L) : M[i] = L[i] BY <1>0, <1>1, <1>4, AppendProperties
<1>7. M[Len(L) + 1] = Entry(L, e) BY <1>0, <1>4, AppendProperties
<1>8. \A n \in 0..Len(L) : In(M, n) = In(L, n) BY <1>1, <1>6 DEF In
<1>9. In(M, Len(L) + 1) = Observe(Final(L), e) BY <1>1, <1>7 DEF In, Entry
<1>10. M[Len(L) + 1].ev = e BY <1>7 DEF Entry
<1>11. Final(M) = Observe(Final(L), e) BY <1>5, <1>9 DEF Final
<1> HIDE DEF M
<1> QED BY <1>1, <1>2, <1>3, <1>5, <1>6, <1>8, <1>9, <1>10, <1>11 DEF M

LEMMA AppendChained ==
    ASSUME NEW L, LogOK(L), NEW e \in Events, Allowed(Final(L), e)
    PROVE  Chained(Append(L, Entry(L, e)))
<1> DEFINE M == Append(L, Entry(L, e))
<1> HIDE DEF M
<1>1. /\ M \in Seq(Entries) /\ Len(M) = Len(L) + 1 /\ Len(L) \in Nat
      /\ \A i \in 1..Len(L) : M[i] = L[i]
      /\ \A n \in 0..Len(L) : In(M, n) = In(L, n)
      /\ M[Len(L) + 1].ev = e
      /\ In(M, Len(L) + 1) = Observe(Final(L), e)
      /\ Final(M) = Observe(Final(L), e) /\ Shape(Final(M))
  BY Appended DEF M
<1>2. M[Len(L) + 1].at = In(M, Len(L) + 1) BY <1>1 DEF In
<1>3. ASSUME NEW n \in 1..Len(M)
      PROVE  /\ Allowed(In(M, n - 1), M[n].ev)
             /\ M[n].at = Observe(In(M, n - 1), M[n].ev)
             /\ Shape(M[n].at)
  <2>1. CASE n \in 1..Len(L)
    <3>1. n - 1 \in 0..Len(L) BY <2>1, <1>1
    <3>2. M[n] = L[n] /\ In(M, n - 1) = In(L, n - 1) BY <1>1, <2>1, <3>1
    <3>3. Chained(L) BY DEF LogOK
    <3> QED BY <2>1, <3>2, <3>3 DEF Chained
  <2>2. CASE n = Len(L) + 1
    <3>1. n - 1 = Len(L) /\ In(M, n - 1) = Final(L) BY <1>1, <2>2 DEF Final
    <3> QED BY <1>1, <1>2, <2>2, <3>1
  <2> QED BY <1>1, <2>1, <2>2
<1> QED BY <1>3 DEF Chained, M

LEMMA AppendNumbered ==
    ASSUME NEW L, LogOK(L), NEW e \in Events, Allowed(Final(L), e)
    PROVE  Numbered(Append(L, Entry(L, e)))
<1> DEFINE M == Append(L, Entry(L, e))
<1> HIDE DEF M
<1> DEFINE r == Final(L)
           o == Observe(r, e)
<1>1. /\ M \in Seq(Entries) /\ Len(M) = Len(L) + 1 /\ Len(L) \in Nat
      /\ \A i \in 1..Len(L) : M[i] = L[i]
      /\ \A n \in 0..Len(L) : In(M, n) = In(L, n)
      /\ M[Len(L) + 1].ev = e
      /\ In(M, Len(L) + 1) = o
      /\ r \in Readers /\ Shape(r) /\ o \in Readers /\ Shape(o)
  BY Appended DEF M
<1>2. ASSUME NEW f \in Events, f.turn <= r.last, r.turn # 0 /\ f.turn = r.turn => f.step <= r.steps
      PROVE  f.turn <= o.last /\ (o.turn # 0 /\ f.turn = o.turn => f.step <= o.steps)
  <2>1. CASE e.type \in {"turn/start", "turn/end"}
    BY <1>1, <1>2, <2>1 DEF Observe, Allowed, Shape, Readers, Events
  <2>2. CASE e.type = "step/start"
    BY <1>1, <1>2, <2>2 DEF Observe, Allowed, Shape, Readers, Events
  <2>3. CASE e.type \in {"step/end", "assistant/message", "tool/call", "tool/result", "session/end-seed"}
    <3>1. o.last = r.last /\ o.turn = r.turn /\ o.steps = r.steps BY <2>3 DEF Observe
    <3> QED BY <1>2, <3>1
  <2> QED BY <2>1, <2>2, <2>3 DEF Events, Types
<1>3. e.turn <= o.last /\ (o.turn # 0 /\ e.turn = o.turn => e.step <= o.steps)
  <2>1. CASE e.type \in {"turn/start", "turn/end"}
    BY <1>1, <2>1 DEF Observe, Allowed, Shape, Readers, Events
  <2>2. CASE e.type = "step/start"
    BY <1>1, <2>2 DEF Observe, Allowed, Shape, Readers, Events
  <2>3. CASE e.type \in {"step/end", "assistant/message", "tool/call", "tool/result"}
    BY <1>1, <2>3 DEF Observe, Allowed, Shape, Same, Readers, Events
  <2>4. CASE e.type = "session/end-seed"
    BY <1>1, <2>4 DEF Observe, Allowed, Shape, Readers, Events
  <2> QED BY <2>1, <2>2, <2>3, <2>4 DEF Events, Types
<1>4. ASSUME NEW i \in 1..Len(L)
      PROVE  M[i].ev \in Events /\ M[i].ev.turn <= r.last
             /\ (r.turn # 0 /\ M[i].ev.turn = r.turn => M[i].ev.step <= r.steps)
  <2>1. L[i] \in Entries BY ElementOfSeq DEF LogOK
  <2>2. M[i] = L[i] BY <1>1
  <2>3. Len(L) \in 1..Len(L) /\ i \in 1..Len(L) BY <1>1
  <2>4. Numbered(L) BY DEF LogOK
  <2>5. r = In(L, Len(L)) BY DEF Final
  <2> QED BY <2>1, <2>2, <2>3, <2>4, <2>5 DEF Numbered, Entries
<1>5. ASSUME NEW n \in 1..Len(M), NEW i \in 1..n
      PROVE  /\ M[i].ev.turn <= In(M, n).last
             /\ In(M, n).turn # 0 /\ M[i].ev.turn = In(M, n).turn => M[i].ev.step <= In(M, n).steps
  <2>1. CASE n \in 1..Len(L)
    <3>1. In(M, n) = In(L, n) /\ M[i] = L[i] BY <1>1, <2>1
    <3>2. Numbered(L) BY DEF LogOK
    <3> QED BY <2>1, <3>1, <3>2 DEF Numbered
  <2>2. CASE n = Len(L) + 1
    <3>1. In(M, n) = o BY <1>1, <2>2
    <3>2. CASE i = Len(L) + 1
      <4>1. M[i].ev = e BY <1>1, <3>2
      <4> QED BY <1>3, <3>1, <4>1
    <3>3. CASE i \in 1..Len(L) BY <1>2, <1>4, <3>1, <3>3
    <3> QED BY <1>1, <2>2, <3>2, <3>3
  <2> QED BY <1>1, <2>1, <2>2
<1> QED BY <1>5 DEF Numbered, M

LEMMA AppendTruthful ==
    ASSUME NEW L, LogOK(L), NEW e \in Events, Allowed(Final(L), e),
           e.type = "assistant/message" => Uncalled(L, Final(L))
    PROVE  Truthful(Append(L, Entry(L, e)))
<1> DEFINE M == Append(L, Entry(L, e))
<1> HIDE DEF M
<1> DEFINE r == Final(L)
           o == Observe(r, e)
<1>1. /\ M \in Seq(Entries) /\ Len(M) = Len(L) + 1 /\ Len(L) \in Nat
      /\ \A i \in 1..Len(L) : M[i] = L[i]
      /\ \A n \in 0..Len(L) : In(M, n) = In(L, n)
      /\ M[Len(L) + 1].ev = e
      /\ In(M, Len(L) + 1) = o
      /\ r \in Readers /\ Shape(r) /\ o \in Readers /\ Shape(o)
  BY Appended DEF M
<1>2. ASSUME e.type = "tool/call" PROVE o.pending[e.call] # "requested"
  BY <1>2 DEF Observe, Pending, Allowed
<1>3. ASSUME NEW i \in 1..Len(L), L[i].ev.type = "tool/call", Same(L[i].ev, o), o.step # 0
      PROVE  o.pending[L[i].ev.call] # "requested"
  <2> DEFINE f == L[i].ev
  <2>1. r = In(L, Len(L)) /\ Len(L) \in 1..Len(L) /\ Numbered(L) /\ Truthful(L) /\ Chained(L)
    BY <1>1 DEF Final, LogOK
  <2>2. r.turn # 0 /\ f.turn = r.turn => f.step <= r.steps BY <2>1 DEF Numbered
  <2>3. Same(f, r) /\ r.step # 0 => r.pending[f.call] # "requested"
    BY <1>3, <2>1 DEF Truthful
  <2>4. f \in Events
    <3>1. L[i] \in Entries BY ElementOfSeq DEF LogOK
    <3> QED BY <3>1 DEF Entries
  <2>5. f.call \in CallIds
    <3>1. Allowed(In(L, i - 1), f) BY <2>1 DEF Chained
    <3> QED BY <1>3, <3>1 DEF Allowed
  <2>6. CASE e.type \in {"turn/start", "turn/end", "step/end"}
    BY <1>3, <2>6 DEF Observe
  <2>7. CASE e.type = "step/start"
    <3>1. o.turn = r.turn /\ r.turn # 0 /\ o.step = r.steps + 1
      BY <2>7 DEF Observe, Allowed
    <3>2. f.turn = r.turn /\ f.step = r.steps + 1 BY <1>3, <3>1 DEF Same
    <3> QED BY <1>1, <2>2, <3>1, <3>2 DEF Readers
  <2>8. CASE e.type = "assistant/message"
    <3>1. o.turn = r.turn /\ o.step = r.step BY <2>8 DEF Observe
    <3> QED BY <1>3, <2>8, <3>1 DEF Same, Uncalled
  <2>9. CASE e.type \in {"tool/call", "tool/result", "session/end-seed"}
    <3>1. o.turn = r.turn /\ o.step = r.step BY <2>9 DEF Observe
    <3>2. r.pending[f.call] # "requested" BY <1>3, <2>3, <3>1 DEF Same
    <3>3. o.pending[f.call] \in {"none", "started", r.pending[f.call]}
      BY <2>5, <2>9 DEF Observe, Pending
    <3> QED BY <3>2, <3>3
  <2> QED BY <2>6, <2>7, <2>8, <2>9 DEF Events, Types
<1>4. ASSUME NEW n \in 1..Len(M), NEW i \in 1..n, M[i].ev.type = "tool/call",
             Same(M[i].ev, In(M, n)), In(M, n).step # 0
      PROVE  In(M, n).pending[M[i].ev.call] # "requested"
  <2>1. CASE n \in 1..Len(L)
    <3>1. In(M, n) = In(L, n) /\ M[i] = L[i] BY <1>1, <2>1
    <3>2. Truthful(L) BY DEF LogOK
    <3> QED BY <1>4, <2>1, <3>1, <3>2 DEF Truthful
  <2>2. CASE n = Len(L) + 1
    <3>1. In(M, n) = o BY <1>1, <2>2
    <3>2. CASE i = Len(L) + 1
      <4>1. M[i].ev = e BY <1>1, <3>2
      <4> QED BY <1>2, <1>4, <3>1, <4>1
    <3>3. CASE i \in 1..Len(L)
      <4>1. M[i] = L[i] BY <1>1, <3>3
      <4> QED BY <1>3, <1>4, <3>1, <3>3, <4>1
    <3> QED BY <1>1, <2>2, <3>2, <3>3
  <2> QED BY <1>1, <2>1, <2>2
<1> QED BY <1>4 DEF Truthful, M

(* A log stays one when an event that may follow is appended.              *)
LEMMA AppendOK ==
    ASSUME NEW L, LogOK(L), NEW e \in Events, Allowed(Final(L), e),
           e.type = "assistant/message" => Uncalled(L, Final(L))
    PROVE  LogOK(Append(L, Entry(L, e)))
BY Appended, AppendChained, AppendNumbered, AppendTruthful DEF LogOK

(* A prefix of a log is one.                                               *)
LEMMA Prefix ==
    ASSUME NEW L, LogOK(L), NEW k \in 0..Len(L)
    PROVE  LET P == SubSeq(L, 1, k) IN
           /\ LogOK(P) /\ Len(P) = k
           /\ \A i \in 1..k : P[i] = L[i]
           /\ \A n \in 0..k : In(P, n) = In(L, n)
<1> DEFINE P == SubSeq(L, 1, k)
<1>0. L \in Seq(Entries) BY DEF LogOK
<1>1. Len(L) \in Nat BY <1>0, LenProperties
<1>2. \A i \in 1..k : L[i] \in Entries /\ i \in 1..Len(L) BY <1>0, <1>1, ElementOfSeq
<1>3. P \in Seq(Entries) /\ Len(P) = k /\ \A i \in 1..k : P[i] = L[i]
  BY <1>0, <1>1, <1>2, SubSeqProperties
<1> HIDE DEF P
<1>4. \A n \in 0..k : In(P, n) = In(L, n) BY <1>1, <1>3 DEF In
<1>5. ASSUME NEW n \in 1..k
      PROVE  n \in 1..Len(L) /\ n - 1 \in 0..k /\ P[n] = L[n] /\ In(P, n) = In(L, n)
             /\ In(P, n - 1) = In(L, n - 1)
  BY <1>1, <1>3, <1>4
<1>6. Chained(P) BY <1>3, <1>5 DEF Chained, LogOK
<1>7. ASSUME NEW n \in 1..k, NEW i \in 1..n PROVE P[i] = L[i] BY <1>1, <1>3
<1>8. Numbered(P) BY <1>3, <1>5, <1>7 DEF Numbered, LogOK
<1>9. Truthful(P)
  <2>1. Truthful(L) BY DEF LogOK
  <2>2. ASSUME NEW n \in 1..k, NEW i \in 1..n, P[i].ev.type = "tool/call",
               Same(P[i].ev, In(P, n)), In(P, n).step # 0
        PROVE  In(P, n).pending[P[i].ev.call] # "requested"
    <3>1. P[i] = L[i] /\ In(P, n) = In(L, n) /\ n \in 1..Len(L) BY <1>5, <1>7
    <3> QED BY <2>1, <2>2, <3>1 DEF Truthful
  <2> QED BY <1>3, <2>2 DEF Truthful
<1> QED BY <1>3, <1>4, <1>6, <1>8, <1>9 DEF LogOK, P
-----------------------------------------------------------------------------
(* What is kept over an append and over a cut.                             *)

LEMMA PastGrows ==
    ASSUME NEW r \in Readers, Shape(r), NEW e \in Events, Allowed(r, e), NEW t \in Nat, Past(t, r)
    PROVE  Past(t, Observe(r, e))
<1>1. CASE e.type \in {"turn/start", "turn/end"}
  BY <1>1 DEF Past, Observe, Allowed, Shape, Readers, Events
<1>2. CASE e.type \notin {"turn/start", "turn/end"}
  <2>1. Observe(r, e).last = r.last /\ Observe(r, e).turn = r.turn BY <1>2 DEF Observe
  <2> QED BY <2>1 DEF Past
<1> QED BY <1>1, <1>2

LEMMA ReachedGrows ==
    ASSUME NEW r \in Readers, Shape(r), NEW e \in Events, Allowed(r, e),
           NEW s \in Nat \X Nat, Reached(s, r)
    PROVE  Reached(s, Observe(r, e))
<1>1. CASE e.type \in {"turn/start", "turn/end"}
  BY <1>1 DEF Reached, Observe, Allowed, Shape, Readers, Events
<1>2. CASE e.type = "step/start"
  BY <1>2 DEF Reached, Observe, Allowed, Shape, Readers, Events
<1>3. CASE e.type \notin {"turn/start", "turn/end", "step/start"}
  <2>1. Observe(r, e).last = r.last /\ Observe(r, e).turn = r.turn /\ Observe(r, e).steps = r.steps
    BY <1>3 DEF Observe
  <2> QED BY <2>1 DEF Reached
<1> QED BY <1>1, <1>2, <1>3

Follows(L, e) ==
    /\ e \in Events /\ Allowed(Final(L), e)
    /\ e.type = "assistant/message" => Uncalled(L, Final(L))
    /\ NotStarted(e) => <<e.turn, e.step, e.call>> \notin ran

LEMMA AppendKept ==
    ASSUME TypeOK, NEW L, Kept(L), NEW e, Follows(L, e)
    PROVE  Kept(Append(L, Entry(L, e)))
<1> DEFINE M == Append(L, Entry(L, e))
<1> HIDE DEF M
<1>0. e \in Events /\ Allowed(Final(L), e) /\ LogOK(L) BY DEF Follows, Kept
<1>1. /\ M \in Seq(Entries) /\ Len(M) = Len(L) + 1 /\ Len(L) \in Nat
      /\ \A i \in 1..Len(L) : M[i] = L[i]
      /\ \A n \in 0..Len(L) : In(M, n) = In(L, n)
      /\ M[Len(L) + 1].ev = e
      /\ In(M, Len(L) + 1) = Observe(Final(L), e)
      /\ Final(M) = Observe(Final(L), e)
      /\ Final(L) \in Readers /\ Shape(Final(L))
      /\ Final(M) \in Readers
  BY <1>0, Appended DEF M
<1>2. LogOK(M) BY <1>0, AppendOK DEF Follows, M
<1>3. acked \in 0..Len(L) /\ acked \in 0..Len(M) BY <1>1 DEF Kept
<1>4. Honest(M)
  <2>1. ASSUME NEW i \in 1..Len(M), NotStarted(M[i].ev)
        PROVE  <<M[i].ev.turn, M[i].ev.step, M[i].ev.call>> \notin ran
    <3>1. CASE i \in 1..Len(L) BY <1>1, <2>1, <3>1 DEF Kept, Honest
    <3>2. CASE i = Len(L) + 1 BY <1>1, <2>1, <3>2 DEF Follows
    <3> QED BY <1>1, <3>1, <3>2
  <2> QED BY <2>1 DEF Honest
<1>5. ASSUME phase # "seeding" PROVE SentKept(M) /\ RanKept(M)
  <2>0. SentKept(L) /\ RanKept(L) BY <1>5 DEF Kept
  <2>1. ASSUME NEW n \in acked..Len(M), n # Len(L) + 1
        PROVE  n \in acked..Len(L) /\ In(M, n) = In(L, n)
    BY <1>1, <1>3, <2>1
  <2>2. Len(L) \in acked..Len(L) /\ Final(L) = In(L, Len(L)) BY <1>1, <1>3 DEF Final
  <2>3. ASSUME NEW s \in sent, NEW n \in acked..Len(M) PROVE Reached(s, In(M, n))
    <3>0. s \in Nat \X Nat BY DEF TypeOK
    <3>1. CASE n = Len(L) + 1
      <4>1. Reached(s, Final(L)) BY <2>0, <2>2 DEF SentKept
      <4> QED BY <1>0, <1>1, <3>0, <3>1, <4>1, ReachedGrows
    <3>2. CASE n # Len(L) + 1 BY <2>0, <2>1, <3>2 DEF SentKept
    <3> QED BY <3>1, <3>2
  <2>4. ASSUME NEW x \in ran
        PROVE  CalledBy(M, acked, x) \/ \A n \in acked..Len(M) : Past(x[1], In(M, n))
    <3>0. x[1] \in Nat BY DEF TypeOK
    <3>1. CASE CalledBy(L, acked, x)
      <4>1. \A i \in 1..acked : M[i] = L[i] BY <1>1, <1>3
      <4> QED BY <3>1, <4>1 DEF CalledBy
    <3>2. CASE \A n \in acked..Len(L) : Past(x[1], In(L, n))
      <4>1. Past(x[1], Observe(Final(L), e)) BY <1>0, <1>1, <2>2, <3>0, <3>2, PastGrows
      <4>2. ASSUME NEW n \in acked..Len(M) PROVE Past(x[1], In(M, n))
        <5>1. CASE n = Len(L) + 1 BY <1>1, <4>1, <5>1
        <5>2. CASE n # Len(L) + 1 BY <2>1, <3>2, <5>2
        <5> QED BY <5>1, <5>2
      <4> QED BY <4>2
    <3> QED BY <2>0, <3>1, <3>2 DEF RanKept
  <2> QED BY <2>3, <2>4 DEF SentKept, RanKept
<1>6. ASSUME phase = "seeding" PROVE SeedKept(M)
  <2>1. SeedKept(L) BY <1>6 DEF Kept
  <2>2. Final(L).last <= Final(M).last
    <3>1. CASE e.type = "turn/start"
      BY <1>0, <1>1, <3>1 DEF Observe, Allowed, Shape, Readers, Events
    <3>2. CASE e.type # "turn/start"
      <4>1. Final(M).last = Final(L).last BY <1>1, <3>2 DEF Observe
      <4> QED BY <1>1, <4>1 DEF Readers
    <3> QED BY <3>1, <3>2
  <2>3. ASSUME NEW t \in Nat, t <= Final(L).last PROVE t <= Final(M).last
    BY <1>1, <2>2, <2>3 DEF Readers
  <2>4. \A s \in sent : s[1] \in Nat BY DEF TypeOK
  <2>5. \A x \in ran : x[1] \in Nat BY DEF TypeOK
  <2> QED BY <1>1, <2>1, <2>3, <2>4, <2>5 DEF SeedKept
<1> QED BY <1>2, <1>3, <1>4, <1>5, <1>6 DEF Kept, M

LEMMA PrefixKept ==
    ASSUME Kept(log), NEW k \in acked..Len(log), phase # "seeding"
    PROVE  Kept(SubSeq(log, 1, k))
<1> DEFINE P == SubSeq(log, 1, k)
<1>0. LogOK(log) /\ acked \in 0..Len(log) BY DEF Kept
<1>1. Len(log) \in Nat BY <1>0, LenProperties DEF LogOK
<1>2. k \in 0..Len(log) BY <1>0, <1>1
<1>3. /\ LogOK(P) /\ Len(P) = k
      /\ \A i \in 1..k : P[i] = log[i]
      /\ \A n \in 0..k : In(P, n) = In(log, n)
  BY <1>0, <1>2, Prefix
<1> HIDE DEF P
<1>4. acked \in 0..k BY <1>0, <1>1
<1>5. Honest(P)
  <2>1. \A i \in 1..k : i \in 1..Len(log) BY <1>1, <1>2
  <2> QED BY <1>3, <2>1 DEF Honest, Kept
<1>6. \A n \in acked..k : n \in acked..Len(log) /\ In(P, n) = In(log, n)
  BY <1>0, <1>1, <1>2, <1>3
<1>7. SentKept(P) BY <1>3, <1>6 DEF SentKept, Kept
<1>8. RanKept(P)
  <2>1. ASSUME NEW x \in ran
        PROVE  CalledBy(P, acked, x) \/ \A n \in acked..Len(P) : Past(x[1], In(P, n))
    <3>1. \A i \in 1..acked : P[i] = log[i] BY <1>1, <1>2, <1>3, <1>4
    <3>2. CASE CalledBy(log, acked, x) BY <3>1, <3>2 DEF CalledBy
    <3>3. CASE \A n \in acked..Len(log) : Past(x[1], In(log, n)) BY <1>3, <1>6, <3>3
    <3> QED BY <3>2, <3>3 DEF Kept, RanKept
  <2> QED BY <2>1 DEF RanKept
<1> QED BY <1>3, <1>4, <1>5, <1>7, <1>8 DEF Kept, P

LEMMA SameKept ==
    ASSUME NEW L, Kept(L), log' = L, UNCHANGED <<acked, phase, loaded, sent, ran>>
    PROVE  Kept(log)'
<1>1. LogOK(log') BY DEF Kept
<1>2. Honest(log)' BY DEF Kept, Honest
<1>3. SentKept(log)' \/ phase' = "seeding" BY DEF Kept, SentKept
<1>4. RanKept(log)' \/ phase' = "seeding" BY DEF Kept, RanKept
<1>5. SeedKept(log)' \/ phase' # "seeding" BY DEF Kept, SeedKept
<1>6. acked' \in 0..Len(log') BY DEF Kept
<1> QED BY <1>1, <1>2, <1>3, <1>4, <1>5, <1>6 DEF Kept

(* What an action that appends one event does to the log.                  *)
LEMMA PutKept ==
    ASSUME TypeOK, Kept(log), NEW e, Follows(log, e), Put(e),
           UNCHANGED <<acked, phase, loaded, sent, ran>>
    PROVE  /\ Kept(log)'
           /\ log' \in Seq(Entries) /\ Len(log') = Len(log) + 1 /\ Len(log) \in Nat
           /\ \A i \in 1..Len(log) : log'[i] = log[i]
           /\ log'[Len(log) + 1].ev = e
           /\ Reader' = Observe(Reader, e)
           /\ Reader \in Readers /\ Shape(Reader) /\ Reader' \in Readers
           /\ e \in Events /\ Allowed(Reader, e)
<1>1. Reader = Final(log) BY DEF Reader, ReadTo, Final, In
<1>2. Reader' = Final(log') BY DEF Reader, ReadTo, Final, In
<1>3. log' = Append(log, Entry(log, e)) BY <1>1 DEF Put, Entry
<1>4. Kept(Append(log, Entry(log, e))) BY AppendKept
<1>5. Kept(log)' BY <1>3, <1>4, SameKept
<1>6. LogOK(log) /\ e \in Events /\ Allowed(Final(log), e) BY DEF Kept, Follows
<1> QED BY <1>1, <1>2, <1>3, <1>5, <1>6, Appended

LEMMA ForkKept ==
    ASSUME TypeOK, Kept(log), NEW n \in 1..Len(log), Fork(n)
    PROVE  /\ Kept(log)'
           /\ log' \in Seq(Entries) /\ Len(log') = n + 1 /\ Reader' \in Readers
<1> DEFINE P == SubSeq(log, 1, n)
           M == Append(P, Entry(P, Marker))
<1>0. LogOK(log) /\ n \in 0..Len(log) BY DEF Kept
<1>1. /\ LogOK(P) /\ Len(P) = n
      /\ \A i \in 1..n : P[i] = log[i]
      /\ \A k \in 0..n : In(P, k) = In(log, k)
  BY <1>0, Prefix
<1> HIDE DEF P
<1>2. Final(P) = ReadTo(n) BY <1>1 DEF Final, In, ReadTo
<1>3. Marker \in Events /\ Allowed(Final(P), Marker) /\ ~NotStarted(Marker)
  BY RepairConstants DEF RepairConstants, Marker, Boundary, Event, Events, Types, Allowed, NotStarted
<1>4. /\ M \in Seq(Entries) /\ Len(M) = n + 1
      /\ \A i \in 1..n : M[i] = P[i]
      /\ M[n + 1].ev = Marker
      /\ Final(M) = Observe(Final(P), Marker)
      /\ Final(P) \in Readers /\ Final(M) \in Readers
  BY <1>1, <1>3, Appended
<1>5. LogOK(M)
  <2>1. Marker.type # "assistant/message" BY DEF Marker, Boundary, Event
  <2> QED BY <1>1, <1>3, <2>1, AppendOK
<1>6. Entry(P, Marker) = [ev |-> Marker, at |-> ReadTo(n)]
  BY <1>2, <1>4, MarkerKeeps DEF Entry
<1>7. log' = P \o <<Entry(P, Marker)>> BY <1>6 DEF Fork, P
<1>8. Entry(P, Marker) \in Entries BY <1>3, <1>4 DEF Entry, Entries, Final, In
<1>9. log' = M BY <1>1, <1>7, <1>8 DEF LogOK
<1> HIDE DEF M
<1>10. Reader' = Final(log') BY DEF Reader, ReadTo, Final, In
<1>11. acked' = 0 /\ loaded' = 0 /\ phase' = "seeding" BY DEF Fork
<1>12. sent' \subseteq sent /\ ran' \subseteq ran BY DEF Fork
<1>13. Honest(log)'
  <2>1. ASSUME NEW i \in 1..Len(M), NotStarted(M[i].ev)
        PROVE  <<M[i].ev.turn, M[i].ev.step, M[i].ev.call>> \notin ran
    <3>1. i # n + 1 BY <1>3, <1>4, <2>1
    <3>2. i \in 1..n /\ i \in 1..Len(log) BY <1>0, <1>4, <3>1
    <3>3. M[i] = log[i] BY <1>1, <1>4, <3>2
    <3> QED BY <2>1, <3>2, <3>3 DEF Kept, Honest
  <2> QED BY <1>9, <1>12, <2>1 DEF Honest
<1>14. Final(M).last = In(log, n).last
  <2>1. Final(M) = Final(P) BY <1>4, MarkerKeeps
  <2> QED BY <1>1, <2>1 DEF Final
<1>15. \A t : (\E u : <<t, u>> \in Opened(n)) => t <= Final(M).last
  <2>1. Numbered(log) BY <1>0 DEF LogOK
  <2>2. \A j \in 1..n : log[j].ev.turn <= Final(M).last BY <1>14, <2>1 DEF Numbered
  <2> QED BY <2>2 DEF Opened
<1>16. SeedKept(log)'
  <2>1. ASSUME NEW s \in sent' PROVE s[1] <= Final(M).last
    <3>1. s \in Opened(n) /\ s \in Nat \X Nat BY <2>1 DEF Fork, TypeOK
    <3>2. s = <<s[1], s[2]>> BY <3>1
    <3> QED BY <1>15, <3>1, <3>2
  <2>2. ASSUME NEW x \in ran' PROVE x[1] <= Final(M).last
    <3>1. <<x[1], x[2]>> \in Opened(n) BY <2>2 DEF Fork
    <3> QED BY <1>15, <3>1
  <2> QED BY <1>4, <1>9, <1>11, <2>1, <2>2 DEF SeedKept
<1>17. LogOK(log)' BY <1>5, <1>9
<1>18. acked' \in 0..Len(log') BY <1>4, <1>9, <1>11
<1>19. Kept(log)' BY <1>11, <1>13, <1>16, <1>17, <1>18 DEF Kept
<1> QED BY <1>4, <1>9, <1>10, <1>19
-----------------------------------------------------------------------------
(* The invariant over each action.                                         *)

LEMMA InitInv == Init => IInv
<1> SUFFICES ASSUME Init PROVE IInv OBVIOUS
<1>1. log = <<>> /\ Len(log) = 0 /\ log \in Seq(Entries) BY DEF Init
<1>2. Reader = Unread BY <1>1 DEF Reader, ReadTo
<1>3. TypeOK BY <1>1, RepairConstants DEF RepairConstants, Init, TypeOK, Entries
<1>4. LogOK(log) BY <1>1 DEF LogOK, Chained, Numbered, Truthful
<1>5. Kept(log)
  <2>1. Honest(log) BY <1>1 DEF Honest
  <2>2. SentKept(log) /\ RanKept(log) BY DEF Init, SentKept, RanKept
  <2> QED BY <1>1, <1>4, <2>1, <2>2 DEF Init, Kept
<1>6. Resting BY <1>2 DEF Resting, Init, Unread
<1>7. Batched BY DEF Batched, Init
<1>8. Running BY DEF Running, Init
<1> QED BY <1>3, <1>5, <1>6, <1>7, <1>8 DEF IInv

LEMMA ReaderType ==
    ASSUME IInv
    PROVE  Reader \in Readers /\ Shape(Reader) /\ Len(log) \in Nat /\ Reader = Final(log)
           /\ Reader.last \in Nat /\ Reader.turn \in Nat /\ Reader.step \in Nat /\ Reader.steps \in Nat
           /\ \A c \in CallIds : Reader.pending[c] \in {"none", "requested", "started"}
<1>1. Reader = Final(log) BY DEF Reader, ReadTo, Final, In
<1>2. log \in Seq(Entries) /\ Chained(log) BY DEF IInv, Kept, LogOK
<1>3. Len(log) \in Nat BY <1>2, LenProperties
<1>4. Reader \in Readers /\ Shape(Reader) BY <1>1, <1>2, <1>3, InOK DEF Final
<1> QED BY <1>1, <1>3, <1>4 DEF Readers

LEMMA BoundaryEvent ==
    ASSUME NEW t \in {"turn/start", "turn/end", "step/start", "step/end"}, NEW n \in Nat, NEW s \in Nat,
           NEW by \in {"agent", "interrupted", "forked"}
    PROVE  Boundary(t, n, s, by) \in Events /\ ~NotStarted(Boundary(t, n, s, by))
           /\ Boundary(t, n, s, by).type = t /\ Boundary(t, n, s, by).turn = n
           /\ Boundary(t, n, s, by).step = s
BY RepairConstants DEF RepairConstants, Boundary, Event, Events, Types, NotStarted

LEMMA BeginTurnInv == ASSUME IInv, BeginTurn PROVE IInv'
<1> DEFINE e == Boundary("turn/start", Reader.last + 1, 0, "agent")
<1>0. TypeOK /\ Kept(log) /\ Resting /\ Batched BY DEF IInv
<1>1. Reader.turn = 0 BY <1>0 DEF BeginTurn, At, Resting
<1>2. /\ e \in Events /\ ~NotStarted(e) /\ e.type = "turn/start"
      /\ e.turn = Reader.last + 1 /\ e.step = 0
  <2>1. Reader.last + 1 \in Nat /\ 0 \in Nat BY ReaderType
  <2> QED BY <2>1, BoundaryEvent
<1> HIDE DEF e
<1>3. Follows(log, e) BY <1>1, <1>2, ReaderType DEF Follows, Allowed
<1>4. Put(e) BY DEF BeginTurn, e
<1>5. /\ Kept(log)' /\ log' \in Seq(Entries) /\ Len(log') = Len(log) + 1 /\ Len(log) \in Nat
      /\ Reader' = Observe(Reader, e) /\ Reader' \in Readers
  BY <1>0, <1>3, <1>4, PutKept DEF BeginTurn, histVars
<1>6. TypeOK' BY <1>0, <1>5 DEF BeginTurn, At, histVars, TypeOK, Entries
<1>7. Resting'
  <2>1. Reader'.turn # 0 /\ Reader'.step = 0 BY <1>2, <1>5, ReaderType DEF Observe
  <2> QED BY <2>1 DEF Resting, BeginTurn, At
<1>8. Batched' BY <1>0 DEF Batched, BeginTurn, At
<1>9. Running' BY DEF Running, BeginTurn
<1> QED BY <1>5, <1>6, <1>7, <1>8, <1>9 DEF IInv

LEMMA BeginStepInv == ASSUME IInv, BeginStep PROVE IInv'
<1> DEFINE e == Boundary("step/start", Reader.turn, Reader.steps + 1, "agent")
<1>0. TypeOK /\ Kept(log) /\ Resting /\ Batched BY DEF IInv
<1>1. Reader.turn # 0 /\ Reader.step = 0 BY <1>0 DEF BeginStep, At, Resting
<1>2. /\ e \in Events /\ ~NotStarted(e) /\ e.type = "step/start"
      /\ e.turn = Reader.turn /\ e.step = Reader.steps + 1
  <2>1. Reader.steps + 1 \in Nat /\ Reader.turn \in Nat BY ReaderType
  <2> QED BY <2>1, BoundaryEvent
<1> HIDE DEF e
<1>3. Follows(log, e) BY <1>1, <1>2, ReaderType DEF Follows, Allowed
<1>4. Put(e) BY DEF BeginStep, e
<1>5. /\ Kept(log)' /\ log' \in Seq(Entries) /\ Len(log') = Len(log) + 1 /\ Len(log) \in Nat
      /\ \A i \in 1..Len(log) : log'[i] = log[i]
      /\ log'[Len(log) + 1].ev = e
      /\ Reader' = Observe(Reader, e) /\ Reader' \in Readers
  BY <1>0, <1>3, <1>4, PutKept DEF BeginStep, histVars
<1>6. TypeOK' BY <1>0, <1>5 DEF BeginStep, At, histVars, TypeOK, Entries
<1>7. Reader'.turn = Reader.turn /\ Reader'.step = Reader.steps + 1
  BY <1>2, <1>5 DEF Observe
<1>8. Reader'.pending = NoCalls
  <2>1. Reader.pending = NoCalls BY <1>1, ReaderType DEF Shape
  <2>2. Reader'.pending = Pending(Reader, e) BY <1>5 DEF Observe
  <2>3. \A c \in CallIds : Pending(Reader, e)[c] = "none" BY <1>2, <2>1 DEF Pending, NoCalls
  <2> QED BY <2>2, <2>3 DEF Pending, NoCalls
<1>9. Resting' BY <1>7, <1>8, ReaderType DEF Resting, BeginStep, At, Answered
<1>10. Batched' BY <1>0 DEF Batched, BeginStep, At
<1>11. ASSUME NEW i \in 1..Len(log'), log'[i].ev.type \in {"tool/call", "tool/result"}
       PROVE  ~Same(log'[i].ev, Reader')
  <2>1. i # Len(log) + 1 BY <1>2, <1>5, <1>11
  <2>2. i \in 1..Len(log) /\ Len(log) \in 1..Len(log) BY <1>5, <2>1
  <2>3. log'[i] = log[i] /\ Numbered(log) /\ Reader = In(log, Len(log))
    BY <1>0, <1>5, <2>2, ReaderType DEF Kept, LogOK, Final
  <2>4. log[i].ev.turn = Reader.turn => log[i].ev.step <= Reader.steps
    BY <1>1, <2>2, <2>3 DEF Numbered
  <2> QED BY <1>7, <2>3, <2>4, ReaderType DEF Same
<1>12. Running' BY <1>11 DEF Running, Uncalled, Unrecovered, NotStarted
<1> QED BY <1>5, <1>6, <1>9, <1>10, <1>12 DEF IInv

LEMMA SendRequestInv == ASSUME IInv, SendRequest PROVE IInv'
<1> DEFINE s == <<Reader.turn, Reader.step>>
<1>0. TypeOK /\ Kept(log) /\ Resting /\ Batched /\ Running BY DEF IInv
<1>1. Reader' = Reader BY DEF SendRequest, Reader, ReadTo
<1>2. Reader.step # 0 /\ Answered BY <1>0 DEF SendRequest, At, Resting
<1>3. TypeOK'
  <2>1. sent' \subseteq Nat \X Nat BY <1>0, ReaderType DEF SendRequest, TypeOK
  <2> QED BY <1>0, <2>1 DEF SendRequest, At, TypeOK
<1>4. Kept(log)'
  <2>1. Reached(s, Reader) BY <1>2, ReaderType DEF Reached, Shape
  <2>2. \A n \in acked..Len(log) : In(log, n) = Reader
    BY ReaderType DEF SendRequest, Checkpointed, Final
  <2>3. phase = "live" /\ SentKept(log) /\ RanKept(log) BY <1>0 DEF SendRequest, At, Kept
  <2>4. SentKept(log)'
    <3>1. ASSUME NEW z \in sent', NEW n \in acked..Len(log) PROVE Reached(z, In(log, n))
      <4>1. CASE z = s BY <2>1, <2>2, <4>1
      <4>2. CASE z \in sent BY <2>3, <4>2 DEF SentKept
      <4> QED BY <4>1, <4>2 DEF SendRequest
    <3> QED BY <3>1 DEF SentKept, SendRequest
  <2>5. RanKept(log)' BY <2>3 DEF RanKept, SendRequest
  <2>6. Honest(log)' BY <1>0 DEF Kept, Honest, SendRequest
  <2>7. LogOK(log') /\ acked' \in 0..Len(log') BY <1>0 DEF Kept, SendRequest
  <2> QED BY <2>3, <2>4, <2>5, <2>6, <2>7 DEF Kept, SendRequest
<1>5. Resting' BY <1>1, <1>2 DEF Resting, SendRequest, At, Answered
<1>6. Batched' BY <1>0 DEF Batched, SendRequest, At
<1>7. Running' BY <1>0, <1>1 DEF Running, Uncalled, Unrecovered, SendRequest, At
<1> QED BY <1>3, <1>4, <1>5, <1>6, <1>7 DEF IInv

LEMMA RetryInv == ASSUME IInv, Retry PROVE IInv'
<1>0. TypeOK /\ Kept(log) /\ Resting /\ Batched /\ Running BY DEF IInv
<1>1. Reader' = Reader BY DEF Retry, Reader, ReadTo
<1>2. TypeOK' BY <1>0 DEF Retry, At, histVars, TypeOK
<1>3. Kept(log)' BY <1>0, SameKept DEF Retry, histVars
<1>4. Resting' BY <1>0, <1>1 DEF Resting, Retry, At, Answered
<1>5. Batched' BY <1>0 DEF Batched, Retry, At
<1>6. Running' BY <1>0, <1>1 DEF Running, Uncalled, Unrecovered, Retry, At
<1> QED BY <1>2, <1>3, <1>4, <1>5, <1>6 DEF IInv

(* An event of the open step.                                              *)
LEMMA StepEvent ==
    ASSUME IInv, Reader.step # 0, NEW t \in {"assistant/message", "tool/call", "tool/result"},
           NEW c \in 0..NumCalls, NEW says \in {"none", "outcome", "unknown", "notStarted"},
           NEW by \in {"agent", "interrupted", "forked"}
    PROVE  LET e == Event(t, Reader.turn, Reader.step, c, says, by) IN
           /\ e \in Events /\ e.type = t /\ e.call = c /\ e.says = says /\ e.by = by
           /\ e.turn = Reader.turn /\ e.step = Reader.step /\ Same(e, Reader)
           /\ \A r : r.turn = Reader.turn /\ r.step = Reader.step =>
                 Observe(r, e).turn = r.turn /\ Observe(r, e).step = r.step
BY ReaderType DEF Event, Events, Types, Same, Observe

LEMMA ReplyInv == ASSUME IInv, NEW n \in 0..NumCalls, Reply(n) PROVE IInv'
<1> DEFINE e == Event("assistant/message", Reader.turn, Reader.step, n, "none", "agent")
<1>0. TypeOK /\ Kept(log) /\ Resting /\ Batched /\ Running BY DEF IInv
<1>1. Reader.step # 0 /\ Reader.pending = NoCalls BY <1>0 DEF Reply, At, Resting, Answered
<1>2. /\ e \in Events /\ ~NotStarted(e) /\ e.type = "assistant/message" /\ Same(e, Reader)
      /\ Observe(Reader, e).turn = Reader.turn /\ Observe(Reader, e).step = Reader.step
  BY <1>1, StepEvent DEF NotStarted
<1> HIDE DEF e
<1>3. Uncalled(log, Reader) BY <1>0 DEF Running, Reply, At
<1>4. Follows(log, e) BY <1>1, <1>2, <1>3, ReaderType DEF Follows, Allowed
<1>5. Put(e) BY DEF Reply, e
<1>6. /\ Kept(log)' /\ log' \in Seq(Entries) /\ Len(log') = Len(log) + 1 /\ Len(log) \in Nat
      /\ \A i \in 1..Len(log) : log'[i] = log[i]
      /\ log'[Len(log) + 1].ev = e
      /\ Reader' = Observe(Reader, e) /\ Reader' \in Readers
  BY <1>0, <1>4, <1>5, PutKept DEF Reply, histVars
<1>7. TypeOK' BY <1>0, <1>6 DEF Reply, At, histVars, TypeOK, Entries
<1>8. Resting' BY <1>1, <1>2, <1>6 DEF Resting, Reply, At
<1>9. Batched' BY <1>0 DEF Batched, Reply, At
<1>10. Running'
  <2>1. Unrecovered(log, Reader) BY <1>0 DEF Running, Reply, At
  <2>2. ASSUME NEW i \in 1..Len(log'), NotStarted(log'[i].ev) PROVE ~Same(log'[i].ev, Reader')
    <3>1. i \in 1..Len(log) BY <1>2, <1>6, <2>2
    <3> QED BY <1>2, <1>6, <2>1, <2>2, <3>1 DEF Unrecovered, Same
  <2> QED BY <2>2 DEF Running, Unrecovered, Reply
<1> QED BY <1>6, <1>7, <1>8, <1>9, <1>10 DEF IInv

LEMMA RecordCallInv == ASSUME IInv, NEW c \in CallIds, RecordCall(c) PROVE IInv'
<1> DEFINE e == Event("tool/call", Reader.turn, Reader.step, c, "none", "agent")
<1>0. TypeOK /\ Kept(log) /\ Resting /\ Batched /\ Running BY DEF IInv
<1>1. Reader.step # 0 /\ Reader.pending[c] = "requested"
  BY <1>0 DEF RecordCall, At, Resting, Requested
<1>2. /\ e \in Events /\ ~NotStarted(e) /\ e.type = "tool/call" /\ Same(e, Reader) /\ e.call = c
      /\ Observe(Reader, e).turn = Reader.turn /\ Observe(Reader, e).step = Reader.step
  <2>1. c \in 0..NumCalls BY RepairConstants DEF RepairConstants, CallIds
  <2> QED BY <1>1, <2>1, StepEvent DEF NotStarted
<1> HIDE DEF e
<1>4. Follows(log, e) BY <1>1, <1>2, ReaderType DEF Follows, Allowed
<1>5. Put(e) BY DEF RecordCall, e
<1>6. /\ Kept(log)' /\ log' \in Seq(Entries) /\ Len(log') = Len(log) + 1 /\ Len(log) \in Nat
      /\ \A i \in 1..Len(log) : log'[i] = log[i]
      /\ log'[Len(log) + 1].ev = e
      /\ Reader' = Observe(Reader, e) /\ Reader' \in Readers
  BY <1>0, <1>4, <1>5, PutKept DEF RecordCall, histVars
<1>7. TypeOK'
  <2>1. body' \in [CallIds -> {"idle", "recorded", "running", "settled"}]
    BY <1>0 DEF RecordCall, TypeOK
  <2>2. callSeq' \in [CallIds -> 0..Len(log')]
    <3>1. \A d \in CallIds : callSeq[d] \in 0..Len(log') BY <1>0, <1>6 DEF TypeOK
    <3>2. Len(log) + 1 \in 0..Len(log') BY <1>6
    <3> QED BY <1>0, <3>1, <3>2 DEF RecordCall, TypeOK
  <2> QED BY <1>0, <1>6, <2>1, <2>2 DEF RecordCall, At, histVars, TypeOK, Entries
<1>8. Resting' BY <1>1, <1>2, <1>6 DEF Resting, RecordCall, At
<1>9. Batched'
  <2>1. Reader'.turn = Reader.turn /\ Reader'.step = Reader.step BY <1>2, <1>6
  <2>2. Reader'.pending = Pending(Reader, e) BY <1>6 DEF Observe
  <2>3. ASSUME NEW d \in CallIds, body'[d] # "idle"
        PROVE  /\ Reader'.pending[d] = "started" /\ callSeq'[d] \in 1..Len(log')
               /\ log'[callSeq'[d]].ev = Event("tool/call", Reader.turn, Reader.step, d, "none", "agent")
    <3>1. CASE d = c
      <4>1. Pending(Reader, e)[c] = "started" BY <1>1, <1>2 DEF Pending
      <4>2. callSeq'[c] = Len(log) + 1 BY <1>0 DEF RecordCall, TypeOK
      <4> QED BY <1>6, <2>2, <3>1, <4>1, <4>2 DEF e
    <3>2. CASE d # c
      <4>1. body[d] # "idle" /\ callSeq'[d] = callSeq[d]
        BY <1>0, <2>3, <3>2 DEF RecordCall, TypeOK
      <4>2. Reader.pending[d] = "started" /\ callSeq[d] \in 1..Len(log)
            /\ log[callSeq[d]].ev = Event("tool/call", Reader.turn, Reader.step, d, "none", "agent")
        BY <1>0, <4>1 DEF Batched, Started
      <4>3. Pending(Reader, e)[d] = "started" BY <1>2, <3>2, <4>2 DEF Pending
      <4> QED BY <1>6, <2>2, <4>1, <4>2, <4>3
    <3> QED BY <3>1, <3>2
  <2> QED BY <2>1, <2>3 DEF Batched, Started, RecordCall, At
<1>10. Running'
  <2>1. Unrecovered(log, Reader) BY <1>0 DEF Running, RecordCall, At
  <2>2. ASSUME NEW i \in 1..Len(log'), NotStarted(log'[i].ev) PROVE ~Same(log'[i].ev, Reader')
    <3>1. i \in 1..Len(log) BY <1>2, <1>6, <2>2
    <3> QED BY <1>2, <1>6, <2>1, <2>2, <3>1 DEF Unrecovered, Same
  <2> QED BY <2>2 DEF Running, Unrecovered, RecordCall, At
<1> QED BY <1>6, <1>7, <1>8, <1>9, <1>10 DEF IInv

LEMMA RunBodyInv == ASSUME IInv, NEW c \in CallIds, RunBody(c) PROVE IInv'
<1> DEFINE x == <<Reader.turn, Reader.step, c>>
<1>0. TypeOK /\ Kept(log) /\ Resting /\ Batched /\ Running BY DEF IInv
<1>1. Reader' = Reader BY DEF RunBody, Reader, ReadTo
<1>2. TypeOK'
  <2>1. ran' \subseteq Nat \X Nat \X CallIds BY <1>0, ReaderType DEF RunBody, TypeOK
  <2>2. body' \in [CallIds -> {"idle", "recorded", "running", "settled"}]
    BY <1>0 DEF RunBody, TypeOK
  <2> QED BY <1>0, <2>1, <2>2 DEF RunBody, At, TypeOK
<1>3. /\ callSeq[c] \in 1..acked
      /\ log[callSeq[c]].ev = Event("tool/call", Reader.turn, Reader.step, c, "none", "agent")
  <2>1. body[c] # "idle" /\ callSeq[c] <= acked BY DEF RunBody, CallStored
  <2>2. callSeq[c] \in 1..Len(log)
        /\ log[callSeq[c]].ev = Event("tool/call", Reader.turn, Reader.step, c, "none", "agent")
    BY <1>0, <2>1 DEF Batched
  <2>3. acked \in Nat BY <1>0, ReaderType DEF TypeOK
  <2> QED BY <2>1, <2>2, <2>3
<1>4. CalledBy(log, acked, x) BY <1>3 DEF CalledBy, Event
<1>5. Unrecovered(log, Reader) BY <1>0 DEF Running, RunBody, At
<1>6. Kept(log)'
  <2>1. Honest(log)'
    <3>1. ASSUME NEW i \in 1..Len(log), NotStarted(log[i].ev)
          PROVE  <<log[i].ev.turn, log[i].ev.step, log[i].ev.call>> \notin ran'
      <4>1. ~Same(log[i].ev, Reader) BY <1>5, <3>1 DEF Unrecovered
      <4>2. <<log[i].ev.turn, log[i].ev.step, log[i].ev.call>> # x BY <4>1 DEF Same
      <4>3. <<log[i].ev.turn, log[i].ev.step, log[i].ev.call>> \notin ran
        BY <1>0, <3>1 DEF Kept, Honest
      <4> QED BY <4>2, <4>3 DEF RunBody
    <3> QED BY <3>1 DEF Honest, RunBody
  <2>2. phase = "live" /\ SentKept(log) /\ RanKept(log) BY <1>0 DEF RunBody, At, Kept
  <2>3. RanKept(log)' BY <1>4, <2>2 DEF RanKept, RunBody
  <2>4. SentKept(log)' BY <2>2 DEF SentKept, RunBody
  <2>5. LogOK(log') /\ acked' \in 0..Len(log') BY <1>0 DEF Kept, RunBody
  <2> QED BY <2>1, <2>2, <2>3, <2>4, <2>5 DEF Kept, RunBody
<1>7. Resting' BY <1>0, <1>1 DEF Resting, RunBody, At, Answered
<1>8. Batched'
  <2>1. \A d \in CallIds : body'[d] # "idle" => body[d] # "idle" BY <1>0 DEF RunBody, TypeOK
  <2> QED BY <1>0, <1>1, <2>1 DEF Batched, RunBody, Started
<1>9. Running' BY <1>0, <1>1 DEF Running, Uncalled, Unrecovered, RunBody, At
<1> QED BY <1>2, <1>6, <1>7, <1>8, <1>9 DEF IInv

LEMMA SettleCallInv == ASSUME IInv, NEW c \in CallIds, SettleCall(c) PROVE IInv'
<1>0. TypeOK /\ Kept(log) /\ Resting /\ Batched /\ Running BY DEF IInv
<1>1. Reader' = Reader BY DEF SettleCall, Reader, ReadTo
<1>2. TypeOK'
  <2>1. body' \in [CallIds -> {"idle", "recorded", "running", "settled"}]
    BY <1>0 DEF SettleCall, TypeOK
  <2> QED BY <1>0, <2>1 DEF SettleCall, At, histVars, TypeOK
<1>3. Kept(log)' BY <1>0, SameKept DEF SettleCall, histVars
<1>4. Resting' BY <1>0, <1>1 DEF Resting, SettleCall, At, Answered
<1>5. Batched'
  <2>1. \A d \in CallIds : body'[d] # "idle" => body[d] # "idle" BY <1>0 DEF SettleCall, TypeOK
  <2> QED BY <1>0, <1>1, <2>1 DEF Batched, SettleCall, Started
<1>6. Running' BY <1>0, <1>1 DEF Running, Uncalled, Unrecovered, SettleCall, At
<1> QED BY <1>2, <1>3, <1>4, <1>5, <1>6 DEF IInv

LEMMA CommitCallInv == ASSUME IInv, NEW c \in CallIds, CommitCall(c) PROVE IInv'
<1> DEFINE e == Event("tool/result", Reader.turn, Reader.step, c, "outcome", "agent")
<1>0. TypeOK /\ Kept(log) /\ Resting /\ Batched /\ Running BY DEF IInv
<1>1. Reader.step # 0 /\ Reader.pending[c] # "none"
  BY <1>0 DEF CommitCall, At, Resting, FirstOpen
<1>2. /\ e \in Events /\ ~NotStarted(e) /\ e.type = "tool/result" /\ Same(e, Reader) /\ e.call = c
      /\ Observe(Reader, e).turn = Reader.turn /\ Observe(Reader, e).step = Reader.step
  <2>1. c \in 0..NumCalls BY RepairConstants DEF RepairConstants, CallIds
  <2> QED BY <1>1, <2>1, StepEvent DEF NotStarted
<1> HIDE DEF e
<1>4. Follows(log, e) BY <1>1, <1>2, ReaderType DEF Follows, Allowed
<1>5. Put(e) BY DEF CommitCall, e
<1>6. /\ Kept(log)' /\ log' \in Seq(Entries) /\ Len(log') = Len(log) + 1 /\ Len(log) \in Nat
      /\ \A i \in 1..Len(log) : log'[i] = log[i]
      /\ log'[Len(log) + 1].ev = e
      /\ Reader' = Observe(Reader, e) /\ Reader' \in Readers
  BY <1>0, <1>4, <1>5, PutKept DEF CommitCall, histVars
<1>7. TypeOK'
  <2>1. body' \in [CallIds -> {"idle", "recorded", "running", "settled"}]
    BY <1>0 DEF CommitCall, TypeOK
  <2>2. callSeq' \in [CallIds -> 0..Len(log')]
    <3>1. \A d \in CallIds : callSeq[d] \in 0..Len(log') BY <1>0, <1>6 DEF TypeOK
    <3>2. 0 \in 0..Len(log') BY <1>6
    <3> QED BY <1>0, <3>1, <3>2 DEF CommitCall, TypeOK
  <2> QED BY <1>0, <1>6, <2>1, <2>2 DEF CommitCall, At, histVars, TypeOK, Entries
<1>8. Resting' BY <1>1, <1>2, <1>6 DEF Resting, CommitCall, At
<1>9. Batched'
  <2>1. Reader'.turn = Reader.turn /\ Reader'.step = Reader.step BY <1>2, <1>6
  <2>2. Reader'.pending = Pending(Reader, e) BY <1>6 DEF Observe
  <2>3. ASSUME NEW d \in CallIds, body'[d] # "idle"
        PROVE  /\ Reader'.pending[d] = "started" /\ callSeq'[d] \in 1..Len(log')
               /\ log'[callSeq'[d]].ev = Event("tool/call", Reader.turn, Reader.step, d, "none", "agent")
    <3>1. d # c /\ body[d] # "idle" /\ callSeq'[d] = callSeq[d]
      BY <1>0, <2>3 DEF CommitCall, TypeOK
    <3>2. Reader.pending[d] = "started" /\ callSeq[d] \in 1..Len(log)
          /\ log[callSeq[d]].ev = Event("tool/call", Reader.turn, Reader.step, d, "none", "agent")
      BY <1>0, <3>1 DEF Batched, Started
    <3>3. Pending(Reader, e)[d] = "started" BY <1>2, <3>1, <3>2 DEF Pending
    <3> QED BY <1>6, <2>2, <3>1, <3>2, <3>3
  <2> QED BY <2>1, <2>3 DEF Batched, Started, CommitCall, At
<1>10. Running'
  <2>1. Unrecovered(log, Reader) BY <1>0 DEF Running, CommitCall, At
  <2>2. ASSUME NEW i \in 1..Len(log'), NotStarted(log'[i].ev) PROVE ~Same(log'[i].ev, Reader')
    <3>1. i \in 1..Len(log) BY <1>2, <1>6, <2>2
    <3> QED BY <1>2, <1>6, <2>1, <2>2, <3>1 DEF Unrecovered, Same
  <2> QED BY <2>2 DEF Running, Unrecovered, CommitCall, At
<1> QED BY <1>6, <1>7, <1>8, <1>9, <1>10 DEF IInv

LEMMA SkipCallInv == ASSUME IInv, NEW c \in CallIds, SkipCall(c) PROVE IInv'
<1> DEFINE call == Event("tool/call", Reader.turn, Reader.step, c, "none", "agent")
           result == Event("tool/result", Reader.turn, Reader.step, c, "outcome", "agent")
           called == Observe(Reader, call)
           answered == Observe(called, result)
           L1 == Append(log, Entry(log, call))
           L2 == Append(L1, Entry(L1, result))
<1>0. TypeOK /\ Kept(log) /\ Resting /\ Batched /\ Running BY DEF IInv
<1>1. Reader.step # 0 /\ Reader.pending[c] = "requested" /\ LogOK(log)
  BY <1>0 DEF SkipCall, Resting, Requested, Kept
<1>2. /\ call \in Events /\ ~NotStarted(call) /\ call.type = "tool/call" /\ Same(call, Reader)
      /\ call.call = c
      /\ result \in Events /\ ~NotStarted(result) /\ result.type = "tool/result"
      /\ Same(result, Reader) /\ result.call = c
      /\ called.turn = Reader.turn /\ called.step = Reader.step
      /\ answered.turn = Reader.turn /\ answered.step = Reader.step
  <2>1. c \in 0..NumCalls BY RepairConstants DEF RepairConstants, CallIds
  <2>2. /\ call \in Events /\ call.type = "tool/call" /\ call.call = c /\ Same(call, Reader)
        /\ called.turn = Reader.turn /\ called.step = Reader.step
    BY <1>1, <2>1, StepEvent
  <2>3. /\ result \in Events /\ result.type = "tool/result" /\ result.call = c
        /\ result.says = "outcome" /\ Same(result, Reader)
        /\ answered.turn = called.turn /\ answered.step = called.step
    BY <1>1, <2>1, <2>2, StepEvent
  <2> QED BY <2>2, <2>3 DEF NotStarted
<1> HIDE DEF call, result
<1>3. called.pending[c] = "started" BY <1>1, <1>2 DEF Observe, Pending
<1>4. Follows(log, call) BY <1>1, <1>2, ReaderType DEF Follows, Allowed
<1>5. /\ Kept(L1) /\ L1 \in Seq(Entries) /\ Len(L1) = Len(log) + 1 /\ Len(log) \in Nat
      /\ \A i \in 1..Len(log) : L1[i] = log[i]
      /\ Final(L1) = called
  BY <1>0, <1>1, <1>4, AppendKept, Appended, ReaderType DEF Follows
<1> HIDE DEF L1
<1>6. Follows(L1, result)
  BY <1>1, <1>2, <1>3, <1>5 DEF Follows, Allowed, Same
<1>7. /\ Kept(L2) /\ L2 \in Seq(Entries) /\ Len(L2) = Len(log) + 2
      /\ \A i \in 1..Len(L1) : L2[i] = L1[i]
      /\ Final(L2) = answered
  BY <1>0, <1>5, <1>6, AppendKept, Appended DEF Follows, Kept
<1>8. log' = L2
  <2>1. log' = log \o <<Entry(log, call), Entry(L1, result)>>
    BY <1>5, ReaderType DEF SkipCall, Entry, call, result
  <2>2. L1 = Append(log, Entry(log, call)) BY DEF L1
  <2>3. Entry(log, call) \in Entries
    <3>1. Len(log) + 1 \in 1..Len(L1) BY <1>5
    <3>2. L1[Len(log) + 1] \in Entries BY <1>5, <3>1, ElementOfSeq
    <3>3. L1[Len(log) + 1] = Entry(log, call) BY <1>1, <2>2 DEF LogOK
    <3> QED BY <3>2, <3>3
  <2>4. Entry(L1, result) \in Entries
    <3>1. Len(L1) + 1 \in 1..Len(L2) BY <1>5, <1>7
    <3>2. L2[Len(L1) + 1] \in Entries BY <1>7, <3>1, ElementOfSeq
    <3>3. L2[Len(L1) + 1] = Entry(L1, result) BY <1>5
    <3> QED BY <3>2, <3>3
  <2> HIDE DEF L2
  <2>5. \A s \in Seq(Entries) : \A a, b \in Entries : s \o <<a, b>> = Append(Append(s, a), b)
    OBVIOUS
  <2> QED BY <1>1, <2>1, <2>2, <2>3, <2>4, <2>5 DEF LogOK, L2
<1> HIDE DEF L2
<1>9. Kept(log)' BY <1>7, <1>8, SameKept DEF SkipCall, histVars
<1>10. Reader' = answered
  <2>1. Reader' = Final(log') BY DEF Reader, ReadTo, Final, In
  <2> QED BY <1>7, <1>8, <2>1
<1>11. TypeOK'
  <2>1. callSeq' \in [CallIds -> 0..Len(log')]
    BY <1>0, <1>5, <1>7, <1>8 DEF SkipCall, TypeOK
  <2> QED BY <1>0, <1>5, <1>7, <1>8, <2>1 DEF SkipCall, histVars, TypeOK, Entries
<1>12. Resting' BY <1>1, <1>2, <1>10 DEF Resting, SkipCall
<1>13. Batched'
  <2>1. ASSUME NEW d \in CallIds, body'[d] # "idle"
        PROVE  /\ answered.pending[d] = "started" /\ callSeq'[d] \in 1..Len(log')
               /\ log'[callSeq'[d]].ev = Event("tool/call", Reader.turn, Reader.step, d, "none", "agent")
    <3>1. body[d] # "idle" /\ callSeq'[d] = callSeq[d] BY <2>1 DEF SkipCall
    <3>2. Reader.pending[d] = "started" /\ callSeq[d] \in 1..Len(log)
          /\ log[callSeq[d]].ev = Event("tool/call", Reader.turn, Reader.step, d, "none", "agent")
      BY <1>0, <3>1 DEF Batched, Started
    <3>3. d # c BY <1>1, <3>2
    <3>4. called.pending[d] = "started" BY <1>2, <3>2, <3>3 DEF Observe, Pending
    <3>5. answered.pending[d] = "started" BY <1>2, <3>3, <3>4 DEF Observe, Pending
    <3>6. log'[callSeq[d]] = log[callSeq[d]] BY <1>5, <1>7, <1>8, <3>2
    <3> QED BY <1>5, <1>7, <1>8, <3>1, <3>2, <3>5, <3>6
  <2> QED BY <1>2, <1>10, <2>1 DEF Batched, Started, SkipCall
<1>14. Running' BY DEF Running, SkipCall
<1> QED BY <1>9, <1>11, <1>12, <1>13, <1>14 DEF IInv

LEMMA EndStepInv == ASSUME IInv, EndStep PROVE IInv'
<1> DEFINE e == Boundary("step/end", Reader.turn, Reader.step, "agent")
<1>0. TypeOK /\ Kept(log) /\ Resting /\ Batched BY DEF IInv
<1>1. Reader.step # 0 /\ Reader.pending = NoCalls BY <1>0 DEF EndStep, Resting, Answered
<1>2. /\ e \in Events /\ ~NotStarted(e) /\ e.type = "step/end" /\ Same(e, Reader)
  BY ReaderType, BoundaryEvent DEF Same
<1> HIDE DEF e
<1>3. Follows(log, e) BY <1>1, <1>2, ReaderType DEF Follows, Allowed
<1>4. Put(e) BY DEF EndStep, e
<1>5. /\ Kept(log)' /\ log' \in Seq(Entries) /\ Len(log') = Len(log) + 1 /\ Len(log) \in Nat
      /\ Reader' = Observe(Reader, e) /\ Reader' \in Readers
  BY <1>0, <1>3, <1>4, PutKept DEF EndStep, histVars
<1>6. TypeOK' BY <1>0, <1>5 DEF EndStep, histVars, TypeOK, Entries
<1>7. Reader'.turn # 0 /\ Reader'.step = 0
  <2>1. Reader.turn # 0 BY <1>1, ReaderType DEF Shape
  <2> QED BY <1>2, <1>5, <2>1 DEF Observe
<1>8. Resting' BY <1>0, <1>7 DEF Resting, EndStep
<1>9. Batched'
  <2>1. \A c \in CallIds : body[c] = "idle" BY <1>0, <1>1 DEF Batched, Started, NoCalls
  <2> QED BY <2>1 DEF Batched, EndStep
<1>10. Running' BY DEF Running, EndStep
<1> QED BY <1>5, <1>6, <1>8, <1>9, <1>10 DEF IInv

LEMMA StepThrowsInv == ASSUME IInv, StepThrows PROVE IInv'
<1>0. TypeOK /\ Kept(log) /\ Resting /\ Batched /\ Running BY DEF IInv
<1>1. Reader' = Reader BY DEF StepThrows, Reader, ReadTo
<1>2. TypeOK'
  <2>1. Len(log) \in Nat BY ReaderType
  <2> QED BY <1>0, <2>1 DEF StepThrows, histVars, TypeOK
<1>3. Kept(log)' BY <1>0, SameKept DEF StepThrows, histVars
<1>4. Resting' BY <1>0, <1>1 DEF Resting, StepThrows
<1>5. Batched' BY DEF Batched, StepThrows
<1>6. Running' BY DEF Running, StepThrows
<1> QED BY <1>2, <1>3, <1>4, <1>5, <1>6 DEF IInv

LEMMA EndTurnInv == ASSUME IInv, EndTurn PROVE IInv'
<1> DEFINE e == Boundary("turn/end", Reader.turn, 0, "agent")
<1>0. TypeOK /\ Kept(log) /\ Resting /\ Batched BY DEF IInv
<1>1. Reader.turn # 0 /\ Reader.step = 0 BY <1>0 DEF EndTurn, Resting
<1>2. /\ e \in Events /\ ~NotStarted(e) /\ e.type = "turn/end" /\ e.turn = Reader.turn /\ e.step = 0
  BY ReaderType, BoundaryEvent
<1> HIDE DEF e
<1>3. Follows(log, e) BY <1>1, <1>2, ReaderType DEF Follows, Allowed
<1>4. Put(e) BY DEF EndTurn, e
<1>5. /\ Kept(log)' /\ log' \in Seq(Entries) /\ Len(log') = Len(log) + 1 /\ Len(log) \in Nat
      /\ Reader' = Observe(Reader, e) /\ Reader' \in Readers
  BY <1>0, <1>3, <1>4, PutKept DEF EndTurn, histVars
<1>6. TypeOK' BY <1>0, <1>5 DEF EndTurn, histVars, TypeOK, Entries
<1>7. Reader'.turn = 0 BY <1>2, <1>5 DEF Observe
<1>8. Resting' BY <1>7 DEF Resting, EndTurn
<1>9. Batched' BY <1>0 DEF Batched, EndTurn
<1>10. Running' BY DEF Running, EndTurn
<1> QED BY <1>5, <1>6, <1>8, <1>9, <1>10 DEF IInv

(* A call that the open step requests and that was not recorded has not    *)
(* run: its tool/call would be in every prefix a crash can leave.          *)
LEMMA RequestedNeverRan ==
    ASSUME IInv, phase # "seeding", NEW c \in CallIds, Reader.step # 0,
           Reader.pending[c] = "requested"
    PROVE  <<Reader.turn, Reader.step, c>> \notin ran
<1> DEFINE x == <<Reader.turn, Reader.step, c>>
<1> SUFFICES ASSUME x \in ran PROVE FALSE OBVIOUS
<1>0. Kept(log) BY DEF IInv
<1>1. RanKept(log) /\ LogOK(log) /\ acked \in 0..Len(log) BY <1>0 DEF Kept
<1>2. CASE CalledBy(log, acked, x)
  <2>1. PICK i \in 1..acked : /\ log[i].ev.type = "tool/call" /\ log[i].ev.call = c
                              /\ log[i].ev.turn = Reader.turn /\ log[i].ev.step = Reader.step
    BY <1>2 DEF CalledBy
  <2>2. i \in 1..Len(log) /\ Len(log) \in 1..Len(log) BY <1>1, ReaderType
  <2>3. Reader = In(log, Len(log)) BY ReaderType DEF Final
  <2> QED BY <1>1, <2>1, <2>2, <2>3 DEF LogOK, Truthful, Same
<1>3. CASE \A n \in acked..Len(log) : Past(x[1], In(log, n))
  <2>1. Len(log) \in acked..Len(log) BY <1>1, ReaderType
  <2>2. Past(Reader.turn, Reader) BY <1>3, <2>1, ReaderType DEF Final
  <2> QED BY <2>2, ReaderType DEF Past, Shape
<1> QED BY <1>1, <1>2, <1>3 DEF RanKept

LEMMA CloserPut ==
    ASSUME IInv, NEW cause \in {"interrupted", "forked"}, phase = "seeding" => cause = "forked",
           PutCloser(cause)
    PROVE  \E e : /\ Follows(log, e) /\ Put(e)
                  /\ \/ e.type = "tool/result" /\ ~Answered
                     \/ e.type = "step/end" /\ Answered
                     \/ e.type = "turn/end" /\ Reader.step = 0
<1>0. cause \in {"agent", "interrupted", "forked"} OBVIOUS
<1>1. ASSUME NEW c \in CallIds, FirstOpen(c), Put(Recovered(c, cause))
      PROVE  /\ Follows(log, Recovered(c, cause)) /\ Recovered(c, cause).type = "tool/result"
             /\ ~Answered
  <2> DEFINE e == Recovered(c, cause)
             says == IF Started(c) THEN "unknown" ELSE "notStarted"
  <2>1. Reader.pending[c] # "none" BY <1>1 DEF FirstOpen
  <2>2. Reader.pending # NoCalls BY <2>1 DEF NoCalls
  <2>3. Reader.step # 0 BY <2>2, ReaderType DEF Shape
  <2>4. c \in 0..NumCalls BY RepairConstants DEF RepairConstants, CallIds
  <2>5. e = Event("tool/result", Reader.turn, Reader.step, c, says, cause) BY DEF Recovered
  <2>6. says \in {"none", "outcome", "unknown", "notStarted"} OBVIOUS
  <2> HIDE DEF says
  <2>7. /\ e \in Events /\ e.type = "tool/result" /\ e.call = c /\ e.says = says /\ e.by = cause
        /\ e.turn = Reader.turn /\ e.step = Reader.step /\ Same(e, Reader)
    BY <2>3, <2>4, <2>5, <2>6, StepEvent
  <2>8. NotStarted(e) => <<e.turn, e.step, e.call>> \notin ran
    <3> HIDE DEF e
    <3>1. SUFFICES ASSUME NotStarted(e) PROVE <<Reader.turn, Reader.step, c>> \notin ran
      BY <2>7
    <3>2. phase # "seeding" BY <2>7, <3>1 DEF NotStarted
    <3>3. Reader.pending[c] = "requested"
      <4>1. ~Started(c) BY <2>7, <3>1 DEF NotStarted, says
      <4> QED BY <2>1, <4>1, ReaderType DEF Started
    <3> QED BY <2>3, <3>2, <3>3, RequestedNeverRan
  <2> HIDE DEF e
  <2>9. Follows(log, e) BY <2>1, <2>3, <2>7, <2>8, ReaderType DEF Follows, Allowed
  <2> QED BY <2>2, <2>7, <2>9 DEF Answered, e
<1>2. ASSUME StepClosable, Reader.step # 0
      PROVE  LET e == Boundary("step/end", Reader.turn, Reader.step, cause)
             IN  Follows(log, e) /\ e.type = "step/end" /\ Answered
  <2> DEFINE e == Boundary("step/end", Reader.turn, Reader.step, cause)
  <2>0. Reader.turn \in Nat /\ Reader.step \in Nat BY ReaderType
  <2>1. e \in Events /\ ~NotStarted(e) /\ e.type = "step/end" /\ Same(e, Reader)
    BY <1>0, <2>0, BoundaryEvent DEF Same
  <2> HIDE DEF e
  <2>2. Follows(log, e)
    BY <1>2, <2>1, ReaderType DEF Follows, Allowed, StepClosable, Answered
  <2> QED BY <1>2, <2>1, <2>2 DEF StepClosable, e
<1>3. ASSUME Reader.step = 0, Reader.turn # 0
      PROVE  LET e == Boundary("turn/end", Reader.turn, 0, cause)
             IN  Follows(log, e) /\ e.type = "turn/end"
  <2> DEFINE e == Boundary("turn/end", Reader.turn, 0, cause)
  <2>0. Reader.turn \in Nat /\ 0 \in Nat BY ReaderType
  <2>1. /\ e \in Events /\ ~NotStarted(e) /\ e.type = "turn/end"
        /\ e.turn = Reader.turn /\ e.step = 0
    BY <1>0, <2>0, BoundaryEvent
  <2> HIDE DEF e
  <2>2. Follows(log, e) BY <1>3, <2>1, ReaderType DEF Follows, Allowed
  <2> QED BY <2>1, <2>2 DEF e
<1> QED BY <1>1, <1>2, <1>3 DEF PutCloser

LEMMA CloseFailedStepInv == ASSUME IInv, CloseFailedStep PROVE IInv'
<1>0. TypeOK /\ Kept(log) /\ Resting /\ Batched BY DEF IInv
<1>1. Reader.step # 0 /\ Reader.turn # 0 BY ReaderType DEF CloseFailedStep, Shape
<1>2. PICK e : /\ Follows(log, e) /\ Put(e)
               /\ \/ e.type = "tool/result" /\ ~Answered
                  \/ e.type = "step/end" /\ Answered
                  \/ e.type = "turn/end" /\ Reader.step = 0
  BY CloserPut DEF CloseFailedStep, At
<1>3. /\ Kept(log)' /\ log' \in Seq(Entries) /\ Len(log') = Len(log) + 1 /\ Len(log) \in Nat
      /\ Reader' = Observe(Reader, e) /\ Reader' \in Readers
  BY <1>0, <1>2, PutKept DEF CloseFailedStep, histVars
<1>4. TypeOK' BY <1>0, <1>3 DEF CloseFailedStep, At, histVars, TypeOK, Entries
<1>5. Resting'
  <2>1. CASE Answered
    <3>1. e.type = "step/end" BY <1>1, <1>2, <2>1
    <3>2. Reader'.turn # 0 /\ Reader'.step = 0 BY <1>1, <1>3, <3>1 DEF Observe
    <3> QED BY <2>1, <3>2 DEF Resting, CloseFailedStep, At
  <2>2. CASE ~Answered
    <3>1. e.type = "tool/result" BY <1>1, <1>2, <2>2
    <3>2. Reader'.step # 0 BY <1>1, <1>3, <3>1 DEF Observe
    <3> QED BY <2>2, <3>2 DEF Resting, CloseFailedStep, At
  <2> QED BY <2>1, <2>2
<1>6. Batched' BY <1>0 DEF Batched, CloseFailedStep, At
<1>7. Running' BY DEF Running, CloseFailedStep
<1> QED BY <1>3, <1>4, <1>5, <1>6, <1>7 DEF IInv

(* Where no driver runs, nothing is asked of the batch and the step.       *)
LEMMA DownInv ==
    ASSUME pc' = "idle", \A c \in CallIds : body'[c] = "idle",
           phase' # "live" \/ Reader'.turn = 0
    PROVE  Resting' /\ Batched' /\ Running'
<1>1. Resting' BY DEF Resting
<1>2. Batched' BY DEF Batched
<1>3. Running' BY DEF Running
<1> QED BY <1>1, <1>2, <1>3

LEMMA PersistInv == ASSUME IInv, Persist PROVE IInv'
<1>0. TypeOK /\ Kept(log) /\ Resting /\ Batched /\ Running BY DEF IInv
<1>1. Reader' = Reader BY DEF Persist, Reader, ReadTo
<1>2. acked \in Nat /\ acked' = acked + 1 /\ acked' \in 0..Len(log) /\ Len(log) \in Nat
  BY <1>0, ReaderType DEF Persist, TypeOK
<1>3. TypeOK' BY <1>0, <1>2 DEF Persist, driverVars, histVars, TypeOK
<1>4. Kept(log)'
  <2>1. \A n \in acked'..Len(log) : n \in acked..Len(log) BY <1>2
  <2>2. phase # "seeding" => SentKept(log)' BY <1>0, <2>1 DEF Kept, SentKept, Persist, histVars
  <2>3. phase # "seeding" => RanKept(log)'
    <3>1. ASSUME NEW x \in ran, CalledBy(log, acked, x) PROVE CalledBy(log, acked', x)
      <4>1. 1..acked \subseteq 1..acked' BY <1>2
      <4> QED BY <3>1, <4>1 DEF CalledBy
    <3> QED BY <1>0, <2>1, <3>1 DEF Kept, RanKept, Persist, histVars
  <2>4. phase = "seeding" => SeedKept(log)' BY <1>0 DEF Kept, SeedKept, Persist, histVars
  <2>5. Honest(log)' BY <1>0 DEF Kept, Honest, Persist, histVars
  <2>6. LogOK(log') /\ acked' \in 0..Len(log') BY <1>0, <1>2 DEF Kept, Persist
  <2> QED BY <2>2, <2>3, <2>4, <2>5, <2>6 DEF Kept, Persist
<1>5. Resting' BY <1>0, <1>1 DEF Resting, Persist, driverVars, Answered
<1>6. Batched' BY <1>0, <1>1 DEF Batched, Persist, driverVars, Started
<1>7. Running' BY <1>0, <1>1 DEF Running, Uncalled, Unrecovered, Persist, driverVars
<1> QED BY <1>3, <1>4, <1>5, <1>6, <1>7 DEF IInv

LEMMA CrashInv == ASSUME IInv, Crash PROVE IInv'
<1>0. TypeOK /\ Kept(log) BY DEF IInv
<1>1. PICK n \in acked..Len(log) : log' = SubSeq(log, 1, n) BY DEF Crash
<1>2. phase # "seeding" BY DEF Crash
<1>3. Kept(SubSeq(log, 1, n)) BY <1>0, <1>2, PrefixKept
<1>4. acked \in Nat /\ Len(log) \in Nat /\ n \in acked..n /\ n \in Nat /\ faults' \in 0..MaxFaults
  BY <1>0, ReaderType, RepairConstants DEF RepairConstants, TypeOK, Crash
<1>5. Kept(log)'
  <2> DEFINE P == SubSeq(log, 1, n)
  <2> HIDE DEF P
  <2>1. log' = P /\ Kept(P) /\ UNCHANGED <<acked, loaded, sent, ran>> /\ phase' = "down"
    BY <1>1, <1>3 DEF P, Crash, histVars
  <2>2. SentKept(log)' BY <1>2, <2>1 DEF Kept, SentKept
  <2>3. RanKept(log)' BY <1>2, <2>1 DEF Kept, RanKept
  <2>4. Honest(log)' BY <2>1 DEF Kept, Honest
  <2>5. LogOK(log') /\ acked' \in 0..Len(log') BY <2>1 DEF Kept
  <2> QED BY <2>1, <2>2, <2>3, <2>4, <2>5 DEF Kept
<1>6. log' \in Seq(Entries) /\ acked' \in 0..Len(log') /\ Len(log') \in Nat
  BY <1>5 DEF Kept, LogOK
<1>7. TypeOK'
  <2>1. callSeq' \in [CallIds -> 0..Len(log')] BY <1>6 DEF Crash, Stopped, ForgetsCalls
  <2>2. body' \in [CallIds -> {"idle", "recorded", "running", "settled"}] BY DEF Crash, Stopped
  <2> QED BY <1>0, <1>4, <1>6, <2>1, <2>2 DEF Crash, Stopped, histVars, TypeOK, Entries
<1> QED BY <1>5, <1>7, DownInv DEF IInv, Crash, Stopped

LEMMA ForkInv == ASSUME IInv, NEW n \in 1..Len(log), Fork(n) PROVE IInv'
<1>0. TypeOK /\ Kept(log) BY DEF IInv
<1>1. Kept(log)' /\ log' \in Seq(Entries) BY <1>0, ForkKept
<1>2. acked' \in 0..Len(log') /\ Len(log') \in Nat BY <1>1 DEF Kept
<1>3. faults' \in 0..MaxFaults BY <1>0, RepairConstants DEF RepairConstants, TypeOK, Fork
<1>4. TypeOK'
  <2>1. callSeq' \in [CallIds -> 0..Len(log')] BY <1>2 DEF Fork, Stopped, ForgetsCalls
  <2>2. body' \in [CallIds -> {"idle", "recorded", "running", "settled"}] BY DEF Fork, Stopped
  <2> QED BY <1>0, <1>1, <1>2, <1>3, <2>1, <2>2 DEF Fork, Stopped, TypeOK, Entries
<1> QED BY <1>1, <1>4, DownInv DEF IInv, Fork, Stopped

LEMMA IdleBatch ==
    ASSUME IInv, phase # "live"
    PROVE  pc = "idle" /\ \A c \in CallIds : body[c] = "idle"
BY DEF IInv, Resting, Batched

LEMMA ReadStoredInv == ASSUME IInv, ReadStored PROVE IInv'
<1>0. TypeOK /\ Kept(log) BY DEF IInv
<1>1. Kept(log)'
  <2>1. SentKept(log)' /\ RanKept(log)' BY <1>0 DEF Kept, SentKept, RanKept, ReadStored, histVars
  <2>2. Honest(log)' BY <1>0 DEF Kept, Honest, ReadStored, histVars
  <2>3. LogOK(log') /\ acked' \in 0..Len(log') BY <1>0 DEF Kept, ReadStored
  <2> QED BY <2>1, <2>2, <2>3 DEF Kept, ReadStored
<1>2. TypeOK' BY <1>0, ReaderType DEF TypeOK, ReadStored, driverVars, histVars
<1> QED BY <1>1, <1>2, IdleBatch, DownInv DEF IInv, ReadStored, driverVars

LEMMA WriteCloserInv == ASSUME IInv, WriteCloser PROVE IInv'
<1>0. TypeOK /\ Kept(log) BY DEF IInv
<1>1. PICK e : Follows(log, e) /\ Put(e) BY CloserPut DEF WriteCloser, Cause
<1>2. Kept(log)' /\ log' \in Seq(Entries) /\ Len(log') = Len(log) + 1 /\ Len(log) \in Nat
  BY <1>0, <1>1, PutKept DEF WriteCloser, histVars
<1>3. TypeOK' BY <1>0, <1>2 DEF TypeOK, WriteCloser, driverVars, histVars, Entries
<1> QED BY <1>2, <1>3, IdleBatch, DownInv DEF IInv, WriteCloser, driverVars

LEMMA WriteMarkerInv == ASSUME IInv, WriteMarker PROVE IInv'
<1>0. TypeOK /\ Kept(log) BY DEF IInv
<1>1. Follows(log, Marker)
  BY RepairConstants DEF RepairConstants, Marker, Boundary, Event, Events, Types, Follows, Allowed, NotStarted
<1>2. Kept(log)' /\ log' \in Seq(Entries) /\ Len(log') = Len(log) + 1 /\ Len(log) \in Nat
  BY <1>0, <1>1, PutKept DEF WriteMarker, histVars
<1>3. TypeOK' BY <1>0, <1>2 DEF TypeOK, WriteMarker, driverVars, histVars, Entries
<1> QED BY <1>2, <1>3, IdleBatch, DownInv DEF IInv, WriteMarker, driverVars

LEMMA PublishInv == ASSUME IInv, Publish PROVE IInv'
<1>0. TypeOK /\ Kept(log) BY DEF IInv
<1>1. Reader.turn = 0 /\ Reader' = Reader BY DEF Publish, Balanced, Reader, ReadTo
<1>2. SentKept(log)' /\ RanKept(log)'
  <2>1. CASE phase # "seeding"
    BY <1>0, <2>1 DEF Kept, SentKept, RanKept, Publish, histVars
  <2>2. CASE phase = "seeding"
    <3>1. SeedKept(log) BY <1>0, <2>2 DEF Kept
    <3>2. acked = Len(log) BY <3>1, ReaderType DEF SeedKept, Publish, Awaited, Checkpointed
    <3>3. \A n \in acked..Len(log) : In(log, n) = Reader BY <3>2, ReaderType DEF Final
    <3>4. \A s \in sent : s \in Nat \X Nat /\ s[1] <= Reader.last
      BY <1>0, <3>1, ReaderType DEF SeedKept, TypeOK
    <3>5. \A s \in sent : Reached(s, Reader) BY <1>1, <3>4, ReaderType DEF Reached
    <3>6. \A x \in ran : Past(x[1], Reader) BY <1>1, <3>1, ReaderType DEF SeedKept, Past
    <3> QED BY <3>3, <3>5, <3>6 DEF SentKept, RanKept, Publish, histVars
  <2> QED BY <2>1, <2>2
<1>3. Kept(log)'
  <2>1. Honest(log)' BY <1>0 DEF Kept, Honest, Publish, histVars
  <2>2. LogOK(log') /\ acked' \in 0..Len(log') BY <1>0 DEF Kept, Publish
  <2> QED BY <1>2, <2>1, <2>2 DEF Kept, Publish
<1>4. TypeOK' BY <1>0 DEF TypeOK, Publish, driverVars, histVars
<1> QED BY <1>1, <1>3, <1>4, IdleBatch, DownInv DEF IInv, Publish, driverVars

-----------------------------------------------------------------------------
LEMMA NextInv == IInv /\ [Next]_vars => IInv'
<1> SUFFICES ASSUME IInv, [Next]_vars PROVE IInv' OBVIOUS
<1>1. CASE UNCHANGED vars
  <2>0. TypeOK /\ Kept(log) /\ Resting /\ Batched /\ Running BY DEF IInv
  <2>1. Reader' = Reader BY <1>1 DEF vars, Reader, ReadTo
  <2>2. TypeOK' BY <1>1, <2>0 DEF vars, driverVars, histVars, TypeOK
  <2>3. Kept(log)' BY <1>1, <2>0, SameKept DEF vars, driverVars, histVars
  <2>4. Resting' BY <1>1, <2>0, <2>1 DEF Resting, vars, driverVars, Answered
  <2>5. Batched' BY <1>1, <2>0, <2>1 DEF Batched, vars, driverVars, Started
  <2>6. Running' BY <1>1, <2>0, <2>1 DEF Running, Uncalled, Unrecovered, vars, driverVars
  <2> QED BY <2>2, <2>3, <2>4, <2>5, <2>6 DEF IInv
<1>2. ASSUME NEW c \in CallIds, Batch(c) PROVE IInv'
  BY <1>2, RecordCallInv, RunBodyInv, SettleCallInv, CommitCallInv, SkipCallInv DEF Batch
<1>3. CASE Driver
  BY <1>2, <1>3, BeginTurnInv, BeginStepInv, SendRequestInv, RetryInv, ReplyInv, EndStepInv,
     StepThrowsInv, CloseFailedStepInv, EndTurnInv DEF Driver
<1>4. CASE Storage
  BY <1>4, PersistInv, CrashInv, ReadStoredInv, WriteCloserInv, WriteMarkerInv, PublishInv,
     ForkInv DEF Storage
<1> QED BY <1>1, <1>3, <1>4 DEF Next

LEMMA Invariance == Spec => []IInv
BY InitInv, NextInv, PTL DEF Spec

(* TypeOK: the types of the log and of the processes around it, over every *)
(* crash, resume and fork.                                                 *)
THEOREM RepairTypeCorrect == Spec => []TypeOK
<1>1. IInv => TypeOK BY DEF IInv
<1> QED BY <1>1, Invariance, PTL

(* RecoveryHonest: results() of core/session/src/repair.ts tells the model *)
(* that a call never started only when its body never ran.                 *)
THEOREM RecoveryIsHonest == Spec => []RecoveryHonest
<1>1. IInv => RecoveryHonest BY DEF IInv, Kept, Honest, RecoveryHonest
<1> QED BY <1>1, Invariance, PTL

(* The event that an action appends, if it appends one.                    *)
LEMMA PutOpens ==
    ASSUME IInv, NEW e, Put(e)
    PROVE  Opens = (IF e.type = "step/start" THEN {<<e.turn, e.step>>} ELSE {})
<1> DEFINE x == [ev |-> e, at |-> Observe(Reader, e)]
<1>1. log \in Seq(Entries) /\ Len(log) \in Nat BY ReaderType DEF IInv, Kept, LogOK
<1>2. Len(log') = Len(log) + 1 /\ log'[Len(log) + 1] = x BY <1>1 DEF Put
<1>3. \A j : j \in Len(log) + 1..Len(log') <=> j = Len(log) + 1 BY <1>1, <1>2
<1>4. log'[Len(log) + 1].ev = e BY <1>2
<1> QED BY <1>3, <1>4 DEF Opens

LEMMA NoneOpened ==
    ASSUME IInv, Len(log') \in 0..Len(log)
    PROVE  Opens = {}
<1>1. \A j : j \notin Len(log) + 1..Len(log') BY ReaderType
<1> QED BY <1>1 DEF Opens

LEMMA OpensFresh ==
    ASSUME IInv, Next, phase' # "seeding"
    PROVE  Opens \cap sent = {}
<1>0. Len(log) \in Nat /\ Len(log) \in 0..Len(log) BY ReaderType
<1>8. /\ \A t, n, k, by : Boundary(t, n, k, by).type = t
      /\ \A t, n, k, c, says, by : Event(t, n, k, c, says, by).type = t
  BY DEF Boundary, Event
<1>1. CASE BeginStep
  <2> DEFINE e == Boundary("step/start", Reader.turn, Reader.steps + 1, "agent")
             s == <<Reader.turn, Reader.steps + 1>>
  <2>1. Opens = {s} BY <1>1, PutOpens DEF BeginStep, Boundary, Event
  <2>2. Reader.turn # 0 /\ Reader.turn = Reader.last
    BY <1>1, ReaderType DEF IInv, Resting, BeginStep, At, Shape
  <2>3. ~Reached(s, Reader) BY <2>2, ReaderType DEF Reached
  <2>4. SentKept(log) /\ Len(log) \in acked..Len(log)
    BY <1>0, <1>1 DEF IInv, Kept, BeginStep, At
  <2>5. s \notin sent BY <2>3, <2>4, ReaderType DEF SentKept, Final
  <2> QED BY <2>1, <2>5
<1>2. CASE \/ BeginTurn \/ EndStep \/ EndTurn \/ WriteMarker
           \/ \E n \in 0..NumCalls : Reply(n)
           \/ \E c \in CallIds : RecordCall(c) \/ CommitCall(c)
  <2>1. \E e : Put(e) /\ e.type # "step/start"
    <3>1. CASE BeginTurn BY <1>8, <3>1 DEF BeginTurn
    <3>2. CASE EndStep BY <1>8, <3>2 DEF EndStep
    <3>3. CASE EndTurn BY <1>8, <3>3 DEF EndTurn
    <3>4. CASE WriteMarker BY <1>8, <3>4 DEF WriteMarker, Marker
    <3>5. ASSUME NEW n \in 0..NumCalls, Reply(n) PROVE \E e : Put(e) /\ e.type # "step/start"
      BY <1>8, <3>5 DEF Reply
    <3>6. ASSUME NEW c \in CallIds, RecordCall(c) \/ CommitCall(c)
          PROVE  \E e : Put(e) /\ e.type # "step/start"
      BY <1>8, <3>6 DEF RecordCall, CommitCall
    <3> QED BY <1>2, <3>1, <3>2, <3>3, <3>4, <3>5, <3>6
  <2> QED BY <2>1, PutOpens
<1>3. CASE CloseFailedStep \/ WriteCloser
  <2>1. \E e : Put(e) /\ e.type # "step/start"
    BY <1>8, <1>3 DEF CloseFailedStep, WriteCloser, PutCloser, Recovered
  <2> QED BY <2>1, PutOpens
<1>4. CASE \/ SendRequest \/ Retry \/ StepThrows \/ Persist \/ ReadStored \/ Publish
           \/ \E c \in CallIds : RunBody(c) \/ SettleCall(c)
  <2>1. log' = log
    BY <1>4 DEF SendRequest, Retry, StepThrows, Persist, ReadStored, Publish, RunBody, SettleCall
  <2> QED BY <1>0, <2>1, NoneOpened
<1>5. ASSUME NEW c \in CallIds, SkipCall(c) PROVE Opens \cap sent = {}
  <2> DEFINE call == Event("tool/call", Reader.turn, Reader.step, c, "none", "agent")
             result == Event("tool/result", Reader.turn, Reader.step, c, "outcome", "agent")
             called == Observe(Reader, call)
             a == [ev |-> call, at |-> called]
             b == [ev |-> result, at |-> Observe(called, result)]
  <2>1. log' = log \o <<a, b>> BY <1>5 DEF SkipCall
  <2>2. a.ev.type # "step/start" /\ b.ev.type # "step/start" BY DEF Event
  <2> HIDE DEF a, b
  <2>3. log \in Seq(Entries) BY DEF IInv, Kept, LogOK
  <2>4. Len(log') = Len(log) + 2 /\ log'[Len(log) + 1] = a /\ log'[Len(log) + 2] = b
    BY <1>0, <2>1, <2>3
  <2>5. \A j \in Len(log) + 1..Len(log') : log'[j].ev.type # "step/start"
    BY <1>0, <2>2, <2>4
  <2> QED BY <2>5 DEF Opens
<1>6. CASE Crash
  <2>1. PICK n \in acked..Len(log) : log' = SubSeq(log, 1, n) BY <1>6 DEF Crash
  <2>2. LogOK(log) /\ n \in 0..Len(log) BY <1>0, <2>1 DEF IInv, Kept
  <2>3. Len(log') = n BY <2>1, <2>2, Prefix
  <2> QED BY <2>2, <2>3, NoneOpened
<1>7. ASSUME NEW n \in 1..Len(log), Fork(n) PROVE FALSE BY <1>7 DEF Fork
<1> QED BY <1>1, <1>2, <1>3, <1>4, <1>5, <1>6, <1>7 DEF Next, Driver, Storage, Batch

(* StepsFresh: the checkpoint before a request makes sure that the numbers *)
(* of a step whose request was sent are in every log a crash can leave, so *)
(* turn() never gives them to another step.                                *)
THEOREM SentStepsStayFresh == Spec => StepsFresh
<1>1. IInv /\ [Next]_vars => [phase' # "seeding" => Opens \cap sent = {}]_vars
  BY OpensFresh
<1> QED BY <1>1, Invariance, PTL DEF Spec, StepsFresh

-----------------------------------------------------------------------------
(* The acknowledged log.                                                   *)

LEMMA PutStays ==
    ASSUME IInv, NEW e, Put(e), acked' = acked
    PROVE  ReadTo(acked)' = ReadTo(acked)
<1>1. log \in Seq(Entries) /\ acked \in 0..Len(log) /\ Len(log) \in Nat
  BY ReaderType DEF IInv, Kept, LogOK
<1>2. acked # 0 => log'[acked] = log[acked] BY <1>1 DEF Put
<1> QED BY <1>2 DEF ReadTo

LEMMA AckedStays ==
    ASSUME IInv, Next, phase' # "seeding", ~Persist
    PROVE  ReadTo(acked)' = ReadTo(acked)
<1>0. /\ log \in Seq(Entries) /\ LogOK(log) /\ acked \in 0..Len(log)
      /\ Len(log) \in Nat
  BY ReaderType DEF IInv, Kept, LogOK
<1>1. CASE \/ BeginTurn \/ BeginStep \/ EndStep \/ EndTurn \/ WriteMarker
           \/ \E n \in 0..NumCalls : Reply(n)
           \/ \E c \in CallIds : RecordCall(c) \/ CommitCall(c)
  <2>1. (\E e : Put(e)) /\ acked' = acked
    BY <1>1 DEF BeginTurn, BeginStep, EndStep, EndTurn, WriteMarker, Reply, RecordCall, CommitCall
  <2> QED BY <2>1, PutStays
<1>2. CASE CloseFailedStep \/ WriteCloser
  <2>1. (\E e : Put(e)) /\ acked' = acked BY <1>2 DEF CloseFailedStep, WriteCloser, PutCloser
  <2> QED BY <2>1, PutStays
<1>3. CASE \/ SendRequest \/ Retry \/ StepThrows \/ ReadStored \/ Publish
           \/ \E c \in CallIds : RunBody(c) \/ SettleCall(c)
  BY <1>3 DEF SendRequest, Retry, StepThrows, ReadStored, Publish, RunBody, SettleCall, ReadTo
<1>4. ASSUME NEW c \in CallIds, SkipCall(c) PROVE ReadTo(acked)' = ReadTo(acked)
  <2> DEFINE call == Event("tool/call", Reader.turn, Reader.step, c, "none", "agent")
             result == Event("tool/result", Reader.turn, Reader.step, c, "outcome", "agent")
             called == Observe(Reader, call)
             a == [ev |-> call, at |-> called]
             b == [ev |-> result, at |-> Observe(called, result)]
  <2>1. log' = log \o <<a, b>> /\ acked' = acked BY <1>4 DEF SkipCall
  <2> HIDE DEF a, b
  <2>2. acked # 0 => log'[acked] = log[acked] BY <1>0, <2>1
  <2> QED BY <2>1, <2>2 DEF ReadTo
<1>5. CASE Crash
  <2>1. PICK n \in acked..Len(log) : log' = SubSeq(log, 1, n) BY <1>5 DEF Crash
  <2>2. n \in 0..Len(log) /\ (acked # 0 => acked \in 1..n) BY <1>0, <2>1
  <2>3. acked # 0 => log'[acked] = log[acked] BY <1>0, <2>1, <2>2, Prefix
  <2> QED BY <1>5, <2>3 DEF Crash, ReadTo
<1>6. ASSUME NEW n \in 1..Len(log), Fork(n) PROVE FALSE BY <1>6 DEF Fork
<1> QED BY <1>1, <1>2, <1>3, <1>4, <1>5, <1>6 DEF Next, Driver, Storage, Batch

LEMMA PersistMaps ==
    ASSUME IInv, Persist
    PROVE  [Stored!Next]_(Stored!vars)
<1> DEFINE r == ReadTo(acked)
           e == log[acked + 1].ev
<1>0. /\ log \in Seq(Entries) /\ Chained(log) /\ acked \in 0..Len(log)
      /\ Len(log) \in Nat
  BY ReaderType DEF IInv, Kept, LogOK
<1>1. acked' = acked + 1 /\ acked + 1 \in 1..Len(log) /\ log' = log BY <1>0 DEF Persist
<1>2. r = In(log, acked) /\ r \in Readers /\ Shape(r) BY <1>0, InOK DEF ReadTo, In
<1>3. Allowed(r, e) /\ log[acked + 1].at = Observe(r, e)
  <2>1. In(log, (acked + 1) - 1) = r BY <1>0, <1>2
  <2> QED BY <1>0, <1>1, <2>1 DEF Chained
<1>4. ReadTo(acked)' = Observe(r, e) BY <1>0, <1>1, <1>3 DEF ReadTo
<1>5. e \in Events
  <2>1. log[acked + 1] \in Entries BY <1>0, <1>1, ElementOfSeq
  <2> QED BY <2>1 DEF Entries
<1> DEFINE o == Observe(r, e)
<1>6. o.pending = Pending(r, e) BY DEF Observe
<1>7. Pending(r, e) = [c \in CallIds |-> Pending(r, e)[c]]
      /\ r.pending = [c \in CallIds |-> r.pending[c]]
  BY <1>2 DEF Pending, Readers
<1>8. r.step = 0 => r.pending = NoCalls BY <1>2 DEF Shape
<1>9. r.pending = NoCalls => ~\E c \in CallIds : r.pending[c] # "none" BY DEF NoCalls
<1> HIDE DEF r, e, o
<1>10. CASE e.type = "turn/start"
  <2>1. /\ r.turn = 0 /\ r.steps = 0 /\ r.step = 0
        /\ o.last = r.last + 1 /\ o.turn = r.last + 1 /\ o.steps = 0 /\ o.step = 0
    BY <1>2, <1>3, <1>10 DEF Observe, Allowed, Shape, o
  <2>2. o.pending = r.pending
    <3>1. Pending(r, e) = NoCalls BY <1>10 DEF Pending, NoCalls
    <3> QED BY <1>6, <1>8, <2>1, <3>1
  <2>3. Stored!StartTurn BY <1>4, <2>1, <2>2 DEF Stored!StartTurn, r, o
  <2> QED BY <2>3 DEF Stored!Next
<1>11. CASE e.type = "turn/end"
  <2>1. /\ r.turn # 0 /\ r.step = 0
        /\ o.last = r.last /\ o.turn = 0 /\ o.steps = 0 /\ o.step = 0
    BY <1>2, <1>3, <1>11 DEF Observe, Allowed, o
  <2>2. o.pending = r.pending
    <3>1. Pending(r, e) = NoCalls BY <1>11 DEF Pending, NoCalls
    <3> QED BY <1>6, <1>8, <2>1, <3>1
  <2>3. Stored!EndTurn BY <1>4, <2>1, <2>2 DEF Stored!EndTurn, r, o
  <2> QED BY <2>3 DEF Stored!Next
<1>12. CASE e.type = "step/start"
  <2>1. /\ r.turn # 0 /\ r.step = 0
        /\ o.last = r.last /\ o.turn = r.turn /\ o.steps = r.steps + 1 /\ o.step = r.steps + 1
    BY <1>2, <1>3, <1>12 DEF Observe, Allowed, o
  <2>2. o.pending = r.pending
    <3>1. \A c \in CallIds : Pending(r, e)[c] = r.pending[c] BY <1>12 DEF Pending
    <3> QED BY <1>6, <1>7, <3>1
  <2>3. Stored!StartStep BY <1>4, <2>1, <2>2 DEF Stored!StartStep, r, o
  <2> QED BY <2>3 DEF Stored!Next
<1>13. CASE e.type = "step/end"
  <2>1. /\ r.step # 0 /\ r.pending = NoCalls
        /\ o.last = r.last /\ o.turn = r.turn /\ o.steps = r.steps /\ o.step = 0
    BY <1>2, <1>3, <1>13 DEF Observe, Allowed, o
  <2>2. o.pending = r.pending
    <3>1. Pending(r, e) = NoCalls BY <1>13 DEF Pending, NoCalls
    <3> QED BY <1>6, <2>1, <3>1
  <2>3. Stored!EndStep
    BY <1>4, <1>9, <2>1, <2>2 DEF Stored!EndStep, Stored!Unanswered, r, o
  <2> QED BY <2>3 DEF Stored!Next
<1>14. CASE e.type = "assistant/message"
  <2> DEFINE C == {c \in CallIds : c <= e.call}
  <2>1. /\ r.step # 0 /\ r.pending = NoCalls
        /\ o.last = r.last /\ o.turn = r.turn /\ o.steps = r.steps /\ o.step = r.step
    BY <1>2, <1>3, <1>14 DEF Observe, Allowed, o
  <2>2. \A c \in CallIds : Pending(r, e)[c] = IF c \in C THEN "requested" ELSE "none"
    BY <1>14, <2>1 DEF Pending, NoCalls
  <2> HIDE DEF C
  <2>3. o.pending = [c \in CallIds |-> IF c \in C THEN "requested" ELSE "none"]
    BY <1>6, <1>7, <2>2
  <2>4. C \in SUBSET CallIds BY DEF C
  <2>5. Stored!RequestTools
    BY <1>4, <1>9, <2>1, <2>3, <2>4 DEF Stored!RequestTools, Stored!Unanswered, r, o
  <2> QED BY <2>5 DEF Stored!Next
<1>15. CASE e.type = "tool/call"
  <2>1. /\ r.step # 0 /\ e.call \in CallIds /\ r.pending[e.call] = "requested"
        /\ o.last = r.last /\ o.turn = r.turn /\ o.steps = r.steps /\ o.step = r.step
    BY <1>2, <1>3, <1>15 DEF Observe, Allowed, o
  <2>2. \A c \in CallIds : Pending(r, e)[c] = IF c = e.call THEN "started" ELSE r.pending[c]
    BY <1>15, <2>1 DEF Pending
  <2>3. o.pending = [r.pending EXCEPT ![e.call] = "started"] BY <1>6, <1>7, <2>1, <2>2
  <2>4. Stored!RecordCall(e.call) BY <1>4, <2>1, <2>3 DEF Stored!RecordCall, r, o
  <2> QED BY <2>1, <2>4 DEF Stored!Next
<1>16. CASE e.type = "tool/result"
  <2> DEFINE C == {e.call}
  <2>1. /\ r.step # 0 /\ e.call \in CallIds /\ r.pending[e.call] # "none"
        /\ e.turn = r.turn /\ e.step = r.step
        /\ o.last = r.last /\ o.turn = r.turn /\ o.steps = r.steps /\ o.step = r.step
    BY <1>2, <1>3, <1>16 DEF Observe, Allowed, Same, o
  <2>2. \A c \in CallIds : Pending(r, e)[c] = IF c \in C THEN "none" ELSE r.pending[c]
    BY <1>16, <2>1 DEF Pending
  <2>3. C \in SUBSET CallIds /\ \A c \in C : r.pending[c] # "none" BY <2>1
  <2> HIDE DEF C
  <2>4. o.pending = [c \in CallIds |-> IF c \in C THEN "none" ELSE r.pending[c]]
    BY <1>6, <1>7, <2>2
  <2>5. Stored!AnswerCalls BY <1>4, <2>1, <2>3, <2>4 DEF Stored!AnswerCalls, r, o
  <2> QED BY <2>5 DEF Stored!Next
<1>17. CASE e.type = "session/end-seed"
  <2>1. o.last = r.last /\ o.turn = r.turn /\ o.steps = r.steps /\ o.step = r.step
    BY <1>17 DEF Observe, o
  <2>2. o.pending = r.pending
    <3>1. \A c \in CallIds : Pending(r, e)[c] = r.pending[c] BY <1>17 DEF Pending
    <3> QED BY <1>6, <1>7, <3>1
  <2> QED BY <1>4, <2>1, <2>2 DEF Stored!vars, r, o
<1> QED
  BY <1>5, <1>10, <1>11, <1>12, <1>13, <1>14, <1>15, <1>16, <1>17 DEF Events, Types

(* StoredTranscript: what was acknowledged of the log evolves as a         *)
(* transcript over every crash and every repair; a fork starts anew.       *)
THEOREM StoredIsTranscript == Spec => StoredTranscript
<1>1. Init => Stored!Init
  <2> SUFFICES ASSUME Init PROVE Stored!Init OBVIOUS
  <2>1. ReadTo(acked) = Unread BY DEF Init, ReadTo
  <2>2. [m \in {} |-> 0] = <<>> OBVIOUS
  <2> QED BY <2>1, <2>2 DEF Stored!Init, Unread, NoCalls
<1>2. IInv /\ [Next]_vars => [Stored!Next \/ phase' = "seeding"]_(Stored!vars)
  <2> SUFFICES ASSUME IInv, [Next]_vars, phase' # "seeding"
               PROVE  [Stored!Next]_(Stored!vars)
    OBVIOUS
  <2>1. CASE Persist BY <2>1, PersistMaps
  <2>2. CASE Next /\ ~Persist
    <3>1. ReadTo(acked)' = ReadTo(acked) BY <2>2, AckedStays
    <3> QED BY <3>1 DEF Stored!vars
  <2>3. CASE UNCHANGED vars BY <2>3 DEF vars, ReadTo, Stored!vars
  <2> QED BY <2>1, <2>2, <2>3
<1> QED BY <1>1, <1>2, Invariance, PTL DEF Spec, StoredTranscript
=============================================================================
