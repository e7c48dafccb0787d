------------------------------ MODULE JobOutput -----------------------------
(***************************************************************************)
(* The output of one background job of packages/jobs/jobs-local: the       *)
(* bounded ring at absolute byte offsets (ring.ts), the pump that copies   *)
(* the producer's pull sources into it (pump.ts), and the model cursor and *)
(* settlement trims of the registry (index.ts).                            *)
(*                                                                         *)
(* A chunk is the range of ring bytes it holds, and where in its source    *)
(* they come from; its text is left out.  One pump round reads the sources *)
(* one after the other, and listeners of the output event run in between.  *)
(***************************************************************************)
EXTENDS Integers, Sequences

CONSTANTS
    NSources,             \* pull sources of the job, in array order
    RetainBytes,          \* cap of the live ring
    SettledRetainBytes,   \* cap of the settled ring
    SourceWindow,         \* external: bytes a source retains for its readers
    CharSlack,            \* continuation bytes a UTF-8-safe cut may have to skip
    MaxWrite, MaxTotal    \* bounds: bytes of one write, bytes of each stream

ASSUME OutputConstants ==
    /\ NSources \in Nat /\ CharSlack \in Nat /\ MaxWrite \in Nat /\ MaxTotal \in Nat
    /\ RetainBytes \in Nat \ {0} /\ SettledRetainBytes \in Nat \ {0}
    /\ SourceWindow \in Nat \ {0}

Sources == 1..NSources
Push == 0   \* origin of the chunks the producer appends itself

VARIABLES
    chunks, retainedBytes, total, earliest,   \* OutputRing
    modelCursor, lastRead,                    \* the model's consuming reads
    status, producer,                         \* the job's settlement, its producer's promise
    pump, next,                               \* the pump, the source it reads next
    pushed, written, cursor, failed           \* per stream: produced, pumped, guardSource()

ringVars == <<chunks, retainedBytes, total, earliest>>
readVars == <<modelCursor, lastRead>>
pumpVars == <<pump, next, cursor, failed>>
vars == <<ringVars, readVars, status, producer, pumpVars, pushed, written>>

Init ==
    /\ chunks = <<>> /\ retainedBytes = 0 /\ total = 0 /\ earliest = 0
    /\ modelCursor = 0 /\ lastRead = [from |-> 0, upTo |-> 0, chunks |-> {}, lossy |-> FALSE]
    /\ status = "running" /\ producer = "working"
    /\ pump = (IF NSources = 0 THEN "done" ELSE "round") /\ next = 1
    /\ pushed = 0 /\ written = [s \in Sources |-> 0] /\ cursor = [s \in Sources |-> 0]
    /\ failed = {}

-----------------------------------------------------------------------------
(* The ring. *)

FaultWholeChunk(c, cut) == c.bytes

(* What is left of a chunk after its UTF-8-safe tail has been cut. *)
TailBytes(c, cut) == c.bytes - cut

(* utf8Tail(): the tail within `cap`, but for a code point it would split. *)
Cuts(c, cap) == (c.bytes - cap)..(IF c.bytes < c.bytes - cap + CharSlack THEN c.bytes
                                  ELSE c.bytes - cap + CharSlack)

Tail8(c, cut) == [c EXCEPT !.at = @ + cut, !.from = @ + cut, !.bytes = @ - cut, !.gap = TRUE]

(* The bytes of the first k chunks of s, for every k.                      *)
Before(s) == LET sum[k \in 0..Len(s)] == IF k = 0 THEN 0 ELSE sum[k - 1] + s[k].bytes
             IN  sum

Fits(s, held, cap, k) == k = Len(s) - 1 \/ held - Before(s)[k] <= cap

(* Head chunks that go: as few as bring the ring within `cap`, never all.  *)
Dropped(s, held, cap) ==
    CHOOSE k \in 0..(Len(s) - 1) :
        Fits(s, held, cap, k) /\ \A j \in 0..(k - 1) : ~Fits(s, held, cap, j)

(* trim(cap) of a ring that would hold `s`, `held` bytes of `upTo`.        *)
Trim(s, held, upTo, cap) ==
    LET k == Dropped(s, held, cap)
        rest == SubSeq(s, k + 1, Len(s))
        left == held - Before(s)[k]
    IN IF s = <<>>
       THEN chunks' = s /\ retainedBytes' = held /\ earliest' = upTo
       ELSE IF Len(rest) = 1 /\ rest[1].bytes > cap
       THEN \E cut \in Cuts(rest[1], cap) :
              /\ chunks' = <<Tail8(rest[1], cut)>>
              /\ retainedBytes' = TailBytes(rest[1], cut)
              /\ earliest' = rest[1].at + cut
       ELSE chunks' = rest /\ retainedBytes' = left /\ earliest' = rest[1].at

(* append(): a settled job's ring takes nothing more, from the producer or *)
(* from the pump's last drain (appendRing()); an empty chunk is dropped.   *)
AppendRing(origin, from, bytes, gap) ==
    IF status = "settled" \/ bytes = 0 THEN UNCHANGED ringVars
    ELSE /\ Trim(Append(chunks, [at |-> total, bytes |-> bytes, gap |-> gap,
                                 origin |-> origin, from |-> from]),
                 retainedBytes + bytes, total + bytes, RetainBytes)
         /\ total' = total + bytes

FaultLastChunkAgain(c, from) == c.at + c.bytes >= from

(* readFrom() skips what lies before `from`; the offsets of the chunks in a *)
(* read say their order.                                                   *)
Overlaps(c, from) == c.at + c.bytes > from

ReadFrom(from) ==
    [from |-> from, upTo |-> total, lossy |-> from < earliest,
     chunks |-> {c \in {chunks[i] : i \in 1..Len(chunks)} : Overlaps(c, from)}]

-----------------------------------------------------------------------------
(* The producer, until its promise settles. *)

ProducerAppends(n) ==
    /\ pushed + n <= MaxTotal
    /\ pushed' = pushed + n
    /\ AppendRing(Push, pushed, n, FALSE)
    /\ UNCHANGED <<readVars, status, producer, pumpVars, written>>

SourceWrites(s, n) ==
    /\ producer = "working" /\ written[s] + n <= MaxTotal
    /\ written' = [written EXCEPT ![s] = @ + n]
    /\ UNCHANGED <<ringVars, readVars, status, producer, pumpVars, pushed>>

ProducerDone ==
    /\ producer = "working" /\ producer' = "done"
    /\ UNCHANGED <<ringVars, readVars, status, pumpVars, pushed, written>>

-----------------------------------------------------------------------------
(* The pump. *)

NextSource ==
    IF next < NSources THEN next' = next + 1 /\ UNCHANGED pump
    ELSE next' = 1 /\ pump' = (IF pump = "final" THEN "done" ELSE "waiting")

(* The oldest byte a source still has for its readers. *)
Window(s) == IF written[s] < SourceWindow THEN 0 ELSE written[s] - SourceWindow

(* One source of drain(): the delta, or the surviving tail behind a gap.   *)
PumpReads ==
    /\ pump \in {"round", "final"} /\ next \notin failed
    /\ LET lossy == cursor[next] < Window(next)
           from == IF lossy THEN Window(next) ELSE cursor[next]
       IN AppendRing(next, from, written[next] - from, lossy)
    /\ cursor' = [cursor EXCEPT ![next] = written[next]]
    /\ NextSource
    /\ UNCHANGED <<readVars, status, producer, failed, pushed, written>>

(* A source that throws, now or before, reads as exhausted. *)
SourceFails ==
    /\ pump \in {"round", "final"}
    /\ failed' = failed \cup {next} /\ NextSource
    /\ UNCHANGED <<ringVars, readVars, status, producer, cursor, pushed, written>>

(* Promise.race([producerDone, settled]). *)
Until == producer = "done" \/ status = "settled"

PumpWakes ==
    /\ pump = "waiting" /\ pump' = IF Until THEN "final" ELSE "round"
    /\ UNCHANGED <<ringVars, readVars, status, producer, next, cursor, failed, pushed, written>>

-----------------------------------------------------------------------------
(* The model's reads and the settlement. *)

(* readJob(): from the cursor to the end; a terminal read releases what    *)
(* settlement kept for it.                                                 *)
ModelReads ==
    /\ lastRead' = ReadFrom(modelCursor)
    /\ modelCursor' = total
    /\ IF status = "settled"
       THEN Trim(chunks, retainedBytes, total, SettledRetainBytes) /\ UNCHANGED total
       ELSE UNCHANGED ringVars
    /\ UNCHANGED <<status, producer, pumpVars, pushed, written>>

FaultSettledCap(unread) == SettledRetainBytes

(* Never below the bytes the model has not consumed. *)
SettleCap(unread) == IF unread > SettledRetainBytes THEN unread ELSE SettledRetainBytes

Settle ==
    /\ status = "running" /\ status' = "settled"
    /\ Trim(chunks, retainedBytes, total, SettleCap(total - modelCursor))
    /\ UNCHANGED <<total, readVars, producer, pumpVars, pushed, written>>

(* start(): the outcome settles the job once the pump's last drain landed. *)
ProducerSettles == producer = "done" /\ pump = "done" /\ Settle

(* cancelForTeardown(): a cancel that throws settles the job at once. *)
ForceSettles == Settle

-----------------------------------------------------------------------------
Next ==
    \/ \E n \in 1..MaxWrite : ProducerAppends(n) \/ \E s \in Sources : SourceWrites(s, n)
    \/ ProducerDone \/ PumpReads \/ SourceFails \/ PumpWakes
    \/ ModelReads \/ ProducerSettles \/ ForceSettles

Spec == Init /\ [][Next]_vars
=============================================================================
