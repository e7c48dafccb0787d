--------------------------- MODULE JobOutputProps ---------------------------
(***************************************************************************)
(* What the output ring promises the model and the job's observers.        *)
(***************************************************************************)
EXTENDS JobOutput

Offsets(C) == UNION {c.at..(c.at + c.bytes - 1) : c \in C}

Held == Offsets({chunks[i] : i \in 1..Len(chunks)})

(* The types, and the ring's accounts: chunks back to back up to `total`,  *)
(* `earliest` and `retainedBytes` agreeing with them, never over the cap.  *)
TypeOK ==
    /\ chunks \in Seq([at : Nat, bytes : Nat, gap : BOOLEAN, origin : Sources \cup {Push},
                       from : Nat])
    /\ \A i \in 1..Len(chunks) :
          chunks[i].at + chunks[i].bytes = IF i < Len(chunks) THEN chunks[i + 1].at ELSE total
    /\ earliest = IF chunks = <<>> THEN total ELSE chunks[1].at
    /\ retainedBytes = total - earliest /\ retainedBytes <= RetainBytes
    /\ total \in Nat /\ pushed \in Nat /\ modelCursor \in 0..total /\ next \in 1..(NSources + 1)
    /\ status \in {"running", "settled"} /\ producer \in {"working", "done"}
    /\ pump \in {"round", "waiting", "final", "done"}
    /\ cursor \in [Sources -> Nat] /\ written \in [Sources -> Nat] /\ failed \subseteq Sources

Unmarked(c, d) == c.origin = d.origin /\ ~d.gap => d.from = c.from + c.bytes

NextOfOrigin(i, j) ==
    i < j /\ \A k \in (i + 1)..(j - 1) : chunks[k].origin # chunks[j].origin

(* A read holds only bytes from its cursor on, and all of them unless it   *)
(* says `lossy`.                                                           *)
ReadHonest ==
    LET shown == Offsets(lastRead.chunks)
        due == lastRead.from..(lastRead.upTo - 1)
    IN shown \subseteq due /\ (lastRead.lossy <=> shown # due)

LastOf(c, C) == \A d \in C : d.origin = c.origin => d.at + d.bytes <= c.at + c.bytes
FirstOf(c, C) == \A d \in C : d.origin = c.origin => c.at <= d.at

(* Reads follow each other; and a stream goes on in a read where the one   *)
(* before it left it, or behind a gap mark, if the read is not lossy.      *)
ReadsContinue ==
    lastRead' # lastRead =>
        /\ lastRead'.from = lastRead.upTo
        /\ ~lastRead'.lossy =>
              \A c \in lastRead.chunks, d \in lastRead'.chunks :
                  LastOf(c, lastRead.chunks) /\ FirstOf(d, lastRead'.chunks) => Unmarked(c, d)

(* The model is never shown a byte twice and never misses one unawares,    *)
(* over all its reads, and inside the ring as well bytes that a source     *)
(* lost carry a gap mark.                                                  *)
LossHonest ==
    /\ [](ReadHonest /\ \A i, j \in 1..Len(chunks) :
                            NextOfOrigin(i, j) => Unmarked(chunks[i], chunks[j]))
    /\ [][ReadsContinue]_vars

Unread == Held \cap modelCursor..total

(* Settlement takes away nothing the model has not read, and unless it was *)
(* forced the ring has been offered every byte the sources produced.       *)
SettlementKeeps ==
    [][status = "running" /\ status' = "settled" =>
         /\ Unread \subseteq Held'
         /\ pump = "done" => \A s \in Sources \ failed : cursor[s] = written[s]]_vars
=============================================================================
