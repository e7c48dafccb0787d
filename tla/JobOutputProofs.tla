-------------------------- MODULE JobOutputProofs --------------------------
(***************************************************************************)
(* What is proved of the output ring of a job, for every number of pull    *)
(* sources, every cap and window, and any amount of output.                *)
(***************************************************************************)
EXTENDS JobOutputProps, SequenceTheorems, WellFoundedInduction, TLAPS

Chunk == [at : Nat, bytes : Nat, gap : BOOLEAN, origin : Sources \cup {Push}, from : Nat]

End(c) == c.at + c.bytes

(* Chunks back to back up to the offset upTo, and where they start.        *)
Chain(s, upTo) ==
    /\ s \in Seq(Chunk) /\ upTo \in Nat
    /\ \A i \in 1..Len(s) : End(s[i]) = IF i < Len(s) THEN s[i + 1].at ELSE upTo

Start(s, upTo) == IF s = <<>> THEN upTo ELSE s[1].at

(* t is what a trim leaves of s: a suffix, or the tail of the last chunk.  *)
Shrinks(s, t, k) ==
    /\ k \in 0..Len(s) /\ Len(t) = Len(s) - k
    /\ \A i \in 1..Len(t) :
          /\ t[i].origin = s[i + k].origin /\ End(t[i]) = End(s[i + k])
          /\ t[i].at >= s[i + k].at
          /\ t[i].from - t[i].at = s[i + k].from - s[i + k].at
    /\ \A i \in 1..Len(t) : t[i] = s[i + k] \/ (Len(t) = 1 /\ t[i].gap)

(* The model's cursor lies between two chunks.                             *)
Aligned(s, m) == \A i \in 1..Len(s) : s[i].at >= m \/ End(s[i]) <= m

Marked(s) ==
    \A i, j \in 1..Len(s) :
        i < j /\ (\A k \in (i + 1)..(j - 1) : s[k].origin # s[j].origin) => Unmarked(s[i], s[j])

(* How far each stream was offered to the ring, and that the last chunk of *)
(* a stream ends there.                                                    *)
Made == [o \in Sources \cup {Push} |-> IF o = Push THEN pushed ELSE cursor[o]]

Latest(s, made) ==
    \A i \in 1..Len(s) :
        (\A k \in (i + 1)..Len(s) : s[k].origin # s[i].origin)
            => s[i].from + s[i].bytes = made[s[i].origin]

(* Only the head of the ring may be an empty tail.                         *)
Solid(s) == \A i \in 2..Len(s) : s[i].bytes > 0

(* The first chunk of c's stream that lies behind the cursor m.            *)
FirstAfter(s, i, c, m) ==
    /\ s[i].origin = c.origin /\ End(s[i]) > m
    /\ \A k \in 1..(i - 1) : s[k].origin = c.origin => End(s[k]) <= m

(* While nothing is lost before m: what C ended with goes on behind m, or  *)
(* its stream has offered nothing since.                                   *)
Resumes(s, upTo, m, C) ==
    Start(s, upTo) <= m =>
        \A c \in C : LastOf(c, C) =>
            \A i \in 1..Len(s) : FirstAfter(s, i, c, m) => Unmarked(c, s[i])

Rests(s, upTo, m, C, made) ==
    Start(s, upTo) <= m =>
        \A c \in C : LastOf(c, C) /\ (\A i \in 1..Len(s) : s[i].origin = c.origin => End(s[i]) <= m)
            => c.from + c.bytes = made[c.origin]

Reading ==
    /\ lastRead.chunks \subseteq Chunk /\ lastRead.upTo = modelCursor
    /\ Resumes(chunks, total, modelCursor, lastRead.chunks)
    /\ status = "running" => Rests(chunks, total, modelCursor, lastRead.chunks, Made)

(* A last round that still counts has read every source before `next` to   *)
(* its end, and none of them is written any more.                          *)
Pumping ==
    /\ \A s \in Sources : cursor[s] <= written[s]
    /\ pump # "done" => next \in Sources
    /\ pump = "waiting" => next = 1
    /\ status = "running" /\ pump \in {"final", "done"} /\ Sources # {} =>
          /\ producer = "done"
          /\ \A s \in Sources \ failed : pump = "done" \/ s < next => cursor[s] = written[s]

IInv ==
    /\ TypeOK /\ Aligned(chunks, modelCursor) /\ Marked(chunks) /\ Solid(chunks)
    /\ status = "running" => Latest(chunks, Made)
    /\ ReadHonest /\ Reading /\ Pumping

(* The offset of a byte is its offset for good: retention only moves       *)
(* forward, and a byte that is still held is the same byte of the same     *)
(* stream.                                                                 *)
OffsetsStay ==
    [][/\ total' >= total /\ earliest' >= earliest
       /\ \A i \in 1..Len(chunks), j \in 1..Len(chunks') :
             \A b \in (chunks[i].at..(End(chunks[i]) - 1))
                          \cap (chunks'[j].at..(End(chunks'[j]) - 1)) :
                /\ chunks[i].origin = chunks'[j].origin
                /\ chunks[i].from + (b - chunks[i].at) = chunks'[j].from + (b - chunks'[j].at)]_vars
-----------------------------------------------------------------------------
(* Induction over numbers, stated of sets.                                 *)

LEMMA LessIsWellFounded == IsWellFoundedOn({ss \in Nat \X Nat : ss[1] < ss[2]}, Nat)
BY NatLessThanWellFounded, Zenon DEF OpToRel

LEMMA Least ==
    ASSUME NEW T \in SUBSET Nat, T # {}
    PROVE  \E x \in T : \A y \in T : x <= y
<1> DEFINE R == {ss \in Nat \X Nat : ss[1] < ss[2]}
<1>1. IsWellFoundedOn(R, Nat) BY LessIsWellFounded
<1> HIDE DEF R
<1>2. PICK x \in T : \A y \in T : <<y, x>> \notin R BY <1>1, WFMin
<1>3. ASSUME NEW y \in T PROVE x <= y
  <2>1. <<y, x>> \notin R /\ x \in Nat /\ y \in Nat BY <1>2
  <2> QED BY <2>1 DEF R
<1> QED BY <1>3

LEMMA NatSet ==
    ASSUME NEW T \in SUBSET Nat, 0 \in T, \A n \in T : n + 1 \in T
    PROVE  T = Nat
<1> SUFFICES ASSUME Nat \ T # {} PROVE FALSE OBVIOUS
<1>1. PICK x \in Nat \ T : \A y \in Nat \ T : x <= y
  <2> DEFINE U == Nat \ T
  <2>1. U \in SUBSET Nat /\ U # {} OBVIOUS
  <2> HIDE DEF U
  <2>2. \E x \in U : \A y \in U : x <= y BY <2>1, Least
  <2> QED BY <2>2 DEF U
<1>2. x - 1 \in Nat /\ ~(x <= x - 1) BY <1>1
<1>3. x - 1 \in T BY <1>1, <1>2
<1>4. (x - 1) + 1 \in T BY <1>3
<1> QED BY <1>1, <1>2, <1>4

-----------------------------------------------------------------------------
(* The chunks of a chain.                                                  *)

LEMMA ChainChunk ==
    ASSUME NEW s, NEW upTo, Chain(s, upTo), NEW i \in 1..Len(s)
    PROVE  /\ Len(s) \in Nat /\ s[i] \in Chunk
           /\ s[i].at \in Nat /\ s[i].bytes \in Nat /\ s[i].from \in Nat /\ End(s[i]) \in Nat
           /\ s[i].at <= End(s[i])
           /\ i < Len(s) => End(s[i]) = s[i + 1].at
           /\ i = Len(s) => End(s[i]) = upTo
<1>1. Len(s) \in Nat BY LenProperties DEF Chain
<1>2. s[i] \in Chunk BY ElementOfSeq DEF Chain
<1>3. End(s[i]) = IF i < Len(s) THEN s[i + 1].at ELSE upTo BY DEF Chain
<1> QED BY <1>1, <1>2, <1>3 DEF Chunk, End

LEMMA ChainOrder ==
    ASSUME NEW s, NEW upTo, Chain(s, upTo), NEW i \in 1..Len(s), NEW j \in 1..Len(s), i < j
    PROVE  End(s[i]) <= s[j].at
<1> DEFINE T == {n \in Nat : i + 1 + n <= Len(s) => End(s[i]) <= s[i + 1 + n].at}
<1>0. Len(s) \in Nat /\ End(s[i]) \in Nat BY ChainChunk
<1>1. 0 \in T
  <2>1. i < Len(s) BY <1>0
  <2>2. End(s[i]) = s[i + 1].at BY <2>1, ChainChunk
  <2> QED BY <1>0, <2>2
<1>2. ASSUME NEW n \in T PROVE n + 1 \in T
  <2>1. n \in Nat /\ n + 1 \in Nat OBVIOUS
  <2>2. ASSUME i + 1 + (n + 1) <= Len(s) PROVE End(s[i]) <= s[i + 1 + (n + 1)].at
    <3>1. i + 1 + n \in 1..Len(s) /\ i + 1 + n < Len(s) /\ i + 1 + n <= Len(s)
          /\ (i + 1 + n) + 1 = i + 1 + (n + 1) /\ i + 1 + (n + 1) \in 1..Len(s)
      BY <1>0, <2>1, <2>2
    <3>2. End(s[i]) <= s[i + 1 + n].at BY <3>1
    <3>3. End(s[i + 1 + n]) = s[i + 1 + (n + 1)].at /\ s[i + 1 + n].at <= End(s[i + 1 + n])
          /\ s[i + 1 + n].at \in Nat /\ End(s[i + 1 + n]) \in Nat
      <4> DEFINE m == i + 1 + n
      <4>1. m \in 1..Len(s) /\ m < Len(s) /\ m + 1 = i + 1 + (n + 1) BY <3>1
      <4> HIDE DEF m
      <4>2. End(s[m]) = s[m + 1].at /\ s[m].at <= End(s[m]) /\ s[m].at \in Nat /\ End(s[m]) \in Nat
        BY <4>1, ChainChunk
      <4> QED BY <4>1, <4>2 DEF m
    <3> QED BY <1>0, <3>2, <3>3
  <2> QED BY <2>1, <2>2
<1> HIDE DEF T
<1>3. T = Nat
  <2>1. T \in SUBSET Nat BY DEF T
  <2> QED BY <1>1, <1>2, <2>1, NatSet
<1>4. j - (i + 1) \in Nat /\ i + 1 + (j - (i + 1)) = j BY <1>0
<1>5. j - (i + 1) \in T BY <1>3, <1>4
<1> QED BY <1>0, <1>4, <1>5 DEF T

(* A chain covers every byte from its start on.                            *)
LEMMA ChainCovers ==
    ASSUME NEW s, NEW upTo, Chain(s, upTo), NEW b \in Nat, Start(s, upTo) <= b, b < upTo
    PROVE  \E i \in 1..Len(s) : s[i].at <= b /\ b < End(s[i])
<1> DEFINE T == {i \in 1..Len(s) : b < End(s[i])}
<1>0. s \in Seq(Chunk) /\ upTo \in Nat /\ Len(s) \in Nat BY LenProperties DEF Chain
<1>1. s # <<>> /\ Len(s) \in 1..Len(s) BY <1>0 DEF Start
<1>2. End(s[Len(s)]) = upTo BY <1>0, <1>1, ChainChunk
<1>3. Len(s) \in T BY <1>1, <1>2
<1>4. T \in SUBSET Nat BY <1>0
<1> HIDE DEF T
<1>5. PICK i \in T : \A y \in T : i <= y BY <1>3, <1>4, Least
<1>6. i \in 1..Len(s) /\ b < End(s[i]) BY <1>5 DEF T
<1>7. s[i].at <= b
  <2>1. CASE i = 1 BY <1>1, <2>1 DEF Start
  <2>2. CASE i # 1
    <3> DEFINE p == i - 1
    <3>1. p \in 1..Len(s) /\ p < Len(s) /\ p + 1 = i /\ ~(i <= p) BY <1>0, <1>6, <2>2
    <3> HIDE DEF p
    <3>2. p \notin T BY <1>5, <3>1
    <3>3. End(s[p]) = s[i].at /\ End(s[p]) \in Nat BY <3>1, ChainChunk
    <3> QED BY <3>1, <3>2, <3>3 DEF T
  <2> QED BY <2>1, <2>2
<1> QED BY <1>6, <1>7

LEMMA InRange ==
    ASSUME NEW a \in Nat, NEW n \in Nat, NEW b \in a..(n - 1)
    PROVE  b \in Nat /\ a <= b /\ b < n
OBVIOUS

LEMMA StartType ==
    ASSUME NEW s, NEW upTo, Chain(s, upTo)
    PROVE  /\ Start(s, upTo) \in Nat /\ Start(s, upTo) <= upTo
           /\ \A i \in 1..Len(s) : Start(s, upTo) <= s[i].at /\ End(s[i]) <= upTo
<1>0. s \in Seq(Chunk) /\ upTo \in Nat /\ Len(s) \in Nat BY LenProperties DEF Chain
<1>1. ASSUME NEW i \in 1..Len(s) PROVE s[1].at \in Nat /\ s[1].at <= s[i].at /\ End(s[i]) <= upTo
  <2>1. 1 \in 1..Len(s) /\ Len(s) \in 1..Len(s) BY <1>0
  <2>2. s[1].at \in Nat /\ s[1].at <= End(s[1]) /\ End(s[1]) \in Nat BY <2>1, ChainChunk
  <2>3. s[i].at \in Nat /\ End(s[i]) \in Nat BY ChainChunk
  <2>4. s[1].at <= s[i].at
    <3>1. CASE i = 1 BY <2>2, <3>1
    <3>2. CASE i # 1
      <4>1. End(s[1]) <= s[i].at BY <2>1, <3>2, ChainOrder
      <4> QED BY <2>2, <2>3, <4>1
    <3> QED BY <3>1, <3>2
  <2>5. End(s[i]) <= upTo
    <3>1. CASE i = Len(s)
      <4>1. End(s[i]) = upTo BY <3>1, ChainChunk
      <4> QED BY <1>0, <4>1
    <3>2. CASE i # Len(s)
      <4>1. i < Len(s) BY <1>0, <3>2
      <4>2. End(s[i]) <= s[Len(s)].at BY <2>1, <4>1, ChainOrder
      <4>3. s[Len(s)].at <= End(s[Len(s)]) /\ End(s[Len(s)]) = upTo /\ s[Len(s)].at \in Nat
        BY <2>1, ChainChunk
      <4> QED BY <1>0, <2>3, <4>2, <4>3
    <3> QED BY <3>1, <3>2
  <2> QED BY <2>2, <2>4, <2>5
<1>2. CASE s = <<>> BY <1>0, <1>2 DEF Start
<1>3. CASE s # <<>>
  <2>1. 1 \in 1..Len(s) BY <1>0, <1>3
  <2>2. s[1].at \in Nat /\ s[1].at <= End(s[1]) /\ End(s[1]) \in Nat BY <2>1, ChainChunk
  <2>3. End(s[1]) <= upTo BY <1>1, <2>1
  <2> QED BY <1>0, <1>1, <1>3, <2>2, <2>3 DEF Start
<1> QED BY <1>2, <1>3

-----------------------------------------------------------------------------
(* What trim() drops.                                                      *)

LEMMA BeforeSums ==
    ASSUME NEW s, NEW upTo, Chain(s, upTo), s # <<>>
    PROVE  \A k \in 0..(Len(s) - 1) : Before(s)[k] = s[k + 1].at - s[1].at
<1> DEFINE Sums(f) == f = [k \in 0..Len(s) |-> IF k = 0 THEN 0 ELSE f[k - 1] + s[k].bytes]
           w == [k \in 0..Len(s) |-> (IF k < Len(s) THEN s[k + 1].at ELSE upTo) - s[1].at]
           g == Before(s)
<1>0. Len(s) \in Nat /\ Len(s) >= 1 /\ 1 \in 1..Len(s) /\ upTo \in Nat
  BY LenProperties DEF Chain
<1>1. s[1].at \in Nat BY <1>0, ChainChunk
<1>2. ASSUME NEW k \in 0..Len(s), k # 0 PROVE w[k] = w[k - 1] + s[k].bytes
  <2>1. k \in 1..Len(s) /\ k - 1 \in 0..Len(s) /\ k - 1 < Len(s) /\ (k - 1) + 1 = k BY <1>0, <1>2
  <2>2. w[k - 1] = s[k].at - s[1].at BY <2>1
  <2>3. w[k] = End(s[k]) - s[1].at BY <1>0, <2>1, ChainChunk
  <2>4. s[k].at \in Nat /\ s[k].bytes \in Nat /\ End(s[k]) = s[k].at + s[k].bytes
    BY <2>1, ChainChunk DEF End
  <2> QED BY <1>1, <2>2, <2>3, <2>4
<1>3. w[0] = 0 BY <1>0, <1>1
<1>4. Sums(w)
  <2>1. \A k \in 0..Len(s) : w[k] = IF k = 0 THEN 0 ELSE w[k - 1] + s[k].bytes
    BY <1>2, <1>3
  <2> QED BY <2>1
<1>5. g = CHOOSE f : Sums(f) BY DEF Before
<1> HIDE DEF w
<1>6. Sums(g)
  <2> HIDE DEF Sums, g
  <2> QED BY <1>4, <1>5
<1> HIDE DEF g
<1> DEFINE T == {k \in Nat : k <= Len(s) => g[k] = w[k]}
<1>7. T = Nat
  <2>1. 0 \in T BY <1>0, <1>3, <1>6
  <2>2. ASSUME NEW n \in T PROVE n + 1 \in T
    <3>1. n \in Nat /\ n + 1 \in Nat /\ (n + 1) - 1 = n OBVIOUS
    <3>2. ASSUME n + 1 <= Len(s) PROVE g[n + 1] = w[n + 1]
      <4>1. n + 1 \in 0..Len(s) /\ n + 1 # 0 /\ n <= Len(s) BY <1>0, <3>1, <3>2
      <4>2. g[n + 1] = g[(n + 1) - 1] + s[n + 1].bytes BY <1>6, <4>1
      <4>3. w[n + 1] = w[(n + 1) - 1] + s[n + 1].bytes BY <1>2, <4>1
      <4>4. g[n] = w[n] BY <4>1
      <4> QED BY <3>1, <4>2, <4>3, <4>4
    <3> QED BY <3>1, <3>2
  <2>3. T \in SUBSET Nat OBVIOUS
  <2> HIDE DEF T
  <2> QED BY <2>1, <2>2, <2>3, NatSet
<1>8. ASSUME NEW k \in 0..(Len(s) - 1) PROVE g[k] = s[k + 1].at - s[1].at
  <2>1. k \in Nat /\ k < Len(s) /\ k <= Len(s) /\ k \in 0..Len(s) BY <1>0
  <2>2. k \in T BY <1>7, <2>1
  <2> QED BY <2>1, <2>2 DEF w
<1> QED BY <1>8 DEF g

LEMMA DroppedOK ==
    ASSUME NEW s, NEW upTo, Chain(s, upTo), s # <<>>, NEW cap \in Nat
    PROVE  LET held == upTo - s[1].at
               k == Dropped(s, held, cap)
           IN  /\ k \in 0..(Len(s) - 1)
               /\ k = Len(s) - 1 \/ upTo - s[k + 1].at <= cap
               /\ \A j \in 0..(k - 1) : upTo - s[j + 1].at > cap
               /\ held - Before(s)[k] = upTo - s[k + 1].at
<1> DEFINE held == upTo - s[1].at
           T == {k \in 0..(Len(s) - 1) : Fits(s, held, cap, k)}
           Good(k) == /\ k \in 0..(Len(s) - 1) /\ Fits(s, held, cap, k)
                      /\ \A j \in 0..(k - 1) : ~Fits(s, held, cap, j)
<1>0. Len(s) \in Nat /\ Len(s) >= 1 /\ upTo \in Nat BY LenProperties DEF Chain
<1>1. ASSUME NEW k \in 0..(Len(s) - 1)
      PROVE  held - Before(s)[k] = upTo - s[k + 1].at /\ s[k + 1].at \in Nat
  <2>1. Before(s)[k] = s[k + 1].at - s[1].at BY BeforeSums
  <2>2. k + 1 \in 1..Len(s) /\ 1 \in 1..Len(s) BY <1>0
  <2>3. s[k + 1].at \in Nat /\ s[1].at \in Nat BY <2>2, ChainChunk
  <2> QED BY <1>0, <2>1, <2>3
<1>2. Len(s) - 1 \in T BY <1>0 DEF Fits
<1>3. T \in SUBSET Nat BY <1>0
<1>4. PICK k \in T : \A y \in T : k <= y
  <2> HIDE DEF T
  <2> QED BY <1>2, <1>3, Least
<1>5. Good(k)
  <2>1. \A j \in 0..(k - 1) : j \in 0..(Len(s) - 1) /\ ~(k <= j) BY <1>0, <1>4
  <2> QED BY <1>4, <2>1
<1>6. Good(Dropped(s, held, cap))
  <2>1. Dropped(s, held, cap) = CHOOSE n \in 0..(Len(s) - 1) :
           Fits(s, held, cap, n) /\ \A j \in 0..(n - 1) : ~Fits(s, held, cap, j)
    BY DEF Dropped
  <2>2. \E n \in 0..(Len(s) - 1) : Fits(s, held, cap, n) /\ \A j \in 0..(n - 1) : ~Fits(s, held, cap, j)
    BY <1>5
  <2> HIDE DEF held
  <2> QED BY <2>1, <2>2
<1> DEFINE d == Dropped(s, held, cap)
<1>7. d \in 0..(Len(s) - 1) BY <1>6
<1>8. d = Len(s) - 1 \/ upTo - s[d + 1].at <= cap
  <2>1. Fits(s, held, cap, d) BY <1>6
  <2>2. held - Before(s)[d] = upTo - s[d + 1].at BY <1>1, <1>7
  <2> HIDE DEF held, d
  <2> QED BY <2>1, <2>2 DEF Fits
<1>9. ASSUME NEW j \in 0..(d - 1) PROVE upTo - s[j + 1].at > cap
  <2>1. ~Fits(s, held, cap, j) BY <1>6
  <2>2. j \in 0..(Len(s) - 1)
    <3> HIDE DEF d
    <3> QED BY <1>0, <1>7
  <2>3. held - Before(s)[j] = upTo - s[j + 1].at /\ s[j + 1].at \in Nat BY <1>1, <2>2
  <2> HIDE DEF held, d
  <2> QED BY <1>0, <2>1, <2>3 DEF Fits
<1>10. held - Before(s)[d] = upTo - s[d + 1].at BY <1>1, <1>7
<1> QED BY <1>7, <1>8, <1>9, <1>10

(* trim() drops as few chunks from the front as it can, and cuts the one   *)
(* that is left when it alone is over the cap.                             *)
LEMMA TrimCases ==
    ASSUME NEW s, NEW upTo, Chain(s, upTo), s # <<>>, NEW cap \in Nat,
           Trim(s, upTo - s[1].at, upTo, cap)
    PROVE  \E k \in 0..(Len(s) - 1) :
             /\ \A i \in 1..k : upTo - s[i].at > cap
             /\ \/ /\ chunks' = SubSeq(s, k + 1, Len(s)) /\ earliest' = s[k + 1].at
                   /\ retainedBytes' = upTo - s[k + 1].at /\ upTo - s[k + 1].at <= cap
                \/ /\ k + 1 = Len(s) /\ s[k + 1].bytes > cap
                   /\ \E cut \in 0..s[k + 1].bytes :
                        /\ s[k + 1].bytes - cut <= cap
                        /\ chunks' = <<Tail8(s[k + 1], cut)>>
                        /\ earliest' = s[k + 1].at + cut
                        /\ retainedBytes' = s[k + 1].bytes - cut
<1> DEFINE held == upTo - s[1].at
           k == Dropped(s, held, cap)
           rest == SubSeq(s, k + 1, Len(s))
<1>0. s \in Seq(Chunk) /\ Len(s) \in Nat /\ Len(s) >= 1 /\ upTo \in Nat /\ CharSlack \in Nat
  BY LenProperties, OutputConstants DEF Chain
<1>1. /\ k \in 0..(Len(s) - 1)
      /\ k = Len(s) - 1 \/ upTo - s[k + 1].at <= cap
      /\ \A j \in 0..(k - 1) : upTo - s[j + 1].at > cap
      /\ held - Before(s)[k] = upTo - s[k + 1].at
  BY DroppedOK
<1>2. \/ /\ Len(rest) = 1 /\ rest[1].bytes > cap
         /\ \E cut \in Cuts(rest[1], cap) :
              /\ chunks' = <<Tail8(rest[1], cut)>>
              /\ retainedBytes' = TailBytes(rest[1], cut)
              /\ earliest' = rest[1].at + cut
      \/ /\ ~(Len(rest) = 1 /\ rest[1].bytes > cap)
         /\ chunks' = rest /\ retainedBytes' = held - Before(s)[k] /\ earliest' = rest[1].at
  BY Zenon DEF Trim
<1> HIDE DEF k, held
<1>3. k + 1 \in 1..Len(s) /\ Len(rest) = Len(s) - k /\ rest[1] = s[k + 1]
  <2>1. k \in Nat /\ k + 1 \in 1..Len(s) /\ k + 1 \in 1..(Len(s) + 1) /\ Len(s) \in 0..Len(s)
        /\ k + 1 <= Len(s) + 1
    BY <1>0, <1>1
  <2>2. /\ Len(rest) = IF k + 1 <= Len(s) THEN Len(s) - (k + 1) + 1 ELSE 0
        /\ \A i \in 1..(Len(s) - (k + 1) + 1) : rest[i] = s[(k + 1) + i - 1]
    <3>1. \A i \in (k + 1)..Len(s) : s[i] \in Chunk
      <4>1. \A i \in 1..Len(s) : s[i] \in Chunk BY ChainChunk
      <4> QED BY <2>1, <4>1
    <3>2. k + 1 \in Int /\ Len(s) \in Int BY <1>0, <2>1
    <3> DEFINE a == k + 1
    <3>3. a \in Int /\ \A i \in a..Len(s) : s[i] \in Chunk BY <3>1, <3>2
    <3> HIDE DEF a
    <3>4. /\ Len(SubSeq(s, a, Len(s))) = IF a <= Len(s) THEN Len(s) - a + 1 ELSE 0
          /\ \A i \in 1..(Len(s) - a + 1) : SubSeq(s, a, Len(s))[i] = s[a + i - 1]
      BY <3>2, <3>3, SubSeqProperties
    <3> QED BY <3>4 DEF a
  <2>3. 1 \in 1..(Len(s) - (k + 1) + 1) /\ (k + 1) + 1 - 1 = k + 1 BY <1>0, <2>1
  <2> HIDE DEF rest
  <2>4. rest[1] = s[k + 1] BY <2>2, <2>3
  <2> QED BY <1>0, <2>1, <2>2, <2>4
<1>4. ASSUME NEW i \in 1..k PROVE upTo - s[i].at > cap
  <2>1. i - 1 \in 0..(k - 1) /\ (i - 1) + 1 = i BY <1>0, <1>1
  <2> DEFINE j == i - 1
  <2>2. j \in 0..(k - 1) /\ j + 1 = i BY <2>1
  <2> HIDE DEF j
  <2> QED BY <1>1, <2>2
<1>5. s[k + 1].bytes \in Nat /\ s[k + 1].at \in Nat /\ End(s[k + 1]) = s[k + 1].at + s[k + 1].bytes
  BY <1>3, ChainChunk DEF End
<1>6. CASE Len(rest) = 1 /\ rest[1].bytes > cap
  <2>1. k + 1 = Len(s) BY <1>0, <1>1, <1>3, <1>6
  <2>2. PICK cut \in Cuts(rest[1], cap) :
              /\ chunks' = <<Tail8(rest[1], cut)>>
              /\ retainedBytes' = TailBytes(rest[1], cut)
              /\ earliest' = rest[1].at + cut
    BY <1>2, <1>6
  <2>3. cut \in 0..s[k + 1].bytes /\ s[k + 1].bytes - cut <= cap
    <3>1. rest[1].bytes = s[k + 1].bytes BY <1>3
    <3>2. cut \in Cuts(rest[1], cap) /\ rest[1].bytes > cap BY <1>6, <2>2
    <3> HIDE DEF rest
    <3>3. cut \in (s[k + 1].bytes - cap)..s[k + 1].bytes
      BY <1>0, <1>5, <3>1, <3>2 DEF Cuts
    <3> QED BY <1>5, <3>1, <3>2, <3>3
  <2>4. s[k + 1].bytes > cap /\ chunks' = <<Tail8(s[k + 1], cut)>>
        /\ earliest' = s[k + 1].at + cut /\ retainedBytes' = s[k + 1].bytes - cut
    BY <1>3, <1>6, <2>2 DEF TailBytes
  <2> HIDE DEF rest
  <2> QED BY <1>1, <1>4, <2>1, <2>3, <2>4
<1>7. CASE ~(Len(rest) = 1 /\ rest[1].bytes > cap)
  <2>1. chunks' = rest /\ retainedBytes' = upTo - s[k + 1].at /\ earliest' = s[k + 1].at
    BY <1>1, <1>2, <1>3, <1>7
  <2>2. upTo - s[k + 1].at <= cap
    <3>1. CASE k = Len(s) - 1
      <4>1. End(s[k + 1]) = upTo BY <1>0, <1>3, <3>1, ChainChunk
      <4>2. s[k + 1].bytes <= cap BY <1>0, <1>3, <1>5, <1>7, <3>1
      <4> QED BY <1>5, <4>1, <4>2
    <3> QED BY <1>1, <3>1
  <2> QED BY <1>1, <1>4, <2>1, <2>2
<1> QED BY <1>6, <1>7

LEMMA TailChunk ==
    ASSUME NEW c \in Chunk, NEW cut \in 0..c.bytes
    PROVE  /\ Tail8(c, cut) \in Chunk
           /\ Tail8(c, cut).at = c.at + cut /\ Tail8(c, cut).bytes = c.bytes - cut
           /\ Tail8(c, cut).origin = c.origin /\ Tail8(c, cut).from = c.from + cut
           /\ Tail8(c, cut).gap
           /\ End(Tail8(c, cut)) = End(c)
           /\ Tail8(c, cut).from - Tail8(c, cut).at = c.from - c.at
<1>1. c.at \in Nat /\ c.bytes \in Nat /\ c.from \in Nat /\ c.gap \in BOOLEAN
      /\ c.origin \in Sources \cup {Push} /\ cut \in Nat /\ c.bytes - cut \in Nat
  BY DEF Chunk
<1>2. Tail8(c, cut).at = c.at + cut /\ Tail8(c, cut).bytes = c.bytes - cut
      /\ Tail8(c, cut).origin = c.origin /\ Tail8(c, cut).from = c.from + cut
      /\ Tail8(c, cut).gap
  BY DEF Tail8, Chunk
<1>4. c.at + cut \in Nat /\ c.from + cut \in Nat BY <1>1
<1>5. Tail8(c, cut) \in Chunk BY <1>1, <1>4 DEF Tail8, Chunk
<1> QED BY <1>1, <1>2, <1>5 DEF End

LEMMA TrimOK ==
    ASSUME NEW s, NEW upTo, Chain(s, upTo), NEW cap \in Nat,
           Trim(s, upTo - Start(s, upTo), upTo, cap)
    PROVE  /\ Chain(chunks', upTo) /\ earliest' = Start(chunks', upTo)
           /\ retainedBytes' = upTo - earliest' /\ retainedBytes' <= cap
           /\ earliest' >= Start(s, upTo)
           /\ \E k \in 0..Len(s) : Shrinks(s, chunks', k)
           /\ \A m \in Nat : Aligned(s, m) /\ upTo - m <= cap =>
                 \A b \in m..(upTo - 1) : Start(s, upTo) <= b => earliest' <= b
<1>0. s \in Seq(Chunk) /\ Len(s) \in Nat /\ upTo \in Nat BY LenProperties DEF Chain
<1>1. CASE s = <<>>
  <2>1. chunks' = <<>> /\ retainedBytes' = upTo - upTo /\ earliest' = upTo
    BY <1>1 DEF Trim, Start
  <2>2. Chain(chunks', upTo) /\ earliest' = Start(chunks', upTo) /\ earliest' = Start(s, upTo)
    BY <1>0, <1>1, <2>1 DEF Chain, Start
  <2>3. Shrinks(s, chunks', 0) BY <1>0, <1>1, <2>1 DEF Shrinks
  <2>4. 0 \in 0..Len(s) BY <1>0
  <2> QED BY <1>0, <2>1, <2>2, <2>3, <2>4
<1>2. CASE s # <<>>
  <2>0. Start(s, upTo) = s[1].at BY <1>2 DEF Start
  <2>1. PICK k \in 0..(Len(s) - 1) :
             /\ \A i \in 1..k : upTo - s[i].at > cap
             /\ \/ /\ chunks' = SubSeq(s, k + 1, Len(s)) /\ earliest' = s[k + 1].at
                   /\ retainedBytes' = upTo - s[k + 1].at /\ upTo - s[k + 1].at <= cap
                \/ /\ k + 1 = Len(s) /\ s[k + 1].bytes > cap
                   /\ \E cut \in 0..s[k + 1].bytes :
                        /\ s[k + 1].bytes - cut <= cap
                        /\ chunks' = <<Tail8(s[k + 1], cut)>>
                        /\ earliest' = s[k + 1].at + cut
                        /\ retainedBytes' = s[k + 1].bytes - cut
    BY <1>2, <2>0, TrimCases
  <2> DEFINE c == s[k + 1]
  <2>2. k + 1 \in 1..Len(s) /\ k \in 0..Len(s) /\ k \in Nat BY <1>0
  <2>3. c \in Chunk /\ c.at \in Nat /\ c.bytes \in Nat /\ c.from \in Nat /\ End(c) \in Nat
        /\ End(c) = c.at + c.bytes /\ s[1].at <= c.at
    BY <2>0, <2>2, ChainChunk, StartType DEF End
  <2>4. CASE /\ chunks' = SubSeq(s, k + 1, Len(s)) /\ earliest' = c.at
             /\ retainedBytes' = upTo - c.at /\ upTo - c.at <= cap
    <3>1. chunks' \in Seq(Chunk) /\ Len(chunks') = Len(s) - k /\ chunks' # <<>>
      BY <1>0, <2>2, <2>4
    <3>2. \A i \in 1..Len(chunks') : chunks'[i] = s[i + k] /\ i + k \in 1..Len(s)
      BY <1>0, <2>2, <2>4, <3>1
    <3>3. Chain(chunks', upTo)
      <4>1. ASSUME NEW i \in 1..Len(chunks')
            PROVE  End(chunks'[i]) = IF i < Len(chunks') THEN chunks'[i + 1].at ELSE upTo
        <5>1. i + k \in 1..Len(s) /\ (i + k) + 1 = (i + 1) + k /\ i \in Nat
              /\ (i < Len(chunks') <=> i + k < Len(s))
          BY <1>0, <2>2, <3>1, <3>2
        <5>2. End(s[i + k]) = IF i + k < Len(s) THEN s[(i + k) + 1].at ELSE upTo
          BY <5>1 DEF Chain
        <5>3. i < Len(chunks') => i + 1 \in 1..Len(chunks') BY <3>1, <5>1
        <5> QED BY <3>2, <5>1, <5>2, <5>3
      <4> QED BY <1>0, <3>1, <4>1 DEF Chain
    <3>4. Start(chunks', upTo) = c.at
      <4>1. 1 \in 1..Len(chunks') BY <1>0, <2>2, <3>1
      <4>2. chunks'[1] = s[k + 1] BY <3>2, <4>1, <2>2
      <4> QED BY <3>1, <4>2 DEF Start
    <3>5. Shrinks(s, chunks', k)
      <4>1. \A i \in 1..Len(chunks') : chunks'[i].at \in Nat
        BY <3>3, ChainChunk
      <4> QED BY <2>2, <3>1, <3>2, <4>1 DEF Shrinks
    <3>6. ASSUME NEW m \in Nat, Aligned(s, m), upTo - m <= cap,
                 NEW b \in m..(upTo - 1), Start(s, upTo) <= b, ~(c.at <= b)
          PROVE  FALSE
      <4>1. b \in Nat /\ b < upTo /\ m <= b BY <1>0
      <4>2. PICK i \in 1..Len(s) : s[i].at <= b /\ b < End(s[i]) BY <3>6, <4>1, ChainCovers
      <4>3. s[i].at \in Nat /\ End(s[i]) \in Nat BY ChainChunk
      <4>4. s[i].at >= m BY <3>6, <4>1, <4>2, <4>3 DEF Aligned
      <4>5. i \in 1..k
        <5> SUFFICES ASSUME i > k PROVE FALSE BY <2>2
        <5>1. c.at <= s[i].at
          <6>1. CASE i = k + 1 BY <2>3, <6>1
          <6>2. CASE i # k + 1
            <7>1. k + 1 < i BY <2>2, <6>2
            <7>2. End(c) <= s[i].at BY <2>2, <7>1, ChainOrder
            <7> QED BY <2>3, <4>3, <7>2
          <6> QED BY <6>1, <6>2
        <5> QED BY <2>3, <3>6, <4>1, <4>2, <4>3, <5>1
      <4>6. upTo - s[i].at > cap BY <2>1, <4>5
      <4> QED BY <1>0, <3>6, <4>3, <4>4, <4>6
    <3>7. Start(s, upTo) <= earliest' /\ earliest' \in Nat BY <2>0, <2>3, <2>4
    <3>8. \A m \in Nat : Aligned(s, m) /\ upTo - m <= cap =>
                 \A b \in m..(upTo - 1) : Start(s, upTo) <= b => earliest' <= b
      BY <2>4, <3>6
    <3> QED BY <2>0, <2>2, <2>3, <2>4, <3>3, <3>4, <3>5, <3>8
  <2>5. CASE /\ k + 1 = Len(s) /\ c.bytes > cap
             /\ \E cut \in 0..c.bytes :
                        /\ c.bytes - cut <= cap
                        /\ chunks' = <<Tail8(c, cut)>>
                        /\ earliest' = c.at + cut
                        /\ retainedBytes' = c.bytes - cut
    <3>1. PICK cut \in 0..c.bytes :
                        /\ c.bytes - cut <= cap
                        /\ chunks' = <<Tail8(c, cut)>>
                        /\ earliest' = c.at + cut
                        /\ retainedBytes' = c.bytes - cut
      BY <2>5
    <3> DEFINE d == Tail8(c, cut)
    <3>2. /\ d \in Chunk /\ d.at = c.at + cut /\ d.bytes = c.bytes - cut
          /\ d.origin = c.origin /\ End(d) = End(c) /\ d.from - d.at = c.from - c.at /\ d.gap
      BY <2>3, TailChunk
    <3>3. End(c) = upTo BY <2>2, <2>5, ChainChunk
    <3> HIDE DEF d, c
    <3>4. chunks' = <<d>> /\ chunks' \in Seq(Chunk) /\ Len(chunks') = 1 /\ chunks'[1] = d
          /\ chunks' # <<>>
      BY <3>1, <3>2 DEF d
    <3>5. Chain(chunks', upTo)
      <4>1. \A i \in 1..Len(chunks') : i = 1 /\ ~(i < Len(chunks')) BY <3>4
      <4> QED BY <1>0, <3>2, <3>3, <3>4, <4>1 DEF Chain
    <3>6. Start(chunks', upTo) = c.at + cut BY <3>2, <3>4 DEF Start
    <3>7. Shrinks(s, chunks', k)
      <4>1. Len(chunks') = Len(s) - k BY <1>0, <2>2, <2>5, <3>4
      <4>2. \A i \in 1..Len(chunks') : i = 1 /\ s[i + k] = c /\ chunks'[i] = d
        <5>1. 1 + k = k + 1 BY <2>2
        <5> QED BY <3>4, <5>1 DEF c
      <4>3. d.at >= c.at BY <2>3, <3>2
      <4> QED BY <2>2, <3>2, <3>4, <4>1, <4>2, <4>3 DEF Shrinks
    <3>8. ASSUME NEW m \in Nat, Aligned(s, m), upTo - m <= cap,
                 NEW b \in m..(upTo - 1), Start(s, upTo) <= b
          PROVE  FALSE
      <4>1. b \in Nat /\ b < upTo /\ m <= b BY <1>0
      <4>2. PICK i \in 1..Len(s) : s[i].at <= b /\ b < End(s[i]) BY <3>8, <4>1, ChainCovers
      <4>3. s[i].at \in Nat /\ End(s[i]) \in Nat BY ChainChunk
      <4>4. s[i].at >= m BY <3>8, <4>1, <4>2, <4>3 DEF Aligned
      <4>5. CASE i \in 1..k
        <5>1. upTo - s[i].at > cap BY <2>1, <4>5
        <5> QED BY <1>0, <3>8, <4>3, <4>4, <5>1
      <4>6. CASE i \notin 1..k
        <5>1. i = k + 1 BY <1>0, <2>2, <2>5, <4>6
        <5>2. s[i] = c BY <5>1 DEF c
        <5> QED BY <1>0, <2>3, <2>5, <3>3, <3>8, <4>4, <5>2
      <4> QED BY <4>5, <4>6
    <3>9. /\ retainedBytes' = upTo - earliest' /\ retainedBytes' <= cap
          /\ earliest' >= Start(s, upTo)
      <4>1. s[1].at \in Nat BY <2>0, StartType
      <4> DEFINE a == c.at
                 n == c.bytes
                 f == s[1].at
      <4>2. /\ a \in Nat /\ n \in Nat /\ f \in Nat /\ f <= a /\ upTo = a + n
            /\ cut \in 0..n /\ n - cut <= cap /\ earliest' = a + cut /\ retainedBytes' = n - cut
        BY <2>0, <2>3, <3>1, <3>3, <4>1
      <4> HIDE DEF a, n, f
      <4>3. retainedBytes' = upTo - earliest' /\ retainedBytes' <= cap /\ earliest' >= f BY <4>2
      <4> QED BY <2>0, <4>3 DEF f
    <3> QED BY <2>2, <3>1, <3>5, <3>6, <3>7, <3>8, <3>9
  <2> QED BY <2>1, <2>4, <2>5
<1> QED BY <1>1, <1>2

-----------------------------------------------------------------------------
(* What a trim keeps.                                                      *)

LEMMA Shift ==
    ASSUME NEW s, NEW t, NEW upTo, Chain(s, upTo), Chain(t, upTo),
           NEW k \in 0..Len(s), Shrinks(s, t, k), NEW i \in 1..Len(t)
    PROVE  /\ k \in Nat /\ i \in Nat /\ i + k \in 1..Len(s)
           /\ t[i].origin = s[i + k].origin /\ End(t[i]) = End(s[i + k])
           /\ t[i].at >= s[i + k].at
           /\ t[i].from - t[i].at = s[i + k].from - s[i + k].at
           /\ t[i].from + t[i].bytes = s[i + k].from + s[i + k].bytes
           /\ t[i] = s[i + k] \/ (Len(t) = 1 /\ t[i].gap)
<1>0. Len(s) \in Nat /\ Len(t) \in Nat BY LenProperties DEF Chain
<1>1. Len(t) = Len(s) - k /\ t[i].origin = s[i + k].origin /\ End(t[i]) = End(s[i + k])
      /\ t[i].at >= s[i + k].at /\ t[i].from - t[i].at = s[i + k].from - s[i + k].at
      /\ (t[i] = s[i + k] \/ (Len(t) = 1 /\ t[i].gap))
  BY DEF Shrinks
<1> DEFINE q == i + k
<1>2. k \in Nat /\ i \in Nat /\ q \in 1..Len(s) BY <1>0, <1>1
<1> HIDE DEF q
<1>3. t[i].at \in Nat /\ t[i].bytes \in Nat /\ t[i].from \in Nat BY ChainChunk
<1>4. s[q].at \in Nat /\ s[q].bytes \in Nat /\ s[q].from \in Nat BY <1>2, ChainChunk
<1>5. t[i].at + t[i].bytes = s[q].at + s[q].bytes /\ t[i].from - t[i].at = s[q].from - s[q].at
  <2>1. End(t[i]) = End(s[q]) /\ t[i].from - t[i].at = s[q].from - s[q].at BY <1>1 DEF q
  <2> QED BY <2>1 DEF End
<1>6. t[i].from + t[i].bytes = s[q].from + s[q].bytes
  <2> DEFINE a == t[i].at
             b == t[i].bytes
             f == t[i].from
             c == s[q].at
             d == s[q].bytes
             g == s[q].from
  <2>2. a \in Nat /\ b \in Nat /\ f \in Nat /\ c \in Nat /\ d \in Nat /\ g \in Nat
        /\ a + b = c + d /\ f - a = g - c
    BY <1>3, <1>4, <1>5
  <2> HIDE DEF a, b, c, d, f, g
  <2>3. f + b = g + d BY <2>2
  <2> QED BY <2>3 DEF b, d, f, g
<1> QED BY <1>1, <1>2, <1>6 DEF q

LEMMA ShrinkAligned ==
    ASSUME NEW s, NEW t, NEW upTo, Chain(s, upTo), Chain(t, upTo),
           NEW k \in 0..Len(s), Shrinks(s, t, k), NEW m \in Nat, Aligned(s, m)
    PROVE  Aligned(t, m)
<1> SUFFICES ASSUME NEW i \in 1..Len(t) PROVE t[i].at >= m \/ End(t[i]) <= m BY DEF Aligned
<1> DEFINE q == i + k
<1>1. q \in 1..Len(s) /\ End(t[i]) = End(s[q]) /\ t[i].at >= s[q].at BY Shift
<1> HIDE DEF q
<1>2. s[q].at >= m \/ End(s[q]) <= m BY <1>1 DEF Aligned
<1>3. s[q].at \in Nat /\ t[i].at \in Nat BY <1>1, ChainChunk
<1> QED BY <1>1, <1>2, <1>3

LEMMA ShrinkMarked ==
    ASSUME NEW s, NEW t, NEW upTo, Chain(s, upTo), Chain(t, upTo),
           NEW k \in 0..Len(s), Shrinks(s, t, k), Marked(s)
    PROVE  Marked(t)
<1>0. Len(t) \in Nat BY LenProperties DEF Chain
<1> SUFFICES ASSUME NEW i \in 1..Len(t), NEW j \in 1..Len(t), i < j,
                    \A n \in (i + 1)..(j - 1) : t[n].origin # t[j].origin
             PROVE  Unmarked(t[i], t[j])
  BY DEF Marked
<1>1. Len(t) # 1
  <2> SUFFICES ASSUME Len(t) = 1 PROVE FALSE OBVIOUS
  <2>1. i \in 1..1 /\ j \in 1..1 OBVIOUS
  <2> QED BY <2>1
<1>2. \A n \in 1..Len(t) : n + k \in 1..Len(s) /\ t[n] = s[n + k] /\ k \in Nat BY <1>1, Shift
<1>3. i + k \in 1..Len(s) /\ j + k \in 1..Len(s) /\ i + k < j + k /\ k \in Nat BY <1>0, <1>2
<1>4. ASSUME NEW n \in ((i + k) + 1)..((j + k) - 1) PROVE s[n].origin # s[j + k].origin
  <2> DEFINE q == n - k
  <2>1. q \in (i + 1)..(j - 1) /\ q \in 1..Len(t) /\ q + k = n BY <1>0, <1>3
  <2> HIDE DEF q
  <2> QED BY <1>2, <2>1
<1>5. Unmarked(s[i + k], s[j + k])
  <2> DEFINE p == i + k
             r == j + k
  <2>1. p \in 1..Len(s) /\ r \in 1..Len(s) /\ p < r
        /\ \A n \in (p + 1)..(r - 1) : s[n].origin # s[r].origin
    BY <1>3, <1>4
  <2> HIDE DEF p, r
  <2>2. Unmarked(s[p], s[r]) BY <2>1 DEF Marked
  <2> QED BY <2>2 DEF p, r
<1> QED BY <1>2, <1>5

LEMMA ShrinkLatest ==
    ASSUME NEW s, NEW t, NEW upTo, Chain(s, upTo), Chain(t, upTo),
           NEW k \in 0..Len(s), Shrinks(s, t, k), NEW made, Latest(s, made)
    PROVE  Latest(t, made)
<1>0. Len(t) \in Nat /\ Len(s) \in Nat /\ Len(t) = Len(s) - k
  BY LenProperties DEF Chain, Shrinks
<1> SUFFICES ASSUME NEW i \in 1..Len(t),
                    \A n \in (i + 1)..Len(t) : t[n].origin # t[i].origin
             PROVE  t[i].from + t[i].bytes = made[t[i].origin]
  BY DEF Latest
<1> DEFINE p == i + k
<1>1. p \in 1..Len(s) /\ t[i].origin = s[p].origin /\ k \in Nat
      /\ t[i].from + t[i].bytes = s[p].from + s[p].bytes
  BY Shift
<1>2. ASSUME NEW n \in (p + 1)..Len(s) PROVE s[n].origin # s[p].origin
  <2> DEFINE q == n - k
  <2>1. q \in (i + 1)..Len(t) /\ q \in 1..Len(t) /\ q + k = n BY <1>0, <1>1
  <2> HIDE DEF q, p
  <2>2. t[q].origin = s[n].origin
    <3>1. t[q].origin = s[q + k].origin BY <2>1, Shift
    <3> QED BY <2>1, <3>1
  <2> QED BY <1>1, <2>1, <2>2
<1> HIDE DEF p
<1>3. s[p].from + s[p].bytes = made[s[p].origin] BY <1>1, <1>2 DEF Latest
<1> QED BY <1>1, <1>3

LEMMA ShrinkSolid ==
    ASSUME NEW s, NEW t, NEW upTo, Chain(s, upTo), Chain(t, upTo),
           NEW k \in 0..Len(s), Shrinks(s, t, k), Solid(s)
    PROVE  Solid(t)
<1>0. Len(t) \in Nat /\ Len(s) \in Nat BY LenProperties DEF Chain
<1> SUFFICES ASSUME NEW i \in 2..Len(t) PROVE t[i].bytes > 0 BY DEF Solid
<1>1. i \in 1..Len(t) /\ Len(t) # 1 /\ i \in Nat
  <2> DEFINE n == Len(t)
  <2>1. n \in Nat /\ i \in 2..n BY <1>0
  <2> HIDE DEF n
  <2>2. i \in 1..n /\ n # 1 /\ i \in Nat BY <2>1
  <2> QED BY <2>2 DEF n
<1>2. k \in Nat /\ i + k \in 1..Len(s) /\ t[i] = s[i + k] BY <1>1, Shift
<1> DEFINE q == i + k
<1>3. q \in 2..Len(s) /\ t[i] = s[q] BY <1>0, <1>1, <1>2
<1> HIDE DEF q
<1> QED BY <1>3 DEF Solid

(* What a trim drops lies before the cursor, or before what is left.       *)
LEMMA ShrinkBefore ==
    ASSUME NEW s, NEW t, NEW upTo, Chain(s, upTo), Chain(t, upTo),
           NEW k \in 0..Len(s), Shrinks(s, t, k), NEW m \in Nat, Start(t, upTo) <= m
    PROVE  Start(s, upTo) <= m /\ \A i \in 1..k : End(s[i]) <= m
<1>0. Len(t) \in Nat /\ Len(s) \in Nat /\ Len(t) = Len(s) - k /\ upTo \in Nat /\ k \in Nat
  BY LenProperties DEF Chain, Shrinks
<1>1. /\ Start(s, upTo) \in Nat /\ Start(s, upTo) <= upTo
      /\ \A i \in 1..Len(s) : Start(s, upTo) <= s[i].at /\ End(s[i]) <= upTo
  BY StartType
<1>2. \A i \in 1..Len(s) : s[i].at \in Nat /\ End(s[i]) \in Nat BY ChainChunk
<1>3. CASE t = <<>>
  <2>1. Start(t, upTo) = upTo BY <1>3 DEF Start
  <2>2. \A i \in 1..k : i \in 1..Len(s) BY <1>0
  <2> QED BY <1>0, <1>1, <1>2, <2>1, <2>2
<1>4. CASE t # <<>>
  <2>1. 1 \in 1..Len(t) BY <1>0, <1>4 DEF Chain
  <2> DEFINE q == 1 + k
  <2>2. q \in 1..Len(s) /\ t[1].at >= s[q].at BY <2>1, Shift
  <2>3. q = k + 1 BY <1>0
  <2> HIDE DEF q
  <2>4. Start(t, upTo) = t[1].at /\ t[1].at \in Nat BY <1>4, <2>1, ChainChunk DEF Start
  <2>5. s[q].at <= m BY <1>2, <2>2, <2>4
  <2>6. ASSUME NEW i \in 1..k PROVE End(s[i]) <= m
    <3>1. i \in 1..Len(s) /\ i < q BY <1>0, <2>3
    <3>2. End(s[i]) <= s[q].at BY <2>2, <3>1, ChainOrder
    <3> QED BY <1>2, <2>2, <2>5, <3>1, <3>2
  <2> QED BY <1>1, <1>2, <2>2, <2>5, <2>6
<1> QED BY <1>3, <1>4

LEMMA ShrinkResumes ==
    ASSUME NEW s, NEW t, NEW upTo, Chain(s, upTo), Chain(t, upTo),
           NEW k \in 0..Len(s), Shrinks(s, t, k), NEW m \in Nat, NEW C,
           Resumes(s, upTo, m, C)
    PROVE  Resumes(t, upTo, m, C)
<1>0. Len(t) \in Nat /\ Len(s) \in Nat /\ Len(t) = Len(s) - k
  BY LenProperties DEF Chain, Shrinks
<1> SUFFICES ASSUME Start(t, upTo) <= m, NEW c \in C, LastOf(c, C),
                    NEW i \in 1..Len(t), FirstAfter(t, i, c, m)
             PROVE  Unmarked(c, t[i])
  BY DEF Resumes
<1>1. Start(s, upTo) <= m /\ \A j \in 1..k : End(s[j]) <= m BY ShrinkBefore
<1> DEFINE q == i + k
<1>2. /\ k \in Nat /\ i \in Nat /\ q \in 1..Len(s) /\ t[i].origin = s[q].origin
      /\ End(t[i]) = End(s[q]) /\ (t[i] = s[q] \/ t[i].gap)
  BY Shift
<1>3. ASSUME NEW j \in 1..(q - 1), s[j].origin = c.origin PROVE End(s[j]) <= m
  <2>1. CASE j \in 1..k BY <1>1, <2>1
  <2>2. CASE j \notin 1..k
    <3> DEFINE p == j - k
    <3>1. p \in 1..(i - 1) /\ p \in 1..Len(t) /\ p + k = j BY <1>0, <1>2, <2>2
    <3> HIDE DEF p, q
    <3>2. t[p].origin = s[j].origin /\ End(t[p]) = End(s[j]) BY <3>1, Shift
    <3> QED BY <1>3, <3>1, <3>2 DEF FirstAfter
  <2> QED BY <2>1, <2>2
<1> HIDE DEF q
<1>4. FirstAfter(s, q, c, m) BY <1>2, <1>3 DEF FirstAfter
<1>5. Unmarked(c, s[q]) BY <1>1, <1>2, <1>4 DEF Resumes
<1> QED BY <1>2, <1>5 DEF Unmarked

LEMMA ShrinkRests ==
    ASSUME NEW s, NEW t, NEW upTo, Chain(s, upTo), Chain(t, upTo),
           NEW k \in 0..Len(s), Shrinks(s, t, k), NEW m \in Nat, NEW C, NEW made,
           Rests(s, upTo, m, C, made)
    PROVE  Rests(t, upTo, m, C, made)
<1>0. Len(t) \in Nat /\ Len(s) \in Nat /\ Len(t) = Len(s) - k /\ k \in Nat
  BY LenProperties DEF Chain, Shrinks
<1> SUFFICES ASSUME Start(t, upTo) <= m, NEW c \in C, LastOf(c, C),
                    \A i \in 1..Len(t) : t[i].origin = c.origin => End(t[i]) <= m
             PROVE  c.from + c.bytes = made[c.origin]
  BY DEF Rests
<1>1. Start(s, upTo) <= m /\ \A j \in 1..k : End(s[j]) <= m BY ShrinkBefore
<1>2. ASSUME NEW j \in 1..Len(s), s[j].origin = c.origin PROVE End(s[j]) <= m
  <2>1. CASE j \in 1..k BY <1>1, <2>1
  <2>2. CASE j \notin 1..k
    <3> DEFINE p == j - k
    <3>1. p \in 1..Len(t) /\ p + k = j BY <1>0, <2>2
    <3> HIDE DEF p
    <3>2. t[p].origin = s[j].origin /\ End(t[p]) = End(s[j]) BY <3>1, Shift
    <3> QED BY <1>2, <3>1, <3>2
  <2> QED BY <2>1, <2>2
<1> QED BY <1>1, <1>2 DEF Rests

(* A byte held in both s and t is the same byte of the same stream.        *)
Stays(s, t) ==
    \A i \in 1..Len(s), j \in 1..Len(t) :
        \A b \in (s[i].at..(End(s[i]) - 1)) \cap (t[j].at..(End(t[j]) - 1)) :
            /\ s[i].origin = t[j].origin
            /\ s[i].from + (b - s[i].at) = t[j].from + (b - t[j].at)

LEMMA Apart ==
    ASSUME NEW s, NEW upTo, Chain(s, upTo), NEW i \in 1..Len(s), NEW j \in 1..Len(s),
           NEW b \in Nat, s[i].at <= b, b < End(s[i]), s[j].at <= b, b < End(s[j])
    PROVE  i = j
<1>0. i \in Nat /\ j \in Nat /\ s[i].at \in Nat /\ s[j].at \in Nat /\ End(s[i]) \in Nat
      /\ End(s[j]) \in Nat
  BY ChainChunk
<1>1. ~(i < j)
  <2> SUFFICES ASSUME i < j PROVE FALSE OBVIOUS
  <2>1. End(s[i]) <= s[j].at BY ChainOrder
  <2> QED BY <1>0, <2>1
<1>2. ~(j < i)
  <2> SUFFICES ASSUME j < i PROVE FALSE OBVIOUS
  <2>1. End(s[j]) <= s[i].at BY ChainOrder
  <2> QED BY <1>0, <2>1
<1> QED BY <1>0, <1>1, <1>2

LEMMA ShrinkStays ==
    ASSUME NEW s, NEW t, NEW upTo, Chain(s, upTo), Chain(t, upTo),
           NEW k \in 0..Len(s), Shrinks(s, t, k)
    PROVE  Stays(s, t)
<1> SUFFICES ASSUME NEW i \in 1..Len(s), NEW j \in 1..Len(t),
                    NEW b \in (s[i].at..(End(s[i]) - 1)) \cap (t[j].at..(End(t[j]) - 1))
             PROVE  /\ s[i].origin = t[j].origin
                    /\ s[i].from + (b - s[i].at) = t[j].from + (b - t[j].at)
  BY DEF Stays
<1> DEFINE q == j + k
<1>1. /\ q \in 1..Len(s) /\ t[j].origin = s[q].origin /\ End(t[j]) = End(s[q])
      /\ t[j].at >= s[q].at /\ t[j].from - t[j].at = s[q].from - s[q].at
  BY Shift
<1> HIDE DEF q
<1>2. s[i].at \in Nat /\ End(s[i]) \in Nat /\ t[j].at \in Nat /\ t[j].from \in Nat
      /\ End(t[j]) \in Nat /\ s[q].at \in Nat /\ s[q].from \in Nat
  BY <1>1, ChainChunk
<1>3. b \in Nat /\ s[i].at <= b /\ b < End(s[i]) /\ t[j].at <= b /\ b < End(t[j])
  BY <1>2, InRange, Zenon
<1>4. s[q].at <= b /\ b < End(s[q])
  <2>1. s[q].at <= t[j].at /\ End(t[j]) = End(s[q]) BY <1>1, <1>2
  <2> QED BY <1>2, <1>3, <2>1
<1>5. i = q BY <1>1, <1>3, <1>4, Apart
<1>6. s[i].from + (b - s[i].at) = t[j].from + (b - t[j].at)
  <2> DEFINE a == t[j].at
             f == t[j].from
             c == s[i].at
             g == s[i].from
  <2>1. a \in Nat /\ f \in Nat /\ c \in Nat /\ g \in Nat /\ f - a = g - c /\ b \in Nat
    BY <1>1, <1>2, <1>3, <1>5
  <2> HIDE DEF a, c, f, g
  <2>2. g = (f - a) + c BY <2>1
  <2>3. g + (b - c) = (f - a) + b BY <2>1, <2>2
  <2>4. f + (b - a) = (f - a) + b BY <2>1
  <2>5. g + (b - c) = f + (b - a) BY <2>3, <2>4
  <2> QED BY <2>5 DEF a, c, f, g
<1> QED BY <1>1, <1>5, <1>6

-----------------------------------------------------------------------------
(* What an append adds.                                                    *)

LEMMA AppendAt ==
    ASSUME NEW s, NEW upTo, Chain(s, upTo), NEW c \in Chunk
    PROVE  /\ Append(s, c) \in Seq(Chunk) /\ Len(Append(s, c)) = Len(s) + 1
           /\ Len(s) \in Nat /\ Append(s, c) # <<>>
           /\ \A i \in 1..Len(s) : Append(s, c)[i] = s[i]
           /\ Append(s, c)[Len(s) + 1] = c
BY AppendProperties, LenProperties DEF Chain

LEMMA AppendChain ==
    ASSUME NEW s, NEW upTo, Chain(s, upTo), NEW c \in Chunk, c.at = upTo
    PROVE  /\ Chain(Append(s, c), upTo + c.bytes)
           /\ Start(Append(s, c), upTo + c.bytes) = Start(s, upTo)
           /\ \A t : Stays(Append(s, c), t) => Stays(s, t)
<1> DEFINE t == Append(s, c)
<1>0. /\ t \in Seq(Chunk) /\ Len(t) = Len(s) + 1 /\ Len(s) \in Nat /\ t # <<>>
      /\ \A i \in 1..Len(s) : t[i] = s[i]
      /\ t[Len(s) + 1] = c /\ upTo \in Nat /\ c.bytes \in Nat
  <2>1. c.bytes \in Nat BY DEF Chunk
  <2>2. upTo \in Nat BY DEF Chain
  <2> HIDE DEF t
  <2> QED BY <2>1, <2>2, AppendAt DEF t
<1> HIDE DEF t
<1>1. Chain(t, upTo + c.bytes)
  <2>1. ASSUME NEW i \in 1..Len(t)
        PROVE  End(t[i]) = IF i < Len(t) THEN t[i + 1].at ELSE upTo + c.bytes
    <3>1. CASE i = Len(s) + 1 BY <1>0, <3>1 DEF End
    <3>2. CASE i # Len(s) + 1
      <4>1. i \in 1..Len(s) /\ i < Len(t) BY <1>0, <3>2
      <4>2. End(s[i]) = IF i < Len(s) THEN s[i + 1].at ELSE upTo BY <4>1 DEF Chain
      <4>3. CASE i < Len(s)
        <5>1. i + 1 \in 1..Len(s) BY <1>0, <4>1, <4>3
        <5> QED BY <1>0, <4>1, <4>2, <4>3, <5>1
      <4>4. CASE ~(i < Len(s))
        <5>1. i = Len(s) BY <1>0, <4>1, <4>4
        <5> QED BY <1>0, <4>1, <4>2, <5>1
      <4> QED BY <4>3, <4>4
    <3> QED BY <3>1, <3>2
  <2>2. upTo + c.bytes \in Nat BY <1>0
  <2> QED BY <1>0, <2>1, <2>2 DEF Chain
<1>2. Start(t, upTo + c.bytes) = Start(s, upTo)
  <2>1. CASE s = <<>>
    <3>1. Len(s) = 0 BY <2>1
    <3> QED BY <1>0, <2>1, <3>1 DEF Start
  <2>2. CASE s # <<>>
    <3>1. 1 \in 1..Len(s) BY <1>0, <2>2 DEF Chain
    <3> QED BY <1>0, <2>2, <3>1 DEF Start
  <2> QED BY <2>1, <2>2
<1>3. ASSUME NEW u, Stays(t, u) PROVE Stays(s, u)
  <2>1. \A i \in 1..Len(s) : i \in 1..Len(t) /\ t[i] = s[i] BY <1>0
  <2> QED BY <1>3, <2>1 DEF Stays
<1> QED BY <1>1, <1>2, <1>3 DEF t

LEMMA AppendAligned ==
    ASSUME NEW s, NEW upTo, Chain(s, upTo), NEW c \in Chunk, c.at = upTo,
           NEW m \in 0..upTo, Aligned(s, m)
    PROVE  Aligned(Append(s, c), m)
<1>0. /\ Len(Append(s, c)) = Len(s) + 1 /\ Len(s) \in Nat
      /\ \A i \in 1..Len(s) : Append(s, c)[i] = s[i]
      /\ Append(s, c)[Len(s) + 1] = c /\ upTo \in Nat
  BY AppendAt DEF Chain
<1> SUFFICES ASSUME NEW i \in 1..(Len(s) + 1)
             PROVE  Append(s, c)[i].at >= m \/ End(Append(s, c)[i]) <= m
  BY <1>0 DEF Aligned
<1>1. CASE i = Len(s) + 1 BY <1>0, <1>1
<1>2. CASE i # Len(s) + 1
  <2>1. i \in 1..Len(s) BY <1>0, <1>2
  <2> QED BY <1>0, <2>1 DEF Aligned
<1> QED BY <1>1, <1>2

(* The chunk a stream adds follows what it added before, or is marked.     *)
LEMMA AppendMarked ==
    ASSUME NEW s, NEW upTo, Chain(s, upTo), NEW c \in Chunk,
           Marked(s), NEW made, Latest(s, made), c.gap \/ c.from = made[c.origin]
    PROVE  Marked(Append(s, c))
<1> DEFINE t == Append(s, c)
<1>0. /\ Len(t) = Len(s) + 1 /\ Len(s) \in Nat
      /\ \A i \in 1..Len(s) : t[i] = s[i]
      /\ t[Len(s) + 1] = c
  BY AppendAt
<1> HIDE DEF t
<1>1. SUFFICES ASSUME NEW i \in 1..Len(t), NEW j \in 1..Len(t), i < j,
                      \A n \in (i + 1)..(j - 1) : t[n].origin # t[j].origin
               PROVE  Unmarked(t[i], t[j])
  BY DEF Marked, t
<1>2. i \in 1..Len(s) /\ t[i] = s[i] BY <1>0, <1>1
<1>3. CASE j \in 1..Len(s)
  <2>1. \A n \in (i + 1)..(j - 1) : n \in 1..Len(s) /\ t[n] = s[n] BY <1>0, <1>2, <1>3
  <2>2. \A n \in (i + 1)..(j - 1) : s[n].origin # s[j].origin BY <1>0, <1>1, <1>3, <2>1
  <2>3. Unmarked(s[i], s[j]) BY <1>1, <1>2, <1>3, <2>2 DEF Marked
  <2> QED BY <1>0, <1>2, <1>3, <2>3
<1>4. CASE j \notin 1..Len(s)
  <2>1. j = Len(s) + 1 /\ t[j] = c /\ j - 1 = Len(s) BY <1>0, <1>4
  <2>2. ASSUME t[i].origin = t[j].origin, ~t[j].gap PROVE t[j].from = t[i].from + t[i].bytes
    <3>1. \A n \in (i + 1)..Len(s) : n \in 1..Len(s) /\ t[n] = s[n] BY <1>0, <1>2
    <3>2. \A n \in (i + 1)..Len(s) : s[n].origin # s[i].origin
      BY <1>1, <1>2, <2>1, <2>2, <3>1
    <3>3. s[i].from + s[i].bytes = made[s[i].origin] BY <1>2, <3>2 DEF Latest
    <3> QED BY <1>2, <2>1, <2>2, <3>3
  <2> QED BY <2>2 DEF Unmarked
<1> QED BY <1>3, <1>4

LEMMA AppendLatest ==
    ASSUME NEW s, NEW upTo, Chain(s, upTo), NEW c \in Chunk,
           NEW made, Latest(s, made), NEW new, new[c.origin] = c.from + c.bytes,
           \A o \in (Sources \cup {Push}) \ {c.origin} : new[o] = made[o]
    PROVE  Latest(Append(s, c), new)
<1> DEFINE t == Append(s, c)
<1>0. /\ Len(t) = Len(s) + 1 /\ Len(s) \in Nat
      /\ \A i \in 1..Len(s) : t[i] = s[i]
      /\ t[Len(s) + 1] = c
  BY AppendAt
<1> HIDE DEF t
<1>1. SUFFICES ASSUME NEW i \in 1..Len(t),
                      \A n \in (i + 1)..Len(t) : t[n].origin # t[i].origin
               PROVE  t[i].from + t[i].bytes = new[t[i].origin]
  BY DEF Latest, t
<1>2. CASE i = Len(s) + 1 BY <1>0, <1>2
<1>3. CASE i # Len(s) + 1
  <2>1. i \in 1..Len(s) /\ t[i] = s[i] /\ Len(s) + 1 \in (i + 1)..Len(t) BY <1>0, <1>3
  <2>2. c.origin # s[i].origin BY <1>0, <1>1, <2>1
  <2>3. \A n \in (i + 1)..Len(s) : n \in 1..Len(s) /\ n \in (i + 1)..Len(t) /\ t[n] = s[n]
    BY <1>0, <2>1
  <2>4. \A n \in (i + 1)..Len(s) : s[n].origin # s[i].origin BY <1>1, <2>1, <2>3
  <2>5. s[i].from + s[i].bytes = made[s[i].origin] BY <2>1, <2>4 DEF Latest
  <2>6. s[i].origin \in Sources \cup {Push}
    <3>1. s[i] \in Chunk BY <2>1, ChainChunk
    <3> QED BY <3>1 DEF Chunk
  <2> QED BY <2>1, <2>2, <2>5, <2>6
<1> QED BY <1>2, <1>3

LEMMA AppendSolid ==
    ASSUME NEW s, NEW upTo, Chain(s, upTo), NEW c \in Chunk, Solid(s), c.bytes > 0
    PROVE  Solid(Append(s, c))
<1> DEFINE t == Append(s, c)
<1>0. /\ Len(t) = Len(s) + 1 /\ Len(s) \in Nat
      /\ \A i \in 1..Len(s) : t[i] = s[i]
      /\ t[Len(s) + 1] = c
  BY AppendAt
<1> HIDE DEF t
<1>1. ASSUME NEW i \in 2..Len(t) PROVE t[i].bytes > 0
  <2>1. CASE i = Len(s) + 1 BY <1>0, <2>1
  <2>2. CASE i # Len(s) + 1
    <3>1. i \in 2..Len(s) /\ i \in 1..Len(s) BY <1>0, <2>2
    <3> QED BY <1>0, <3>1 DEF Solid
  <2> QED BY <2>1, <2>2
<1> QED BY <1>1 DEF Solid, t

(* The first chunk of a stream behind the cursor is the new one only if    *)
(* nothing of the stream was behind the cursor, and then it follows.       *)
LEMMA AppendResumes ==
    ASSUME NEW s, NEW upTo, Chain(s, upTo), NEW d \in Chunk, d.at = upTo,
           NEW m \in Nat, NEW C, Resumes(s, upTo, m, C),
           NEW made, Rests(s, upTo, m, C, made), d.gap \/ d.from = made[d.origin]
    PROVE  Resumes(Append(s, d), upTo + d.bytes, m, C)
<1> DEFINE t == Append(s, d)
           u == upTo + d.bytes
<1>0. /\ Len(t) = Len(s) + 1 /\ Len(s) \in Nat
      /\ \A i \in 1..Len(s) : t[i] = s[i]
      /\ t[Len(s) + 1] = d
  BY AppendAt
<1>1. Start(t, u) = Start(s, upTo) BY AppendChain
<1> HIDE DEF t, u
<1>2. SUFFICES ASSUME Start(s, upTo) <= m, NEW c \in C, LastOf(c, C),
                      NEW i \in 1..Len(t), FirstAfter(t, i, c, m)
               PROVE  Unmarked(c, t[i])
  BY <1>1 DEF Resumes, t, u
<1>3. CASE i = Len(s) + 1
  <2>1. i - 1 = Len(s) /\ t[i] = d BY <1>0, <1>3
  <2>2. \A k \in 1..Len(s) : s[k].origin = c.origin => End(s[k]) <= m
    BY <1>0, <1>2, <2>1 DEF FirstAfter
  <2>3. c.from + c.bytes = made[c.origin] BY <1>2, <2>2 DEF Rests
  <2> QED BY <2>1, <2>3 DEF Unmarked
<1>4. CASE i # Len(s) + 1
  <2>1. i \in 1..Len(s) /\ t[i] = s[i] /\ \A k \in 1..(i - 1) : k \in 1..Len(s) /\ t[k] = s[k]
    BY <1>0, <1>4
  <2>2. FirstAfter(s, i, c, m) BY <1>2, <2>1 DEF FirstAfter
  <2> QED BY <1>2, <2>1, <2>2 DEF Resumes
<1> QED BY <1>3, <1>4

LEMMA AppendRests ==
    ASSUME NEW s, NEW upTo, Chain(s, upTo), NEW d \in Chunk, d.at = upTo, d.bytes > 0,
           NEW m \in 0..upTo, NEW C \in SUBSET Chunk, NEW made, Rests(s, upTo, m, C, made),
           NEW new, \A o \in (Sources \cup {Push}) \ {d.origin} : new[o] = made[o]
    PROVE  Rests(Append(s, d), upTo + d.bytes, m, C, new)
<1> DEFINE t == Append(s, d)
           u == upTo + d.bytes
<1>0. /\ Len(t) = Len(s) + 1 /\ Len(s) \in Nat
      /\ \A i \in 1..Len(s) : t[i] = s[i]
      /\ t[Len(s) + 1] = d
  BY AppendAt
<1>1. Start(t, u) = Start(s, upTo) BY AppendChain
<1>2. ~(End(d) <= m)
  <2>1. upTo \in Nat /\ d.bytes \in Nat BY DEF Chain, Chunk
  <2> QED BY <2>1 DEF End
<1> HIDE DEF t, u
<1>3. SUFFICES ASSUME Start(s, upTo) <= m, NEW c \in C, LastOf(c, C),
                      \A i \in 1..Len(t) : t[i].origin = c.origin => End(t[i]) <= m
               PROVE  c.from + c.bytes = new[c.origin]
  BY <1>1 DEF Rests, t, u
<1>4. d.origin # c.origin
  <2>1. Len(s) + 1 \in 1..Len(t) BY <1>0
  <2> QED BY <1>0, <1>2, <1>3, <2>1
<1>5. \A i \in 1..Len(s) : s[i].origin = c.origin => End(s[i]) <= m
  <2>1. \A i \in 1..Len(s) : i \in 1..Len(t) BY <1>0
  <2> QED BY <1>0, <1>3, <2>1
<1>6. c.from + c.bytes = made[c.origin] BY <1>3, <1>5 DEF Rests
<1>7. c.origin \in Sources \cup {Push} BY DEF Chunk
<1> QED BY <1>4, <1>6, <1>7

LEMMA StaysSame == ASSUME NEW s, NEW upTo, Chain(s, upTo) PROVE Stays(s, s)
<1> SUFFICES ASSUME NEW i \in 1..Len(s), NEW j \in 1..Len(s),
                    NEW b \in (s[i].at..(End(s[i]) - 1)) \cap (s[j].at..(End(s[j]) - 1))
             PROVE  i = j
  BY DEF Stays
<1>1. s[i].at \in Nat /\ End(s[i]) \in Nat /\ s[j].at \in Nat /\ End(s[j]) \in Nat BY ChainChunk
<1>2. b \in Nat /\ s[i].at <= b /\ b < End(s[i]) /\ s[j].at <= b /\ b < End(s[j])
  BY <1>1, InRange, Zenon
<1> QED BY <1>2, Apart

-----------------------------------------------------------------------------
(* The ring, from one step to the next.                                    *)

LEMMA RingState ==
    ASSUME TypeOK
    PROVE  /\ Chain(chunks, total) /\ earliest = Start(chunks, total)
           /\ total \in Nat /\ earliest \in Nat /\ earliest <= total
           /\ retainedBytes = total - Start(chunks, total) /\ retainedBytes <= RetainBytes
           /\ modelCursor \in 0..total /\ modelCursor \in Nat
<1>1. chunks \in Seq(Chunk) /\ total \in Nat BY DEF TypeOK, Chunk
<1>2. \A i \in 1..Len(chunks) :
         End(chunks[i]) = IF i < Len(chunks) THEN chunks[i + 1].at ELSE total
  BY DEF TypeOK, End
<1>3. Chain(chunks, total) BY <1>1, <1>2 DEF Chain
<1>4. earliest = Start(chunks, total) BY DEF TypeOK, Start
<1>5. earliest \in Nat /\ earliest <= total BY <1>3, <1>4, StartType
<1>6. modelCursor \in 0..total /\ modelCursor \in Nat BY <1>1 DEF TypeOK
<1> QED BY <1>1, <1>3, <1>4, <1>5, <1>6 DEF TypeOK

(* What every step does to the ring, and what it may not do to it.         *)
RingStep ==
    /\ Chain(chunks', total') /\ earliest' = Start(chunks', total')
    /\ retainedBytes' = total' - earliest' /\ retainedBytes' <= RetainBytes
    /\ total' >= total /\ earliest' >= earliest
    /\ Marked(chunks') /\ Solid(chunks') /\ Stays(chunks, chunks')

LEMMA RingSame ==
    ASSUME TypeOK, Marked(chunks), Solid(chunks), UNCHANGED ringVars
    PROVE  RingStep
<1>1. /\ Chain(chunks, total) /\ earliest = Start(chunks, total) /\ total \in Nat
      /\ retainedBytes = total - Start(chunks, total) /\ retainedBytes <= RetainBytes
      /\ earliest \in Nat
  BY RingState
<1>2. Stays(chunks, chunks) BY <1>1, StaysSame
<1>3. chunks' = chunks /\ total' = total /\ earliest' = earliest /\ retainedBytes' = retainedBytes
  BY DEF ringVars
<1> QED BY <1>1, <1>2, <1>3 DEF RingStep

LEMMA AppendStep ==
    ASSUME TypeOK, Aligned(chunks, modelCursor), Marked(chunks), Solid(chunks), Reading,
           NEW o \in Sources \cup {Push}, NEW from \in Nat, NEW n \in Nat, NEW gap \in BOOLEAN,
           NEW new, status = "running" => Latest(chunks, Made),
           gap \/ from = Made[o], n = 0 => ~gap,
           new[o] = from + n, \A p \in (Sources \cup {Push}) \ {o} : new[p] = Made[p],
           AppendRing(o, from, n, gap)
    PROVE  /\ RingStep /\ Aligned(chunks', modelCursor)
           /\ status = "running" => Latest(chunks', new)
           /\ Resumes(chunks', total', modelCursor, lastRead.chunks)
           /\ status = "running" => Rests(chunks', total', modelCursor, lastRead.chunks, new)
<1>0. /\ Chain(chunks, total) /\ earliest = Start(chunks, total) /\ total \in Nat
      /\ retainedBytes = total - Start(chunks, total)
      /\ earliest \in Nat /\ modelCursor \in 0..total /\ modelCursor \in Nat
      /\ RetainBytes \in Nat
  BY RingState, OutputConstants
<1>1. CASE status = "settled" \/ n = 0
  <2>1. UNCHANGED ringVars BY <1>1 DEF AppendRing
  <2>2. chunks' = chunks /\ total' = total BY <2>1 DEF ringVars
  <2>3. ASSUME status = "running"
        PROVE  Latest(chunks, new) /\ Rests(chunks, total, modelCursor, lastRead.chunks, new)
    <3>1. n = 0 /\ from = Made[o] BY <1>1, <2>3
    <3>2. \A p \in Sources \cup {Push} : new[p] = Made[p] BY <3>1
    <3>3. \A i \in 1..Len(chunks) : chunks[i].origin \in Sources \cup {Push}
      <4>1. \A i \in 1..Len(chunks) : chunks[i] \in Chunk BY <1>0, ChainChunk
      <4> QED BY <4>1 DEF Chunk
    <3>4. Latest(chunks, Made) BY <2>3
    <3>5. Latest(chunks, new) BY <3>2, <3>3, <3>4 DEF Latest
    <3>6. Rests(chunks, total, modelCursor, lastRead.chunks, Made)
          /\ \A c \in lastRead.chunks : c.origin \in Sources \cup {Push}
      BY <2>3 DEF Reading, Chunk
    <3>7. Rests(chunks, total, modelCursor, lastRead.chunks, new) BY <3>2, <3>6 DEF Rests
    <3> QED BY <3>5, <3>7
  <2>4. Resumes(chunks, total, modelCursor, lastRead.chunks) BY DEF Reading
  <2> QED BY <2>1, <2>2, <2>3, <2>4, RingSame
<1>2. CASE ~(status = "settled" \/ n = 0)
  <2> DEFINE c == [at |-> total, bytes |-> n, gap |-> gap, origin |-> o, from |-> from]
             s == Append(chunks, c)
             u == total + n
  <2>1. c \in Chunk /\ c.at = total /\ c.bytes = n /\ c.gap = gap /\ c.origin = o /\ c.from = from
    BY <1>0 DEF Chunk
  <2>2. Trim(s, retainedBytes + n, u, RetainBytes) /\ total' = u
    BY <1>2 DEF AppendRing
  <2> HIDE DEF c
  <2>3. /\ Chain(s, u) /\ Start(s, u) = Start(chunks, total)
        /\ \A t : Stays(s, t) => Stays(chunks, t)
    BY <1>0, <2>1, AppendChain
  <2>4. Aligned(s, modelCursor) BY <1>0, <2>1, AppendAligned
  <2>5. status = "running" => Marked(s) /\ Latest(s, new)
    BY <1>0, <2>1, AppendMarked, AppendLatest
  <2>6. status = "running" BY <1>2 DEF TypeOK
  <2> DEFINE C == lastRead.chunks
  <2>7. C \in SUBSET Chunk /\ Resumes(chunks, total, modelCursor, C)
         /\ Rests(chunks, total, modelCursor, C, Made)
    BY <2>6 DEF Reading
  <2>8. n > 0 BY <1>2
  <2> HIDE DEF C
  <2>9. Solid(s) BY <1>0, <2>1, <2>8, AppendSolid
  <2>10. Resumes(s, u, modelCursor, C) BY <1>0, <2>1, <2>7, AppendResumes
  <2>11. Rests(s, u, modelCursor, C, new) BY <1>0, <2>1, <2>7, <2>8, AppendRests
  <2>12. u \in Nat /\ u >= total /\ retainedBytes + n = u - Start(s, u) BY <1>0, <2>3
  <2> HIDE DEF s, u
  <2>13. Trim(s, u - Start(s, u), u, RetainBytes) BY <2>2, <2>12
  <2>14. /\ Chain(chunks', u) /\ earliest' = Start(chunks', u)
        /\ retainedBytes' = u - earliest' /\ retainedBytes' <= RetainBytes
        /\ earliest' >= Start(s, u)
        /\ \E k \in 0..Len(s) : Shrinks(s, chunks', k)
    BY <1>0, <2>3, <2>13, TrimOK
  <2>15. PICK k \in 0..Len(s) : Shrinks(s, chunks', k) BY <2>14
  <2>16. Aligned(chunks', modelCursor) BY <1>0, <2>3, <2>4, <2>14, <2>15, ShrinkAligned
  <2>17. Marked(chunks') BY <2>3, <2>5, <2>6, <2>14, <2>15, ShrinkMarked
  <2>18. Latest(chunks', new) BY <2>3, <2>5, <2>6, <2>14, <2>15, ShrinkLatest
  <2>19. Stays(chunks, chunks') BY <2>3, <2>14, <2>15, ShrinkStays
  <2>20. Solid(chunks') BY <2>3, <2>14, <2>15, <2>9, ShrinkSolid
  <2>21. Resumes(chunks', u, modelCursor, C)
    BY <1>0, <2>3, <2>14, <2>15, <2>10, ShrinkResumes
  <2>22. Rests(chunks', u, modelCursor, C, new)
    BY <1>0, <2>3, <2>14, <2>15, <2>11, ShrinkRests
  <2>23. RingStep BY <1>0, <2>2, <2>3, <2>12, <2>14, <2>17, <2>19, <2>20 DEF RingStep
  <2> QED BY <2>2, <2>16, <2>18, <2>23, <2>21, <2>22 DEF C
<1> QED BY <1>1, <1>2

LEMMA InOffsets ==
    ASSUME NEW C, \A c \in C : c.at \in Nat /\ c.bytes \in Nat, NEW b
    PROVE  b \in Offsets(C) <=> \E c \in C : b \in c.at..(End(c) - 1)
<1>1. b \in Offsets(C) <=> \E c \in C : b \in c.at..(c.at + c.bytes - 1) BY Zenon DEF Offsets
<1>2. ASSUME NEW c \in C PROVE c.at..(c.at + c.bytes - 1) = c.at..(End(c) - 1) BY DEF End
<1> QED BY <1>1, <1>2, Zenon

LEMMA TrimStep ==
    ASSUME TypeOK, Aligned(chunks, modelCursor), Marked(chunks), Solid(chunks), Reading,
           NEW cap \in Nat, Trim(chunks, retainedBytes, total, cap), total' = total
    PROVE  /\ RingStep /\ Aligned(chunks', modelCursor)
           /\ Resumes(chunks', total', modelCursor, lastRead.chunks)
           /\ total - modelCursor <= cap => Unread \subseteq Held'
<1>0. /\ Chain(chunks, total) /\ earliest = Start(chunks, total) /\ total \in Nat
      /\ retainedBytes = total - Start(chunks, total) /\ retainedBytes <= RetainBytes
      /\ earliest \in Nat /\ modelCursor \in 0..total /\ modelCursor \in Nat
      /\ RetainBytes \in Nat
  BY RingState, OutputConstants
<1>1. /\ Chain(chunks', total) /\ earliest' = Start(chunks', total)
      /\ retainedBytes' = total - earliest'
      /\ earliest' >= earliest
      /\ \E k \in 0..Len(chunks) : Shrinks(chunks, chunks', k)
      /\ \A m \in Nat : Aligned(chunks, m) /\ total - m <= cap =>
            \A b \in m..(total - 1) : earliest <= b => earliest' <= b
  <2>1. Trim(chunks, total - Start(chunks, total), total, cap) BY <1>0
  <2> QED BY <1>0, <2>1, TrimOK
<1>2. PICK k \in 0..Len(chunks) : Shrinks(chunks, chunks', k) BY <1>1
<1>3. Aligned(chunks', modelCursor) BY <1>0, <1>1, <1>2, ShrinkAligned
<1>4. Marked(chunks') BY <1>0, <1>1, <1>2, ShrinkMarked
<1>5. Stays(chunks, chunks') BY <1>0, <1>1, <1>2, ShrinkStays
<1>6. earliest' \in Nat BY <1>1, StartType
<1>7. Solid(chunks') BY <1>0, <1>1, <1>2, ShrinkSolid
<1>8. Resumes(chunks', total, modelCursor, lastRead.chunks)
  <2> DEFINE C == lastRead.chunks
  <2>1. Resumes(chunks, total, modelCursor, C) BY DEF Reading
  <2> HIDE DEF C
  <2>2. Resumes(chunks', total, modelCursor, C) BY <1>0, <1>1, <1>2, <2>1, ShrinkResumes
  <2> QED BY <2>2 DEF C
<1>9. RingStep BY <1>0, <1>1, <1>4, <1>5, <1>6, <1>7 DEF RingStep
<1>10. ASSUME total - modelCursor <= cap, NEW b \in Unread PROVE b \in Held'
  <2>1. PICK i \in 1..Len(chunks) : b \in chunks[i].at..(End(chunks[i]) - 1)
    <3> DEFINE C == {chunks[i] : i \in 1..Len(chunks)}
    <3>1. b \in Offsets(C) BY DEF Unread, Held
    <3>2. \A c \in C : \E i \in 1..Len(chunks) : c = chunks[i] OBVIOUS
    <3> HIDE DEF C
    <3>3. \A c \in C : c.at \in Nat /\ c.bytes \in Nat BY <1>0, <3>2, ChainChunk
    <3>4. PICK c \in C : b \in c.at..(End(c) - 1) BY <3>1, <3>3, InOffsets, Zenon
    <3> QED BY <3>2, <3>4
  <2>2. chunks[i].at \in Nat /\ End(chunks[i]) \in Nat /\ End(chunks[i]) <= total
        /\ earliest <= chunks[i].at
    BY <1>0, ChainChunk, StartType
  <2>3. b \in Nat /\ b < total /\ earliest <= b /\ b \in modelCursor..total
    BY <1>0, <2>1, <2>2 DEF Unread
  <2>4. earliest' <= b BY <1>0, <1>1, <1>10, <2>3
  <2>5. PICK j \in 1..Len(chunks') : chunks'[j].at <= b /\ b < End(chunks'[j])
    BY <1>1, <2>3, <2>4, ChainCovers
  <2>6. chunks'[j].at \in Nat /\ chunks'[j].bytes \in Nat /\ End(chunks'[j]) \in Nat
    BY <1>1, ChainChunk
  <2>7. b \in chunks'[j].at..(chunks'[j].at + chunks'[j].bytes - 1)
    BY <2>3, <2>5, <2>6 DEF End
  <2> QED BY <2>7 DEF Held, Offsets
<1> QED BY <1>3, <1>9, <1>10, <1>8

-----------------------------------------------------------------------------
(* The invariant, part by part.                                            *)

OutputTypes ==
    /\ pushed \in Nat /\ next \in 1..(NSources + 1)
    /\ status \in {"running", "settled"} /\ producer \in {"working", "done"}
    /\ pump \in {"round", "waiting", "final", "done"}
    /\ cursor \in [Sources -> Nat] /\ written \in [Sources -> Nat] /\ failed \subseteq Sources

LEMMA TypeParts ==
    ASSUME RingStep, OutputTypes', modelCursor' \in 0..total'
    PROVE  TypeOK'
<1>1. chunks' \in Seq([at : Nat, bytes : Nat, gap : BOOLEAN, origin : Sources \cup {Push},
                       from : Nat]) /\ total' \in Nat
  BY DEF RingStep, Chain, Chunk
<1>2. \A i \in 1..Len(chunks') :
          chunks'[i].at + chunks'[i].bytes = IF i < Len(chunks') THEN chunks'[i + 1].at ELSE total'
  BY DEF RingStep, Chain, End
<1>3. earliest' = IF chunks' = <<>> THEN total' ELSE chunks'[1].at BY DEF RingStep, Start
<1> QED BY <1>1, <1>2, <1>3 DEF TypeOK, OutputTypes, RingStep

LEMMA MadeType ==
    ASSUME TypeOK
    PROVE  /\ OutputTypes /\ Made[Push] = pushed
           /\ \A s \in Sources : s # Push /\ Made[s] = cursor[s] /\ cursor[s] \in Nat
                                 /\ written[s] \in Nat
<1>1. OutputTypes BY DEF TypeOK, OutputTypes
<1>2. \A s \in Sources : s # Push
  <2>1. NSources \in Nat BY OutputConstants
  <2> QED BY <2>1 DEF Sources, Push
<1> QED BY <1>1, <1>2 DEF Made, OutputTypes

LEMMA InitInv == Init => IInv
<1> SUFFICES ASSUME Init PROVE IInv OBVIOUS
<1>0. NSources \in Nat /\ RetainBytes \in Nat BY OutputConstants
<1>1. TypeOK
  <2>1. 1 \in 1..(NSources + 1) BY <1>0
  <2>2. pump \in {"round", "waiting", "final", "done"} BY DEF Init
  <2>3. chunks \in Seq([at : Nat, bytes : Nat, gap : BOOLEAN, origin : Sources \cup {Push},
                       from : Nat]) /\ Len(chunks) = 0 /\ chunks = <<>>
    BY DEF Init
  <2>4. cursor \in [Sources -> Nat] /\ written \in [Sources -> Nat] BY DEF Init
  <2> QED BY <1>0, <2>1, <2>2, <2>3, <2>4 DEF Init, TypeOK
<1>2. Aligned(chunks, modelCursor) /\ Marked(chunks) /\ Latest(chunks, Made)
  <2>1. Len(chunks) = 0 BY DEF Init
  <2> QED BY <2>1 DEF Aligned, Marked, Latest
<1>3. Solid(chunks) /\ Reading
  <2>1. Len(chunks) = 0 /\ lastRead.chunks = {} /\ lastRead.upTo = modelCursor BY DEF Init
  <2> QED BY <2>1 DEF Solid, Reading, Resumes, Rests
<1>4. ReadHonest
  <2>1. Offsets(lastRead.chunks) = {} BY DEF Init, Offsets
  <2>2. lastRead.from..(lastRead.upTo - 1) = {} /\ ~lastRead.lossy BY DEF Init
  <2> QED BY <2>1, <2>2 DEF ReadHonest
<1>5. Pumping
  <2>1. NSources # 0 => 1 \in Sources BY <1>0 DEF Sources
  <2>2. NSources = 0 => Sources = {} BY DEF Sources
  <2>3. \A s \in Sources : cursor[s] <= written[s] BY DEF Init
  <2> QED BY <1>0, <2>1, <2>2, <2>3 DEF Init, Pumping
<1> QED BY <1>1, <1>2, <1>4, <1>5, <1>3 DEF IInv

(* The reads stay honest while nothing reads.                              *)
LEMMA ReadSame ==
    ASSUME ReadHonest, UNCHANGED lastRead
    PROVE  ReadHonest'
BY DEF ReadHonest

LEMMA ReadingSame ==
    ASSUME Reading, UNCHANGED readVars,
           Resumes(chunks', total', modelCursor, lastRead.chunks),
           status' = "running" => Rests(chunks', total', modelCursor, lastRead.chunks, Made')
    PROVE  Reading'
BY DEF Reading, readVars

LEMMA ProducerAppendsStep ==
    ASSUME IInv, NEW n \in 1..MaxWrite, ProducerAppends(n)
    PROVE  IInv' /\ RingStep
<1>0. TypeOK /\ Aligned(chunks, modelCursor) /\ Marked(chunks) /\ Solid(chunks) /\ Reading
      /\ ReadHonest /\ Pumping
      /\ (status = "running" => Latest(chunks, Made))
  BY DEF IInv
<1>1. /\ UNCHANGED <<readVars, status, producer, pumpVars, written>> /\ pushed' = pushed + n
      /\ AppendRing(Push, pushed, n, FALSE)
  BY DEF ProducerAppends
<1>2. n \in Nat /\ n # 0 /\ MaxWrite \in Nat BY OutputConstants
<1>3. pushed \in Nat /\ OutputTypes /\ Push \in Sources \cup {Push}
  BY <1>0, MadeType DEF OutputTypes
<1>4. Made[Push] = pushed /\ Made'[Push] = pushed + n
      /\ \A p \in (Sources \cup {Push}) \ {Push} : Made'[p] = Made[p]
  BY <1>1 DEF Made, pumpVars
<1>5. /\ RingStep /\ Aligned(chunks', modelCursor)
      /\ status = "running" => Latest(chunks', Made')
      /\ Resumes(chunks', total', modelCursor, lastRead.chunks)
      /\ status = "running" => Rests(chunks', total', modelCursor, lastRead.chunks, Made')
  <2> DEFINE new == Made'
  <2>1. new[Push] = pushed + n /\ \A p \in (Sources \cup {Push}) \ {Push} : new[p] = Made[p]
    BY <1>4
  <2> HIDE DEF new
  <2>2. /\ RingStep /\ Aligned(chunks', modelCursor)
        /\ status = "running" => Latest(chunks', new)
        /\ Resumes(chunks', total', modelCursor, lastRead.chunks)
        /\ status = "running" => Rests(chunks', total', modelCursor, lastRead.chunks, new)
    BY <1>0, <1>1, <1>2, <1>3, <1>4, <2>1, AppendStep
  <2> QED BY <2>2 DEF new
<1>6. TypeOK'
  <2>1. OutputTypes' BY <1>1, <1>2, <1>3 DEF OutputTypes, pumpVars
  <2>2. modelCursor' \in 0..total'
    <3>1. modelCursor' = modelCursor BY <1>1 DEF readVars
    <3> QED BY <1>0, <1>5, <3>1, RingState DEF RingStep, Chain
  <2> QED BY <1>5, <2>1, <2>2, TypeParts
<1>7. ReadHonest' BY <1>0, <1>1, ReadSame DEF readVars
<1>8. Pumping' BY <1>0, <1>1 DEF Pumping, pumpVars
<1>9. Aligned(chunks', modelCursor') /\ status' = status BY <1>1, <1>5 DEF readVars
<1>10. Reading' BY <1>0, <1>1, <1>5, <1>9, ReadingSame
<1> QED BY <1>5, <1>6, <1>7, <1>8, <1>9, <1>10 DEF IInv, RingStep

(* A step that leaves the ring and the reads alone.                        *)
LEMMA RingApart ==
    ASSUME IInv, UNCHANGED <<ringVars, readVars, status, pushed>>, OutputTypes', Pumping',
           cursor' = cursor
    PROVE  IInv' /\ RingStep
<1>0. TypeOK /\ Aligned(chunks, modelCursor) /\ Marked(chunks) /\ Solid(chunks) /\ Reading
      /\ ReadHonest /\ (status = "running" => Latest(chunks, Made))
  BY DEF IInv
<1>1. RingStep BY <1>0, RingSame
<1>2. chunks' = chunks /\ total' = total /\ modelCursor' = modelCursor /\ lastRead' = lastRead
      /\ status' = status
  BY DEF ringVars, readVars
<1>3. modelCursor' \in 0..total' BY <1>0, <1>2 DEF TypeOK
<1>4. TypeOK' BY <1>1, <1>3, TypeParts
<1>5. ReadHonest' BY <1>0, <1>2, ReadSame
<1>6. Made' = Made BY DEF Made
<1>7. Reading' BY <1>0, <1>2, <1>6 DEF Reading
<1> QED BY <1>0, <1>1, <1>2, <1>4, <1>5, <1>6, <1>7 DEF IInv

LEMMA SourceWritesStep ==
    ASSUME IInv, NEW s \in Sources, NEW n \in 1..MaxWrite, SourceWrites(s, n)
    PROVE  IInv' /\ RingStep
<1>0. TypeOK /\ Pumping /\ OutputTypes BY MadeType DEF IInv
<1>1. /\ UNCHANGED <<ringVars, readVars, status, producer, pumpVars, pushed>>
      /\ producer = "working" /\ written' = [written EXCEPT ![s] = @ + n]
  BY DEF SourceWrites
<1>2. n \in Nat /\ written[s] \in Nat /\ written[s] + n \in Nat
  BY <1>0, OutputConstants DEF OutputTypes
<1>3. OutputTypes' BY <1>0, <1>1, <1>2 DEF OutputTypes, pumpVars
<1>4. \A r \in Sources : written'[r] >= written[r] BY <1>0, <1>1, <1>2 DEF OutputTypes
<1>5. Pumping'
  <2>1. \A r \in Sources : cursor'[r] <= written'[r]
    <3>1. cursor' = cursor BY <1>1 DEF pumpVars
    <3>2. \A r \in Sources : cursor[r] <= written[r] /\ cursor[r] \in Nat /\ written[r] \in Nat
                             /\ written'[r] \in Nat
      BY <1>0, <1>3 DEF Pumping, OutputTypes
    <3> QED BY <1>4, <3>1, <3>2
  <2>2. pump' = pump /\ next' = next /\ status' = status /\ producer' = "working"
    BY <1>1 DEF pumpVars
  <2>3. producer # "done" BY <1>1
  <2> QED BY <1>0, <2>1, <2>2, <2>3 DEF Pumping
<1> QED BY <1>1, <1>3, <1>5, RingApart DEF pumpVars

LEMMA ProducerDoneStep == ASSUME IInv, ProducerDone PROVE IInv' /\ RingStep
<1>0. TypeOK /\ Pumping /\ OutputTypes BY MadeType DEF IInv
<1>1. /\ UNCHANGED <<ringVars, readVars, status, pumpVars, pushed, written>>
      /\ producer' = "done"
  BY DEF ProducerDone
<1>2. OutputTypes' BY <1>0, <1>1 DEF OutputTypes, pumpVars
<1>3. Pumping' BY <1>0, <1>1 DEF Pumping, pumpVars
<1> QED BY <1>1, <1>2, <1>3, RingApart DEF pumpVars

LEMMA PumpWakesStep == ASSUME IInv, PumpWakes PROVE IInv' /\ RingStep
<1>0. TypeOK /\ Pumping /\ OutputTypes BY MadeType DEF IInv
<1>1. /\ UNCHANGED <<ringVars, readVars, status, producer, next, cursor, failed, pushed, written>>
      /\ pump = "waiting" /\ pump' = IF Until THEN "final" ELSE "round"
  BY DEF PumpWakes
<1>2. OutputTypes' BY <1>0, <1>1 DEF OutputTypes
<1>3. Pumping'
  <2>1. next = 1 /\ NSources \in Nat BY <1>0, <1>1, OutputConstants DEF Pumping
  <2>2. \A s \in Sources : ~(s < next) BY <2>1 DEF Sources
  <2> QED BY <1>0, <1>1, <2>1, <2>2 DEF Pumping, Until
<1> QED BY <1>1, <1>2, <1>3, RingApart

LEMMA NextSourceOK ==
    ASSUME TypeOK, Pumping, pump \in {"round", "final"}, NextSource, NEW done \in [Sources -> Nat],
           UNCHANGED <<status, producer, written>>, NEW lost, failed \subseteq lost,
           lost \subseteq Sources,
           next \notin lost => done[next] = written[next],
           \A s \in Sources \ {next} : done[s] = cursor[s], done[next] <= written[next],
           cursor' = done, failed' = lost
    PROVE  Pumping' /\ next' \in 1..(NSources + 1) /\ pump' \in {"round", "waiting", "final", "done"}
<1>0. OutputTypes /\ NSources \in Nat BY MadeType, OutputConstants
<1>1. next \in Sources /\ next \in 1..NSources BY DEF Pumping, Sources
<1>2. \A s \in Sources : cursor'[s] <= written'[s]
  <2>1. \A s \in Sources : cursor[s] <= written[s] BY DEF Pumping
  <2> QED BY <2>1
<1>3. ASSUME status = "running", pump = "final", NEW s \in Sources \ lost, s < next \/ s = next
      PROVE  cursor'[s] = written'[s]
  <2>1. CASE s = next BY <1>3, <2>1
  <2>2. CASE s # next
    <3>1. s \in Sources \ failed /\ s < next BY <1>3, <2>2
    <3>2. cursor[s] = written[s] BY <1>3, <3>1 DEF Pumping
    <3> QED BY <2>2, <3>2
  <2> QED BY <2>1, <2>2
<1>4. CASE next < NSources
  <2>1. next' = next + 1 /\ pump' = pump BY <1>4 DEF NextSource
  <2>2. next' \in Sources /\ next' \in 1..(NSources + 1) BY <1>0, <1>1, <1>4, <2>1 DEF Sources
  <2>3. \A s \in Sources : s < next' => s < next \/ s = next BY <1>0, <1>1, <2>1 DEF Sources
  <2>4. status = "running" /\ pump = "final" => producer = "done" BY <1>1 DEF Pumping
  <2>5. Pumping'
    <3>1. pump' # "done" /\ pump' # "waiting" BY <2>1
    <3>2. ASSUME status' = "running", pump' \in {"final", "done"}
          PROVE  /\ producer' = "done"
                 /\ \A s \in Sources \ failed' : pump' = "done" \/ s < next'
                                                    => cursor'[s] = written'[s]
      BY <1>3, <2>1, <2>3, <2>4, <3>1, <3>2
    <3> QED BY <1>2, <2>2, <3>1, <3>2 DEF Pumping
  <2> QED BY <2>1, <2>2, <2>5
<1>5. CASE ~(next < NSources)
  <2>1. next' = 1 /\ pump' = (IF pump = "final" THEN "done" ELSE "waiting")
    BY <1>5 DEF NextSource
  <2>2. 1 \in Sources /\ 1 \in 1..(NSources + 1) BY <1>0, <1>1 DEF Sources
  <2>3. \A s \in Sources : s < next \/ s = next BY <1>0, <1>1, <1>5 DEF Sources
  <2>4. status = "running" /\ pump = "final" => producer = "done" BY <1>1 DEF Pumping
  <2>5. Pumping'
    <3>1. ASSUME status' = "running", pump' \in {"final", "done"}
          PROVE  /\ producer' = "done"
                 /\ \A s \in Sources \ failed' : cursor'[s] = written'[s]
      <4>1. pump = "final" BY <2>1, <3>1
      <4> QED BY <1>3, <2>3, <2>4, <3>1, <4>1
    <3> QED BY <1>2, <2>1, <2>2, <3>1 DEF Pumping
  <2> QED BY <2>1, <2>2, <2>5
<1> QED BY <1>4, <1>5

LEMMA SourceFailsStep == ASSUME IInv, SourceFails PROVE IInv' /\ RingStep
<1>0. TypeOK /\ Pumping /\ OutputTypes BY MadeType DEF IInv
<1>1. /\ UNCHANGED <<ringVars, readVars, status, producer, cursor, pushed, written>>
      /\ pump \in {"round", "final"} /\ failed' = failed \cup {next} /\ NextSource
  BY DEF SourceFails
<1>2. next \in Sources /\ cursor[next] <= written[next] BY <1>0, <1>1 DEF Pumping
<1>3. Pumping' /\ next' \in 1..(NSources + 1) /\ pump' \in {"round", "waiting", "final", "done"}
  <2> DEFINE lost == failed \cup {next}
  <2>1. cursor \in [Sources -> Nat] /\ failed \subseteq lost /\ lost \subseteq Sources
        /\ next \in lost
    BY <1>0, <1>2 DEF OutputTypes
  <2>2. cursor' = cursor /\ failed' = lost /\ UNCHANGED <<status, producer, written>>
    BY <1>1
  <2> HIDE DEF lost
  <2> QED BY <1>0, <1>1, <1>2, <2>1, <2>2, NextSourceOK
<1>4. OutputTypes' BY <1>0, <1>1, <1>2, <1>3 DEF OutputTypes
<1> QED BY <1>1, <1>3, <1>4, RingApart

(* A pump round reads a source where it left it, or behind a gap.          *)
LEMMA PumpReadsStep == ASSUME IInv, PumpReads PROVE IInv' /\ RingStep
<1>0. TypeOK /\ Aligned(chunks, modelCursor) /\ Marked(chunks) /\ Solid(chunks) /\ Reading
      /\ ReadHonest /\ Pumping /\ (status = "running" => Latest(chunks, Made)) /\ OutputTypes
  BY MadeType DEF IInv
<1> DEFINE lossy == cursor[next] < Window(next)
           from == IF lossy THEN Window(next) ELSE cursor[next]
           n == written[next] - from
<1>1. /\ UNCHANGED <<readVars, status, producer, failed, pushed, written>>
      /\ pump \in {"round", "final"} /\ next \notin failed /\ NextSource
      /\ cursor' = [cursor EXCEPT ![next] = written[next]]
      /\ AppendRing(next, from, n, lossy)
  BY DEF PumpReads
<1>2. next \in Sources /\ cursor[next] <= written[next] BY <1>0, <1>1 DEF Pumping
<1>3. cursor[next] \in Nat /\ written[next] \in Nat /\ SourceWindow \in Nat /\ SourceWindow # 0
  BY <1>0, <1>2, OutputConstants DEF OutputTypes
<1>4. from \in Nat /\ n \in Nat /\ lossy \in BOOLEAN /\ (lossy \/ from = cursor[next])
      /\ (n = 0 => ~lossy) /\ from + n = written[next]
  BY <1>2, <1>3 DEF Window
<1> HIDE DEF lossy, from, n
<1>5. Made[next] = cursor[next] /\ Made'[next] = from + n
      /\ \A p \in (Sources \cup {Push}) \ {next} : Made'[p] = Made[p]
  <2>1. next # Push /\ Made[next] = cursor[next] BY <1>0, <1>2, MadeType
  <2>2. cursor'[next] = written[next] /\ \A p \in Sources \ {next} : cursor'[p] = cursor[p]
    BY <1>0, <1>1, <1>2 DEF OutputTypes
  <2>3. Made' = [o \in Sources \cup {Push} |-> IF o = Push THEN pushed' ELSE cursor'[o]]
    BY DEF Made
  <2> QED BY <1>1, <1>2, <1>4, <2>1, <2>2, <2>3 DEF Made
<1>6. /\ RingStep /\ Aligned(chunks', modelCursor)
      /\ status = "running" => Latest(chunks', Made')
      /\ Resumes(chunks', total', modelCursor, lastRead.chunks)
      /\ status = "running" => Rests(chunks', total', modelCursor, lastRead.chunks, Made')
  <2> DEFINE new == Made'
  <2>1. next \in Sources \cup {Push} BY <1>2
  <2>2. new[next] = from + n /\ \A p \in (Sources \cup {Push}) \ {next} : new[p] = Made[p]
    BY <1>5
  <2>3. lossy \/ from = Made[next] BY <1>4, <1>5
  <2> HIDE DEF new
  <2>4. /\ RingStep /\ Aligned(chunks', modelCursor)
        /\ status = "running" => Latest(chunks', new)
        /\ Resumes(chunks', total', modelCursor, lastRead.chunks)
        /\ status = "running" => Rests(chunks', total', modelCursor, lastRead.chunks, new)
    BY <1>0, <1>1, <1>4, <2>1, <2>2, <2>3, AppendStep
  <2> QED BY <2>4 DEF new
<1>7. Pumping' /\ next' \in 1..(NSources + 1) /\ pump' \in {"round", "waiting", "final", "done"}
      /\ cursor' \in [Sources -> Nat]
  <2> DEFINE done == [cursor EXCEPT ![next] = written[next]]
  <2>1. done \in [Sources -> Nat] /\ done[next] = written[next]
        /\ \A s \in Sources \ {next} : done[s] = cursor[s]
    BY <1>0, <1>2, <1>3 DEF OutputTypes
  <2>2. cursor' = done /\ failed' = failed /\ UNCHANGED <<status, producer, written>>
        /\ failed \subseteq Sources
    BY <1>0, <1>1 DEF OutputTypes
  <2>3. done[next] <= written[next] BY <1>3, <2>1
  <2> HIDE DEF done
  <2> QED BY <1>0, <1>1, <2>1, <2>2, <2>3, NextSourceOK
<1>8. TypeOK'
  <2>1. OutputTypes' BY <1>0, <1>1, <1>7 DEF OutputTypes
  <2>2. modelCursor' \in 0..total'
    <3>1. modelCursor' = modelCursor BY <1>1 DEF readVars
    <3> QED BY <1>0, <1>6, <3>1, RingState DEF RingStep, Chain
  <2> QED BY <1>6, <2>1, <2>2, TypeParts
<1>9. ReadHonest' BY <1>0, <1>1, ReadSame DEF readVars
<1>10. Aligned(chunks', modelCursor') /\ status' = status BY <1>1, <1>6 DEF readVars
<1>11. Reading' BY <1>0, <1>1, <1>6, <1>10, ReadingSame
<1> QED BY <1>6, <1>7, <1>8, <1>9, <1>10, <1>11 DEF IInv, RingStep

LEMMA SettleStep ==
    ASSUME IInv, Settle
    PROVE  /\ IInv' /\ RingStep /\ Unread \subseteq Held'
           /\ pump = "done" => \A s \in Sources \ failed : cursor[s] = written[s]
<1>0. TypeOK /\ Aligned(chunks, modelCursor) /\ Marked(chunks) /\ Solid(chunks) /\ Reading
      /\ ReadHonest /\ Pumping /\ OutputTypes
  BY MadeType DEF IInv
<1> DEFINE unread == total - modelCursor
<1>1. /\ status = "running" /\ status' = "settled"
      /\ Trim(chunks, retainedBytes, total, SettleCap(unread))
      /\ UNCHANGED <<total, readVars, producer, pumpVars, pushed, written>>
  BY DEF Settle
<1>2. unread \in Nat BY <1>0, RingState
<1> HIDE DEF unread
<1>3. SettleCap(unread) \in Nat /\ unread <= SettleCap(unread)
  BY <1>2, OutputConstants DEF SettleCap
<1> DEFINE cap == SettleCap(unread)
<1>4. /\ RingStep /\ Aligned(chunks', modelCursor)
      /\ Resumes(chunks', total', modelCursor, lastRead.chunks)
      /\ total - modelCursor <= cap => Unread \subseteq Held'
  <2>1. total' = total /\ cap \in Nat /\ Trim(chunks, retainedBytes, total, cap) BY <1>1, <1>3
  <2> HIDE DEF cap
  <2> QED BY <1>0, <2>1, TrimStep
<1>5. Unread \subseteq Held' BY <1>3, <1>4 DEF unread
<1>6. pump = "done" => \A s \in Sources \ failed : cursor[s] = written[s]
  BY <1>0, <1>1 DEF Pumping
<1>7. TypeOK'
  <2>1. OutputTypes' BY <1>0, <1>1 DEF OutputTypes, pumpVars
  <2>2. modelCursor' \in 0..total' BY <1>0, <1>1 DEF TypeOK, readVars
  <2> QED BY <1>4, <2>1, <2>2, TypeParts
<1>8. ReadHonest' BY <1>0, <1>1, ReadSame DEF readVars
<1>9. Pumping' BY <1>0, <1>1 DEF Pumping, pumpVars
<1>10. Aligned(chunks', modelCursor') /\ status' # "running" BY <1>1, <1>4 DEF readVars
<1>11. Reading' BY <1>0, <1>1, <1>4, <1>10, ReadingSame
<1> QED BY <1>4, <1>5, <1>6, <1>7, <1>8, <1>9, <1>10, <1>11 DEF IInv, RingStep

(* What the model is shown, and what it is told of what it is not shown.   *)
LEMMA ReadsHonestly ==
    ASSUME TypeOK, Aligned(chunks, modelCursor)
    PROVE  LET read == ReadFrom(modelCursor)
               shown == Offsets(read.chunks)
               due == read.from..(read.upTo - 1)
           IN shown \subseteq due /\ (read.lossy <=> shown # due)
<1> DEFINE C == {c \in {chunks[i] : i \in 1..Len(chunks)} : Overlaps(c, modelCursor)}
           shown == Offsets(C)
           due == modelCursor..(total - 1)
<1>0. /\ Chain(chunks, total) /\ earliest = Start(chunks, total) /\ total \in Nat
      /\ earliest \in Nat /\ earliest <= total /\ modelCursor \in 0..total /\ modelCursor \in Nat
  BY RingState
<1>1. \A b : b \in shown <=> \E i \in 1..Len(chunks) :
                                /\ End(chunks[i]) > modelCursor
                                /\ b \in chunks[i].at..(End(chunks[i]) - 1)
  <2>1. \A b : b \in shown <=> \E c \in C : b \in c.at..(End(c) - 1)
    <3>1. \A c \in C : \E i \in 1..Len(chunks) : c = chunks[i] OBVIOUS
    <3> HIDE DEF C
    <3>2. \A c \in C : c.at \in Nat /\ c.bytes \in Nat BY <1>0, <3>1, ChainChunk
    <3> QED BY <3>2, InOffsets, Zenon
  <2>2. \A c : c \in C <=> \E i \in 1..Len(chunks) : c = chunks[i] /\ End(c) > modelCursor
    BY DEF Overlaps, End
  <2> HIDE DEF C, shown
  <2> QED BY <2>1, <2>2
<1> HIDE DEF C, shown
<1>2. \A i \in 1..Len(chunks) : /\ chunks[i].at \in Nat /\ End(chunks[i]) \in Nat
                                /\ End(chunks[i]) <= total /\ earliest <= chunks[i].at
  BY <1>0, ChainChunk, StartType
<1>3. ASSUME NEW b \in shown PROVE b \in due /\ b >= earliest
  <2>1. PICK i \in 1..Len(chunks) : /\ End(chunks[i]) > modelCursor
                                    /\ b \in chunks[i].at..(End(chunks[i]) - 1)
    BY <1>1
  <2>2. chunks[i].at >= modelCursor
    <3>1. ~(End(chunks[i]) <= modelCursor) BY <1>0, <1>2, <2>1
    <3> QED BY <3>1 DEF Aligned
  <2> QED BY <1>0, <1>2, <2>1, <2>2
<1>4. CASE modelCursor < earliest
  <2>1. modelCursor \in due /\ ~(modelCursor >= earliest) BY <1>0, <1>4
  <2>2. shown # due BY <1>3, <2>1
  <2> QED BY <1>3, <1>4, <2>2 DEF ReadFrom, C, shown
<1>5. CASE ~(modelCursor < earliest)
  <2>1. ASSUME NEW b \in due PROVE b \in shown
    <3>1. b \in Nat /\ earliest <= b /\ b < total /\ modelCursor <= b BY <1>0, <1>5
    <3>2. PICK i \in 1..Len(chunks) : chunks[i].at <= b /\ b < End(chunks[i])
      BY <1>0, <3>1, ChainCovers
    <3>3. End(chunks[i]) > modelCursor /\ b \in chunks[i].at..(End(chunks[i]) - 1)
      BY <1>0, <1>2, <3>1, <3>2
    <3> QED BY <1>1, <3>3
  <2>2. shown = due BY <1>3, <2>1
  <2> QED BY <1>5, <2>2 DEF ReadFrom, C, shown
<1> QED BY <1>4, <1>5

(* What a read ends with is what its streams have offered so far.          *)
LEMMA ReadRests ==
    ASSUME NEW s, NEW upTo, Chain(s, upTo), Solid(s), NEW m \in Nat, NEW made, Latest(s, made),
           NEW C, \A c : c \in C <=> \E i \in 1..Len(s) : c = s[i] /\ End(c) > m,
           NEW c \in C, LastOf(c, C)
    PROVE  c.from + c.bytes = made[c.origin]
<1>1. PICK i \in 1..Len(s) : c = s[i] /\ End(c) > m OBVIOUS
<1>2. i \in Nat /\ Len(s) \in Nat BY <1>1, ChainChunk
<1>3. ASSUME NEW k \in (i + 1)..Len(s) PROVE s[k].origin # s[i].origin
  <2> SUFFICES ASSUME s[k].origin = c.origin PROVE FALSE BY <1>1
  <2>1. k \in 1..Len(s) /\ k \in 2..Len(s) /\ i < k BY <1>2
  <2>2. End(s[i]) <= s[k].at BY <2>1, ChainOrder
  <2>3. s[k].bytes > 0 BY <2>1 DEF Solid
  <2>4. s[k].at \in Nat /\ s[k].bytes \in Nat /\ End(s[i]) \in Nat /\ End(s[k]) \in Nat
        /\ End(s[k]) = s[k].at + s[k].bytes
    BY <2>1, ChainChunk DEF End
  <2>5. End(s[k]) > m /\ ~(End(s[k]) <= End(c)) BY <1>1, <2>2, <2>3, <2>4
  <2>6. s[k] \in C BY <2>1, <2>5
  <2>7. End(s[k]) <= End(c) BY <2>6 DEF LastOf, End
  <2> QED BY <2>5, <2>7
<1>4. s[i].from + s[i].bytes = made[s[i].origin] BY <1>3 DEF Latest
<1> QED BY <1>1, <1>4

LEMMA ReadChunks ==
    LET C == ReadFrom(modelCursor).chunks
    IN  \A c : c \in C <=> \E i \in 1..Len(chunks) : c = chunks[i] /\ End(c) > modelCursor
BY DEF ReadFrom, Overlaps, End

LEMMA ModelReadsStep == ASSUME IInv, ModelReads PROVE IInv' /\ RingStep
<1>0. TypeOK /\ Aligned(chunks, modelCursor) /\ Marked(chunks) /\ Solid(chunks) /\ Reading /\ Pumping
      /\ (status = "running" => Latest(chunks, Made)) /\ OutputTypes
  BY MadeType DEF IInv
<1>1. /\ lastRead' = ReadFrom(modelCursor) /\ modelCursor' = total
      /\ IF status = "settled"
         THEN Trim(chunks, retainedBytes, total, SettledRetainBytes) /\ UNCHANGED total
         ELSE UNCHANGED ringVars
      /\ UNCHANGED <<status, producer, pumpVars, pushed, written>>
  BY DEF ModelReads
<1>2. RingStep /\ total' = total
  <2>1. CASE status = "settled"
    <3>1. SettledRetainBytes \in Nat BY OutputConstants
    <3> QED BY <1>0, <1>1, <2>1, <3>1, TrimStep
  <2>2. CASE status # "settled"
    <3>1. UNCHANGED ringVars BY <1>1, <2>2
    <3> QED BY <1>0, <3>1, RingSame DEF ringVars
  <2> QED BY <2>1, <2>2
<1>3. TypeOK'
  <2>1. OutputTypes' BY <1>0, <1>1 DEF OutputTypes, pumpVars
  <2>2. modelCursor' \in 0..total' BY <1>0, <1>1, <1>2, RingState
  <2> QED BY <1>2, <2>1, <2>2, TypeParts
<1>4. Aligned(chunks', modelCursor')
  <2>1. Chain(chunks', total) BY <1>2 DEF RingStep
  <2>2. \A i \in 1..Len(chunks') : End(chunks'[i]) <= total BY <2>1, StartType
  <2> QED BY <1>1, <2>2 DEF Aligned
<1>5. ReadHonest'
  <2> DEFINE read == ReadFrom(modelCursor)
  <2>1. LET shown == Offsets(read.chunks)
            due == read.from..(read.upTo - 1)
        IN shown \subseteq due /\ (read.lossy <=> shown # due)
    BY <1>0, ReadsHonestly
  <2>2. lastRead' = read BY <1>1
  <2> HIDE DEF read
  <2> QED BY <2>1, <2>2 DEF ReadHonest
<1>6. Pumping' BY <1>0, <1>1 DEF Pumping, pumpVars
<1>7. ASSUME status' = "running" PROVE Latest(chunks', Made')
  <2>1. status = "running" BY <1>1, <1>7
  <2>2. chunks' = chunks BY <1>1, <2>1 DEF ringVars
  <2>3. Made' = Made BY <1>1 DEF Made, pumpVars
  <2> QED BY <1>0, <2>1, <2>2, <2>3
<1>8. Reading'
  <2> DEFINE C == ReadFrom(modelCursor).chunks
  <2>1. lastRead'.chunks = C /\ lastRead'.upTo = total BY <1>1 DEF ReadFrom
  <2>2. \A c : c \in C <=> \E i \in 1..Len(chunks) : c = chunks[i] /\ End(c) > modelCursor
    BY ReadChunks
  <2> HIDE DEF C
  <2>3. Chain(chunks, total) /\ modelCursor \in Nat /\ total \in Nat BY <1>0, RingState
  <2>4. C \subseteq Chunk
    <3>1. \A i \in 1..Len(chunks) : chunks[i] \in Chunk BY <2>3, ChainChunk
    <3> QED BY <2>2, <3>1
  <2>5. \A i \in 1..Len(chunks') : End(chunks'[i]) \in Nat /\ End(chunks'[i]) <= total
    <3>1. Chain(chunks', total) BY <1>2 DEF RingStep
    <3> QED BY <3>1, ChainChunk, StartType
  <2>6. Resumes(chunks', total', total, C)
    <3>1. \A i \in 1..Len(chunks') : ~(End(chunks'[i]) > total) BY <2>3, <2>5
    <3> QED BY <3>1 DEF Resumes, FirstAfter
  <2>7. ASSUME status' = "running" PROVE Rests(chunks', total', total, C, Made')
    <3>1. status = "running" BY <1>1, <2>7
    <3>2. Made' = Made BY <1>1 DEF Made, pumpVars
    <3>3. Latest(chunks, Made) BY <1>0, <3>1
    <3> DEFINE made == Made
    <3>4. Latest(chunks, made) /\ Made' = made BY <3>2, <3>3
    <3> HIDE DEF made
    <3>5. \A c \in C : LastOf(c, C) => c.from + c.bytes = made[c.origin]
      BY <1>0, <2>2, <2>3, <3>4, ReadRests
    <3> QED BY <3>4, <3>5 DEF Rests
  <2>8. modelCursor' = total BY <1>1
  <2> QED BY <2>1, <2>4, <2>6, <2>7, <2>8 DEF Reading
<1> QED BY <1>2, <1>3, <1>4, <1>5, <1>6, <1>7, <1>8 DEF IInv, RingStep

(* A read goes on where the last one ended, in offsets and in each stream. *)
LEMMA ModelReadsOn == ASSUME IInv, ModelReads PROVE ReadsContinue
<1>0. TypeOK /\ Solid(chunks) /\ Reading BY DEF IInv
<1> DEFINE B == lastRead.chunks
           C == ReadFrom(modelCursor).chunks
<1>1. /\ lastRead'.chunks = C /\ lastRead'.from = modelCursor
      /\ lastRead'.lossy = (modelCursor < earliest)
  BY DEF ModelReads, ReadFrom
<1>2. lastRead.upTo = modelCursor /\ Resumes(chunks, total, modelCursor, B) BY <1>0 DEF Reading
<1>3. \A c : c \in C <=> \E i \in 1..Len(chunks) : c = chunks[i] /\ End(c) > modelCursor
  BY ReadChunks
<1>4. /\ Chain(chunks, total) /\ earliest = Start(chunks, total)
      /\ modelCursor \in Nat /\ earliest \in Nat
  BY <1>0, RingState
<1>5. ASSUME ~(modelCursor < earliest), NEW c \in B, NEW d \in C, LastOf(c, B), FirstOf(d, C)
      PROVE  Unmarked(c, d)
  <2> HIDE DEF B, C
  <2>1. PICK j \in 1..Len(chunks) : d = chunks[j] /\ End(d) > modelCursor BY <1>3, <1>5
  <2>2. SUFFICES ASSUME d.origin = c.origin PROVE Unmarked(c, d) BY DEF Unmarked
  <2>3. j \in Nat /\ Len(chunks) \in Nat BY <1>4, <2>1, ChainChunk
  <2>4. ASSUME NEW k \in 1..(j - 1), chunks[k].origin = c.origin, ~(End(chunks[k]) <= modelCursor)
        PROVE  FALSE
    <3>1. k \in 1..Len(chunks) /\ k < j /\ j \in 2..Len(chunks) BY <2>3
    <3>2. chunks[k].at \in Nat /\ End(chunks[k]) \in Nat /\ chunks[k].bytes \in Nat
          /\ End(chunks[k]) = chunks[k].at + chunks[k].bytes /\ d.at \in Nat
      BY <1>4, <2>1, <3>1, ChainChunk DEF End
    <3>3. chunks[k] \in C
      <4>1. End(chunks[k]) > modelCursor BY <1>4, <2>4, <3>2
      <4> QED BY <1>3, <3>1, <4>1
    <3>4. d.at <= chunks[k].at BY <1>5, <2>2, <2>4, <3>3 DEF FirstOf
    <3>5. End(chunks[k]) <= d.at BY <1>4, <2>1, <3>1, ChainOrder
    <3>6. chunks[k].bytes = 0 /\ End(chunks[k]) = chunks[k].at BY <3>2, <3>4, <3>5
    <3>7. k = 1
      <4>1. k \in 2..Len(chunks) => chunks[k].bytes > 0 BY <1>0 DEF Solid
      <4> QED BY <2>3, <3>1, <3>6, <4>1
    <3>8. earliest = chunks[1].at
      <4>1. chunks # <<>> BY <2>3, <3>1
      <4> QED BY <1>4, <4>1 DEF Start
    <3> QED BY <1>4, <1>5, <2>4, <3>2, <3>6, <3>7, <3>8
  <2>5. FirstAfter(chunks, j, c, modelCursor) BY <2>1, <2>2, <2>4 DEF FirstAfter
  <2>6. Start(chunks, total) <= modelCursor BY <1>4, <1>5
  <2> QED BY <1>2, <1>5, <2>1, <2>5, <2>6 DEF Resumes
<1> QED BY <1>1, <1>2, <1>5 DEF ReadsContinue

LEMMA ReadsGoOn == IInv /\ [Next]_vars => ReadsContinue
<1> SUFFICES ASSUME IInv, [Next]_vars PROVE ReadsContinue OBVIOUS
<1>1. CASE ModelReads BY <1>1, ModelReadsOn
<1>2. CASE ~ModelReads
  <2>1. lastRead' = lastRead
    BY <1>2 DEF Next, vars, readVars, ProducerAppends, SourceWrites, ProducerDone, PumpReads,
       SourceFails, PumpWakes, Settle, ProducerSettles, ForceSettles
  <2> QED BY <2>1 DEF ReadsContinue
<1> QED BY <1>1, <1>2

-----------------------------------------------------------------------------
LEMMA NextInv == IInv /\ [Next]_vars => IInv' /\ RingStep
<1> SUFFICES ASSUME IInv, [Next]_vars PROVE IInv' /\ RingStep OBVIOUS
<1>1. ASSUME NEW n \in 1..MaxWrite, ProducerAppends(n) PROVE IInv' /\ RingStep
  BY <1>1, ProducerAppendsStep
<1>2. ASSUME NEW n \in 1..MaxWrite, NEW s \in Sources, SourceWrites(s, n)
      PROVE  IInv' /\ RingStep
  BY <1>2, SourceWritesStep
<1>3. CASE ProducerDone BY <1>3, ProducerDoneStep
<1>4. CASE PumpReads BY <1>4, PumpReadsStep
<1>5. CASE SourceFails BY <1>5, SourceFailsStep
<1>6. CASE PumpWakes BY <1>6, PumpWakesStep
<1>7. CASE ModelReads BY <1>7, ModelReadsStep
<1>8. CASE ProducerSettles \/ ForceSettles
  BY <1>8, SettleStep DEF ProducerSettles, ForceSettles
<1>9. CASE UNCHANGED vars
  <2>1. /\ UNCHANGED <<ringVars, readVars, status, pushed>> /\ cursor' = cursor
        /\ UNCHANGED <<next, producer, pump, written, failed>>
    BY <1>9 DEF vars, pumpVars
  <2>2. OutputTypes /\ Pumping BY MadeType DEF IInv
  <2>3. OutputTypes' BY <2>1, <2>2 DEF OutputTypes
  <2>4. Pumping' BY <2>1, <2>2 DEF Pumping
  <2> QED BY <2>1, <2>3, <2>4, RingApart
<1> QED BY <1>1, <1>2, <1>3, <1>4, <1>5, <1>6, <1>7, <1>8, <1>9 DEF Next

THEOREM Invariance == Spec => []IInv
<1>1. Init => IInv BY InitInv
<1>2. IInv /\ [Next]_vars => IInv' BY NextInv
<1> QED BY <1>1, <1>2, PTL DEF Spec

(* The ring's accounts agree with its chunks after every append, pump      *)
(* read, consuming read and settlement, for any number of sources and any  *)
(* caps: chunks back to back up to `total`, `earliest` at the first of     *)
(* them, `retainedBytes` what lies between, and never more than            *)
(* retainBytes of it (ring.ts, append() and trim()).                       *)
THEOREM OutputTypeCorrect == Spec => []TypeOK
<1>1. IInv => TypeOK BY DEF IInv
<1> QED BY <1>1, Invariance, PTL

(* A model that reads the job again and again (readJob()) is shown no byte *)
(* twice, and misses none without being told: each read starts where the   *)
(* last one ended and says `lossy` exactly when retention has taken        *)
(* something past that, and what a source lost before the pump came is     *)
(* marked, also when the mark lies between two reads.                      *)
THEOREM LossIsHonest == Spec => LossHonest
<1>1. IInv => ReadHonest /\ \A i, j \in 1..Len(chunks) :
                                NextOfOrigin(i, j) => Unmarked(chunks[i], chunks[j])
  <2>1. Marked(chunks) => \A i, j \in 1..Len(chunks) :
                             NextOfOrigin(i, j) => Unmarked(chunks[i], chunks[j])
    BY DEF Marked, NextOfOrigin
  <2> QED BY <2>1 DEF IInv
<1>2. IInv /\ [Next]_vars => ReadsContinue BY ReadsGoOn
<1> QED BY <1>1, <1>2, Invariance, PTL DEF Spec, LossHonest

LEMMA SettlesKeeping ==
    IInv /\ [Next]_vars =>
        (status = "running" /\ status' = "settled" =>
             /\ Unread \subseteq Held'
             /\ pump = "done" => \A s \in Sources \ failed : cursor[s] = written[s])
<1> SUFFICES ASSUME IInv, [Next]_vars, status = "running", status' = "settled"
             PROVE  Settle
  BY SettleStep
<1>1. status' # status OBVIOUS
<1> QED BY <1>1 DEF Next, vars, readVars, pumpVars, ringVars, ProducerAppends, SourceWrites,
           ProducerDone, PumpReads, SourceFails, PumpWakes, ModelReads, ProducerSettles,
           ForceSettles

(* The trim of a settlement (settle(), index.ts) never takes a byte the    *)
(* model has not read, whatever the caps are, and a settlement that waited *)
(* for the pump finds every byte its live sources wrote offered to the     *)
(* ring: the last round starts after the producer is done.                 *)
THEOREM SettlementIsKept == Spec => SettlementKeeps
<1>1. IInv /\ [Next]_vars =>
        (status = "running" /\ status' = "settled" =>
             /\ Unread \subseteq Held'
             /\ pump = "done" => \A s \in Sources \ failed : cursor[s] = written[s])
  BY SettlesKeeping
<1> QED BY <1>1, Invariance, PTL DEF Spec, SettlementKeeps

(* An absolute offset is a stable name (ring.ts): retention only moves     *)
(* forward, and a byte that stays in the ring keeps its offset and stays   *)
(* the same byte of the same stream, through appends, drops and cuts.      *)
THEOREM OffsetsAreAbsolute == Spec => OffsetsStay
<1>1. IInv /\ [Next]_vars => RingStep BY NextInv
<1>2. RingStep =>
       /\ total' >= total /\ earliest' >= earliest
       /\ \A i \in 1..Len(chunks), j \in 1..Len(chunks') :
             \A b \in (chunks[i].at..(End(chunks[i]) - 1))
                          \cap (chunks'[j].at..(End(chunks'[j]) - 1)) :
                /\ chunks[i].origin = chunks'[j].origin
                /\ chunks[i].from + (b - chunks[i].at) = chunks'[j].from + (b - chunks'[j].at)
  BY DEF RingStep, Stays
<1> QED BY <1>1, <1>2, Invariance, PTL DEF Spec, OffsetsStay
=============================================================================
