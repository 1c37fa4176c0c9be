---- MODULE RingBufferProofs ----
(***************************************************************************)
(* Proofs about the rings, for any blocks, frames, calls and leads: as     *)
(* long as the count of block interrupts is off by no more than half the   *)
(* ring (NearEnough), the absolute position is exact, no word is lost or   *)
(* overwritten unnoticed, and errors are true.                             *)
(*                                                                         *)
(* The argument: interrupts counted, pending and lost are the block ends   *)
(* there were, but for a stale one of the ring that ran before (Counted).  *)
(* So a count that did not change while the address was read was off by    *)
(* that much at the most when it was read (Taken), and absolute puts it    *)
(* right (AbsoluteOf).  From then on the words that moved since are known  *)
(* (Seen), and the cursor stays within the ring of them (CursorInOrder).   *)
(***************************************************************************)
EXTENDS RingBuffer, TLAPS

(* The count may be behind by what was lost and one that is pending, and   *)
(* ahead by a stale one.  With two blocks, one ahead looks like one behind.*)
NearEnough == 2 * (MaxLost + 1) <= blocks /\ blocks > 2

-----------------------------------------------------------------------------
(* The inductive invariant                                                 *)

(* Block ends of the first w words.                                        *)
Ends(w) == w \div block_words

(* The words that had moved when the position was read.                    *)
Seen == moved - held

Counted ==
  \E stale \in {0, 1} : BLOCKS_DONE + (IF pending THEN 1 ELSE 0) + lost = Ends(moved) + stale

(* What a count of e block ends may have come to.                          *)
Near(c, e) == e <= c + (MaxLost + 1) /\ c <= e + 1

Taken ==
  /\ pc \in {"place", "check"} => c1 <= BLOCKS_DONE
  /\ pc = "check" => /\ p = WholeFrames(Seen % len)
                     /\ BLOCKS_DONE = c1 => Near(c1, Ends(Seen))

Whole(w) == w % frame_words = 0

(* The next word the owner copies.                                         *)
Edge == IF pc = "copy" THEN at ELSE cursor

CursorInOrder ==
  /\ Whole(lead)
  /\ cursor = None => owed = None /\ due = None /\ pc # "copy"
  /\ cursor # None => /\ Whole(cursor)
                      /\ Reader => cursor <= WholeFrames(Seen)
                      /\ Writer => cursor <= WholeFrames(Seen) + len /\ owed # None
  /\ pc = "copy" => cursor <= at /\ at < end /\ Whole(end)

(* What the reader copies is in the ring, and next in the stream.          *)
ReadsInOrder ==
  Reader => /\ pc = "copy" => end <= WholeFrames(Seen) /\ WholeFrames(Seen) + frame_words <= cursor + len
            /\ due # None => due = Edge

(* What the writer wrote is in the ring until it is played, and a word     *)
(* played past that is known to be missing.                                *)
WritesInOrder ==
  Writer =>
    /\ pc = "copy" => end <= WholeFrames(Seen) + len /\ WholeFrames(Seen) <= cursor
    /\ starved <= moved /\ due = None
    /\ owed = None => ring = Blank
    /\ owed # None => /\ owed <= Edge
                      /\ moved > Edge => starved = moved
                      /\ \A s \in 0 .. len - 1 : ring[s] < Edge
                      /\ \A j \in owed .. Edge - 1 : j >= moved => ring[j % len] = j

Inv ==
  /\ TypeOK /\ held <= moved
  /\ Counted /\ Taken /\ CursorInOrder /\ ReadsInOrder /\ WritesInOrder

-----------------------------------------------------------------------------
(* Arithmetic                                                              *)

LEMMA RingNumbers ==
  /\ blocks \in Nat \ {0} /\ block_words \in Nat \ {0} /\ frame_words \in Nat \ {0}
  /\ len \in Nat \ {0} /\ block_words <= len /\ MaxLost \in Nat /\ MaxMoved \in Nat /\ Hold \in Nat
  /\ \A n \in Amounts : n \in Nat
  /\ \A l \in Leads : l \in 0 .. len - 1
<1>1. /\ blocks \in Nat \ {0} /\ block_words \in Nat \ {0} /\ frame_words \in Nat \ {0}
      /\ MaxLost \in Nat /\ MaxMoved \in Nat
  BY RingAssumption
<1>2. \A a \in Nat \ {0}, b \in Nat \ {0} : a * b \in Nat \ {0} /\ b <= a * b
  <2> TAKE a \in Nat \ {0}, b \in Nat \ {0}
  <2>1. PICK k \in Nat : a = k + 1
    <3>1. a - 1 \in Nat /\ a = (a - 1) + 1
      OBVIOUS
    <3> QED  BY <3>1
  <2>2. k * b \in Nat
    OBVIOUS
  <2>3. (k + 1) * b = (k * b) + b
    OBVIOUS
  <2> QED  BY <2>1, <2>2, <2>3
<1>3. len \in Nat \ {0} /\ block_words <= len
  BY <1>1, <1>2 DEF len
<1> QED  BY <1>1, <1>3, BufferAssumption

LEMMA Division ==
  ASSUME NEW a \in Nat, NEW b \in Nat \ {0}
  PROVE  /\ a \div b \in Nat /\ a % b \in 0 .. b - 1
         /\ a = (b * (a \div b)) + (a % b)
OBVIOUS

LEMMA LessByFactor ==
  ASSUME NEW n \in Nat \ {0}, NEW a \in Int, NEW b \in Int, NEW r \in 0 .. n - 1, n * a <= (n * b) + r
  PROVE  a <= b
<1> SUFFICES ASSUME b < a PROVE FALSE
  OBVIOUS
<1>1. PICK k \in Nat : a = (b + 1) + k
  <2>1. a - (b + 1) \in Nat /\ a = (b + 1) + (a - (b + 1))
    OBVIOUS
  <2> QED  BY <2>1
<1>2. n * k \in Nat /\ n * b \in Int
  OBVIOUS
<1>3. n * ((b + 1) + k) = ((n * b) + n) + (n * k)
  OBVIOUS
<1> QED  BY <1>1, <1>2, <1>3

(* Quotient and remainder are what adds up.                                *)
LEMMA QuotientIs ==
  ASSUME NEW n \in Nat \ {0}, NEW x \in Nat, NEW q \in Int, NEW r \in 0 .. n - 1, x = (n * q) + r
  PROVE  x \div n = q /\ x % n = r
<1> DEFINE d == x \div n
           m == x % n
<1>1. d \in Nat /\ m \in 0 .. n - 1 /\ x = (n * d) + m
  BY Division
<1> HIDE DEF d, m
<1>2. n * q \in Int /\ n * d \in Int
  BY <1>1
<1>3. n * d <= (n * q) + r /\ n * q <= (n * d) + m
  BY <1>1, <1>2
<1>4. d <= q /\ q <= d
  BY <1>1, <1>3, LessByFactor
<1>5. d = q
  BY <1>1, <1>4
<1>6. m = r
  BY <1>1, <1>2, <1>5
<1> QED  BY <1>5, <1>6 DEF d, m

(* Whole frames.                                                           *)
LEMMA WholeFramesOf ==
  ASSUME NEW w \in Nat
  PROVE  /\ WholeFrames(w) \in Nat /\ WholeFrames(w) <= w /\ w < WholeFrames(w) + frame_words
         /\ Whole(WholeFrames(w))
         /\ \E a \in Nat : WholeFrames(w) = frame_words * a
<1>f. frame_words \in Nat \ {0}
  BY RingNumbers
<1> DEFINE a == w \div frame_words
           r == w % frame_words
<1>1. a \in Nat /\ r \in 0 .. frame_words - 1 /\ w = (frame_words * a) + r
  BY <1>f, Division
<1>2. WholeFrames(w) = w - r
  BY DEF WholeFrames
<1> HIDE DEF a, r
<1>3. frame_words * a \in Nat
  BY <1>f, <1>1
<1>4. WholeFrames(w) = frame_words * a
  BY <1>1, <1>2, <1>3
<1>5. frame_words * a = (frame_words * a) + 0 /\ 0 \in 0 .. frame_words - 1
  BY <1>f, <1>3
<1>6. Whole(frame_words * a)
  BY <1>f, <1>1, <1>3, <1>5, QuotientIs DEF Whole
<1> QED  BY <1>f, <1>1, <1>3, <1>4, <1>6

LEMMA WholeIs ==
  ASSUME NEW c \in Nat, Whole(c)
  PROVE  \E a \in Nat : c = frame_words * a
<1>1. frame_words \in Nat \ {0}
  BY RingNumbers
<1>2. c \div frame_words \in Nat /\ c = (frame_words * (c \div frame_words)) + 0
  BY <1>1, Division DEF Whole
<1>3. PICK a \in Nat : a = c \div frame_words
  BY <1>2
<1>4. c = frame_words * a
  BY <1>1, <1>2, <1>3
<1> QED  BY <1>4

LEMMA WholeMultiple ==
  ASSUME NEW a \in Nat
  PROVE  frame_words * a \in Nat /\ Whole(frame_words * a)
<1>1. frame_words \in Nat \ {0}
  BY RingNumbers
<1>2. frame_words * a \in Nat
  BY <1>1
<1>3. frame_words * a = (frame_words * a) + 0 /\ 0 \in 0 .. frame_words - 1
  BY <1>1, <1>2
<1> QED  BY <1>1, <1>2, <1>3, QuotientIs DEF Whole

LEMMA WholeSums ==
  ASSUME NEW c \in Nat, NEW d \in Nat, Whole(c), Whole(d)
  PROVE  Whole(c + d) /\ (d <= c => Whole(c - d))
<1>1. frame_words \in Nat \ {0}
  BY RingNumbers
<1>2. PICK a \in Nat, b \in Nat : c = frame_words * a /\ d = frame_words * b
  BY WholeIs
<1>3. frame_words * (a + b) = (frame_words * a) + (frame_words * b)
  BY <1>1
<1>4. Whole(c + d)
  BY <1>2, <1>3, WholeMultiple
<1>5. ASSUME d <= c PROVE Whole(c - d)
  <2>1. frame_words * b <= (frame_words * a) + 0
    BY <1>1, <1>2, <1>5
  <2>2. b <= a
    BY <1>1, <2>1, LessByFactor
  <2>3. a - b \in Nat /\ frame_words * (a - b) = (frame_words * a) - (frame_words * b)
    BY <1>1, <2>2
  <2> QED  BY <1>2, <2>3, WholeMultiple
<1> QED  BY <1>4, <1>5

(* The whole frames of w words are the most whole frames in them.          *)
LEMMA MostWholeFrames ==
  ASSUME NEW c \in Nat, NEW w \in Nat, Whole(c), c <= w
  PROVE  c <= WholeFrames(w)
<1>1. frame_words \in Nat \ {0}
  BY RingNumbers
<1>2. PICK a \in Nat, b \in Nat : c = frame_words * a /\ WholeFrames(w) = frame_words * b
  BY WholeIs, WholeFramesOf
<1>3. PICK v \in Nat : v = WholeFrames(w) /\ v <= w /\ w < v + frame_words
  BY WholeFramesOf
<1>r. w - v \in 0 .. frame_words - 1 /\ frame_words * a <= (frame_words * b) + (w - v)
  <2>1. v + (w - v) = w /\ frame_words * a = c /\ frame_words * b = v
    BY <1>2, <1>3
  <2> QED  BY <1>1, <1>3, <2>1
<1>4. a <= b
  BY <1>1, <1>2, <1>r, LessByFactor
<1>5. PICK k \in Nat : b = a + k
  <2>1. b - a \in Nat /\ b = a + (b - a)
    BY <1>4
  <2> QED  BY <2>1
<1>6. frame_words * (a + k) = (frame_words * a) + (frame_words * k) /\ frame_words * k \in Nat
  BY <1>1
<1> QED  BY <1>2, <1>5, <1>6

LEMMA WholeFramesGrow ==
  ASSUME NEW v \in Nat, NEW w \in Nat, v <= w
  PROVE  WholeFrames(v) <= WholeFrames(w)
<1>1. WholeFrames(v) \in Nat /\ WholeFrames(v) <= w /\ Whole(WholeFrames(v))
  BY WholeFramesOf
<1> QED  BY <1>1, MostWholeFrames

LEMMA RingIsWhole == Whole(len)
<1>1. frame_words \in Nat \ {0} /\ blocks \in Nat /\ block_words \in Nat /\ Whole(block_words)
  BY RingAssumption DEF Whole
<1>2. PICK a \in Nat : block_words = frame_words * a
  BY <1>1, WholeIs
<1>3. blocks * (frame_words * a) = frame_words * (blocks * a) /\ blocks * a \in Nat
  BY <1>1
<1> QED  BY <1>2, <1>3, WholeMultiple DEF len

(* A word ends a block, or stays in it.                                    *)
LEMMA EndsStep ==
  ASSUME NEW w \in Nat
  PROVE  /\ Ends(w) \in Nat /\ Ends(w + 1) \in Nat
         /\ Ends(w + 1) = Ends(w) + (IF (w + 1) % block_words = 0 THEN 1 ELSE 0)
<1>1. block_words \in Nat \ {0}
  BY RingNumbers
<1> DEFINE a == w \div block_words
           r == w % block_words
<1>2. a \in Nat /\ r \in 0 .. block_words - 1 /\ w = (block_words * a) + r /\ a = Ends(w)
  BY <1>1, Division DEF Ends
<1> HIDE DEF a, r
<1>3. block_words * a \in Nat
  BY <1>1, <1>2
<1>4. CASE r = block_words - 1
  <2>1. block_words * (a + 1) = (block_words * a) + block_words
    BY <1>1, <1>2
  <2>2. w + 1 = (block_words * (a + 1)) + 0
    BY <1>1, <1>2, <1>3, <1>4, <2>1
  <2>3. (w + 1) \div block_words = a + 1 /\ (w + 1) % block_words = 0
    BY <1>1, <1>2, <2>2, QuotientIs
  <2> QED  BY <1>2, <2>3 DEF Ends
<1>5. CASE r + 1 \in 0 .. block_words - 1
  <2>1. w + 1 = (block_words * a) + (r + 1)
    BY <1>2, <1>3
  <2>2. (w + 1) \div block_words = a /\ (w + 1) % block_words = r + 1
    BY <1>1, <1>2, <1>5, <2>1, QuotientIs
  <2> QED  BY <1>2, <1>5, <2>2 DEF Ends
<1> QED  BY <1>1, <1>2, <1>4, <1>5

(* Two words of one slot are a ring apart.                                 *)
LEMMA SlotsOfARing ==
  ASSUME NEW i \in Nat, NEW j \in Nat, i < j, i % len = j % len
  PROVE  i + len <= j
<1>1. len \in Nat \ {0}
  BY RingNumbers
<1> DEFINE a == i \div len
           b == j \div len
           r == i % len
<1>2. /\ a \in Nat /\ b \in Nat /\ r \in 0 .. len - 1
      /\ i = (len * a) + r /\ j = (len * b) + r
  BY <1>1, Division
<1> HIDE DEF a, b, r
<1>3. len * a \in Nat /\ len * b \in Nat /\ len * a < len * b
  BY <1>1, <1>2
<1>4. a < b
  <2> SUFFICES ASSUME b <= a PROVE FALSE
    BY <1>2
  <2>1. PICK k \in Nat : a = b + k
    <3>1. a - b \in Nat /\ a = b + (a - b)
      BY <1>2
    <3> QED  BY <3>1
  <2>2. len * (b + k) = (len * b) + (len * k) /\ len * k \in Nat
    BY <1>1, <1>2
  <2> QED  BY <1>3, <2>1, <2>2
<1>5. PICK k \in Nat : b = (a + 1) + k
  <2>1. b - (a + 1) \in Nat /\ b = (a + 1) + (b - (a + 1))
    BY <1>2, <1>4
  <2> QED  BY <2>1
<1>6. len * ((a + 1) + k) = ((len * a) + len) + (len * k) /\ len * k \in Nat
  BY <1>1, <1>2
<1> QED  BY <1>1, <1>2, <1>3, <1>5, <1>6

LEMMA WholePart ==
  ASSUME NEW c \in Nat, NEW w \in Nat, Whole(c)
  PROVE  WholeFrames(c + w) = c + WholeFrames(w)
<1>1. frame_words \in Nat \ {0}
  BY RingNumbers
<1>2. PICK a \in Nat : c = frame_words * a
  BY WholeIs
<1>3. PICK b \in Nat, r \in 0 .. frame_words - 1 : w = (frame_words * b) + r /\ w % frame_words = r
  BY <1>1, Division
<1>4. frame_words * (a + b) = (frame_words * a) + (frame_words * b) /\ frame_words * b \in Nat
  BY <1>1
<1>5. c + w = (frame_words * (a + b)) + r
  BY <1>2, <1>3, <1>4
<1>6. (c + w) % frame_words = r
  <2>1. PICK x \in Nat, q \in Int : x = c + w /\ q = a + b
    OBVIOUS
  <2>2. x = (frame_words * q) + r
    BY <1>5, <2>1
  <2> QED  BY <1>1, <2>1, <2>2, QuotientIs
<1>7. WholeFrames(c + w) = (c + w) - r /\ WholeFrames(w) = w - r
  BY <1>3, <1>6 DEF WholeFrames
<1> QED  BY <1>7

LEMMA WholeBlocks ==
  ASSUME NEW i \in Nat
  PROVE  block_words * i \in Nat /\ Whole(block_words * i)
<1>1. frame_words \in Nat \ {0} /\ block_words \in Nat /\ Whole(block_words)
  BY RingAssumption DEF Whole
<1>2. PICK a \in Nat : block_words = frame_words * a
  BY <1>1, WholeIs
<1>3. (frame_words * a) * i = frame_words * (a * i) /\ a * i \in Nat
  BY <1>1
<1> QED  BY <1>2, <1>3, WholeMultiple

(* Where the address of k words is in the ring: block i, word o.           *)
LEMMA PositionOf ==
  ASSUME NEW k \in Nat, NEW i \in Nat, NEW o \in Nat,
         i = Ends(k) % blocks, o = k % block_words
  PROVE  /\ i \in 0 .. blocks - 1 /\ o \in 0 .. block_words - 1
         /\ k = (block_words * Ends(k)) + o /\ Ends(k) \in Nat
         /\ k % len = (block_words * i) + o
<1>n. blocks \in Nat \ {0} /\ block_words \in Nat \ {0} /\ len \in Nat \ {0} /\ len = blocks * block_words
  BY RingNumbers DEF len
<1>1. PICK e \in Nat : e = Ends(k) /\ k = (block_words * e) + o /\ o \in 0 .. block_words - 1
  BY <1>n, Division DEF Ends
<1>2. PICK q \in Nat : e = (blocks * q) + i /\ i \in 0 .. blocks - 1
  BY <1>n, <1>1, Division
<1>3. /\ block_words * ((blocks * q) + i) = ((blocks * block_words) * q) + (block_words * i)
      /\ block_words * i \in Nat /\ (blocks * block_words) * q \in Nat
  BY <1>n
<1>4. k = (len * q) + ((block_words * i) + o)
  BY <1>n, <1>1, <1>2, <1>3
<1>5. (block_words * i) + o \in 0 .. len - 1
  <2>1. PICK m \in Nat : blocks = (i + 1) + m
    <3>1. blocks - (i + 1) \in Nat /\ blocks = (i + 1) + (blocks - (i + 1))
      BY <1>n, <1>2
    <3> QED  BY <3>1
  <2>2. ((i + 1) + m) * block_words = ((block_words * i) + block_words) + (m * block_words) /\ m * block_words \in Nat
    BY <1>n
  <2> QED  BY <1>n, <1>1, <1>3, <2>1, <2>2
<1>6. k % len = (block_words * i) + o
  <2>1. PICK n \in Nat \ {0} : n = len
    BY <1>n
  <2>2. PICK r \in 0 .. n - 1 : r = (block_words * i) + o
    BY <1>5, <2>1
  <2>3. k = (n * q) + r
    BY <1>4, <2>1, <2>2
  <2>4. k % n = r
    <3>1. q \in Int
      OBVIOUS
    <3> QED  BY <2>3, <3>1, QuotientIs, Zenon
  <2> QED  BY <2>1, <2>2, <2>4
<1> QED  BY <1>1, <1>2, <1>6

(* How far the block is ahead of the count, around the ring.               *)
LEMMA AheadOf ==
  ASSUME NEW e \in Nat, NEW c \in Nat, e - c \in 0 .. blocks - 1 \/ c = e + 1
  PROVE  ((e % blocks) + blocks - (c % blocks)) % blocks = IF c = e + 1 THEN blocks - 1 ELSE e - c
<1>n. blocks \in Nat \ {0}
  BY RingNumbers
<1>1. PICK q \in Nat, i \in 0 .. blocks - 1 : e = (blocks * q) + i /\ e % blocks = i
  BY <1>n, Division
<1>2. PICK u \in Nat, v \in 0 .. blocks - 1 : c = (blocks * u) + v /\ c % blocks = v
  BY <1>n, Division
<1>3. blocks * q \in Nat /\ blocks * u \in Nat /\ i + blocks - v \in Nat
  BY <1>n
<1>4. /\ blocks * (u - q) = (blocks * u) - (blocks * q)
      /\ blocks * ((u - q) + 1) = ((blocks * u) - (blocks * q)) + blocks
  BY <1>n
<1>5. CASE c = e + 1
  <2>1. i + blocks - v = (blocks * (u - q)) + (blocks - 1)
    BY <1>n, <1>1, <1>2, <1>3, <1>4, <1>5
  <2>2. (i + blocks - v) % blocks = blocks - 1
    BY <1>n, <1>3, <2>1, QuotientIs
  <2> QED  BY <1>1, <1>2, <1>5, <2>2
<1>6. CASE c # e + 1 /\ e - c \in 0 .. blocks - 1
  <2>1. i + blocks - v = (blocks * ((u - q) + 1)) + (e - c)
    BY <1>n, <1>1, <1>2, <1>3, <1>4
  <2>2. PICK x \in Nat, a \in Int, d \in 0 .. blocks - 1 : x = i + blocks - v /\ a = (u - q) + 1 /\ d = e - c
    BY <1>3, <1>6
  <2>3. x = (blocks * a) + d
    BY <2>1, <2>2
  <2>4. x % blocks = d
    BY <1>n, <2>3, QuotientIs
  <2> QED  BY <1>1, <1>2, <1>6, <2>2, <2>4
<1> QED  BY <1>5, <1>6

(* A count that is near is put right.                                      *)
LEMMA AbsoluteOf ==
  ASSUME NearEnough, NEW k \in Nat, NEW c \in Nat, Near(c, Ends(k))
  PROVE  absolute(c, WholeFrames(k % len)) = WholeFrames(k)
<1>n. blocks \in Nat \ {0} /\ block_words \in Nat \ {0} /\ MaxLost \in Nat
  BY RingNumbers
<1>1. PICK i \in Nat, o \in Nat : i = Ends(k) % blocks /\ o = k % block_words
  <2>1. Ends(k) \in Nat
    BY EndsStep
  <2>2. Ends(k) % blocks \in Nat /\ k % block_words \in Nat
    BY <1>n, <2>1, Division
  <2> QED  BY <2>2
<1>2. /\ o \in 0 .. block_words - 1
      /\ k = (block_words * Ends(k)) + o /\ Ends(k) \in Nat
      /\ k % len = (block_words * i) + o
  BY <1>1, PositionOf
<1>3. PICK e \in Nat : e = Ends(k)
  BY <1>2
<1>4. PICK w \in Nat : w = WholeFrames(o) /\ w <= o
  BY WholeFramesOf
<1>5. WholeFrames(k % len) = (block_words * i) + w /\ WholeFrames(k) = (block_words * e) + w
  BY <1>2, <1>3, <1>4, WholeBlocks, WholePart
<1>6. PICK p0 \in Nat : p0 = (block_words * i) + w
  BY <1>n
<1>7. p0 \div block_words = i /\ p0 % block_words = w
  <2>1. w \in 0 .. block_words - 1
    BY <1>n, <1>2, <1>4
  <2> QED  BY <1>n, <1>6, <2>1, QuotientIs
<1>8. e <= c + (MaxLost + 1) /\ c <= e + 1 /\ 2 * (MaxLost + 1) <= blocks /\ blocks > 2
  BY <1>3 DEF Near, NearEnough
<1> DEFINE ahead == (i + blocks - (c % blocks)) % blocks
<1>9. ahead = IF c = e + 1 THEN blocks - 1 ELSE e - c
  <2>1. e - c \in 0 .. blocks - 1 \/ c = e + 1
    BY <1>n, <1>8
  <2> QED  BY <1>1, <1>3, <2>1, AheadOf
<1> HIDE DEF ahead
<1>10. (IF ahead <= blocks \div 2 THEN c + ahead
        ELSE IF c - (blocks - ahead) < 0 THEN 0 ELSE c - (blocks - ahead)) = e
  <2>1. \A a \in Nat : blocks - 1 > blocks \div 2 /\ (2 * a <= blocks => a <= blocks \div 2)
    BY <1>n, <1>8
  <2>2. CASE c = e + 1
    BY <1>n, <1>9, <2>1, <2>2
  <2>3. CASE c # e + 1
    <3>1. e - c \in Nat /\ 2 * (e - c) <= blocks
      BY <1>n, <1>8, <2>3
    <3> QED  BY <1>9, <2>1, <2>3, <3>1
  <2> QED  BY <2>2, <2>3
<1>11. absolute(c, p0) = e * block_words + w
  <2>1. absolute(c, p0) =
          (IF ahead <= blocks \div 2 THEN c + ahead
           ELSE IF c - (blocks - ahead) < 0 THEN 0 ELSE c - (blocks - ahead)) * block_words + w
    BY <1>7 DEF absolute, ahead
  <2> QED  BY <1>10, <2>1
<1>12. e * block_words = block_words * e
  BY <1>n
<1> QED  BY <1>5, <1>6, <1>11, <1>12

-----------------------------------------------------------------------------
(* What the invariant says                                                 *)

LEMMA InvNumbers ==
  ASSUME Inv
  PROVE  /\ moved \in Nat /\ BLOCKS_DONE \in Nat /\ lost \in 0 .. MaxLost /\ pending \in BOOLEAN
         /\ held \in 0 .. Hold /\ held \in Nat /\ held <= moved
         /\ cursor \in Int /\ cursor >= -1 /\ (cursor # None => cursor \in Nat) /\ lead \in 0 .. len - 1
         /\ call.n \in Nat /\ c1 \in Nat /\ p \in 0 .. len - 1 /\ at \in Nat /\ end \in Nat
         /\ starved \in Nat /\ owed \in Int /\ (owed # None => owed \in Nat)
         /\ due \in Int /\ dir \in {"MemToPeriph", "PeriphToMem"}
<1>1. \A n \in Amounts \cup {0} : n \in Nat
  BY RingNumbers
<1> QED  BY <1>1, RingNumbers DEF Inv, TypeOK, None

LEMMA SeenNumbers ==
  ASSUME Inv
  PROVE  /\ Seen \in Nat /\ Seen + held = moved
         /\ WholeFrames(Seen) \in Nat /\ WholeFrames(Seen) <= Seen
         /\ Seen < WholeFrames(Seen) + frame_words /\ Whole(WholeFrames(Seen))
<1>1. Seen \in Nat /\ Seen + held = moved
  BY InvNumbers DEF Seen
<1> QED  BY <1>1, WholeFramesOf

LEMMA EveryTimePlaced ==
  ASSUME NearEnough, Inv, Placed
  PROVE  hw = WholeFrames(Seen)
<1>1. p = WholeFrames(Seen % len) /\ Near(c1, Ends(Seen))
  BY DEF Placed, Inv, Taken
<1> QED  BY <1>1, InvNumbers, SeenNumbers, AbsoluteOf DEF hw

LEMMA PositionExact == NearEnough /\ Inv => AbsoluteIsExact
<1> SUFFICES ASSUME NearEnough, Inv, Placed
             PROVE  /\ hw = WholeFrames(moved - held)
                    /\ cursor # None => IF Reader THEN cursor <= hw ELSE cursor - hw <= len
  BY DEF AbsoluteIsExact
<1>1. hw = WholeFrames(Seen)
  BY EveryTimePlaced
<1>2. Reader \/ Writer
  BY InvNumbers DEF Reader, Writer
<1>3. cursor # None => IF Reader THEN cursor <= WholeFrames(Seen) ELSE cursor <= WholeFrames(Seen) + len
  BY <1>2 DEF Inv, CursorInOrder
<1> QED  BY <1>1, <1>3, InvNumbers, SeenNumbers, RingNumbers DEF Seen

LEMMA WordsInPlace == Hold <= 1 /\ Inv => WordsAreInTheirPlace
<1> SUFFICES ASSUME Hold <= 1, Inv PROVE WordsAreInTheirPlace
  OBVIOUS
<1>1. ASSUME pc = "copy", Reader
      PROVE  at < moved /\ moved <= at + len /\ (due # None => at = due)
  <2>1. cursor <= at /\ at < end /\ end <= WholeFrames(Seen) /\ WholeFrames(Seen) + frame_words <= cursor + len
        /\ cursor # None
    BY <1>1 DEF Inv, CursorInOrder, ReadsInOrder
  <2>2. due # None => at = due
    BY <1>1 DEF Inv, ReadsInOrder, Edge
  <2>3. moved <= Seen + 1
    BY InvNumbers, SeenNumbers, RingNumbers
  <2> QED  BY <2>1, <2>2, <2>3, InvNumbers, SeenNumbers, RingNumbers
<1>2. ASSUME Writer, owed # None
      PROVE  \A j \in owed .. (IF pc = "copy" THEN at ELSE cursor) - 1 : j >= moved => ring[j % len] = j
  BY <1>2 DEF Inv, WritesInOrder, Edge
<1> QED  BY <1>1, <1>2 DEF WordsAreInTheirPlace

-----------------------------------------------------------------------------
(* The channel and its count                                               *)

LEMMA CountedStep ==
  ASSUME Inv, [Next]_vars
  PROVE  Counted'
<1>1. PICK stale \in {0, 1} : BLOCKS_DONE + (IF pending THEN 1 ELSE 0) + lost = Ends(moved) + stale
  BY DEF Inv, Counted
<1>n. moved \in Nat /\ BLOCKS_DONE \in Nat /\ lost \in Nat /\ pending \in BOOLEAN /\ Ends(moved) \in Nat
  BY InvNumbers, EndsStep, RingNumbers
<1>2. CASE Sweep
  <2>1. /\ moved' = moved + 1 /\ BLOCKS_DONE' = BLOCKS_DONE
        /\ pending' = (pending \/ (moved + 1) % block_words = 0)
        /\ lost' = IF (moved + 1) % block_words = 0 /\ pending THEN lost + 1 ELSE lost
    BY <1>2 DEF Sweep, MoveWord
  <2>2. Ends(moved') = Ends(moved) + (IF (moved + 1) % block_words = 0 THEN 1 ELSE 0)
    BY <1>n, <2>1, EndsStep
  <2> DEFINE ends == (moved + 1) % block_words = 0
  <2>3. /\ pending' = (pending \/ ends) /\ BLOCKS_DONE' = BLOCKS_DONE
        /\ lost' = IF ends /\ pending THEN lost + 1 ELSE lost
        /\ Ends(moved') = Ends(moved) + (IF ends THEN 1 ELSE 0)
    BY <2>1, <2>2
  <2> HIDE DEF ends
  <2>4. CASE ends
    <3>1. pending' = TRUE
      BY <2>3, <2>4
    <3>2. lost' = lost + (IF pending THEN 1 ELSE 0) /\ Ends(moved') = Ends(moved) + 1
      BY <1>n, <2>3, <2>4
    <3>3. BLOCKS_DONE' + (IF pending' THEN 1 ELSE 0) + lost' = Ends(moved') + stale
      BY <1>1, <1>n, <2>3, <3>1, <3>2
    <3> QED  BY <3>3 DEF Counted, Ends
  <2>5. CASE ~ends
    BY <1>1, <1>n, <2>3, <2>5 DEF Counted, Ends
  <2> QED  BY <2>4, <2>5
<1>3. CASE BlockEnd
  <2>1. pending /\ pending' = FALSE /\ BLOCKS_DONE' = BLOCKS_DONE + 1 /\ moved' = moved /\ lost' = lost
    BY <1>3 DEF BlockEnd, on_block_int
  <2>2. BLOCKS_DONE' + (IF pending' THEN 1 ELSE 0) + lost' = Ends(moved') + stale
    BY <1>1, <1>n, <2>1
  <2> QED  BY <2>2 DEF Counted, Ends
<1>4. CASE ~Sweep /\ ~BlockEnd
  <2>1. UNCHANGED <<moved, BLOCKS_DONE, pending, lost>>
    BY <1>4, Zenon DEF Next, Owner, Begin, set_lead, ReadCount, ReadPosition, CountAgain, Underrun, Write, CopyIn,
       Anchor, Overrun, Read, CopyOut, Woken, Drop, channel, vars
  <2> QED  BY <1>1, <2>1 DEF Counted, Ends
<1> QED  BY <1>2, <1>3, <1>4

LEMMA TakenStep ==
  ASSUME Inv, [Next]_vars
  PROVE  Taken'
<1>n. moved \in Nat /\ BLOCKS_DONE \in Nat /\ held \in Nat /\ c1 \in Nat /\ len \in Nat \ {0}
  BY InvNumbers, RingNumbers
<1>1. CASE Sweep
  <2>1. /\ moved' = moved + 1 /\ UNCHANGED <<BLOCKS_DONE, pc, c1, p>>
        /\ pc = "check" => held' = held + 1
    BY <1>1 DEF Sweep, MoveWord
  <2>2. pc = "check" => Seen' = Seen
    BY <1>n, <2>1 DEF Seen
  <2> QED  BY <2>1, <2>2 DEF Inv, Taken
<1>2. CASE BlockEnd
  <2>1. BLOCKS_DONE' = BLOCKS_DONE + 1 /\ UNCHANGED <<moved, pc, c1, p, held>>
    BY <1>2 DEF BlockEnd, on_block_int, locals
  <2>2. pc \in {"place", "check"} => c1' <= BLOCKS_DONE' /\ BLOCKS_DONE' # c1'
    BY <1>n, <2>1 DEF Inv, Taken
  <2> QED  BY <2>1, <2>2 DEF Inv, Taken, Seen
<1>3. CASE ReadCount
  BY <1>3, <1>n DEF ReadCount, channel, Taken
<1>4. CASE ReadPosition
  <2>1. /\ pc = "place" /\ p' = WholeFrames(moved % len) /\ held' = 0 /\ UNCHANGED <<moved, BLOCKS_DONE, c1>>
    BY <1>4 DEF ReadPosition, position, channel
  <2>2. Seen' = moved
    BY <1>n, <2>1 DEF Seen
  <2>3. c1 <= BLOCKS_DONE
    BY <2>1 DEF Inv, Taken
  <2>4. Near(BLOCKS_DONE, Ends(moved))
    <3>1. Ends(moved) \in Nat /\ lost \in Nat /\ lost <= MaxLost /\ MaxLost \in Nat /\ pending \in BOOLEAN
      BY EndsStep, InvNumbers, RingNumbers
    <3>2. PICK stale \in {0, 1} : BLOCKS_DONE + (IF pending THEN 1 ELSE 0) + lost = Ends(moved) + stale
      BY DEF Inv, Counted
    <3> QED  BY <1>n, <3>1, <3>2 DEF Near
  <2> QED  BY <2>1, <2>2, <2>3, <2>4 DEF Taken
<1>5. CASE UNCHANGED vars
  BY <1>5 DEF vars, channel, locals, Inv, Taken, Seen
<1>6. CASE ~Sweep /\ ~BlockEnd /\ ~ReadCount /\ ~ReadPosition /\ Next
  <2>1. pc' \notin {"place", "check"}
    <3>1. CASE (\E n \in Amounts, waits \in BOOLEAN : Begin(n, waits)) \/ (\E words \in Leads : set_lead(words))
               \/ CountAgain \/ Woken \/ Drop
      BY <3>1 DEF Begin, set_lead, CountAgain, Woken, Drop, Finish
    <3>2. CASE Underrun \/ Write \/ Anchor \/ Overrun \/ Read
      BY <3>2 DEF Underrun, Write, Anchor, Overrun, Read, Copy, Nothing, Finish
    <3>3. CASE CopyIn \/ CopyOut
      BY <3>3 DEF CopyIn, CopyOut, Finish
    <3> QED  BY <1>6, <3>1, <3>2, <3>3 DEF Next, Owner
  <2> QED  BY <2>1 DEF Taken
<1> QED  BY <1>1, <1>2, <1>3, <1>4, <1>5, <1>6

-----------------------------------------------------------------------------
(* Calls                                                                   *)

(* The types of what a call leaves alone, and of what it ends with.        *)
ChannelTypes ==
  /\ moved \in 0 .. MaxMoved /\ BLOCKS_DONE \in Nat /\ lost \in 0 .. MaxLost
  /\ pending \in BOOLEAN /\ BLOCK_READY \in BOOLEAN

LEMMA ChannelStep ==
  ASSUME Inv, [Next]_vars
  PROVE  ChannelTypes' /\ moved' \in {moved, moved + 1} /\ (moved' # moved => Sweep)
<1>n. /\ moved \in 0 .. MaxMoved /\ BLOCKS_DONE \in Nat /\ lost \in 0 .. MaxLost
      /\ pending \in BOOLEAN /\ BLOCK_READY \in BOOLEAN /\ MaxMoved \in Nat /\ MaxLost \in Nat
  BY RingNumbers DEF Inv, TypeOK
<1>1. CASE Sweep
  <2>1. /\ moved' = moved + 1 /\ moved < MaxMoved /\ UNCHANGED <<BLOCKS_DONE, BLOCK_READY>>
        /\ pending' = (pending \/ (moved + 1) % block_words = 0)
        /\ lost' = lost \/ (lost < MaxLost /\ lost' = lost + 1)
    BY <1>1 DEF Sweep, MoveWord
  <2>2. pending' \in BOOLEAN
    BY <2>1, Zenon
  <2> QED  BY <1>1, <1>n, <2>1, <2>2 DEF ChannelTypes
<1>2. CASE BlockEnd
  <2>1. /\ pending' = FALSE /\ BLOCKS_DONE' = BLOCKS_DONE + 1 /\ BLOCK_READY' = TRUE
        /\ moved' = moved /\ lost' = lost
    BY <1>2 DEF BlockEnd, on_block_int
  <2>2. pending' \in BOOLEAN /\ BLOCK_READY' \in BOOLEAN
    BY <2>1, Zenon
  <2>3. moved' \in 0 .. MaxMoved /\ BLOCKS_DONE' \in Nat /\ lost' \in 0 .. MaxLost
    BY <1>n, <2>1
  <2> QED  BY <2>1, <2>2, <2>3 DEF ChannelTypes
<1>3. CASE Woken
  BY <1>3, <1>n DEF Woken, ChannelTypes
<1>4. CASE ~Sweep /\ ~BlockEnd /\ ~Woken
  <2>1. UNCHANGED <<moved, BLOCKS_DONE, pending, BLOCK_READY, lost>>
    BY <1>4, Zenon DEF Next, Owner, Begin, set_lead, ReadCount, ReadPosition, CountAgain, Underrun, Write, CopyIn,
       Anchor, Overrun, Read, CopyOut, Drop, channel, vars
  <2> QED  BY <1>n, <2>1 DEF ChannelTypes
<1> QED  BY <1>1, <1>2, <1>3, <1>4

(* The owner's own variables.                                              *)
Calls == [n : Amounts \cup {0}, waits : BOOLEAN]
OwnerTypes ==
  /\ dir \in {"MemToPeriph", "PeriphToMem"}
  /\ pc \in {"idle", "count", "place", "check", "copy", "waiting"}
  /\ call \in Calls
  /\ c1 \in Nat /\ p \in 0 .. len - 1 /\ at \in Nat /\ end \in Nat /\ held \in 0 .. Hold /\ held <= moved
  /\ result \in {"none", "ok", "Underrun", "Overrun"}
RingTypesOf ==
  /\ ring \in [0 .. len - 1 -> Nat \cup {None}]
  /\ cursor \in Nat \cup {None} /\ lead \in 0 .. len - 1
  /\ starved \in Nat /\ owed \in Nat \cup {None} /\ due \in Nat \cup {None}

LEMMA TypesInParts ==
  /\ Inv => ChannelTypes /\ OwnerTypes /\ RingTypesOf
  /\ ChannelTypes' /\ OwnerTypes' /\ RingTypesOf' => TypeOK' /\ (held <= moved)'
<1>1. Inv => ChannelTypes /\ OwnerTypes /\ RingTypesOf
  BY DEF Inv, TypeOK, ChannelTypes, OwnerTypes, Calls, RingTypesOf
<1>2. ChannelTypes' /\ OwnerTypes' /\ RingTypesOf' => TypeOK' /\ (held <= moved)'
  BY DEF TypeOK, ChannelTypes, OwnerTypes, Calls, RingTypesOf
<1> QED  BY <1>1, <1>2

(* What leaves the ring and the cursor alone, and is no copy.              *)
Quiet ==
  /\ OwnerTypes' /\ UNCHANGED <<moved, dir, ring, cursors, history>> /\ Seen <= Seen'
  /\ \/ pc # "copy" /\ pc' # "copy"
     \/ UNCHANGED <<pc, at, end, held>>

LEMMA CallNoLonger == [n |-> 0, waits |-> FALSE] \in Calls
  BY DEF Calls

LEMMA QuietActions ==
  ASSUME Inv,
         \/ BlockEnd \/ (\E n \in Amounts, waits \in BOOLEAN : Begin(n, waits))
         \/ ReadCount \/ ReadPosition \/ CountAgain \/ Woken \/ Drop \/ UNCHANGED vars
  PROVE  Quiet
<1>n. OwnerTypes /\ moved \in Nat /\ held \in Nat /\ BLOCKS_DONE \in Nat /\ Hold \in Nat /\ len \in Nat \ {0}
  BY InvNumbers, RingNumbers, TypesInParts
<1>1. CASE BlockEnd \/ UNCHANGED vars
  <2>1. UNCHANGED <<moved, dir, ring, cursors, history, pc, call, c1, p, at, end, held, result>>
    BY <1>1, Zenon DEF BlockEnd, on_block_int, vars, channel, locals
  <2> QED  BY <1>n, <2>1 DEF Quiet, OwnerTypes, Seen
<1>2. ASSUME NEW n \in Amounts, NEW waits \in BOOLEAN, Begin(n, waits) PROVE Quiet
  <2>1. [n |-> n, waits |-> waits] \in Calls
    BY DEF Calls
  <2>2. /\ pc = "idle" /\ pc' = "count" /\ call' \in Calls /\ result' = "none"
        /\ UNCHANGED <<moved, dir, ring, cursors, history, c1, p, at, end, held>>
    BY <1>2, <2>1 DEF Begin, channel
  <2> QED  BY <1>n, <2>2 DEF Quiet, OwnerTypes, Seen
<1>3. CASE ReadCount
  BY <1>3, <1>n DEF ReadCount, channel, Quiet, OwnerTypes, Seen
<1>4. CASE ReadPosition
  <2>1. /\ pc = "place" /\ pc' = "check" /\ p' = WholeFrames(moved % len) /\ held' = 0
        /\ UNCHANGED <<moved, dir, ring, cursors, history, call, c1, at, end, result>>
    BY <1>4 DEF ReadPosition, position, channel
  <2>2. p' \in 0 .. len - 1
    <3>1. PICK m \in Nat : m = moved % len /\ m \in 0 .. len - 1
      BY <1>n, Division
    <3>2. WholeFrames(m) \in Nat /\ WholeFrames(m) <= m
      BY WholeFramesOf
    <3> QED  BY <1>n, <2>1, <3>1, <3>2
  <2> QED  BY <1>n, <2>1, <2>2 DEF Quiet, OwnerTypes, Seen
<1>5. CASE CountAgain \/ Woken
  <2>1. /\ pc \in {"check", "waiting"} /\ pc' = "count" /\ c1' \in Nat /\ p' \in 0 .. len - 1
        /\ held' \in {0, held} /\ UNCHANGED <<moved, dir, ring, cursors, history, call, at, end, result>>
    BY <1>5, <1>n DEF CountAgain, Woken, channel, locals, OwnerTypes
  <2>2. OwnerTypes'
    BY <1>n, <2>1 DEF OwnerTypes
  <2>3. Seen <= Seen'
    <3>1. moved' = moved /\ (held' = 0 \/ held' = held)
      BY <2>1
    <3> QED  BY <1>n, <3>1 DEF Seen
  <2> QED  BY <2>1, <2>2, <2>3 DEF Quiet
<1>6. CASE Drop
  <2>1. /\ pc = "waiting" /\ pc' = "idle" /\ result' = "none" /\ call' \in Calls
        /\ c1' = 0 /\ p' = 0 /\ at' = 0 /\ end' = 0 /\ held' = 0
        /\ UNCHANGED <<moved, dir, ring, cursors, history>>
    BY <1>6, CallNoLonger DEF Drop, Finish, Forget, channel
  <2> QED  BY <1>n, <2>1 DEF Quiet, OwnerTypes, Seen
<1> QED  BY <1>1, <1>2, <1>3, <1>4, <1>5, <1>6

(* The ring and the cursors, in order.                                     *)
RingInOrder == RingTypesOf /\ CursorInOrder /\ ReadsInOrder /\ WritesInOrder

LEMMA QuietKeeps ==
  ASSUME Inv, Quiet
  PROVE  OwnerTypes' /\ RingInOrder'
<1>1. /\ UNCHANGED <<moved, dir, ring, cursor, lead, starved, owed, due>>
      /\ (pc' = "copy") <=> (pc = "copy")
      /\ pc = "copy" => UNCHANGED <<at, end, held>>
      /\ RingTypesOf
  BY TypesInParts DEF Quiet, cursors, history
<1>2. /\ WholeFrames(Seen) \in Nat /\ WholeFrames(Seen') \in Nat /\ WholeFrames(Seen) <= WholeFrames(Seen')
      /\ pc = "copy" => Seen' = Seen
  <2>1. Seen \in Nat /\ Seen' \in Nat /\ Seen <= Seen'
    BY <1>1, InvNumbers, SeenNumbers DEF Quiet, OwnerTypes, Seen
  <2> QED  BY <1>1, <2>1, WholeFramesOf, WholeFramesGrow DEF Seen
<1>n. cursor \in Int /\ len \in Nat
  BY InvNumbers, RingNumbers
<1>3. RingTypesOf'
  BY <1>1 DEF RingTypesOf
<1>4. CursorInOrder'
  BY <1>1, <1>2, <1>n DEF Inv, CursorInOrder, Reader, Writer
<1>5. ReadsInOrder'
  BY <1>1, <1>2 DEF Inv, ReadsInOrder, Reader, Edge
<1>6. WritesInOrder'
  BY <1>1, <1>2 DEF Inv, WritesInOrder, Writer, Edge
<1> QED  BY <1>3, <1>4, <1>5, <1>6 DEF Quiet, RingInOrder

LEMMA SweepKeeps ==
  ASSUME Inv, Sweep
  PROVE  OwnerTypes' /\ RingInOrder'
<1>1. /\ moved' = moved + 1
      /\ pc \in {"check", "copy"} => held < Hold
      /\ held' = IF pc \in {"check", "copy"} THEN held + 1 ELSE 0
      /\ starved' = IF Unwritten THEN moved + 1 ELSE starved
      /\ UNCHANGED <<dir, ring, cursor, lead, pc, call, c1, p, at, end, result, owed, due>>
  BY DEF Sweep, MoveWord, cursors
<1>n. /\ moved \in Nat /\ held \in Nat /\ held <= moved /\ Hold \in Nat /\ cursor \in Int /\ len \in Nat \ {0}
      /\ at \in Nat /\ starved \in Nat
      /\ OwnerTypes /\ RingTypesOf
  BY InvNumbers, RingNumbers, TypesInParts
<1>2. OwnerTypes' /\ RingTypesOf'
  BY <1>1, <1>n DEF OwnerTypes, RingTypesOf
<1>3. /\ WholeFrames(Seen) \in Nat /\ WholeFrames(Seen') \in Nat /\ WholeFrames(Seen) <= WholeFrames(Seen')
      /\ pc = "copy" => Seen' = Seen
  <2>1. Seen \in Nat /\ Seen' \in Nat /\ Seen <= Seen' /\ (pc = "copy" => Seen' = Seen)
    BY <1>1, <1>n, SeenNumbers DEF Seen
  <2> QED  BY <2>1, WholeFramesOf, WholeFramesGrow
<1>4. CursorInOrder'
  BY <1>1, <1>3, <1>n DEF Inv, CursorInOrder, Reader, Writer
<1>5. ReadsInOrder'
  BY <1>1, <1>3 DEF Inv, ReadsInOrder, Reader, Edge
<1>6. WritesInOrder'
  <2> SUFFICES ASSUME Writer PROVE WritesInOrder'
    BY <1>1 DEF WritesInOrder, Writer
  <2>1. starved' <= moved'
    BY <1>1, <1>n DEF Inv, WritesInOrder
  <2>2. Edge' = Edge /\ Edge \in Int
    BY <1>1, <1>n DEF Edge
  <2>3. ASSUME owed # None, moved + 1 > Edge PROVE starved' = moved + 1
    <3>1. owed <= Edge /\ Edge <= moved /\ owed \in Nat
      BY <1>n, <2>2, <2>3, InvNumbers DEF Inv, WritesInOrder
    <3>2. moved % len \in 0 .. len - 1
      BY <1>n, Division
    <3>3. ring[moved % len] < Edge /\ ring[moved % len] \in Int
      BY <1>n, <2>3, <3>2 DEF Inv, WritesInOrder, RingTypesOf, None
    <3>4. moved >= owed /\ ring[moved % len] # moved
      BY <1>n, <2>2, <3>1, <3>3
    <3> QED  BY <1>1, <2>3, <3>4 DEF Unwritten
  <2>4. owed # None => \A j \in owed .. Edge - 1 : j >= moved + 1 => ring[j % len] = j
    BY <1>n, <2>2, InvNumbers DEF Inv, WritesInOrder
  <2> QED  BY <1>1, <1>3, <2>1, <2>2, <2>3, <2>4 DEF Inv, WritesInOrder, Writer
<1> QED  BY <1>2, <1>4, <1>5, <1>6 DEF RingInOrder

-----------------------------------------------------------------------------
(* How a call goes on, and what it leaves for the next                     *)

LEMMA SeenGrows ==
  ASSUME Inv, moved' = moved, held' = 0 \/ held' = held
  PROVE  /\ Seen' \in Nat /\ Seen <= Seen' /\ (held' = held => Seen' = Seen)
         /\ WholeFrames(Seen') \in Nat /\ WholeFrames(Seen) <= WholeFrames(Seen')
<1>1. Seen \in Nat /\ Seen' \in Nat /\ Seen <= Seen' /\ (held' = held => Seen' = Seen)
  BY InvNumbers, SeenNumbers DEF Seen
<1> QED  BY <1>1, WholeFramesOf, WholeFramesGrow

LEMMA FinishTypes ==
  ASSUME Inv, UNCHANGED <<moved, dir>>,
         NEW r \in {"none", "ok", "Underrun", "Overrun"}, Finish(r)
  PROVE  OwnerTypes' /\ pc' = "idle" /\ held' = 0
<1>1. /\ pc' = "idle" /\ result' = r /\ c1' = 0 /\ p' = 0 /\ at' = 0 /\ end' = 0 /\ held' = 0
      /\ call' \in Calls
  BY CallNoLonger DEF Finish, Forget
<1>n. moved \in Nat /\ Hold \in Nat /\ len \in Nat \ {0} /\ dir \in {"MemToPeriph", "PeriphToMem"}
  BY InvNumbers, RingNumbers
<1> QED  BY <1>1, <1>n DEF OwnerTypes

LEMMA NothingTypes ==
  ASSUME Inv, UNCHANGED <<moved, dir>>, Nothing
  PROVE  OwnerTypes' /\ pc' \in {"idle", "waiting"} /\ held' = 0
<1>n. moved \in Nat /\ Hold \in Nat /\ len \in Nat \ {0} /\ OwnerTypes
  BY InvNumbers, RingNumbers, TypesInParts
<1>1. CASE call.waits /\ call.n >= frame_words
  <2>1. pc' = "waiting" /\ c1' = 0 /\ p' = 0 /\ held' = 0 /\ UNCHANGED <<call, at, end, result>>
    BY <1>1 DEF Nothing, Forget
  <2> QED  BY <1>n, <2>1 DEF OwnerTypes
<1>2. CASE ~(call.waits /\ call.n >= frame_words)
  <2>1. Finish("ok")
    BY <1>2 DEF Nothing
  <2> QED  BY <2>1, FinishTypes
<1> QED  BY <1>1, <1>2

LEMMA CopyTypes ==
  ASSUME Inv, UNCHANGED <<moved, dir>>, NEW from \in Nat, NEW n \in Nat, Copy(from, n)
  PROVE  /\ OwnerTypes'
         /\ \/ pc' \in {"idle", "waiting"} /\ held' = 0
            \/ pc' = "copy" /\ at' = from /\ end' = from + n /\ n # 0 /\ held' = held
<1>n. moved \in Nat /\ held \in Nat /\ held <= moved /\ Hold \in Nat /\ len \in Nat \ {0} /\ OwnerTypes
  BY InvNumbers, RingNumbers, TypesInParts
<1>1. CASE n = 0
  BY <1>1, NothingTypes DEF Copy
<1>2. CASE n # 0
  <2>1. /\ at' = from /\ end' = from + n /\ pc' = "copy" /\ c1' = 0 /\ p' = 0
        /\ UNCHANGED <<call, held, result>>
    BY <1>2 DEF Copy, Forget
  <2>2. from + n \in Nat
    OBVIOUS
  <2>3. OwnerTypes'
    BY <1>n, <2>1, <2>2 DEF OwnerTypes
  <2> QED  BY <1>2, <2>1, <2>3
<1> QED  BY <1>1, <1>2

(* Whole frames of what is there and what is asked for.                    *)
LEMMA AskedAndThere ==
  ASSUME NEW room_ \in Nat, NEW n \in Nat
  PROVE  /\ WholeFrames(Smaller(room_, n)) \in Nat /\ WholeFrames(Smaller(room_, n)) <= room_
         /\ Whole(WholeFrames(Smaller(room_, n)))
<1>1. Smaller(room_, n) \in Nat /\ Smaller(room_, n) <= room_
  BY DEF Smaller
<1> QED  BY <1>1, WholeFramesOf

-----------------------------------------------------------------------------
(* The writer                                                              *)

LEMMA BlankRing ==
  /\ Blank \in [0 .. len - 1 -> Nat \cup {None}]
  /\ \A s \in 0 .. len - 1 : Blank[s] = None
BY DEF Blank

LEMMA SetLeadKeeps ==
  ASSUME Inv, NEW words \in Leads, set_lead(words)
  PROVE  OwnerTypes' /\ RingInOrder'
<1>1. /\ pc = "idle" /\ Writer /\ lead' = WholeFrames(words) /\ cursor' = None /\ owed' = None
      /\ ring' = Blank /\ result' = "none"
      /\ UNCHANGED <<moved, dir, pc, call, c1, p, at, end, held, starved, due>>
  BY DEF set_lead, channel, locals
<1>2. OwnerTypes /\ RingTypesOf
  BY TypesInParts
<1>3. OwnerTypes'
  BY <1>1, <1>2 DEF OwnerTypes
<1>4. lead' \in 0 .. len - 1 /\ Whole(lead')
  <2>1. words \in Nat /\ words \in 0 .. len - 1
    BY RingNumbers, BufferAssumption
  <2>2. WholeFrames(words) \in Nat /\ WholeFrames(words) <= words /\ Whole(WholeFrames(words))
    BY <2>1, WholeFramesOf
  <2> QED  BY <1>1, <2>1, <2>2, RingNumbers
<1>5. RingTypesOf'
  BY <1>1, <1>2, <1>4, BlankRing DEF RingTypesOf
<1>6. starved <= moved /\ due = None
  BY <1>1 DEF Inv, WritesInOrder
<1>7. CursorInOrder'
  BY <1>1, <1>4, <1>6 DEF CursorInOrder, Whole
<1>8. ReadsInOrder'
  BY <1>1 DEF ReadsInOrder, Writer, Reader
<1>9. Blank' = Blank
  BY DEF Blank, None
<1>10. WritesInOrder'
  BY <1>1, <1>6, <1>9 DEF WritesInOrder
<1> QED  BY <1>3, <1>5, <1>7, <1>8, <1>10 DEF RingInOrder

(* The call has placed the position, and the writer stands somewhere.      *)
LEMMA WriterAt ==
  ASSUME Inv, Placed, Writer
  PROVE  /\ Edge = cursor /\ due = None /\ starved <= moved /\ pc # "copy"
         /\ cursor = None => owed = None /\ ring = Blank
         /\ cursor # None => /\ owed # None /\ Whole(cursor) /\ cursor <= WholeFrames(Seen) + len
                             /\ owed <= cursor /\ (moved > cursor => starved = moved)
                             /\ \A s \in 0 .. len - 1 : ring[s] < cursor
                             /\ \A j \in owed .. cursor - 1 : j >= moved => ring[j % len] = j
<1>1. pc # "copy" /\ Edge = cursor
  BY DEF Placed, Edge
<1> QED  BY <1>1 DEF Inv, CursorInOrder, WritesInOrder

LEMMA UnderrunKeeps ==
  ASSUME NearEnough, Inv, Underrun
  PROVE  OwnerTypes' /\ RingInOrder'
<1> DEFINE to == WholeFrames(Seen) + lead
<1>1. /\ Placed /\ Writer /\ cursor # None /\ cursor < WholeFrames(Seen) /\ cursor' = to
      /\ owed' = to /\ starved' = (IF moved > to THEN moved ELSE 0)
      /\ Finish("Underrun") /\ UNCHANGED <<moved, dir, ring, lead, due>>
  BY EveryTimePlaced DEF Underrun, overtaken, Promise, channel
<1>2. OwnerTypes' /\ pc' = "idle" /\ held' = 0
  BY <1>1, FinishTypes
<1>n. /\ moved \in Nat /\ cursor \in Nat /\ lead \in Nat /\ lead <= len - 1 /\ len \in Nat /\ Whole(lead)
      /\ WholeFrames(Seen) \in Nat /\ Whole(WholeFrames(Seen)) /\ RingTypesOf
  BY <1>1, InvNumbers, SeenNumbers, RingNumbers, TypesInParts DEF Inv, CursorInOrder
<1>3. WholeFrames(Seen) <= WholeFrames(Seen') /\ WholeFrames(Seen') \in Nat
  BY <1>1, <1>2, SeenGrows
<1>4. to \in Nat /\ Whole(to) /\ cursor < to /\ to <= WholeFrames(Seen') + len
  <2>1. Whole(to)
    BY <1>n, WholeSums
  <2> QED  BY <1>1, <1>n, <1>3, <2>1
<1> HIDE DEF to
<1>5. starved' \in Nat /\ starved' <= moved /\ (moved > to => starved' = moved)
  BY <1>1, <1>n
<1>6. RingTypesOf'
  BY <1>1, <1>n, <1>4, <1>5 DEF RingTypesOf
<1>7. CursorInOrder'
  BY <1>1, <1>2, <1>n, <1>4 DEF CursorInOrder, Whole, None, Writer, Reader
<1>8. ReadsInOrder'
  BY <1>1 DEF ReadsInOrder, Writer, Reader
<1>9. WritesInOrder'
  <2>1. Edge' = to
    BY <1>1, <1>2 DEF Edge
  <2>2. \A s \in 0 .. len - 1 : ring[s] < to
    <3>1. \A s \in 0 .. len - 1 : ring[s] < cursor /\ ring[s] \in Int
      BY <1>1, <1>n, WriterAt DEF RingTypesOf, None
    <3> QED  BY <1>n, <1>4, <3>1
  <2>3. \A j \in to .. to - 1 : FALSE
    BY <1>4
  <2>4. due = None
    BY <1>1, WriterAt
  <2>5. owed' # None
    BY <1>1, <1>4 DEF None
  <2> QED  BY <1>1, <1>2, <1>4, <1>5, <2>1, <2>2, <2>3, <2>4, <2>5 DEF WritesInOrder
<1> QED  BY <1>2, <1>6, <1>7, <1>8, <1>9 DEF RingInOrder

(* Where a write begins: at the cursor, or the lead ahead of the position. *)
Begins == IF cursor = None THEN WholeFrames(Seen) + lead ELSE cursor

LEMMA WriteKeeps ==
  ASSUME NearEnough, Inv, Write
  PROVE  OwnerTypes' /\ RingInOrder'
<1> DEFINE from == Begins
           there == len - (from - WholeFrames(Seen))
           n == WholeFrames(Smaller(there, call.n))
<1>1. /\ Placed /\ Writer /\ ~(cursor # None /\ cursor < WholeFrames(Seen))
      /\ Copy(from, n) /\ cursor' = from
      /\ owed = None => Promise(from)
      /\ owed # None => UNCHANGED <<owed, starved>>
      /\ UNCHANGED <<moved, dir, ring, lead, due>>
  BY EveryTimePlaced DEF Write, overtaken, room, channel, Begins
<1>n. /\ moved \in Nat /\ lead \in Nat /\ lead <= len - 1 /\ len \in Nat /\ Whole(lead)
      /\ call.n \in Nat /\ held \in Nat
      /\ WholeFrames(Seen) \in Nat /\ Whole(WholeFrames(Seen)) /\ RingTypesOf
  BY InvNumbers, SeenNumbers, RingNumbers, TypesInParts DEF Inv, CursorInOrder
<1>2. from \in Nat /\ Whole(from) /\ WholeFrames(Seen) <= from /\ from <= WholeFrames(Seen) + len
  <2>1. CASE cursor = None
    <3>1. from = WholeFrames(Seen) + lead
      BY <2>1 DEF Begins
    <3>2. Whole(WholeFrames(Seen) + lead)
      BY <1>n, WholeSums
    <3> QED  BY <1>n, <3>1, <3>2
  <2>2. CASE cursor # None
    <3>1. cursor \in Nat /\ Whole(cursor) /\ cursor <= WholeFrames(Seen) + len
      BY <1>1, <2>2, WriterAt, InvNumbers
    <3> QED  BY <1>1, <1>n, <2>2, <3>1 DEF Begins
  <2> QED  BY <2>1, <2>2
<1>3. /\ starved' \in Nat /\ starved' <= moved /\ owed' \in Nat /\ owed' <= from
      /\ moved > from => starved' = moved
      /\ \A s \in 0 .. len - 1 : ring[s] < from
      /\ \A j \in owed' .. from - 1 : j >= moved => ring[j % len] = j
  <2>1. CASE cursor = None
    <3>1. owed = None /\ ring = Blank
      BY <1>1, <2>1, WriterAt
    <3>2. owed' = from /\ starved' = (IF moved > from THEN moved ELSE 0)
      BY <1>1, <3>1 DEF Promise
    <3>3. \A s \in 0 .. len - 1 : ring[s] < from
      BY <1>2, <3>1, BlankRing DEF None
    <3> HIDE DEF from
    <3>4. \A j \in from .. from - 1 : FALSE
      BY <1>2
    <3> QED  BY <1>n, <1>2, <3>2, <3>3, <3>4
  <2>2. CASE cursor # None
    <3>1. from = cursor
      BY <2>2 DEF Begins
    <3>2. /\ owed # None /\ owed <= cursor /\ (moved > cursor => starved = moved) /\ starved <= moved
          /\ \A s \in 0 .. len - 1 : ring[s] < cursor
          /\ \A j \in owed .. cursor - 1 : j >= moved => ring[j % len] = j
      BY <1>1, <2>2, WriterAt
    <3>3. owed' = owed /\ starved' = starved /\ owed \in Nat /\ starved \in Nat
      BY <1>1, <3>2, InvNumbers
    <3> QED  BY <3>1, <3>2, <3>3
  <2> QED  BY <2>1, <2>2
<1> HIDE DEF from
<1>4. there \in Nat /\ from + there = WholeFrames(Seen) + len
  BY <1>n, <1>2
<1> HIDE DEF there
<1>5. n \in Nat /\ n <= there /\ Whole(n)
  BY <1>n, <1>4, AskedAndThere
<1> HIDE DEF n
<1>6. /\ OwnerTypes'
      /\ \/ pc' \in {"idle", "waiting"} /\ held' = 0
         \/ pc' = "copy" /\ at' = from /\ end' = from + n /\ n # 0 /\ held' = held
  BY <1>1, <1>2, <1>5, CopyTypes
<1>7. /\ WholeFrames(Seen) <= WholeFrames(Seen') /\ WholeFrames(Seen') \in Nat
      /\ pc' = "copy" => Seen' = Seen
  BY <1>1, <1>6, SeenGrows
<1>8. RingTypesOf'
  BY <1>1, <1>n, <1>2, <1>3 DEF RingTypesOf
<1>9. owed' # None /\ cursor' # None /\ cursor' = from
  BY <1>1, <1>2, <1>3 DEF None
<1>10. Edge' = from
  BY <1>1, <1>6 DEF Edge
<1>11. pc' = "copy" => cursor' <= at' /\ at' < end' /\ Whole(end') /\ end' <= WholeFrames(Seen') + len
                       /\ WholeFrames(Seen') <= cursor'
  <2> SUFFICES ASSUME pc' = "copy"
               PROVE  cursor' <= at' /\ at' < end' /\ Whole(end') /\ end' <= WholeFrames(Seen') + len
                      /\ WholeFrames(Seen') <= cursor'
    OBVIOUS
  <2>1. at' = from /\ end' = from + n /\ n # 0 /\ Seen' = Seen
    BY <1>6, <1>7
  <2>2. Whole(from + n)
    BY <1>2, <1>5, WholeSums
  <2> QED  BY <1>n, <1>2, <1>4, <1>5, <1>9, <2>1, <2>2
<1>12. cursor' <= WholeFrames(Seen') + len
  BY <1>n, <1>2, <1>7, <1>9
<1>13. CursorInOrder'
  BY <1>1, <1>n, <1>2, <1>9, <1>11, <1>12 DEF CursorInOrder, Whole, Writer, Reader
<1>14. ReadsInOrder'
  BY <1>1 DEF ReadsInOrder, Writer, Reader
<1>15. WritesInOrder'
  <2>1. due = None
    BY <1>1, WriterAt
  <2> QED  BY <1>1, <1>3, <1>9, <1>10, <1>11, <2>1 DEF WritesInOrder
<1> QED  BY <1>6, <1>8, <1>13, <1>14, <1>15 DEF RingInOrder

(* One word of a copy, and what comes after the last.                      *)
LEMMA CopyGoesOn ==
  ASSUME Inv, pc = "copy", UNCHANGED <<moved, dir>>,
         IF at + 1 = end THEN cursor' = end /\ Finish("ok")
         ELSE at' = at + 1 /\ UNCHANGED <<cursor, pc, call, c1, p, end, held, result>>
  PROVE  /\ OwnerTypes'
         /\ \/ pc' = "idle" /\ held' = 0 /\ at + 1 = end /\ cursor' = end
            \/ pc' = "copy" /\ held' = held /\ at' = at + 1 /\ at + 1 < end /\ end' = end /\ cursor' = cursor
<1>n. at \in Nat /\ end \in Nat /\ at < end /\ OwnerTypes
  BY InvNumbers, TypesInParts DEF Inv, CursorInOrder
<1>1. CASE at + 1 = end
  BY <1>1, FinishTypes
<1>2. CASE at + 1 # end
  <2>1. at' = at + 1 /\ at + 1 < end /\ UNCHANGED <<cursor, pc, call, c1, p, end, held, result>>
    BY <1>n, <1>2
  <2> QED  BY <1>n, <2>1 DEF OwnerTypes
<1> QED  BY <1>1, <1>2

LEMMA CopyInKeeps ==
  ASSUME Inv, CopyIn
  PROVE  OwnerTypes' /\ RingInOrder'
<1>1. /\ pc = "copy" /\ Writer /\ ring' = [ring EXCEPT ![at % len] = at]
      /\ UNCHANGED <<moved, dir, lead, starved, owed, due>>
      /\ IF at + 1 = end THEN cursor' = end /\ Finish("ok")
         ELSE at' = at + 1 /\ UNCHANGED <<cursor, pc, call, c1, p, end, held, result>>
  BY DEF CopyIn, channel, history
<1>2. /\ OwnerTypes'
      /\ \/ pc' = "idle" /\ held' = 0 /\ at + 1 = end /\ cursor' = end
         \/ pc' = "copy" /\ held' = held /\ at' = at + 1 /\ at + 1 < end /\ end' = end /\ cursor' = cursor
  BY <1>1, CopyGoesOn
<1>n. /\ moved \in Nat /\ at \in Nat /\ end \in Nat /\ len \in Nat \ {0} /\ Seen \in Nat /\ Seen <= moved
      /\ WholeFrames(Seen) \in Nat /\ WholeFrames(Seen) <= Seen /\ RingTypesOf /\ held \in Nat
  BY InvNumbers, SeenNumbers, RingNumbers, TypesInParts
<1>3. /\ cursor # None /\ cursor \in Nat /\ cursor <= at /\ at < end /\ Whole(end) /\ Whole(cursor) /\ Whole(lead)
      /\ owed # None /\ owed \in Nat
      /\ end <= WholeFrames(Seen) + len /\ WholeFrames(Seen) <= cursor
      /\ starved <= moved /\ due = None /\ owed <= at /\ (moved > at => starved = moved)
  BY <1>1, InvNumbers DEF Inv, CursorInOrder, WritesInOrder, Edge
<1>4. /\ \A s \in 0 .. len - 1 : ring[s] < at
      /\ \A j \in owed .. at - 1 : j >= moved => ring[j % len] = j
  BY <1>1, <1>3 DEF Inv, WritesInOrder, Edge
<1>5. /\ WholeFrames(Seen) <= WholeFrames(Seen') /\ WholeFrames(Seen') \in Nat
      /\ pc' = "copy" => Seen' = Seen
  BY <1>1, <1>2, SeenGrows
<1>6. Edge' = at + 1
  BY <1>1, <1>2 DEF Edge
<1>7. at % len \in 0 .. len - 1
  BY <1>n, Division
<1>8. /\ ring' \in [0 .. len - 1 -> Nat \cup {None}]
      /\ \A s \in 0 .. len - 1 : ring'[s] = IF s = at % len THEN at ELSE ring[s]
  BY <1>1, <1>n, <1>7 DEF RingTypesOf
<1>9. \A s \in 0 .. len - 1 : ring'[s] < at + 1
  <2>1. \A s \in 0 .. len - 1 : ring[s] \in Int
    BY <1>n DEF RingTypesOf, None
  <2> TAKE s \in 0 .. len - 1
  <2>2. ring[s] < at /\ ring[s] \in Int /\ ring'[s] = IF s = at % len THEN at ELSE ring[s]
    BY <1>4, <1>8, <2>1
  <2>3. \A a \in Nat, w \in Int : (w < a => w < a + 1) /\ a < a + 1
    OBVIOUS
  <2>4. CASE s = at % len
    <3>1. ring'[s] = at
      BY <2>2, <2>4
    <3> QED  BY <1>n, <2>3, <3>1
  <2>5. CASE s # at % len
    <3>1. ring'[s] = ring[s]
      BY <2>2, <2>5
    <3> QED  BY <1>n, <2>2, <2>3, <3>1
  <2> QED  BY <2>4, <2>5
<1>10. ASSUME NEW j \in owed .. at, j >= moved PROVE ring'[j % len] = j
  <2>n. j \in Nat /\ j % len \in 0 .. len - 1
    <3>1. j \in Nat
      BY <1>n, <1>3, <1>10
    <3> QED  BY <1>n, <3>1, Division
  <2>1. CASE j = at
    BY <1>7, <1>8, <2>1
  <2>2. CASE j < at
    <3>1. j % len # at % len
      <4> SUFFICES ASSUME j % len = at % len PROVE FALSE
        OBVIOUS
      <4>1. j + len <= at
        BY <1>n, <2>n, <2>2, SlotsOfARing
      <4> QED  BY <1>n, <1>3, <1>10, <2>n, <4>1
    <3>2. ring[j % len] = j
      BY <1>n, <1>3, <1>4, <1>10, <2>n, <2>2
    <3> QED  BY <1>8, <2>n, <3>1, <3>2
  <2> QED  BY <1>n, <1>3, <1>10, <2>n, <2>1, <2>2
<1>11. RingTypesOf'
  BY <1>1, <1>n, <1>2, <1>3, <1>8 DEF RingTypesOf
<1>12. cursor' # None /\ Whole(cursor') /\ cursor' <= WholeFrames(Seen') + len
  BY <1>n, <1>2, <1>3, <1>5 DEF None
<1>13. pc' = "copy" => cursor' <= at' /\ at' < end' /\ Whole(end') /\ end' <= WholeFrames(Seen') + len
                       /\ WholeFrames(Seen') <= cursor'
  BY <1>n, <1>2, <1>3, <1>5
<1>14. CursorInOrder'
  BY <1>1, <1>3, <1>12, <1>13 DEF CursorInOrder, Whole, Writer, Reader
<1>15. ReadsInOrder'
  BY <1>1 DEF ReadsInOrder, Writer, Reader
<1>16. WritesInOrder'
  <2>1. owed <= at + 1 /\ (moved > at + 1 => starved = moved)
    BY <1>n, <1>3
  <2>2. \A j \in owed .. (at + 1) - 1 : j >= moved => ring'[j % len] = j
    BY <1>n, <1>3, <1>10
  <2> QED  BY <1>1, <1>3, <1>6, <1>9, <1>13, <2>1, <2>2 DEF WritesInOrder
<1> QED  BY <1>2, <1>11, <1>14, <1>15, <1>16 DEF RingInOrder

-----------------------------------------------------------------------------
(* The reader                                                              *)

LEMMA ReaderAt ==
  ASSUME Inv, Placed, Reader
  PROVE  /\ Edge = cursor /\ pc # "copy" /\ (due # None => due = cursor)
         /\ cursor = None => due = None
         /\ cursor # None => cursor \in Nat /\ Whole(cursor) /\ cursor <= WholeFrames(Seen)
<1>1. pc # "copy" /\ Edge = cursor
  BY DEF Placed, Edge
<1> QED  BY <1>1, InvNumbers DEF Inv, CursorInOrder, ReadsInOrder

(* A reader that stands at the position it just found.                     *)
LEMMA ReaderAnchored ==
  ASSUME Inv, Placed, Reader, UNCHANGED <<moved, dir, ring, lead, owed, starved>>,
         cursor' = WholeFrames(Seen), due' = None,
         OwnerTypes', pc' \in {"idle", "waiting"}, held' = 0
  PROVE  RingInOrder'
<1>n. /\ WholeFrames(Seen) \in Nat /\ Whole(WholeFrames(Seen)) /\ Whole(lead) /\ RingTypesOf
  BY SeenNumbers, TypesInParts DEF Inv, CursorInOrder
<1>1. WholeFrames(Seen) <= WholeFrames(Seen') /\ WholeFrames(Seen') \in Nat
  BY SeenGrows
<1>2. RingTypesOf'
  BY <1>n DEF RingTypesOf
<1>3. CursorInOrder'
  BY <1>n, <1>1 DEF CursorInOrder, Whole, None, Writer, Reader
<1>4. ReadsInOrder'
  BY DEF ReadsInOrder
<1>5. WritesInOrder'
  BY DEF WritesInOrder, Writer, Reader
<1> QED  BY <1>2, <1>3, <1>4, <1>5 DEF RingInOrder

LEMMA AnchorKeeps ==
  ASSUME NearEnough, Inv, Anchor
  PROVE  OwnerTypes' /\ RingInOrder'
<1>1. /\ Placed /\ Reader /\ cursor = None /\ cursor' = WholeFrames(Seen) /\ Nothing
      /\ UNCHANGED <<moved, dir, ring, lead, owed, starved, due>>
  BY EveryTimePlaced DEF Anchor, channel, history
<1>2. OwnerTypes' /\ pc' \in {"idle", "waiting"} /\ held' = 0
  BY <1>1, NothingTypes
<1>3. due' = None
  BY <1>1, ReaderAt
<1> QED  BY <1>1, <1>2, <1>3, ReaderAnchored

LEMMA OverrunKeeps ==
  ASSUME NearEnough, Inv, Overrun
  PROVE  OwnerTypes' /\ RingInOrder'
<1>1. /\ Placed /\ Reader /\ cursor' = WholeFrames(Seen) /\ due' = None /\ Finish("Overrun")
      /\ UNCHANGED <<moved, dir, ring, lead, owed, starved>>
  BY EveryTimePlaced DEF Overrun, channel
<1>2. OwnerTypes' /\ pc' = "idle" /\ held' = 0
  BY <1>1, FinishTypes
<1> QED  BY <1>1, <1>2, ReaderAnchored

LEMMA ReadKeeps ==
  ASSUME NearEnough, Inv, Read
  PROVE  OwnerTypes' /\ RingInOrder'
<1> DEFINE there == WholeFrames(Seen) - cursor
           n == WholeFrames(Smaller(there, call.n))
<1>1. /\ Placed /\ Reader /\ cursor # None /\ ~(there > len - frame_words) /\ Copy(cursor, n)
      /\ UNCHANGED <<moved, dir, ring, cursor, lead, owed, starved, due>>
  BY EveryTimePlaced DEF Read, lapped, channel, cursors, history
<1>n. /\ moved \in Nat /\ call.n \in Nat /\ WholeFrames(Seen) \in Nat /\ Whole(lead) /\ RingTypesOf
      /\ frame_words \in Nat /\ len \in Nat
  BY InvNumbers, SeenNumbers, RingNumbers, TypesInParts DEF Inv, CursorInOrder
<1>2. cursor \in Nat /\ Whole(cursor) /\ cursor <= WholeFrames(Seen) /\ (due # None => due = cursor)
  BY <1>1, ReaderAt
<1>3. /\ there \in Nat /\ cursor + there = WholeFrames(Seen)
      /\ WholeFrames(Seen) + frame_words <= cursor + len
  BY <1>1, <1>n, <1>2
<1> HIDE DEF there
<1>4. n \in Nat /\ n <= there /\ Whole(n)
  BY <1>n, <1>3, AskedAndThere
<1> HIDE DEF n
<1>5. /\ OwnerTypes'
      /\ \/ pc' \in {"idle", "waiting"} /\ held' = 0
         \/ pc' = "copy" /\ at' = cursor /\ end' = cursor + n /\ n # 0 /\ held' = held
  BY <1>1, <1>2, <1>4, CopyTypes
<1>6. /\ WholeFrames(Seen) <= WholeFrames(Seen') /\ WholeFrames(Seen') \in Nat
      /\ pc' = "copy" => Seen' = Seen
  BY <1>1, <1>5, SeenGrows
<1>7. RingTypesOf'
  BY <1>1, <1>n DEF RingTypesOf
<1>8. pc' = "copy" => cursor' <= at' /\ at' < end' /\ Whole(end') /\ end' <= WholeFrames(Seen')
                      /\ WholeFrames(Seen') + frame_words <= cursor' + len
  <2> SUFFICES ASSUME pc' = "copy"
               PROVE  cursor' <= at' /\ at' < end' /\ Whole(end') /\ end' <= WholeFrames(Seen')
                      /\ WholeFrames(Seen') + frame_words <= cursor' + len
    OBVIOUS
  <2>1. at' = cursor /\ end' = cursor + n /\ n # 0 /\ Seen' = Seen /\ cursor' = cursor
    BY <1>1, <1>5, <1>6
  <2>2. Whole(cursor + n)
    BY <1>2, <1>4, WholeSums
  <2> QED  BY <1>n, <1>2, <1>3, <1>4, <2>1, <2>2
<1>9. CursorInOrder'
  BY <1>1, <1>n, <1>2, <1>6, <1>8 DEF CursorInOrder, Whole, Writer, Reader
<1>10. Edge' = cursor
  BY <1>1, <1>5 DEF Edge
<1>11. ReadsInOrder'
  BY <1>1, <1>2, <1>8, <1>10 DEF ReadsInOrder
<1>12. WritesInOrder'
  BY <1>1 DEF WritesInOrder, Writer, Reader
<1> QED  BY <1>5, <1>7, <1>9, <1>11, <1>12 DEF RingInOrder

LEMMA CopyOutKeeps ==
  ASSUME Inv, CopyOut
  PROVE  OwnerTypes' /\ RingInOrder'
<1>1. /\ pc = "copy" /\ Reader /\ due' = at + 1
      /\ UNCHANGED <<moved, dir, ring, lead, starved, owed>>
      /\ IF at + 1 = end THEN cursor' = end /\ Finish("ok")
         ELSE at' = at + 1 /\ UNCHANGED <<cursor, pc, call, c1, p, end, held, result>>
  BY DEF CopyOut, channel
<1>2. /\ OwnerTypes'
      /\ \/ pc' = "idle" /\ held' = 0 /\ at + 1 = end /\ cursor' = end
         \/ pc' = "copy" /\ held' = held /\ at' = at + 1 /\ at + 1 < end /\ end' = end /\ cursor' = cursor
  BY <1>1, CopyGoesOn
<1>n. /\ at \in Nat /\ end \in Nat /\ WholeFrames(Seen) \in Nat /\ RingTypesOf
      /\ frame_words \in Nat /\ len \in Nat
  BY InvNumbers, SeenNumbers, RingNumbers, TypesInParts
<1>3. /\ cursor # None /\ cursor \in Nat /\ cursor <= at /\ at < end /\ Whole(end) /\ Whole(cursor) /\ Whole(lead)
      /\ end <= WholeFrames(Seen) /\ WholeFrames(Seen) + frame_words <= cursor + len
  BY <1>1, InvNumbers DEF Inv, CursorInOrder, ReadsInOrder
<1>4. /\ WholeFrames(Seen) <= WholeFrames(Seen') /\ WholeFrames(Seen') \in Nat
      /\ pc' = "copy" => Seen' = Seen
  BY <1>1, <1>2, SeenGrows
<1>5. RingTypesOf'
  BY <1>1, <1>n, <1>2, <1>3 DEF RingTypesOf
<1>6. cursor' # None /\ Whole(cursor') /\ cursor' <= WholeFrames(Seen')
  BY <1>n, <1>2, <1>3, <1>4 DEF None
<1>7. pc' = "copy" => cursor' <= at' /\ at' < end' /\ Whole(end') /\ end' <= WholeFrames(Seen')
                      /\ WholeFrames(Seen') + frame_words <= cursor' + len
  BY <1>n, <1>2, <1>3, <1>4
<1>8. CursorInOrder'
  BY <1>1, <1>3, <1>6, <1>7 DEF CursorInOrder, Whole, Writer, Reader
<1>9. Edge' = at + 1
  BY <1>1, <1>2 DEF Edge
<1>10. ReadsInOrder'
  BY <1>1, <1>7, <1>9 DEF ReadsInOrder
<1>11. WritesInOrder'
  BY <1>1 DEF WritesInOrder, Writer, Reader
<1> QED  BY <1>2, <1>5, <1>8, <1>10, <1>11 DEF RingInOrder

-----------------------------------------------------------------------------
(* The invariant is inductive                                              *)

LEMMA InitInv == Init => Inv
<1> SUFFICES ASSUME Init PROVE Inv
  OBVIOUS
<1>1. /\ moved = 0 /\ BLOCKS_DONE = 0 /\ lost = 0 /\ pending \in BOOLEAN /\ BLOCK_READY \in BOOLEAN
      /\ dir \in {"MemToPeriph", "PeriphToMem"} /\ ring = Blank
      /\ cursor = None /\ lead = WholeFrames(len \div 2)
      /\ pc = "idle" /\ call = [n |-> 0, waits |-> FALSE]
      /\ c1 = 0 /\ p = 0 /\ at = 0 /\ end = 0 /\ held = 0 /\ result = "none"
      /\ starved = 0 /\ owed = None /\ due = None
  BY DEF Init, ChannelInit
<1>n. len \in Nat \ {0} /\ Hold \in Nat /\ MaxMoved \in Nat /\ MaxLost \in Nat
  BY RingNumbers
<1>2. lead \in 0 .. len - 1 /\ Whole(lead)
  <2>1. \A k \in Nat \ {0} : k \div 2 \in Nat /\ k \div 2 <= k - 1
    OBVIOUS
  <2>2. PICK h \in Nat : h = len \div 2 /\ h <= len - 1
    BY <1>n, <2>1
  <2>3. WholeFrames(h) \in Nat /\ WholeFrames(h) <= h /\ Whole(WholeFrames(h))
    BY WholeFramesOf
  <2> QED  BY <1>1, <1>n, <2>2, <2>3
<1>3. call \in [n : Amounts \cup {0}, waits : BOOLEAN]
  BY <1>1
<1>4. TypeOK /\ held <= moved
  <2>1. ring \in [0 .. len - 1 -> Nat \cup {None}]
    BY <1>1, BlankRing
  <2> HIDE DEF None
  <2> QED  BY <1>1, <1>n, <1>2, <1>3, <2>1 DEF TypeOK
<1>5. Counted
  <2>1. Ends(moved) = 0
    <3>1. \A k \in Nat \ {0} : 0 \div k = 0
      OBVIOUS
    <3> QED  BY <1>1, <3>1, RingNumbers DEF Ends
  <2>2. CASE pending
    BY <1>1, <2>1, <2>2 DEF Counted
  <2>3. CASE ~pending
    BY <1>1, <2>1, <2>3 DEF Counted
  <2> QED  BY <2>2, <2>3
<1>6. Taken
  BY <1>1 DEF Taken
<1>7. CursorInOrder
  BY <1>1, <1>2 DEF CursorInOrder
<1>8. ReadsInOrder
  BY <1>1 DEF ReadsInOrder
<1>9. WritesInOrder
  BY <1>1 DEF WritesInOrder
<1> QED  BY <1>4, <1>5, <1>6, <1>7, <1>8, <1>9 DEF Inv

LEMMA InvStep == NearEnough /\ Inv /\ [Next]_vars => Inv'
<1> SUFFICES ASSUME NearEnough, Inv, [Next]_vars PROVE Inv'
  OBVIOUS
<1>1. OwnerTypes' /\ RingInOrder'
  <2>1. CASE Sweep
    BY <2>1, SweepKeeps
  <2>2. CASE \/ BlockEnd \/ (\E n \in Amounts, waits \in BOOLEAN : Begin(n, waits))
             \/ ReadCount \/ ReadPosition \/ CountAgain \/ Woken \/ Drop \/ UNCHANGED vars
    <3>1. Quiet
      BY <2>2, QuietActions
    <3> QED  BY <3>1, QuietKeeps
  <2>3. CASE \E words \in Leads : set_lead(words)
    BY <2>3, SetLeadKeeps
  <2>4. CASE Underrun
    BY <2>4, UnderrunKeeps
  <2>5. CASE Write
    BY <2>5, WriteKeeps
  <2>6. CASE CopyIn
    BY <2>6, CopyInKeeps
  <2>7. CASE Anchor
    BY <2>7, AnchorKeeps
  <2>8. CASE Overrun
    BY <2>8, OverrunKeeps
  <2>9. CASE Read
    BY <2>9, ReadKeeps
  <2>10. CASE CopyOut
    BY <2>10, CopyOutKeeps
  <2> QED  BY <2>1, <2>2, <2>3, <2>4, <2>5, <2>6, <2>7, <2>8, <2>9, <2>10, Zenon DEF Next, Owner
<1>2. ChannelTypes' /\ Counted' /\ Taken'
  BY ChannelStep, CountedStep, TakenStep
<1>3. TypeOK' /\ (held <= moved)'
  BY <1>1, <1>2, TypesInParts DEF RingInOrder
<1> QED  BY <1>1, <1>2, <1>3 DEF Inv, RingInOrder

-----------------------------------------------------------------------------
(* Errors                                                                  *)

LEMMA WhoReturns ==
  ASSUME Inv, [Next]_vars, pc # "idle", pc' = "idle"
  PROVE  /\ result' = "Underrun" => Underrun
         /\ result' = "Overrun" => Overrun
         /\ result' = "ok" => Write \/ CopyIn \/ Anchor \/ Read \/ CopyOut
<1>1. CASE Sweep \/ BlockEnd \/ UNCHANGED vars
  BY <1>1 DEF Sweep, BlockEnd, vars
<1>2. CASE \/ (\E n \in Amounts, waits \in BOOLEAN : Begin(n, waits)) \/ (\E words \in Leads : set_lead(words))
           \/ ReadCount \/ ReadPosition \/ CountAgain \/ Woken
  BY <1>2 DEF Begin, set_lead, ReadCount, ReadPosition, CountAgain, Woken
<1>3. CASE Drop
  BY <1>3 DEF Drop, Finish
<1>4. CASE Underrun \/ Overrun
  BY <1>4 DEF Underrun, Overrun, Finish
<1>5. CASE Write \/ Anchor \/ Read
  <2>1. Nothing \/ pc' = "copy"
    BY <1>5 DEF Write, Anchor, Read, Copy
  <2>2. Finish("ok")
    BY <2>1 DEF Nothing
  <2> QED  BY <1>5, <2>2 DEF Finish
<1>6. CASE CopyIn \/ CopyOut
  <2>1. pc' = pc \/ Finish("ok")
    BY <1>6 DEF CopyIn, CopyOut
  <2> QED  BY <1>6, <2>1 DEF Finish
<1> QED  BY <1>1, <1>2, <1>3, <1>4, <1>5, <1>6, Zenon DEF Next, Owner

(* Less than a frame and what moved since is between a writer and its ring.*)
LEMMA WriterInTime ==
  ASSUME Inv, Writer, cursor # None, WholeFrames(Seen) <= cursor
  PROVE  starved < cursor + frame_words + Hold
<1>1. starved <= moved
  BY DEF Inv, WritesInOrder
<1> QED  BY <1>1, InvNumbers, SeenNumbers, RingNumbers

LEMMA ErrorsStep ==
  ASSUME NearEnough, Inv, [Next]_vars
  PROVE  /\ Returns("Underrun") => starved > cursor
         /\ Returns("Overrun") => moved - cursor > len - frame_words
         /\ Returns("ok") /\ Writer /\ cursor # None => starved < cursor + frame_words + Hold
<1>1. ASSUME Returns("Underrun") PROVE starved > cursor
  <2>1. Placed /\ Writer /\ cursor # None /\ cursor < WholeFrames(Seen)
    BY <1>1, WhoReturns, EveryTimePlaced DEF Returns, Underrun, overtaken
  <2>2. cursor < moved
    BY <2>1, InvNumbers, SeenNumbers
  <2> QED  BY <2>1, <2>2, WriterAt
<1>2. ASSUME Returns("Overrun") PROVE moved - cursor > len - frame_words
  <2>1. cursor # None /\ WholeFrames(Seen) - cursor > len - frame_words
    BY <1>2, WhoReturns, EveryTimePlaced DEF Returns, Overrun, lapped
  <2> QED  BY <2>1, InvNumbers, SeenNumbers, RingNumbers
<1>3. ASSUME Returns("ok"), Writer, cursor # None PROVE starved < cursor + frame_words + Hold
  <2>1. Write \/ CopyIn
    <3>1. ~Reader
      BY <1>3 DEF Reader, Writer
    <3> QED  BY <1>3, <3>1, WhoReturns DEF Returns, Anchor, Read, CopyOut
  <2>2. WholeFrames(Seen) <= cursor
    <3>1. CASE Write
      <4>1. ~(cursor < WholeFrames(Seen))
        BY <1>3, <3>1, EveryTimePlaced DEF Write, overtaken
      <4> QED  BY <4>1, InvNumbers, SeenNumbers
    <3>2. CASE CopyIn
      BY <3>2 DEF CopyIn, Inv, WritesInOrder
    <3> QED  BY <2>1, <3>1, <3>2
  <2> QED  BY <1>3, <2>2, WriterInTime
<1> QED  BY <1>1, <1>2, <1>3

-----------------------------------------------------------------------------
(* The theorems                                                            *)

LEMMA Inductive == NearEnough => (Spec => []Inv)
<1> SUFFICES ASSUME NearEnough PROVE Spec => []Inv
  OBVIOUS
<1>1. Init => Inv
  BY InitInv
<1>2. Inv /\ [Next]_vars => Inv'
  BY InvStep
<1> QED  BY <1>1, <1>2, PTL DEF Spec

(* Every variable keeps its type; above all the cursor, which would leave  *)
(* the numbers if a position ever went backwards.                          *)
THEOREM RingTypes == NearEnough => (Spec => []TypeOK)
<1>1. Inv => TypeOK
  BY DEF Inv
<1> QED  BY <1>1, Inductive, PTL

(* `absolute` (ring_buffer.rs 117-136): wherever block interrupts preempt  *)
(* it, and whether they are late, lost or stale, it returns the whole      *)
(* frames that had moved when the address was read; the cursor is not      *)
(* ahead of a reader's, and no more than a ring ahead of a writer's.       *)
THEOREM PositionIsExact == NearEnough => (Spec => []AbsoluteIsExact)
<1> SUFFICES ASSUME NearEnough PROVE Spec => []AbsoluteIsExact
  OBVIOUS
<1>1. Inv => AbsoluteIsExact
  BY PositionExact
<1> QED  BY <1>1, Inductive, PTL

(* read_immediate copies each word of the stream once, in order, and while *)
(* it is in its slot; what write_immediate wrote stays until it is played. *)
(* Its margin is a frame: no more than the word that moves while the call  *)
(* copies it may come between.                                             *)
THEOREM WordsKeepTheirPlace == NearEnough /\ Hold <= 1 => (Spec => []WordsAreInTheirPlace)
<1> SUFFICES ASSUME NearEnough, Hold <= 1 PROVE Spec => []WordsAreInTheirPlace
  OBVIOUS
<1>1. Inv => WordsAreInTheirPlace
  BY WordsInPlace
<1> QED  BY <1>1, Inductive, PTL

(* A call reports an underrun only when a word was played that was not     *)
(* written, an overrun only when less than a frame of the ring is left,    *)
(* and returns without an error only when it starved the channel of no     *)
(* more than the frame it stood in and what moved during the call.         *)
THEOREM ErrorsTrue == NearEnough => (Spec => ErrorsAreTrue)
<1> SUFFICES ASSUME NearEnough PROVE Spec => ErrorsAreTrue
  OBVIOUS
<1>1. Inv /\ [Next]_vars =>
        [/\ Returns("Underrun") => starved > cursor
         /\ Returns("Overrun") => moved - cursor > len - frame_words
         /\ Returns("ok") /\ Writer /\ cursor # None => starved < cursor + frame_words + Hold]_vars
  BY ErrorsStep
<1> QED  BY <1>1, Inductive, PTL DEF Spec, ErrorsAreTrue
=============================================================================
