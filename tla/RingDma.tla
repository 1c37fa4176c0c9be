---- MODULE RingDma ----
(***************************************************************************)
(* rza1-hal dmac/ring.rs: a DMA channel that sweeps a ring of words for    *)
(* ever, block by block, and the interrupt at each block's end.  The owner *)
(* of the ring wants to know how many words have moved in all; it has the  *)
(* interrupts counted so far, of which some may be late, lost or stale,    *)
(* and the channel's current address.                                      *)
(***************************************************************************)
EXTENDS Integers

CONSTANTS
  blocks, block_words, frame_words,
  MaxLost,       (* bound: interrupts lost because one was still pending   *)
  MaxMoved       (* bound: words moved in a behaviour                      *)

ASSUME RingAssumption ==
  /\ blocks \in 2 .. 16 /\ block_words \in Nat \ {0} /\ frame_words \in Nat \ {0}
  /\ block_words % frame_words = 0
  /\ MaxLost \in Nat /\ MaxMoved \in Nat

VARIABLES
  moved,         (* words the channel has moved since the start            *)
  BLOCKS_DONE,
  pending,       (* a block end waits in the GIC, which notes an edge once *)
  BLOCK_READY,   (* DMAC_BLOCK_READY                                       *)
  lost           (* history: block ends that came on top of another        *)

channel == <<moved, BLOCKS_DONE, pending, BLOCK_READY, lost>>

len == blocks * block_words
WholeFrames(w) == w - (w % frame_words)

(* The last word of a block raises the interrupt; the next descriptor, or  *)
(* the first after the last, is loaded without a pause.                    *)
MoveWord ==
  LET ends == (moved + 1) % block_words = 0
  IN  /\ moved < MaxMoved
      /\ ends /\ pending => lost < MaxLost
      /\ moved' = moved + 1
      /\ pending' = (pending \/ ends)
      /\ lost' = IF ends /\ pending THEN lost + 1 ELSE lost
      /\ UNCHANGED <<BLOCKS_DONE, BLOCK_READY>>

(* Seeded bug: the flag is forgotten.                                      *)
BlockEndUnflagged ==
  /\ pending
  /\ pending' = FALSE
  /\ BLOCKS_DONE' = BLOCKS_DONE + 1
  /\ UNCHANGED <<moved, BLOCK_READY, lost>>

(* on_block_int.                                                           *)
on_block_int ==
  /\ pending
  /\ pending' = FALSE
  /\ BLOCKS_DONE' = BLOCKS_DONE + 1
  /\ BLOCK_READY' = TRUE
  /\ UNCHANGED <<moved, lost>>

(* Seeded bug: the address one past the end is not wrapped.                *)
position_past_end ==
  IF moved > 0 /\ moved % len = 0 THEN len ELSE WholeFrames(moved % len)

(* Between two words the address can be one past the end, which wraps.     *)
position == WholeFrames(moved % len)

(* Seeded bug: the interrupts are taken at their word.                     *)
counted_blindly(count, p) == count * block_words + (p % block_words)

(* The count is moved to the nearest one that ends in the block p is in.   *)
absolute(count, p) ==
  LET ahead == (p \div block_words + blocks - (count % blocks)) % blocks
      behind == count - (blocks - ahead)
      counted == IF ahead <= blocks \div 2 THEN count + ahead
                 ELSE IF behind < 0 THEN 0 ELSE behind
  IN  counted * block_words + (p % block_words)

(* `start` zeroes the count; a block end of the ring the channel ran       *)
(* before may still be pending, or its flag not yet consumed.              *)
ChannelInit ==
  /\ moved = 0 /\ BLOCKS_DONE = 0 /\ lost = 0
  /\ pending \in BOOLEAN /\ BLOCK_READY \in BOOLEAN
====
