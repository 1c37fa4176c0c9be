---- MODULE RingBuffer ----
(***************************************************************************)
(* The copy API of rza1-hal ring_buffer.rs over one RingDma: a writer that *)
(* keeps ahead of a channel that plays the ring (SSI transmit, SCUX), or a *)
(* reader that keeps behind one that fills it.  The owner is a task; block *)
(* interrupts preempt it anywhere, and the channel never waits for it.     *)
(*                                                                         *)
(* Words have no content: a word is its index in the endless stream, so    *)
(* that a ring slot holds the word of one lap or another.                  *)
(***************************************************************************)
EXTENDS RingDma

CONSTANTS
  Amounts,       (* the words a call is made for                           *)
  Leads,         (* what set_lead is called with                           *)
  Hold           (* words that may move while a call places and copies     *)

ASSUME BufferAssumption ==
  /\ Amounts \subseteq Nat /\ Hold \in Nat
  /\ Leads \subseteq 0 .. len - 1

VARIABLES
  dir,           (* which way the ring moves                               *)
  ring,          (* of a writer's ring: the word each slot was written for *)
  cursor,        (* the next word to copy, or None                         *)
  lead,
  pc,            (* where the owner's call is                              *)
  call,          (* its length, and whether it waits                       *)
  c1, p,         (* locals of `absolute`                                   *)
  at, end,       (* the words it is copying                                *)
  held,          (* words moved since it read the position                 *)
  result,        (* what the last call returned                            *)
  starved,       (* history: the last word played that was not written, + 1*)
  owed,          (* history: the first word the writer promised, or None   *)
  due            (* history: the word after the last one delivered, or None*)

cursors == <<cursor, lead>>
locals == <<call, c1, p, at, end, held>>
history == <<starved, owed, due>>
vars == <<channel, dir, ring, cursors, pc, locals, result, history>>

None == -1
Writer == dir = "MemToPeriph"
Reader == dir = "PeriphToMem"

-----------------------------------------------------------------------------
(* The channel moves on.  A word it plays is in its slot, or it was never  *)
(* written for this lap.                                                   *)
Unwritten == Writer /\ owed # None /\ moved >= owed /\ ring[moved % len] # moved

Sweep ==
  /\ MoveWord
  /\ pc \in {"check", "copy"} => held < Hold
  /\ held' = IF pc \in {"check", "copy"} THEN held + 1 ELSE 0
  /\ starved' = IF Unwritten THEN moved + 1 ELSE starved
  /\ UNCHANGED <<dir, ring, cursors, pc, call, c1, p, at, end, result, owed, due>>

BlockEnd ==
  /\ on_block_int
  /\ UNCHANGED <<dir, ring, cursors, pc, locals, result, history>>

-----------------------------------------------------------------------------
(* A call, one of the _immediate forms or one that waits.                  *)
Begin(n, waits) ==
  /\ pc = "idle"
  /\ call' = [n |-> n, waits |-> waits]
  /\ pc' = "count"
  /\ result' = "none"
  /\ UNCHANGED <<channel, dir, ring, cursors, c1, p, at, end, held, history>>

(* The writer starts again: what is still in the ring no longer counts.    *)
Blank == [s \in 0 .. len - 1 |-> None]

set_lead(words) ==
  /\ pc = "idle" /\ Writer
  /\ lead' = WholeFrames(words)
  /\ cursor' = None /\ owed' = None
  /\ ring' = Blank
  /\ result' = "none"
  /\ UNCHANGED <<channel, dir, pc, locals, starved, due>>

(* `absolute`: the count, the position, and the count again.               *)
ReadCount ==
  /\ pc = "count"
  /\ c1' = BLOCKS_DONE
  /\ pc' = "place"
  /\ UNCHANGED <<channel, dir, ring, cursors, call, p, at, end, held, result, history>>

ReadPosition ==
  /\ pc = "place"
  /\ p' = position
  /\ held' = 0
  /\ pc' = "check"
  /\ UNCHANGED <<channel, dir, ring, cursors, call, c1, at, end, result, history>>

CountAgain ==
  /\ pc = "check" /\ BLOCKS_DONE # c1
  /\ pc' = "count"
  /\ c1' = 0 /\ p' = 0 /\ held' = 0
  /\ UNCHANGED <<channel, dir, ring, cursors, call, at, end, result, history>>

Placed == pc = "check" /\ BLOCKS_DONE = c1
hw == absolute(c1, p)

Forget == c1' = 0 /\ p' = 0
Finish(r) ==
  /\ pc' = "idle" /\ result' = r
  /\ Forget /\ at' = 0 /\ end' = 0 /\ held' = 0
  /\ call' = [n |-> 0, waits |-> FALSE]

(* Nothing can be copied now: 0, or the next block is awaited.             *)
Nothing ==
  \/ call.waits /\ call.n >= frame_words
     /\ pc' = "waiting" /\ Forget /\ held' = 0
     /\ UNCHANGED <<call, at, end, result>>
  \/ ~(call.waits /\ call.n >= frame_words) /\ Finish("ok")

Copy(from, n) ==
  IF n = 0 THEN Nothing
  ELSE /\ at' = from /\ end' = from + n
       /\ pc' = "copy" /\ Forget
       /\ UNCHANGED <<call, held, result>>

Smaller(a, b) == IF a < b THEN a ELSE b

(* From here on the writer owes the channel every word; it may be late for *)
(* the first already.                                                      *)
Promise(from) ==
  /\ owed' = from
  /\ starved' = IF moved > from THEN moved ELSE 0

-----------------------------------------------------------------------------
(* write_immediate.                                                        *)

(* Seeded bug: a frame of grace for the writer.                            *)
overtaken_late == cursor + frame_words < hw

overtaken == cursor < hw

Underrun ==
  /\ Placed /\ Writer /\ cursor # None /\ overtaken
  /\ cursor' = hw + lead
  /\ Promise(hw + lead)
  /\ Finish("Underrun")
  /\ UNCHANGED <<channel, dir, ring, lead, due>>

room(from) == len - (from - hw)

Write ==
  /\ Placed /\ Writer /\ ~(cursor # None /\ overtaken)
  /\ LET from == IF cursor = None THEN hw + lead ELSE cursor
     IN  /\ Copy(from, WholeFrames(Smaller(room(from), call.n)))
         /\ cursor' = from
         /\ IF owed = None THEN Promise(from)
                           ELSE UNCHANGED <<owed, starved>>
  /\ UNCHANGED <<channel, dir, ring, lead, due>>

CopyIn ==
  /\ pc = "copy" /\ Writer
  /\ ring' = [ring EXCEPT ![at % len] = at]
  /\ IF at + 1 = end THEN cursor' = end /\ Finish("ok")
     ELSE at' = at + 1 /\ UNCHANGED <<cursor, pc, call, c1, p, end, held, result>>
  /\ UNCHANGED <<channel, dir, lead, history>>

(* read_immediate.                                                         *)
Anchor ==
  /\ Placed /\ Reader /\ cursor = None
  /\ cursor' = hw
  /\ Nothing
  /\ UNCHANGED <<channel, dir, ring, lead, history>>

(* Seeded bug: only a reader more than a whole ring behind is told.        *)
lapped_late == hw - cursor > len

lapped == hw - cursor > len - frame_words

Overrun ==
  /\ Placed /\ Reader /\ cursor # None /\ lapped
  /\ cursor' = hw
  /\ due' = None
  /\ Finish("Overrun")
  /\ UNCHANGED <<channel, dir, ring, lead, starved, owed>>

Read ==
  /\ Placed /\ Reader /\ cursor # None /\ ~lapped
  /\ Copy(cursor, WholeFrames(Smaller(hw - cursor, call.n)))
  /\ UNCHANGED <<channel, dir, ring, cursors, history>>

CopyOut ==
  /\ pc = "copy" /\ Reader
  /\ due' = at + 1
  /\ IF at + 1 = end THEN cursor' = end /\ Finish("ok")
     ELSE at' = at + 1 /\ UNCHANGED <<cursor, pc, call, c1, p, end, held, result>>
  /\ UNCHANGED <<channel, dir, ring, lead, starved, owed>>

(* wait_block takes the flag, and the call starts over.                    *)
Woken ==
  /\ pc = "waiting" /\ BLOCK_READY
  /\ BLOCK_READY' = FALSE
  /\ pc' = "count"
  /\ UNCHANGED <<moved, BLOCKS_DONE, pending, lost, dir, ring, cursors, locals, result, history>>

(* The future of a call that waits may be dropped.                         *)
Drop ==
  /\ pc = "waiting"
  /\ Finish("none")
  /\ UNCHANGED <<channel, dir, ring, cursors, history>>

-----------------------------------------------------------------------------
Owner ==
  \/ ReadCount \/ ReadPosition \/ CountAgain
  \/ Underrun \/ Write \/ CopyIn
  \/ Anchor \/ Overrun \/ Read \/ CopyOut
  \/ Woken

Init ==
  /\ ChannelInit
  /\ dir \in {"MemToPeriph", "PeriphToMem"}
  /\ ring = Blank
  /\ cursor = None /\ lead = WholeFrames(len \div 2)
  /\ pc = "idle" /\ call = [n |-> 0, waits |-> FALSE]
  /\ c1 = 0 /\ p = 0 /\ at = 0 /\ end = 0 /\ held = 0 /\ result = "none"
  /\ starved = 0 /\ owed = None /\ due = None

Next ==
  \/ Sweep \/ BlockEnd
  \/ \E n \in Amounts, waits \in BOOLEAN : Begin(n, waits)
  \/ \E words \in Leads : set_lead(words)
  \/ Owner \/ Drop

Spec == Init /\ [][Next]_vars /\ WF_vars(Owner) /\ WF_vars(BlockEnd)

-----------------------------------------------------------------------------
TypeOK ==
  /\ moved \in 0 .. MaxMoved /\ BLOCKS_DONE \in Nat /\ lost \in 0 .. MaxLost
  /\ pending \in BOOLEAN /\ BLOCK_READY \in BOOLEAN
  /\ dir \in {"MemToPeriph", "PeriphToMem"}
  /\ ring \in [0 .. len - 1 -> Nat \cup {None}]
  /\ cursor \in Nat \cup {None} /\ lead \in 0 .. len - 1
  /\ pc \in {"idle", "count", "place", "check", "copy", "waiting"}
  /\ call \in [n : Amounts \cup {0}, waits : BOOLEAN]
  /\ c1 \in Nat /\ p \in 0 .. len - 1 /\ at \in Nat /\ end \in Nat /\ held \in 0 .. Hold
  /\ result \in {"none", "ok", "Underrun", "Overrun"}
  /\ starved \in Nat /\ owed \in Nat \cup {None} /\ due \in Nat \cup {None}

(* However late, lost or stale the interrupts are and wherever they        *)
(* preempt the read: the absolute position is the whole frames that had    *)
(* moved when the address was read, so that neither `hw - c` (ring_buffer  *)
(* 309) nor `len - (cursor - hw)` (228) can wrap.                          *)
AbsoluteIsExact ==
  Placed =>
    /\ hw = WholeFrames(moved - held)
    /\ cursor # None => IF Reader THEN cursor <= hw ELSE cursor - hw <= len

(* Between two overruns a reader gets every word of the stream, once and   *)
(* in order, and each is still in its slot when it is copied.  What a      *)
(* writer has written stays in its slot until it is played.                *)
WordsAreInTheirPlace ==
  /\ pc = "copy" /\ Reader =>
       /\ at < moved /\ moved <= at + len
       /\ due # None => at = due
  /\ Writer /\ owed # None =>
       \A j \in owed .. (IF pc = "copy" THEN at ELSE cursor) - 1 :
         j >= moved => ring[j % len] = j

(* Errors tell the truth: an underrun is reported only when a word was     *)
(* played that was not written, an overrun only when less than a frame is  *)
(* left; and a write that reports none has starved the channel of no more  *)
(* than the frame it stood in and the words that moved during the call.    *)
Returns(r) == pc # "idle" /\ pc' = "idle" /\ result' = r
ErrorsAreTrue ==
  [][/\ Returns("Underrun") => starved > cursor
     /\ Returns("Overrun") => moved - cursor > len - frame_words
     /\ Returns("ok") /\ Writer /\ cursor # None => starved < cursor + frame_words + Hold]_vars

(* A call that waits is woken for the frame it waits for: once the block   *)
(* that holds it has moved, the call returns, though its interrupt may     *)
(* have come before the call waited, or together with another.             *)
Awaited == (IF Reader THEN cursor ELSE cursor - len) + frame_words
WaiterIsWoken ==
  (pc = "waiting" /\ (moved \div block_words) * block_words >= Awaited)
    ~> pc = "idle"
====
