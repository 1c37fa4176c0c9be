---- MODULE BufStream ----
(***************************************************************************)
(* block-device-adapters buf_stream.rs: a byte stream over a block device, *)
(* with one block of buffer, under a client that makes one call at a time. *)
(* Each step is one iteration of a call's loop up to its next device call, *)
(* which may fail, or never be waited for.  A call is one that stays       *)
(* inside the device, and a write writes one byte value.                   *)
(***************************************************************************)
EXTENDS Integers

CONSTANTS
  SIZE,          (* bytes in a block                                       *)
  ALIGN,         (* the alignment of the buffer, a divisor of SIZE         *)
  BlockCount,    (* blocks of the device                                   *)
  Byte,          (* the values of a byte                                   *)
  NoByte,        (* the byte a read writes                                 *)
  Moves,         (* bound: how far a seek from the end or the position goes*)
  Failing,       (* the blocks that a device call may fail at              *)
  Overlap        (* may the client go direct to the block that is buffered?*)

ASSUME SizesAssumption ==
  /\ SIZE \in Nat \ {0} /\ ALIGN \in Nat \ {0} /\ SIZE % ALIGN = 0
  /\ BlockCount \in Nat \ {0}
ASSUME ByteAssumption == NoByte \notin Byte
ASSUME MovesAssumption == Moves \subseteq Nat
ASSUME FailingAssumption == Failing \subseteq 0 .. BlockCount - 1
ASSUME OverlapAssumption == Overlap \in BOOLEAN

VARIABLES
  device,          (* the bytes on the device                              *)
  buffer,          (* the bytes of one block                               *)
  current_block,   (* the block in the buffer                              *)
  dirty,           (* does the buffer hold bytes the device lacks?         *)
  current_offset,
  call,            (* the call in progress                                 *)
  got,             (* history: what the last step delivered                *)
  doubtful         (* history: the blocks a failed device call was about   *)

vars == <<device, buffer, current_block, dirty, current_offset, call, got, doubtful>>

Length == BlockCount * SIZE
Offsets == 0 .. Length - 1
Within == 0 .. SIZE - 1
BlockNos == 0 .. BlockCount - 1
NoBlock == BlockCount      (* u32::MAX in the source: no block has it      *)
NoBytes == [o \in {} |-> o]

OnDevice(block) == [i \in Within |-> device[block * SIZE + i]]
WithBlock(block, bytes) ==
  [o \in Offsets |-> IF o \div SIZE = block THEN bytes[o % SIZE] ELSE device[o]]

-----------------------------------------------------------------------------
(* ptr is the caller's pointer modulo ALIGN; copied is what a write has    *)
(* put in the buffer and not yet counted.                                  *)
Idle == [op |-> "none", left |-> 0, byte |-> NoByte, ptr |-> 0, copied |-> 0]

Block == current_offset \div SIZE
Start == current_offset % SIZE
End(n) == IF Start + n < SIZE THEN Start + n ELSE SIZE

(* A call may use the caller's memory directly.                            *)
Aligned(n, ptr) == n % SIZE = 0 /\ ptr = 0 /\ Start = 0
Direct == Aligned(call.left, call.ptr)
Hit == Block = current_block
Iterating(op) == call.op = op /\ call.copied = 0

Covered(n) == Block .. (current_offset + n - 1) \div SIZE

Begin(op, n, b, ptr) ==
  /\ call = Idle
  /\ Overlap \/ ~(Aligned(n, ptr) /\ current_block \in Covered(n))
  /\ call' = [op |-> op, left |-> n, byte |-> b, ptr |-> ptr, copied |-> 0]
  /\ got' = NoBytes
  /\ UNCHANGED <<device, buffer, current_block, dirty, current_offset, doubtful>>

Advance(n) ==
  /\ current_offset' = current_offset + n
  /\ call' = IF n = call.left THEN Idle
             ELSE [call EXCEPT !.left = @ - n, !.ptr = (@ + n) % ALIGN, !.copied = 0]

(* A device call about some blocks fails, and the client's call with it.   *)
Fail(about, harmed) ==
  /\ about \cap Failing # {}
  /\ doubtful' = doubtful \cup harmed
  /\ call' = Idle /\ got' = NoBytes
  /\ UNCHANGED current_offset

(* The buffer goes to the device.  dirty is cleared before the device is   *)
(* called; a call that fails may have written the block.                   *)
WriteBuffer ==
  /\ device' = WithBlock(current_block, buffer)
  /\ dirty' = FALSE
  /\ got' = NoBytes
  /\ UNCHANGED <<buffer, current_block, doubtful>>
WriteBufferFails ==
  /\ Fail({current_block}, {current_block})
  /\ device' \in {device, WithBlock(current_block, buffer)}
  /\ dirty' = FALSE
  /\ UNCHANGED <<buffer, current_block>>

-----------------------------------------------------------------------------
ReadDirect ==
  /\ Iterating("read") /\ Direct
  /\ got' = [o \in current_offset .. current_offset + call.left - 1 |-> device[o]]
  /\ Advance(call.left)
  /\ UNCHANGED <<device, buffer, current_block, dirty, doubtful>>

Written(n) ==
  [o \in Offsets |->
     IF o \in current_offset .. current_offset + n - 1 THEN call.byte ELSE device[o]]

WriteDirect ==
  /\ Iterating("write") /\ Direct
  /\ device' = Written(call.left)
  /\ got' = NoBytes
  /\ Advance(call.left)
  /\ UNCHANGED <<buffer, current_block, dirty, doubtful>>

(* A write that fails may have written the first of its blocks.            *)
DirectFails ==
  /\ Direct
  /\ \/ Iterating("read") /\ Fail(Covered(call.left), {}) /\ UNCHANGED device
     \/ /\ Iterating("write") /\ Fail(Covered(call.left), Covered(call.left))
        /\ \E k \in 0 .. call.left \div SIZE : device' = Written(k * SIZE)
  /\ UNCHANGED <<buffer, current_block, dirty>>

(* check_cache: another block is wanted; first the old one is written back.*)
Missing == (Iterating("read") \/ Iterating("write")) /\ ~Direct /\ ~Hit

Evict ==
  /\ Missing /\ dirty
  /\ \/ WriteBuffer /\ UNCHANGED <<current_offset, call>>
     \/ WriteBufferFails

(* Seeded bug: the block is renamed before it is read.                     *)
LoadRenamed ==
  /\ Missing /\ ~dirty
  /\ current_block' = Block
  /\ UNCHANGED <<device, dirty>>
  /\ \/ /\ buffer' = OnDevice(Block)
        /\ got' = NoBytes
        /\ UNCHANGED <<current_offset, call, doubtful>>
     \/ Fail({Block}, {current_block} \cap BlockNos) /\ UNCHANGED buffer

(* A read that fails may leave part of the new block over the old one.     *)
Load ==
  /\ Missing /\ ~dirty
  /\ UNCHANGED <<device, dirty>>
  /\ \/ /\ buffer' = OnDevice(Block) /\ current_block' = Block
        /\ got' = NoBytes
        /\ UNCHANGED <<current_offset, call, doubtful>>
     \/ /\ Fail({Block}, {current_block} \cap BlockNos)
        /\ buffer' \in {buffer} \cup {[i \in Within |-> IF i < k THEN OnDevice(Block)[i] ELSE buffer[i]] :
                                       k \in 1 .. SIZE}
        /\ UNCHANGED current_block

ReadBuffered ==
  /\ Iterating("read") /\ ~Direct /\ Hit
  /\ LET n == End(call.left) - Start
     IN  /\ got' = [o \in current_offset .. current_offset + n - 1 |-> buffer[o % SIZE]]
         /\ Advance(n)
  /\ UNCHANGED <<device, buffer, current_block, dirty, doubtful>>

(* A write that reaches the end of its block writes the block back before  *)
(* it counts the bytes.                                                    *)
WriteBuffered ==
  /\ Iterating("write") /\ ~Direct /\ Hit
  /\ LET n == End(call.left) - Start
     IN  /\ buffer' = [i \in Within |-> IF i \in Start .. Start + n - 1 THEN call.byte ELSE buffer[i]]
         /\ dirty' = TRUE
         /\ IF End(call.left) = SIZE
              THEN call' = [call EXCEPT !.copied = n] /\ UNCHANGED current_offset
              ELSE Advance(n)
  /\ got' = NoBytes
  /\ UNCHANGED <<device, current_block, doubtful>>

WriteBack ==
  /\ call.copied > 0
  /\ \/ WriteBuffer /\ Advance(call.copied)
     \/ WriteBufferFails

(* Seeded bug: flush forgets the dirty bytes.                              *)
FlushNothing ==
  /\ call = Idle
  /\ dirty' = FALSE /\ got' = NoBytes
  /\ UNCHANGED <<device, buffer, current_block, doubtful, call, current_offset>>

Flush ==
  /\ call = Idle
  /\ \/ dirty /\ WriteBuffer /\ UNCHANGED <<call, current_offset>>
     \/ dirty /\ WriteBufferFails
     \/ /\ ~dirty /\ got' = NoBytes
        /\ UNCHANGED <<device, buffer, current_block, dirty, current_offset, call, doubtful>>

(* seek: from the start, the end or the position, and never below 0.  The  *)
(* end is asked of the device.                                             *)
AtLeast0(x) == IF x < 0 THEN 0 ELSE x
seek_target(from, x) ==
  AtLeast0(CASE from = "Start" -> x
             [] from = "End" -> Length + x
             [] from = "Current" -> current_offset + x)

Seek(from, x) ==
  /\ call = Idle
  /\ \/ /\ seek_target(from, x) <= Length
        /\ current_offset' = seek_target(from, x)
        /\ got' = NoBytes
        /\ UNCHANGED <<call, doubtful>>
     \/ from = "End" /\ Fail(BlockNos, {})
  /\ UNCHANGED <<device, buffer, current_block, dirty>>

-----------------------------------------------------------------------------
Init ==
  /\ device \in [Offsets -> Byte]
  /\ buffer \in {[i \in Within |-> b] : b \in Byte}
  /\ current_block = NoBlock
  /\ dirty = FALSE /\ current_offset = 0 /\ call = Idle
  /\ got = NoBytes /\ doubtful = {}

(* What the client may do between two calls.                               *)
ClientCalls ==
  \/ \E n \in 1 .. Length - current_offset, b \in Byte, ptr \in 0 .. ALIGN - 1 :
       Begin("read", n, NoByte, ptr) \/ Begin("write", n, b, ptr)
  \/ \E x \in 0 .. Length : Seek("Start", x)
  \/ \E x \in Moves \cup {-d : d \in Moves} : Seek("End", x) \/ Seek("Current", x)

StreamStep ==
  \/ ReadDirect \/ WriteDirect \/ DirectFails
  \/ Evict \/ Load \/ ReadBuffered \/ WriteBuffered \/ WriteBack

Next == ClientCalls \/ StreamStep \/ Flush

Spec == Init /\ [][Next]_vars

-----------------------------------------------------------------------------
(* Every variable holds a value of its kind.                               *)
TypeOK ==
  /\ device \in [Offsets -> Byte]
  /\ buffer \in [Within -> Byte]
  /\ current_block \in BlockNos \cup {NoBlock}
  /\ dirty \in BOOLEAN
  /\ current_offset \in 0 .. Length
  /\ call \in [op : {"none", "read", "write"}, left : 0 .. Length, byte : Byte \cup {NoByte},
               ptr : 0 .. ALIGN - 1, copied : 0 .. SIZE]
  /\ call.left <= Length - current_offset
  /\ call.op = "write" => call.byte \in Byte
  /\ doubtful \in SUBSET BlockNos

(* What the client must take the stream to hold: the buffered block over   *)
(* the device.                                                             *)
Held(o) == IF o \div SIZE = current_block THEN buffer[o % SIZE] ELSE device[o]

Certain == {o \in Offsets : o \div SIZE \notin doubtful}

(* The stream implements the abstract one, whatever the sizes, alignments  *)
(* and positions of the calls.  A device call that fails costs the block   *)
(* it was about, or the blocks of a direct write: that flush has already   *)
(* cleared dirty (line 92), and that a failed read leaves its bytes under  *)
(* the old block's number (line 108), never does harm to another block.    *)
Abstract == INSTANCE ByteStream WITH
  content <- [o \in Certain |-> Held(o)], pos <- current_offset + call.copied
Refines == Abstract!Spec
StreamSteps == [][Abstract!Next]_(Abstract!vars)

(* A clean buffer hides nothing from the device: what is not marked dirty  *)
(* has been written, so that dropping the stream after a flush, or after   *)
(* any call that left it clean, loses no byte but those of a block whose   *)
(* device call failed.                                                     *)
CleanMeansStored == ~dirty => \A o \in Certain : device[o] = Held(o)
====
