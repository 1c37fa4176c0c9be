---- MODULE BufStreamProofs ----
(***************************************************************************)
(* Proofs about BufStream for every block size, alignment and number of    *)
(* blocks: its types, that a clean buffer hides nothing, and that it       *)
(* implements ByteStream, as long as no call goes direct to the buffered   *)
(* block; and about StreamSlice for every slice of it: that the two keep   *)
(* in step, and that what is outside the slice is kept.                    *)
(***************************************************************************)
EXTENDS StreamSlice, TLAPS

(* Every offset lies in one block, at one place of it.                     *)
LEMMA Division ==
  ASSUME NEW o \in Nat
  PROVE  /\ o \div SIZE \in Nat /\ o % SIZE \in Within
         /\ o = (SIZE * (o \div SIZE)) + (o % SIZE)
BY SizesAssumption DEF Within

LEMMA BlocksFit ==
  ASSUME NEW o \in Nat
  PROVE  o \div SIZE \in Nat /\ SIZE * (o \div SIZE) <= o
<1> DEFINE q == o \div SIZE
           r == o % SIZE
<1>1. q \in Nat /\ r \in Nat /\ o = (SIZE * q) + r
  BY Division DEF Within
<1>2. \A a, b \in Nat : a * b \in Nat
  OBVIOUS
<1> HIDE DEF q, r
<1>3. SIZE * q \in Nat
  BY <1>1, <1>2, SizesAssumption
<1>4. SIZE * q <= o
  BY <1>1, <1>3
<1> QED BY <1>1, <1>4 DEF q

LEMMA InBlock ==
  ASSUME NEW o \in Nat, NEW q \in Nat
  PROVE  o \div SIZE = q <=> SIZE * q <= o /\ o < (SIZE * q) + SIZE
BY SizesAssumption

LEMMA Monotone ==
  ASSUME NEW o \in Nat, NEW p \in Nat, o <= p
  PROVE  o \div SIZE <= p \div SIZE
BY SizesAssumption

(* An offset of the device lies in a block of the device.                  *)
LEMMA LengthIsNat == Length \in Nat /\ Length > 0 /\ Length = SIZE * BlockCount
<1>1. \A a, b \in Nat \ {0} : a * b \in Nat /\ a * b > 0 /\ a * b = b * a
  OBVIOUS
<1> QED BY <1>1, SizesAssumption DEF Length

LEMMA BlockOfOffset ==
  ASSUME NEW o \in Offsets
  PROVE  o \div SIZE \in BlockNos
<1> DEFINE q == o \div SIZE
<1>1. o \in Nat /\ o < SIZE * BlockCount
  BY LengthIsNat DEF Offsets
<1>2. SIZE * q <= o /\ q \in Nat
  BY <1>1, Division, SizesAssumption DEF Within
<1> HIDE DEF q
<1>3. \A a, b \in Nat : SIZE * a < SIZE * b => a < b
  BY SizesAssumption
<1>4. SIZE * q \in Nat /\ SIZE * BlockCount \in Nat
  BY <1>2, SizesAssumption
<1>5. q < BlockCount
  BY <1>1, <1>2, <1>3, <1>4, SizesAssumption
<1> QED BY <1>2, <1>5, SizesAssumption DEF BlockNos, q

(* A piece that stays in its block, seen from the block.                   *)
LEMMA PieceOfBlock ==
  ASSUME NEW at \in Nat, NEW n \in Nat, n <= SIZE - (at % SIZE), NEW o \in Nat
  PROVE  o \in at .. at + n - 1 <=>
           /\ o \div SIZE = at \div SIZE
           /\ o % SIZE \in at % SIZE .. (at % SIZE) + n - 1
<1> DEFINE q == at \div SIZE
           r == at % SIZE
<1>1. q \in Nat /\ r \in Within /\ at = (SIZE * q) + r
  BY Division
<1>2. SIZE * q \in Nat
  BY <1>1, SizesAssumption
<1>3. o \div SIZE = q <=> SIZE * q <= o /\ o < (SIZE * q) + SIZE
  BY <1>1, InBlock
<1>4. o \div SIZE = q => o = (SIZE * q) + (o % SIZE)
  BY Division
<1>5. o % SIZE \in Nat
  BY Division DEF Within
<1> HIDE DEF q, r
<1>6. o \in at .. at + n - 1 => o \div SIZE = q
  BY <1>1, <1>2, <1>3, SizesAssumption DEF Within, r
<1>7. o \div SIZE = q => (o \in at .. at + n - 1 <=> o % SIZE \in r .. r + n - 1)
  BY <1>1, <1>2, <1>4, <1>5, SizesAssumption DEF Within
<1> QED BY <1>6, <1>7 DEF q, r

(* The first offset after a block begins the next one.                     *)
LEMMA NextBlock ==
  ASSUME NEW at \in Nat
  PROVE  LET n == SIZE - (at % SIZE)
         IN  (at + n) % SIZE = 0 /\ (at + n) \div SIZE = (at \div SIZE) + 1
<1> DEFINE q == at \div SIZE
           r == at % SIZE
<1>1. q \in Nat /\ r \in Within /\ at = (SIZE * q) + r
  BY Division
<1>2. SIZE * (q + 1) = (SIZE * q) + SIZE /\ SIZE * q \in Nat
  BY <1>1, SizesAssumption
<1>3. at + (SIZE - r) = SIZE * (q + 1)
  BY <1>1, <1>2, SizesAssumption DEF Within
<1>4. \A k \in Nat : (SIZE * k) % SIZE = 0 /\ (SIZE * k) \div SIZE = k
  BY SizesAssumption
<1> QED BY <1>1, <1>3, <1>4

(* Whole blocks from the beginning of one.                                 *)
LEMMA WholeBlocks ==
  ASSUME NEW at \in Nat, NEW n \in Nat \ {0}, at % SIZE = 0, n % SIZE = 0, NEW o \in Nat
  PROVE  o \in at .. at + n - 1 <=>
           o \div SIZE \in at \div SIZE .. (at + n - 1) \div SIZE
<1>1. at = SIZE * (at \div SIZE) /\ n = SIZE * (n \div SIZE)
      /\ at \div SIZE \in Nat /\ n \div SIZE \in Nat
  BY Division, SizesAssumption DEF Within
<1> DEFINE q == at \div SIZE
           m == n \div SIZE
           p == o \div SIZE
<1>2. p \in Nat /\ SIZE * p <= o /\ o < (SIZE * p) + SIZE
  BY Division, SizesAssumption DEF Within
<1>3. at + n = SIZE * (q + m) /\ m > 0
  BY <1>1, SizesAssumption
<1>4. (at + n - 1) \div SIZE = q + m - 1
  <2>1. SIZE * (q + m - 1) = (SIZE * (q + m)) - SIZE
    BY <1>1, <1>3, SizesAssumption
  <2>2. q + m - 1 \in Nat /\ at + n - 1 \in Nat
    BY <1>1, <1>3
  <2> HIDE DEF q, m
  <2> QED BY <2>1, <2>2, <1>3, InBlock, SizesAssumption
<1>5. \A a, b \in Nat : (SIZE * a < SIZE * b <=> a < b) /\ (SIZE * (a + 1) = (SIZE * a) + SIZE)
                        /\ SIZE * a \in Nat
  BY SizesAssumption
<1> HIDE DEF q, m, p
<1>6. at <= o <=> q <= p
  BY <1>1, <1>2, <1>5, SizesAssumption DEF q, p
<1>7. o < at + n <=> p < q + m
  BY <1>1, <1>2, <1>3, <1>5, SizesAssumption DEF q, m, p
<1> QED BY <1>1, <1>2, <1>3, <1>4, <1>6, <1>7 DEF q, m, p

-----------------------------------------------------------------------------
(* What a call in progress is like, and why it never goes direct to the    *)
(* buffered block: a call that becomes direct half-way has just left that  *)
(* block behind.                                                           *)
CallOK ==
  /\ call.op = "none" => call = Idle
  /\ call.op # "none" => call.left > 0
  /\ call.copied > 0 => /\ call.op = "write" /\ Hit
                        /\ call.copied = SIZE - Start /\ call.copied <= call.left
DirectIsDisjoint == call.op # "none" /\ Direct => current_block \notin Covered(call.left)
DirtyIsABlock == dirty => current_block \in BlockNos

Inv == TypeOK /\ CallOK /\ DirectIsDisjoint /\ DirtyIsABlock /\ CleanMeansStored

(* One iteration of a call makes progress inside its block.                *)
LEMMA Iteration ==
  ASSUME TypeOK, CallOK, call.op # "none"
  PROVE  LET n == End(call.left) - Start
         IN  /\ n \in 1 .. call.left /\ n \in 1 .. SIZE - Start
             /\ n \in 1 .. Length - current_offset
             /\ n < call.left => n = SIZE - Start
             /\ End(call.left) = SIZE => n = SIZE - Start
             /\ current_offset \in Offsets /\ Block \in BlockNos
<1>1. current_offset \in Nat /\ call.left \in Nat /\ call.left > 0
      /\ call.left <= Length - current_offset
  BY LengthIsNat DEF TypeOK, CallOK
<1>2. Start \in 0 .. SIZE - 1
  BY <1>1, Division DEF Start, Within
<1>3. current_offset \in Offsets
  BY <1>1, LengthIsNat DEF Offsets
<1>4. Block \in BlockNos
  BY <1>3, BlockOfOffset DEF Block
<1> QED BY <1>1, <1>2, <1>3, <1>4, SizesAssumption, LengthIsNat DEF End

(* Advance keeps the call in order.                                        *)
LEMMA AdvanceInOrder ==
  ASSUME TypeOK, CallOK, call.op # "none",
         NEW n \in 1 .. call.left, Advance(n),
         n < call.left => Hit /\ n = SIZE - Start,
         UNCHANGED current_block
  PROVE  /\ current_offset' \in 0 .. Length
         /\ call' \in [op : {"none", "read", "write"}, left : 0 .. Length,
                       byte : Byte \cup {NoByte}, ptr : 0 .. ALIGN - 1, copied : 0 .. SIZE]
         /\ call'.left <= Length - current_offset'
         /\ call'.op = "write" => call'.byte \in Byte
         /\ CallOK' /\ DirectIsDisjoint'
         /\ call'.copied = 0
<1>1. /\ current_offset \in Nat /\ call.left \in Nat /\ call.left <= Length - current_offset
      /\ current_offset' = current_offset + n
  BY LengthIsNat DEF TypeOK, Advance
<1>2. CASE n = call.left
  <2>1. call' = Idle
    BY <1>2 DEF Advance
  <2> QED BY <1>1, <1>2, <2>1, LengthIsNat, SizesAssumption
          DEF Idle, CallOK, DirectIsDisjoint
<1>3. CASE n # call.left
  <2>1. n < call.left /\ Hit /\ n = SIZE - Start
    BY <1>1, <1>3
  <2>2. call' = [call EXCEPT !.left = @ - n, !.ptr = (@ + n) % ALIGN, !.copied = 0]
    BY <1>3 DEF Advance
  <2>3. call.ptr \in 0 .. ALIGN - 1
    BY DEF TypeOK
  <2>4. (call.ptr + n) % ALIGN \in 0 .. ALIGN - 1
    BY <1>1, <2>3, SizesAssumption
  <2>5. /\ call'.left = call.left - n /\ call'.copied = 0 /\ call'.op = call.op
        /\ call'.byte = call.byte
        /\ call' \in [op : {"none", "read", "write"}, left : 0 .. Length,
                       byte : Byte \cup {NoByte}, ptr : 0 .. ALIGN - 1, copied : 0 .. SIZE]
    <3>1. call' = [op |-> call.op, left |-> call.left - n, byte |-> call.byte,
                   ptr |-> (call.ptr + n) % ALIGN, copied |-> 0]
      BY <2>2 DEF TypeOK
    <3>2. call.left - n \in 0 .. Length /\ 0 \in 0 .. SIZE
      BY <1>1, <2>1, LengthIsNat, SizesAssumption DEF TypeOK
    <3>3. call.op \in {"none", "read", "write"} /\ call.byte \in Byte \cup {NoByte}
      BY DEF TypeOK
    <3> QED BY <2>4, <3>1, <3>2, <3>3
  <2>6. current_offset' \div SIZE = Block + 1
    BY <1>1, <2>1, NextBlock DEF Block, Start
  <2>7. DirectIsDisjoint'
    <3>1. current_block = Block /\ Block \in Nat
      BY <1>1, <2>1, Division DEF Hit, Block
    <3> QED BY <3>1, <2>6 DEF DirectIsDisjoint, Covered, Block
  <2>8. CallOK'
    BY <1>1, <2>1, <2>5 DEF CallOK
  <2> QED BY <1>1, <2>1, <2>5, <2>7, <2>8, LengthIsNat DEF TypeOK
<1> QED BY <1>2, <1>3

(* A call that fails is over.                                              *)
LEMMA FailInOrder ==
  ASSUME TypeOK, call' = Idle, UNCHANGED current_offset
  PROVE  /\ call' \in [op : {"none", "read", "write"}, left : 0 .. Length,
                       byte : Byte \cup {NoByte}, ptr : 0 .. ALIGN - 1, copied : 0 .. SIZE]
         /\ call'.left <= Length - current_offset' /\ call'.op = "none" /\ call'.copied = 0
         /\ CallOK' /\ DirectIsDisjoint'
BY LengthIsNat, SizesAssumption DEF TypeOK, Idle, CallOK, DirectIsDisjoint

-----------------------------------------------------------------------------
(* What the device and the buffer hold after each kind of transfer.        *)
Quiet == /\ Certain' \subseteq Certain
         /\ \A o \in Certain' : Held(o)' = Held(o)

(* Data are in order: of their types, and stored where clean.              *)
DataOK ==
  /\ device \in [Offsets -> Byte] /\ buffer \in [Within -> Byte]
  /\ current_block \in BlockNos \cup {NoBlock} /\ dirty \in BOOLEAN
  /\ doubtful \in SUBSET BlockNos
  /\ DirtyIsABlock /\ CleanMeansStored

LEMMA WithBlockHolds ==
  ASSUME TypeOK, NEW o \in Offsets
  PROVE  /\ o % SIZE \in Within /\ o \in Nat
         /\ WithBlock(current_block, buffer) \in [Offsets -> Byte]
         /\ WithBlock(current_block, buffer)[o] = Held(o)
<1>1. \A p \in Offsets : p \in Nat /\ p % SIZE \in Within
  BY LengthIsNat, Division DEF Offsets
<1>2. WithBlock(current_block, buffer) \in [Offsets -> Byte]
  BY <1>1 DEF WithBlock, TypeOK
<1> QED BY <1>1, <1>2 DEF WithBlock, Held

(* The buffer goes to the device.                                          *)
LEMMA WriteBufferData ==
  ASSUME TypeOK, WriteBuffer
  PROVE  DataOK' /\ Quiet
<1>1. \A o \in Offsets : device'[o] = Held(o)
  BY WithBlockHolds DEF WriteBuffer
<1>2. device' \in [Offsets -> Byte]
  <2>1. 0 \in Offsets
    BY LengthIsNat DEF Offsets
  <2> QED BY <2>1, WithBlockHolds DEF WriteBuffer
<1>3. \A o \in Offsets : Held(o)' = Held(o)
  BY <1>1 DEF WriteBuffer, Held
<1> QED BY <1>1, <1>2, <1>3 DEF WriteBuffer, TypeOK, DataOK, Quiet, Certain,
                             CleanMeansStored, DirtyIsABlock

(* The same, but the device call fails: only that block suffers.           *)
LEMMA WriteBufferFailsData ==
  ASSUME TypeOK, current_block \in BlockNos, WriteBufferFails
  PROVE  /\ DataOK' /\ Quiet
         /\ Certain' = Certain \ {o \in Offsets : o \div SIZE = current_block}
<1>1. current_block \in BlockNos /\ doubtful' = doubtful \cup {current_block}
  BY DEF WriteBufferFails, Fail
<1>2. 0 \in Offsets
  BY LengthIsNat DEF Offsets
<1>3. device' \in [Offsets -> Byte]
  BY <1>2, WithBlockHolds DEF WriteBufferFails, TypeOK
<1>4. Certain' = Certain \ {o \in Offsets : o \div SIZE = current_block}
  BY <1>1 DEF Certain
<1>5. \A o \in Certain' : device'[o] = device[o] /\ Held(o) = device[o] /\ Held(o)' = device'[o]
  BY <1>1, <1>4, WithBlockHolds DEF WriteBufferFails, Held, Certain
<1> QED BY <1>1, <1>3, <1>4, <1>5
        DEF DataOK, WriteBufferFails, TypeOK, Quiet, DirtyIsABlock, CleanMeansStored, Certain

(* A block of the device as it is read.                                    *)
LEMMA OnDeviceHolds ==
  ASSUME TypeOK, NEW block \in BlockNos
  PROVE  /\ OnDevice(block) \in [Within -> Byte]
         /\ \A o \in Offsets : o \div SIZE = block => OnDevice(block)[o % SIZE] = device[o]
<1>1. \A i \in Within : (block * SIZE) + i \in Offsets
  <2>1. block \in Nat /\ block + 1 <= BlockCount /\ BlockCount \in Nat
    BY SizesAssumption DEF BlockNos
  <2>2. \A a, b \in Nat : a <= b => SIZE * a <= SIZE * b
    BY SizesAssumption
  <2>3. SIZE * (block + 1) <= Length
    BY <2>1, <2>2, LengthIsNat
  <2>4. SIZE * (block + 1) = (block * SIZE) + SIZE /\ block * SIZE \in Nat
    BY <2>1, SizesAssumption
  <2> QED BY <2>3, <2>4, LengthIsNat, SizesAssumption DEF Within, Offsets
<1>2. \A o \in Offsets : o \div SIZE = block => o = (block * SIZE) + (o % SIZE) /\ o % SIZE \in Within
  <2>1. \A o \in Offsets : o \in Nat
    BY LengthIsNat DEF Offsets
  <2>2. block \in Nat
    BY SizesAssumption DEF BlockNos
  <2>3. SIZE * block = block * SIZE
    BY <2>2, SizesAssumption
  <2> QED BY <2>1, <2>3, Division
<1> QED BY <1>1, <1>2 DEF OnDevice, TypeOK

-----------------------------------------------------------------------------
(* The three kinds of abstract step that deliver nothing and write nothing,*)
(* seen from the stream: a move, and the loss of a block or of a piece.    *)
Pos == current_offset + call.copied

LEMMA Repositions ==
  ASSUME TypeOK', CallOK', Certain' = Certain, Quiet, got' = NoBytes
  PROVE  Abstract!Next
<1>0. Pos' \in 0 .. Length
  <2>1. /\ current_offset' \in Nat /\ call'.left \in Nat /\ call'.copied \in Nat
        /\ call'.left <= Length - current_offset'
    BY LengthIsNat, SizesAssumption DEF TypeOK
  <2>2. call'.copied > 0 => call'.copied <= call'.left
    BY DEF CallOK
  <2> QED BY <2>1, <2>2, LengthIsNat DEF Pos
<1>1. [o \in Certain |-> Held(o)]' = [o \in Certain |-> Held(o)]
  BY DEF Quiet
<1>2. Abstract!Seek(Pos')
  BY <1>1 DEF Abstract!Seek, Abstract!NoBytes, NoBytes, Pos
<1> QED BY <1>0, <1>2 DEF Abstract!Next

LEMMA LosesBlock ==
  ASSUME NEW block \in BlockNos, Quiet, got' = NoBytes, TypeOK,
         call' = Idle, UNCHANGED current_offset,
         Certain' = Certain \ {o \in Offsets : o \div SIZE = block}
  PROVE  Abstract!Next
<1>0. Pos' \in 0 .. Pos
  BY LengthIsNat, SizesAssumption DEF TypeOK, Pos, Idle
<1>1. [o \in Certain |-> Held(o)]' = [o \in Certain \ Abstract!BlockBytes(block) |-> Held(o)]
  BY DEF Quiet, Abstract!BlockBytes, Abstract!Offsets, Offsets
<1>2. Abstract!Lose(Abstract!BlockBytes(block))
  BY <1>0, <1>1 DEF Abstract!Lose, Abstract!NoBytes, NoBytes, Pos
<1>3. block \in 0 .. Length \div SIZE
  BY LengthIsNat, SizesAssumption DEF BlockNos
<1> QED BY <1>2, <1>3 DEF Abstract!Next

-----------------------------------------------------------------------------
(* One lemma per action: it keeps the invariant and is a step of the       *)
(* abstract stream.                                                        *)
LEMMA BeginStep ==
  ASSUME Inv, ~Overlap, NEW op \in {"read", "write"}, NEW n \in 1 .. Length - current_offset,
         NEW b \in Byte \cup {NoByte}, op = "write" => b \in Byte, NEW ptr \in 0 .. ALIGN - 1,
         Begin(op, n, b, ptr)
  PROVE  Inv' /\ Abstract!Next
<1> USE DEF Inv
<1>1. call = Idle /\ call' = [op |-> op, left |-> n, byte |-> b, ptr |-> ptr, copied |-> 0]
  BY DEF Begin
<1>2. current_offset \in 0 .. Length
  BY DEF TypeOK
<1>3. TypeOK'
  BY <1>1, <1>2, LengthIsNat, SizesAssumption DEF Begin, TypeOK
<1>4. CallOK'
  BY <1>1, <1>2, LengthIsNat DEF CallOK
<1>5. DirectIsDisjoint'
  BY <1>1 DEF Begin, DirectIsDisjoint, Direct, Aligned, Covered, Block, Start
<1>6. DirtyIsABlock' /\ CleanMeansStored' /\ Certain' = Certain /\ Quiet
  BY DEF Begin, DirtyIsABlock, CleanMeansStored, Certain, Held, Quiet
<1>7. Abstract!Next
  BY <1>3, <1>4, <1>6, Repositions DEF Begin
<1> QED BY <1>3, <1>4, <1>5, <1>6, <1>7

(* The bytes of a direct call: those of the blocks it covers, and none of  *)
(* the buffered block.                                                     *)
LEMMA DirectPiece ==
  ASSUME Inv, call.op # "none", call.copied = 0, Direct
  PROVE  /\ call.left \in 1 .. call.left /\ call.left \in 1 .. Length - Pos
         /\ Pos = current_offset /\ current_offset \in Nat
         /\ Covered(call.left) \subseteq BlockNos
         /\ current_block \notin Covered(call.left)
         /\ \A o \in Offsets : o \in current_offset .. current_offset + call.left - 1
                                 <=> o \div SIZE \in Covered(call.left)
         /\ current_offset .. current_offset + call.left - 1 \subseteq Offsets
<1>1. /\ current_offset \in Nat /\ call.left \in Nat \ {0} /\ call.left <= Length - current_offset
      /\ Pos = current_offset
  BY LengthIsNat DEF Inv, TypeOK, CallOK, Pos
<1>2. current_offset % SIZE = 0 /\ call.left % SIZE = 0
  BY DEF Direct, Aligned, Start
<1>3. current_block \notin Covered(call.left)
  BY DEF Inv, DirectIsDisjoint
<1>4. \A o \in Nat : o \in current_offset .. current_offset + call.left - 1
                       <=> o \div SIZE \in Covered(call.left)
  BY <1>1, <1>2, WholeBlocks DEF Covered, Block
<1>5. Covered(call.left) \subseteq BlockNos
  <2>1. current_offset + call.left - 1 \in Offsets
    BY <1>1, LengthIsNat DEF Offsets
  <2>2. (current_offset + call.left - 1) \div SIZE \in BlockNos
    BY <2>1, BlockOfOffset
  <2>3. Block \in Nat
    BY <1>1, Division DEF Block
  <2> QED BY <2>2, <2>3, SizesAssumption DEF Covered, BlockNos
<1> QED BY <1>1, <1>3, <1>4, <1>5, LengthIsNat DEF Offsets

LEMMA ReadDirectStep ==
  ASSUME Inv, ReadDirect
  PROVE  Inv' /\ Abstract!Next
<1> DEFINE piece == current_offset .. current_offset + call.left - 1
<1>1. /\ call.op = "read" /\ call.copied = 0 /\ Direct
      /\ got' = [o \in piece |-> device[o]] /\ Advance(call.left)
      /\ UNCHANGED <<device, buffer, current_block, dirty, doubtful>>
  BY DEF ReadDirect, Iterating
<1>2. /\ call.left \in 1 .. call.left /\ call.left \in 1 .. Length - Pos /\ Pos = current_offset
      /\ piece \subseteq Offsets /\ current_block \notin Covered(call.left)
      /\ \A o \in Offsets : o \in piece <=> o \div SIZE \in Covered(call.left)
  BY <1>1, DirectPiece
<1>3. /\ TypeOK' /\ CallOK' /\ DirectIsDisjoint' /\ call'.copied = 0
  BY <1>1, <1>2, AdvanceInOrder DEF Inv, TypeOK
<1>4. /\ DirtyIsABlock' /\ CleanMeansStored'
      /\ [o \in Certain |-> Held(o)]' = [o \in Certain |-> Held(o)]
  BY <1>1 DEF Inv, DirtyIsABlock, CleanMeansStored, Certain, Held
<1>5. got' \in [piece -> Byte]
  BY <1>1, <1>2 DEF Inv, TypeOK
<1>6. \A o \in piece : o \in Certain => got'[o] = Held(o)
  BY <1>1, <1>2 DEF Held
<1>7. Pos' = Pos + call.left
  BY <1>1, <1>2, <1>3, LengthIsNat DEF Pos, Advance, Inv, TypeOK
<1>8. Abstract!Read(call.left)
  BY <1>2, <1>4, <1>5, <1>6, <1>7 DEF Abstract!Read, Abstract!Piece, Pos
<1> QED BY <1>2, <1>3, <1>4, <1>8 DEF Inv, Abstract!Next, Pos

(* What a direct write leaves.                                             *)
LEMMA WrittenHolds ==
  ASSUME TypeOK, call.byte \in Byte, NEW n \in Int
  PROVE  /\ Written(n) \in [Offsets -> Byte]
         /\ \A o \in Offsets :
              /\ o \in current_offset .. current_offset + n - 1 => Written(n)[o] = call.byte
              /\ o \notin current_offset .. current_offset + n - 1 => Written(n)[o] = device[o]
BY DEF Written, TypeOK

LEMMA WriteDirectStep ==
  ASSUME Inv, WriteDirect
  PROVE  Inv' /\ Abstract!Next
<1> DEFINE piece == current_offset .. current_offset + call.left - 1
<1>1. /\ call.op = "write" /\ call.copied = 0 /\ Direct
      /\ device' = Written(call.left) /\ got' = NoBytes /\ Advance(call.left)
      /\ UNCHANGED <<buffer, current_block, dirty, doubtful>>
  BY DEF WriteDirect, Iterating
<1>2. /\ call.left \in 1 .. call.left /\ call.left \in 1 .. Length - Pos /\ Pos = current_offset
      /\ current_block \notin Covered(call.left)
      /\ \A o \in Offsets : o \in piece <=> o \div SIZE \in Covered(call.left)
  BY <1>1, DirectPiece
<1>3. call.byte \in Byte
  BY <1>1 DEF Inv, TypeOK
<1>4. /\ device' \in [Offsets -> Byte]
      /\ \A o \in Offsets : /\ o \in piece => device'[o] = call.byte
                            /\ o \notin piece => device'[o] = device[o]
  BY <1>1, <1>3, WrittenHolds DEF Inv, TypeOK
<1>5. TypeOK' /\ CallOK' /\ DirectIsDisjoint' /\ call'.copied = 0
  BY <1>1, <1>2, <1>4, AdvanceInOrder DEF Inv, TypeOK
<1>6. \A o \in Offsets : Held(o)' = IF o \in piece THEN call.byte ELSE Held(o)
  BY <1>1, <1>2, <1>4 DEF Held
<1>7. DirtyIsABlock' /\ CleanMeansStored'
  BY <1>1, <1>4, <1>6 DEF Inv, DirtyIsABlock, CleanMeansStored, Certain, Held
<1>8. Pos' = Pos + call.left
  BY <1>1, <1>2, <1>5, LengthIsNat DEF Pos, Advance, Inv, TypeOK
<1>9. [o \in Certain |-> Held(o)]' = [o \in Certain |-> IF o \in piece THEN call.byte ELSE Held(o)]
  BY <1>1, <1>6 DEF Certain
<1>10. Abstract!Write(call.left, call.byte)
  BY <1>1, <1>2, <1>8, <1>9 DEF Abstract!Write, Abstract!Piece, Abstract!NoBytes, NoBytes, Pos
<1> QED BY <1>2, <1>3, <1>5, <1>7, <1>10 DEF Inv, Abstract!Next, Pos

(* A direct write that fails costs the blocks it covers, which are the     *)
(* piece the client was writing.                                           *)
LEMMA DirectFailsStep ==
  ASSUME Inv, DirectFails
  PROVE  Inv' /\ Abstract!Next
<1> DEFINE piece == current_offset .. current_offset + call.left - 1
<1>1. /\ Direct /\ call' = Idle /\ got' = NoBytes
      /\ UNCHANGED <<buffer, current_block, dirty, current_offset>>
      /\ call.op # "none" /\ call.copied = 0
  BY DEF DirectFails, Fail, Iterating
<1>2. /\ call.left \in 1 .. Length - Pos /\ Pos = current_offset /\ Pos \in Nat
      /\ Covered(call.left) \subseteq BlockNos
      /\ current_block \notin Covered(call.left)
      /\ \A o \in Offsets : o \in piece <=> o \div SIZE \in Covered(call.left)
  BY <1>1, DirectPiece
<1>3. CallOK' /\ DirectIsDisjoint'
  BY <1>1, FailInOrder DEF Inv
<1>4. CASE call.op = "read"
  <2>1. doubtful' = doubtful /\ UNCHANGED device
    BY <1>4 DEF DirectFails, Fail, Iterating
  <2>2. TypeOK'
    BY <1>1, <2>1, FailInOrder DEF Inv, TypeOK
  <2>3. Quiet /\ Certain' = Certain /\ DirtyIsABlock' /\ CleanMeansStored'
    BY <1>1, <2>1 DEF Inv, Quiet, Certain, Held, DirtyIsABlock, CleanMeansStored
  <2>4. Abstract!Next
    BY <1>1, <1>3, <2>2, <2>3, Repositions
  <2> QED BY <1>3, <2>2, <2>3, <2>4 DEF Inv
<1>5. CASE call.op = "write"
  <2>1. doubtful' = doubtful \cup Covered(call.left)
    BY <1>5 DEF DirectFails, Fail, Iterating
  <2>2. PICK k \in 0 .. call.left \div SIZE : device' = Written(k * SIZE)
    BY <1>5 DEF DirectFails, Iterating
  <2>3. k * SIZE \in Nat /\ k * SIZE <= call.left
    <3>1. call.left \in Nat
      BY <1>2
    <3>2. call.left \div SIZE \in Nat /\ SIZE * (call.left \div SIZE) <= call.left
      BY <3>1, BlocksFit
    <3>3. \A a, b \in Nat : a <= b => a * SIZE \in Nat /\ SIZE * b \in Nat /\ a * SIZE <= SIZE * b
      BY SizesAssumption
    <3> QED BY <3>1, <3>2, <3>3
  <2>4. current_offset .. current_offset + (k * SIZE) - 1 \subseteq piece
    BY <1>2, <2>3
  <2>5. call.byte \in Byte
    BY <1>5 DEF Inv, TypeOK
  <2>6. device' \in [Offsets -> Byte] /\ \A o \in Offsets \ piece : device'[o] = device[o]
    BY <2>2, <2>3, <2>4, <2>5, WrittenHolds DEF Inv
  <2>7. TypeOK'
    BY <1>1, <1>2, <2>1, <2>6, FailInOrder DEF Inv, TypeOK
  <2>8. Certain' = Certain \ piece
    BY <1>2, <2>1 DEF Certain
  <2>9. Quiet /\ DirtyIsABlock' /\ CleanMeansStored'
    BY <1>1, <2>6, <2>8 DEF Inv, Quiet, Certain, Held, DirtyIsABlock, CleanMeansStored
  <2>10. [o \in Certain |-> Held(o)]' = [o \in Certain \ piece |-> Held(o)]
    BY <2>8, <2>9 DEF Quiet
  <2>11. Pos' \in 0 .. Pos
    BY <1>1, <1>2, LengthIsNat DEF Pos, Idle, Inv, TypeOK
  <2>12. Abstract!Lose(Abstract!Piece(call.left))
    BY <1>1, <1>2, <2>10, <2>11
       DEF Abstract!Lose, Abstract!Piece, Abstract!NoBytes, NoBytes, Pos
  <2> QED BY <1>2, <1>3, <2>7, <2>9, <2>12 DEF Inv, Abstract!Next, Pos
<1> QED BY <1>1, <1>4, <1>5 DEF DirectFails, Iterating

(* What a write-back, and one that fails, are to the abstract stream.      *)
LEMMA WriteBufferStep ==
  ASSUME Inv, WriteBuffer, TypeOK', CallOK', DirectIsDisjoint', Pos' = Pos
  PROVE  Inv' /\ Abstract!Next
<1>1. DataOK' /\ Quiet /\ Certain' = Certain /\ got' = NoBytes
  BY WriteBufferData DEF Inv, WriteBuffer, Certain
<1> QED BY <1>1, Repositions DEF Inv, DataOK

LEMMA WriteBufferFailsStep ==
  ASSUME Inv, WriteBufferFails, current_block \in BlockNos
  PROVE  Inv' /\ Abstract!Next
<1>1. /\ DataOK' /\ Quiet
      /\ Certain' = Certain \ {o \in Offsets : o \div SIZE = current_block}
  BY WriteBufferFailsData DEF Inv
<1>2. call' = Idle /\ got' = NoBytes /\ UNCHANGED current_offset
  BY DEF WriteBufferFails, Fail
<1>3. TypeOK' /\ CallOK' /\ DirectIsDisjoint'
  BY <1>1, <1>2, FailInOrder DEF Inv, TypeOK, DataOK
<1>4. Abstract!Next
  BY <1>1, <1>2, LosesBlock DEF Inv
<1> QED BY <1>1, <1>3, <1>4 DEF Inv, DataOK

LEMMA EvictStep ==
  ASSUME Inv, Evict
  PROVE  Inv' /\ Abstract!Next
<1>1. current_block \in BlockNos
  BY DEF Evict, Inv, DirtyIsABlock
<1>2. CASE WriteBuffer /\ UNCHANGED <<current_offset, call>>
  <2>1. DataOK'
    BY <1>2, WriteBufferData DEF Inv
  <2>2. TypeOK' /\ CallOK' /\ DirectIsDisjoint' /\ Pos' = Pos
    BY <1>2, <2>1 DEF Inv, DataOK, TypeOK, CallOK, DirectIsDisjoint, WriteBuffer, Hit, Block,
                      Start, Direct, Aligned, Covered, Pos
  <2> QED BY <1>2, <2>2, WriteBufferStep
<1>3. CASE WriteBufferFails
  BY <1>1, <1>3, WriteBufferFailsStep
<1> QED BY <1>2, <1>3 DEF Evict

LEMMA WriteBackStep ==
  ASSUME Inv, WriteBack
  PROVE  Inv' /\ Abstract!Next
<1>1. /\ call.copied > 0 /\ call.op = "write" /\ Hit
      /\ call.copied = SIZE - Start /\ call.copied <= call.left
  BY DEF WriteBack, Inv, CallOK
<1>2. current_block \in BlockNos
  BY <1>1, Iteration DEF Inv, Hit
<1>3. CASE WriteBuffer /\ Advance(call.copied)
  <2>1. DataOK'
    BY <1>3, WriteBufferData DEF Inv
  <2>2. call.copied \in 1 .. call.left
    BY <1>1, LengthIsNat DEF Inv, TypeOK
  <2>3. /\ CallOK' /\ DirectIsDisjoint' /\ call'.copied = 0
        /\ TypeOK'
    BY <1>1, <1>3, <2>1, <2>2, AdvanceInOrder DEF Inv, DataOK, TypeOK, WriteBuffer
  <2>4. Pos' = Pos
    BY <1>3, <2>2, <2>3, LengthIsNat DEF Pos, Advance, Inv, TypeOK
  <2> QED BY <1>3, <2>3, <2>4, WriteBufferStep
<1>4. CASE WriteBufferFails
  BY <1>2, <1>4, WriteBufferFailsStep
<1> QED BY <1>3, <1>4 DEF WriteBack

LEMMA FlushStep ==
  ASSUME Inv, Flush
  PROVE  Inv' /\ Abstract!Next
<1>1. CASE dirty /\ WriteBuffer /\ UNCHANGED <<call, current_offset>>
  <2>1. DataOK'
    BY <1>1, WriteBufferData DEF Inv
  <2>2. TypeOK' /\ CallOK' /\ DirectIsDisjoint' /\ Pos' = Pos
    BY <1>1, <2>1 DEF Inv, DataOK, TypeOK, CallOK, DirectIsDisjoint, WriteBuffer, Hit, Block,
                      Start, Direct, Aligned, Covered, Pos
  <2> QED BY <1>1, <2>2, WriteBufferStep
<1>2. CASE dirty /\ WriteBufferFails
  BY <1>2, WriteBufferFailsStep DEF Inv, DirtyIsABlock
<1>3. CASE got' = NoBytes /\ UNCHANGED <<device, buffer, current_block, dirty, current_offset,
                                         call, doubtful>>
  <2>1. TypeOK' /\ CallOK' /\ DirectIsDisjoint'
    BY <1>3 DEF Inv, TypeOK, CallOK, DirectIsDisjoint, Hit, Block, Start, Direct, Aligned, Covered
  <2>2. DirtyIsABlock' /\ CleanMeansStored' /\ Certain' = Certain /\ Quiet
    BY <1>3 DEF Inv, DirtyIsABlock, CleanMeansStored, Certain, Held, Quiet
  <2> QED BY <1>3, <2>1, <2>2, Repositions DEF Inv
<1> QED BY <1>1, <1>2, <1>3 DEF Flush

(* Loading a block over a clean buffer hides nothing, and a load that fails*)
(* costs at most the block whose number the buffer still bears.            *)
LEMMA LoadStep ==
  ASSUME Inv, Load
  PROVE  Inv' /\ Abstract!Next
<1>1. /\ call.op # "none" /\ call.copied = 0 /\ ~Direct /\ ~dirty
      /\ UNCHANGED <<device, dirty>>
  BY DEF Load, Missing, Iterating
<1>2. Block \in BlockNos
  BY <1>1, Iteration DEF Inv
<1>3. \A o \in Certain : device[o] = Held(o)
  BY <1>1 DEF Inv, CleanMeansStored
<1>4. CASE /\ buffer' = OnDevice(Block) /\ current_block' = Block /\ got' = NoBytes
           /\ UNCHANGED <<current_offset, call, doubtful>>
  <2>1. /\ OnDevice(Block) \in [Within -> Byte]
        /\ \A o \in Offsets : o \div SIZE = Block => OnDevice(Block)[o % SIZE] = device[o]
    BY <1>2, OnDeviceHolds DEF Inv
  <2>2. TypeOK'
    BY <1>1, <1>2, <1>4, <2>1 DEF Inv, TypeOK
  <2>3. CallOK' /\ DirectIsDisjoint'
    BY <1>1, <1>4 DEF Inv, CallOK, DirectIsDisjoint, Direct, Aligned, Start
  <2>4. \A o \in Offsets : Held(o)' = device[o]
    BY <1>1, <1>4, <2>1 DEF Held
  <2>5. DirtyIsABlock' /\ CleanMeansStored' /\ Certain' = Certain /\ Quiet
    BY <1>1, <1>3, <1>4, <2>4 DEF DirtyIsABlock, CleanMeansStored, Certain, Quiet
  <2> QED BY <1>4, <2>2, <2>3, <2>5, Repositions DEF Inv
<1>5. CASE /\ Fail({Block}, {current_block} \cap BlockNos)
           /\ buffer' \in {buffer} \cup {[i \in Within |-> IF i < k THEN OnDevice(Block)[i] ELSE buffer[i]] :
                                         k \in 1 .. SIZE}
           /\ UNCHANGED current_block
  <2>1. /\ call' = Idle /\ got' = NoBytes /\ UNCHANGED current_offset
        /\ doubtful' = doubtful \cup ({current_block} \cap BlockNos)
    BY <1>5 DEF Fail
  <2>2. buffer' \in [Within -> Byte]
    BY <1>2, <1>5, OnDeviceHolds DEF Inv, TypeOK
  <2>3. TypeOK' /\ CallOK' /\ DirectIsDisjoint'
    BY <1>1, <1>5, <2>1, <2>2, FailInOrder DEF Inv, TypeOK
  <2>4. \A o \in Offsets : o \div SIZE \in BlockNos
    BY BlockOfOffset
  <2>5. Certain' = Certain \ {o \in Offsets : o \div SIZE = current_block}
    BY <2>1, <2>4 DEF Certain
  <2>6. \A o \in Certain' : Held(o) = device[o] /\ Held(o)' = device[o]
    BY <1>1, <1>5, <2>5 DEF Held, Certain
  <2>7. Quiet /\ DirtyIsABlock' /\ CleanMeansStored'
    BY <1>1, <2>5, <2>6 DEF Quiet, DirtyIsABlock, CleanMeansStored
  <2>8. CASE current_block \in BlockNos
    BY <2>1, <2>3, <2>5, <2>7, <2>8, LosesBlock DEF Inv
  <2>9. CASE current_block \notin BlockNos
    <3>1. Certain' = Certain
      BY <2>1, <2>9 DEF Certain
    <3> QED BY <2>1, <2>3, <2>7, <3>1, Repositions DEF Inv
  <2> QED BY <2>3, <2>7, <2>8, <2>9 DEF Inv
<1> QED BY <1>4, <1>5 DEF Load

LEMMA ReadBufferedStep ==
  ASSUME Inv, ReadBuffered
  PROVE  Inv' /\ Abstract!Next
<1> DEFINE n == End(call.left) - Start
           piece == current_offset .. current_offset + n - 1
<1>1. /\ call.op = "read" /\ call.copied = 0 /\ Hit
      /\ got' = [o \in piece |-> buffer[o % SIZE]] /\ Advance(n)
      /\ UNCHANGED <<device, buffer, current_block, dirty, doubtful>>
  BY DEF ReadBuffered, Iterating
<1>2. /\ n \in 1 .. call.left /\ n \in 1 .. SIZE - Start /\ n \in 1 .. Length - current_offset
      /\ n < call.left => n = SIZE - Start
      /\ current_offset \in Offsets
  BY <1>1, Iteration DEF Inv
<1> HIDE DEF n
<1>3. TypeOK' /\ CallOK' /\ DirectIsDisjoint' /\ call'.copied = 0
  BY <1>1, <1>2, AdvanceInOrder DEF Inv, TypeOK
<1>4. /\ DirtyIsABlock' /\ CleanMeansStored'
      /\ [o \in Certain |-> Held(o)]' = [o \in Certain |-> Held(o)]
  BY <1>1 DEF Inv, DirtyIsABlock, CleanMeansStored, Certain, Held
<1>5. current_offset \in Nat /\ Pos = current_offset /\ piece \subseteq Nat
  BY <1>1, <1>2, LengthIsNat DEF Offsets, Pos
<1>6. \A o \in piece : o \div SIZE = current_block /\ o % SIZE \in Within
  <2>1. n \in Nat /\ n <= SIZE - (current_offset % SIZE)
    BY <1>2, <1>5, SizesAssumption DEF Start
  <2> QED BY <1>1, <1>5, <2>1, PieceOfBlock, Division DEF Hit, Block
<1>7. got' \in [piece -> Byte]
  BY <1>1, <1>6 DEF Inv, TypeOK
<1>8. \A o \in piece : o \in Certain => got'[o] = Held(o)
  BY <1>1, <1>6 DEF Held
<1>9. Pos' = Pos + n
  BY <1>1, <1>2, <1>3, <1>5, LengthIsNat DEF Pos, Advance
<1>10. Abstract!Read(n)
  BY <1>4, <1>5, <1>7, <1>8, <1>9 DEF Abstract!Read, Abstract!Piece, Pos
<1>11. n \in 1 .. Length - Pos
  BY <1>2, <1>5
<1> QED BY <1>3, <1>4, <1>10, <1>11 DEF Inv, Abstract!Next, Pos

LEMMA WriteBufferedStep ==
  ASSUME Inv, WriteBuffered
  PROVE  Inv' /\ Abstract!Next
<1> DEFINE n == End(call.left) - Start
           piece == current_offset .. current_offset + n - 1
<1>1. /\ call.op = "write" /\ call.copied = 0 /\ Hit /\ ~Direct /\ got' = NoBytes
      /\ buffer' = [i \in Within |-> IF i \in Start .. Start + n - 1 THEN call.byte ELSE buffer[i]]
      /\ dirty' = TRUE
      /\ UNCHANGED <<device, current_block, doubtful>>
      /\ IF End(call.left) = SIZE
           THEN call' = [call EXCEPT !.copied = n] /\ UNCHANGED current_offset
           ELSE Advance(n)
  BY DEF WriteBuffered, Iterating
<1>2. /\ n \in 1 .. call.left /\ n \in 1 .. SIZE - Start /\ n \in 1 .. Length - current_offset
      /\ n < call.left => n = SIZE - Start
      /\ End(call.left) = SIZE => n = SIZE - Start
      /\ current_offset \in Offsets /\ Block \in BlockNos
  BY <1>1, Iteration DEF Inv
<1>3. End(call.left) # SIZE => n = call.left
  BY <1>2, LengthIsNat, SizesAssumption DEF End, Start, Inv, TypeOK
<1>4. call.byte \in Byte
  BY <1>1 DEF Inv, TypeOK
<1> HIDE DEF n
<1>5. current_offset \in Nat /\ Pos = current_offset
  BY <1>1, <1>2, LengthIsNat DEF Offsets, Pos
<1>6. \A o \in Nat : /\ o % SIZE \in Within
                     /\ o \in piece <=> o \div SIZE = current_block
                                        /\ o % SIZE \in Start .. Start + n - 1
  <2>1. n \in Nat /\ n <= SIZE - (current_offset % SIZE)
    BY <1>2, <1>5, SizesAssumption DEF Start
  <2> QED BY <1>1, <1>5, <2>1, PieceOfBlock, Division DEF Hit, Block, Start
<1>7. \A o \in Offsets : Held(o)' = IF o \in piece THEN call.byte ELSE Held(o)
  <2>1. Offsets \subseteq Nat
    BY LengthIsNat DEF Offsets
  <2> QED BY <1>1, <1>6, <2>1 DEF Held
<1>8. buffer' \in [Within -> Byte]
  BY <1>1, <1>4 DEF Inv, TypeOK
<1>9. DirtyIsABlock' /\ CleanMeansStored'
  BY <1>1, <1>2 DEF DirtyIsABlock, CleanMeansStored, Hit
<1>10. TypeOK' /\ CallOK' /\ DirectIsDisjoint' /\ Pos' = Pos + n
  <2>1. CASE End(call.left) = SIZE
    <3>1. /\ call' = [op |-> call.op, left |-> call.left, byte |-> call.byte,
                      ptr |-> call.ptr, copied |-> n]
          /\ UNCHANGED current_offset
      BY <1>1, <2>1 DEF Inv, TypeOK
    <3>2. n \in 0 .. SIZE /\ Start \in Nat
      BY <1>2, <1>5, Division, SizesAssumption DEF Start, Within
    <3>3. TypeOK'
      BY <1>1, <1>8, <3>1, <3>2 DEF Inv, TypeOK
    <3>4. CallOK' /\ DirectIsDisjoint'
      BY <1>1, <1>2, <2>1, <3>1 DEF Inv, CallOK, DirectIsDisjoint, Hit, Block, Start, Direct, Aligned
    <3>5. Pos' = Pos + n
      BY <1>5, <3>1 DEF Pos
    <3> QED BY <3>3, <3>4, <3>5
  <2>2. CASE End(call.left) # SIZE
    <3>1. TypeOK' /\ CallOK' /\ DirectIsDisjoint' /\ call'.copied = 0
      BY <1>1, <1>2, <1>3, <1>8, <2>2, AdvanceInOrder DEF Inv, TypeOK
    <3>2. Pos' = Pos + n
      BY <1>1, <1>2, <1>5, <2>2, <3>1, LengthIsNat DEF Pos, Advance
    <3> QED BY <3>1, <3>2
  <2> QED BY <2>1, <2>2
<1>11. [o \in Certain |-> Held(o)]' = [o \in Certain |-> IF o \in piece THEN call.byte ELSE Held(o)]
  BY <1>1, <1>7 DEF Certain
<1>12. Abstract!Write(n, call.byte)
  BY <1>1, <1>5, <1>10, <1>11 DEF Abstract!Write, Abstract!Piece, Abstract!NoBytes, NoBytes, Pos
<1>13. n \in 1 .. Length - Pos
  BY <1>2, <1>5
<1> QED BY <1>4, <1>9, <1>10, <1>12, <1>13 DEF Inv, Abstract!Next, Pos

LEMMA SeekStep ==
  ASSUME Inv, NEW from, NEW x \in Int, from \in {"Start", "End", "Current"}, Seek(from, x)
  PROVE  Inv' /\ Abstract!Next
<1>1. seek_target(from, x) \in Nat
  BY LengthIsNat DEF seek_target, AtLeast0, Inv, TypeOK
<1>2. /\ call = Idle /\ call' = Idle /\ got' = NoBytes /\ doubtful' = doubtful
      /\ current_offset' \in 0 .. Length
      /\ UNCHANGED <<device, buffer, current_block, dirty>>
  BY <1>1, LengthIsNat DEF Seek, Fail, Inv, TypeOK
<1>3. TypeOK' /\ CallOK' /\ DirectIsDisjoint'
  BY <1>2, LengthIsNat DEF Inv, TypeOK, CallOK, DirectIsDisjoint, Idle
<1>4. DirtyIsABlock' /\ CleanMeansStored' /\ Certain' = Certain /\ Quiet
  BY <1>2 DEF Inv, DirtyIsABlock, CleanMeansStored, Certain, Held, Quiet
<1> QED BY <1>2, <1>3, <1>4, Repositions DEF Inv

-----------------------------------------------------------------------------
(* The invariant holds at first, where the stream holds what the device    *)
(* does.                                                                   *)
LEMMA InitInv == Init => Inv /\ Abstract!Init
<1> SUFFICES ASSUME Init PROVE Inv /\ Abstract!Init
  OBVIOUS
<1>1. TypeOK /\ CallOK /\ DirectIsDisjoint /\ DirtyIsABlock
  <2>1. 0 \in 0 .. Length /\ 0 \in 0 .. ALIGN - 1 /\ 0 \in 0 .. SIZE /\ 0 <= Length - 0
    BY LengthIsNat, SizesAssumption
  <2>2. PICK b \in Byte : buffer = [i \in Within |-> b]
    BY DEF Init
  <2>3. buffer \in [Within -> Byte] /\ current_block \in BlockNos \cup {NoBlock}
    BY <2>2 DEF Init
  <2>4. TypeOK
    BY <2>1, <2>3 DEF Init, TypeOK, Idle
  <2> QED BY <2>4 DEF Init, CallOK, DirectIsDisjoint, DirtyIsABlock, Idle
<1>2. \A o \in Offsets : o \div SIZE # NoBlock
  BY BlockOfOffset, SizesAssumption DEF BlockNos, NoBlock
<1>3. Certain = Offsets /\ \A o \in Offsets : Held(o) = device[o]
  BY <1>2 DEF Init, Certain, Held
<1>4. [o \in Certain |-> Held(o)] = device
  BY <1>3 DEF Init
<1>5. Abstract!Init
  BY <1>3, <1>4 DEF Init, Abstract!Init, Abstract!Offsets, Abstract!NoBytes, NoBytes, Idle, Offsets
<1> QED BY <1>1, <1>3, <1>5 DEF Inv, CleanMeansStored

LEMMA NextInv ==
  ASSUME ~Overlap, Inv, [Next]_vars
  PROVE  Inv' /\ [Abstract!Next]_(Abstract!vars)
<1>1. ASSUME NEW n \in 1 .. Length - current_offset, NEW b \in Byte, NEW ptr \in 0 .. ALIGN - 1,
             Begin("read", n, NoByte, ptr) \/ Begin("write", n, b, ptr)
      PROVE  Inv' /\ Abstract!Next
  <2>1. CASE Begin("read", n, NoByte, ptr)
    BY <2>1, BeginStep
  <2>2. CASE Begin("write", n, b, ptr)
    BY <2>2, BeginStep
  <2> QED BY <1>1, <2>1, <2>2
<1>2. ASSUME NEW x \in 0 .. Length, Seek("Start", x)
      PROVE  Inv' /\ Abstract!Next
  BY <1>2, SeekStep
<1>3. ASSUME NEW x \in Moves \cup {-d : d \in Moves}, Seek("End", x) \/ Seek("Current", x)
      PROVE  Inv' /\ Abstract!Next
  <2>1. x \in Int
    BY MovesAssumption
  <2> QED BY <1>3, <2>1, SeekStep
<1>4. CASE StreamStep
  BY <1>4, ReadDirectStep, WriteDirectStep, DirectFailsStep, EvictStep, LoadStep,
     ReadBufferedStep, WriteBufferedStep, WriteBackStep DEF StreamStep
<1>5. CASE Flush
  BY <1>5, FlushStep
<1>6. CASE UNCHANGED vars
  <2>1. TypeOK' /\ CallOK' /\ DirectIsDisjoint'
    BY <1>6 DEF vars, Inv, TypeOK, CallOK, DirectIsDisjoint, Hit, Block, Start, Direct, Aligned, Covered
  <2>2. DirtyIsABlock' /\ CleanMeansStored'
        /\ [o \in Certain |-> Held(o)]' = [o \in Certain |-> Held(o)]
    BY <1>6 DEF vars, Inv, DirtyIsABlock, CleanMeansStored, Certain, Held
  <2>3. UNCHANGED Abstract!vars
    BY <1>6, <2>2 DEF vars, Abstract!vars
  <2> QED BY <2>1, <2>2, <2>3 DEF Inv
<1> QED BY <1>1, <1>2, <1>3, <1>4, <1>5, <1>6 DEF Next, ClientCalls

(* The state of the stream is always in order, whatever fails.             *)
THEOREM StreamIsInOrder == ~Overlap => (Spec => []Inv)
<1> SUFFICES ASSUME ~Overlap PROVE Spec => []Inv
  OBVIOUS
<1>1. Init => Inv
  BY InitInv
<1>2. Inv /\ [Next]_vars => Inv'
  BY NextInv
<1> QED BY <1>1, <1>2, PTL DEF Spec

(* Every variable of the stream always holds a value of its kind.          *)
THEOREM StreamTypes == ~Overlap => (Spec => []TypeOK)
<1> SUFFICES ASSUME ~Overlap PROVE Spec => []TypeOK
  OBVIOUS
<1>1. Spec => []Inv
  BY StreamIsInOrder
<1>2. Inv => TypeOK
  BY DEF Inv
<1> QED BY <1>1, <1>2, PTL

(* A clean buffer hides nothing from the device, but for bytes of a block  *)
(* whose device call failed.                                               *)
THEOREM CleanStreamIsStored == ~Overlap => (Spec => []CleanMeansStored)
<1> SUFFICES ASSUME ~Overlap PROVE Spec => []CleanMeansStored
  OBVIOUS
<1>1. Spec => []Inv
  BY StreamIsInOrder
<1>2. Inv => CleanMeansStored
  BY DEF Inv
<1> QED BY <1>1, <1>2, PTL

(* Whatever is read, written, sought or fails, the buffered stream is a    *)
(* stream of bytes: of every block no device call failed at, what is read  *)
(* is what was last written.                                               *)
THEOREM BufferedStreamRefines == ~Overlap => (Spec => Refines)
<1> SUFFICES ASSUME ~Overlap PROVE Spec => Refines
  OBVIOUS
<1>1. Init => Inv /\ Abstract!Init
  BY InitInv
<1>2. Inv /\ [Next]_vars => Inv' /\ [Abstract!Next]_(Abstract!vars)
  BY NextInv
<1> QED BY <1>1, <1>2, PTL DEF Spec, Refines, Abstract!Spec

-----------------------------------------------------------------------------
(* The slice.  But for the calls from one that failed half-way to the next *)
(* seek, the stream is where the slice says between calls, and during one  *)
(* what the stream has done and what is left of the call add up to what    *)
(* the slice asked for.  So whatever is written lies inside the slice,     *)
(* even by a call that then fails.                                         *)

SliceStart == start_offset + slice_offset

CallInSlice ==
  wrapped /\ call # Idle /\ ~behind =>
    /\ SliceStart <= current_offset
    /\ current_offset + call.left = SliceStart + asked

StreamInSlice ==
  /\ ~wrapped \/ call = Idle => asked = 0
  /\ wrapped /\ ~behind => current_offset \in start_offset .. start_offset + size

SliceInv == Inv /\ SliceInStep /\ CallInSlice /\ StreamInSlice

(* The stream makes only steps of its own, in the slice as well.           *)
LEMMA SliceStepsAreStreamSteps ==
  ASSUME SliceInv, [SliceNext]_<<vars, slice>>
  PROVE  [Next]_vars
<1>1. CASE new
  <2>1. Seek("Start", start_offset) /\ start_offset \in 0 .. Length
    BY <1>1, SliceAssumption, LengthIsNat DEF new, Length
  <2> QED BY <2>1 DEF Next, ClientCalls
<1>2. CASE into_inner
  BY <1>2 DEF into_inner
<1>3. ASSUME NEW n \in 1 .. size + 1, NEW b \in Byte, NEW ptr \in 0 .. ALIGN - 1,
             SliceBegin("read", n, NoByte, ptr) \/ SliceBegin("write", n, b, ptr)
      PROVE  Next
  <2>1. Limited(n) \in 1 .. Length - current_offset
    BY <1>3 DEF SliceBegin
  <2>2. Begin("read", Limited(n), NoByte, ptr) \/ Begin("write", Limited(n), b, ptr)
    BY <1>3 DEF SliceBegin
  <2> QED BY <2>1, <2>2 DEF Next, ClientCalls
<1>4. CASE StreamStep /\ Counted /\ UNCHANGED wrapped
  BY <1>4 DEF Next
<1>5. ASSUME NEW from, NEW x, SliceSeek(from, x)
      PROVE  Next
  <2>1. slice_target(from, x) \in 0 .. size
        /\ Seek("Start", start_offset + slice_target(from, x))
    BY <1>5 DEF SliceSeek
  <2>2. start_offset + slice_target(from, x) \in 0 .. Length
    BY <2>1, SliceAssumption, LengthIsNat DEF Length
  <2> QED BY <2>1, <2>2 DEF Next, ClientCalls
<1>6. CASE Flush /\ UNCHANGED slice
  BY <1>6 DEF Next
<1>7. CASE ~wrapped /\ ClientCalls /\ UNCHANGED slice
  BY <1>7 DEF Next
<1>8. CASE UNCHANGED <<vars, slice>>
  BY <1>8
<1> QED BY <1>1, <1>2, <1>3, <1>4, <1>5, <1>6, <1>7, <1>8 DEF SliceNext

(* What a step of the stream does to the position: it moves on within the  *)
(* call, returns at the call's end, or fails where it is.                  *)
LEMMA StreamStepMoves ==
  ASSUME Inv, StreamStep
  PROVE  /\ call # Idle
         /\ \/ /\ call' # Idle
               /\ current_offset' >= current_offset
               /\ current_offset' + call'.left = current_offset + call.left
            \/ call' = Idle /\ current_offset' = current_offset + call.left
                            /\ current_offset' # current_offset
            \/ call' = Idle /\ current_offset' = current_offset
<1>1. call.op # "none"
  BY DEF Inv, CallOK, StreamStep, ReadDirect, WriteDirect, DirectFails, Evict, Load, Missing,
         ReadBuffered, WriteBuffered, WriteBack, Iterating, Idle
<1>2. /\ call # Idle /\ current_offset \in Nat /\ call.left \in Nat /\ call.left > 0
      /\ Idle.left = 0
      /\ call \in [op : {"none", "read", "write"}, left : 0 .. Length,
                    byte : Byte \cup {NoByte}, ptr : 0 .. ALIGN - 1, copied : 0 .. SIZE]
  BY <1>1, LengthIsNat DEF Inv, TypeOK, CallOK, Idle
<1>3. ASSUME NEW n \in 1 .. call.left, Advance(n)
      PROVE  \/ /\ call' # Idle
                /\ current_offset' >= current_offset
                /\ current_offset' + call'.left = current_offset + call.left
             \/ call' = Idle /\ current_offset' = current_offset + call.left
                             /\ current_offset' # current_offset
  <2>1. CASE n = call.left
    BY <1>2, <1>3, <2>1 DEF Advance
  <2>2. CASE n # call.left
    <3>1. call'.left = call.left - n /\ call'.op = call.op
      BY <1>2, <1>3, <2>2 DEF Advance
    <3>2. call' # Idle
      BY <1>1, <3>1 DEF Idle
    <3> QED BY <1>2, <1>3, <3>1, <3>2 DEF Advance
  <2> QED BY <2>1, <2>2
<1>4. call.left \in 1 .. call.left
  BY <1>2
<1>5. End(call.left) - Start \in 1 .. call.left
  BY <1>1, Iteration DEF Inv
<1>6. CASE ReadDirect \/ WriteDirect \/ ReadBuffered
  BY <1>2, <1>3, <1>4, <1>5, <1>6 DEF ReadDirect, WriteDirect, ReadBuffered
<1>7. CASE WriteBuffered
  <2>1. CASE Advance(End(call.left) - Start)
    BY <1>2, <1>3, <1>5, <2>1
  <2>2. CASE call' = [call EXCEPT !.copied = End(call.left) - Start] /\ UNCHANGED current_offset
    <3>1. call'.left = call.left /\ call'.op = call.op
      BY <1>2, <2>2
    <3>2. call' # Idle
      BY <1>1, <3>1 DEF Idle
    <3> QED BY <1>2, <2>2, <3>1, <3>2
  <2> QED BY <1>7, <2>1, <2>2 DEF WriteBuffered
<1>8. CASE DirectFails
  BY <1>2, <1>8 DEF DirectFails, Fail
<1>9. CASE Evict \/ Load
  BY <1>2, <1>9 DEF Evict, Load, WriteBufferFails, Fail
<1>10. CASE WriteBack
  <2>1. call.copied \in 1 .. call.left
    BY <1>2, <1>10, SizesAssumption DEF WriteBack, Inv, TypeOK, CallOK
  <2> QED BY <1>2, <1>3, <1>10, <2>1 DEF WriteBack, WriteBufferFails, Fail
<1> QED BY <1>2, <1>6, <1>7, <1>8, <1>9, <1>10 DEF StreamStep

LEMMA InitSliceInv == ~Overlap /\ SliceInit => SliceInv
<1> SUFFICES ASSUME SliceInit PROVE SliceInv
  OBVIOUS
<1>1. Inv
  BY InitInv DEF SliceInit
<1>2. call = Idle /\ wrapped = FALSE /\ slice_offset = 0 /\ asked = 0 /\ behind = FALSE
  BY DEF SliceInit, Init
<1>3. size \in Nat /\ 0 \in 0 .. size /\ 0 \in 0 .. size - 0
  BY SliceAssumption
<1>4. SliceInStep
  BY <1>2, <1>3 DEF SliceInStep
<1>5. CallInSlice /\ StreamInSlice
  BY <1>2 DEF CallInSlice, StreamInSlice
<1> QED BY <1>1, <1>4, <1>5 DEF SliceInv

(* Every step of the slice keeps it in step with the stream.               *)
LEMMA NextSliceInv ==
  ASSUME ~Overlap, SliceInv, [SliceNext]_<<vars, slice>>
  PROVE  SliceInv'
<1>1. Inv'
  BY SliceStepsAreStreamSteps, NextInv DEF SliceInv
<1>t. /\ wrapped \in BOOLEAN /\ behind \in BOOLEAN
      /\ slice_offset \in 0 .. size /\ asked \in 0 .. size - slice_offset
      /\ current_offset \in Nat /\ start_offset \in Nat /\ size \in Nat
      /\ ~wrapped \/ call = Idle => asked = 0
  BY SliceAssumption, LengthIsNat DEF SliceInv, SliceInStep, StreamInSlice, Inv, TypeOK
<1>2. CASE new
  <2>1. /\ call = Idle /\ call' = Idle /\ current_offset' = start_offset
        /\ wrapped' = TRUE /\ slice_offset' = 0 /\ asked' = asked /\ behind' = behind
    BY <1>2, SliceAssumption DEF new, Seek, seek_target, AtLeast0
  <2> QED BY <1>1, <1>t, <2>1 DEF SliceInv, SliceInStep, CallInSlice, StreamInSlice
<1>3. CASE into_inner
  <2>1. /\ call = Idle /\ call' = Idle /\ wrapped' = FALSE /\ slice_offset' = 0
        /\ behind' = FALSE /\ asked' = asked
    BY <1>3 DEF into_inner, vars
  <2>2. asked = 0 /\ 0 \in 0 .. size /\ 0 \in 0 .. size - 0
    BY <1>t, <2>1
  <2>3. SliceInStep'
    BY <2>1, <2>2 DEF SliceInStep
  <2>4. CallInSlice' /\ StreamInSlice'
    BY <2>1, <2>2 DEF CallInSlice, StreamInSlice
  <2> QED BY <1>1, <2>3, <2>4 DEF SliceInv
<1>4. ASSUME NEW n \in 1 .. size + 1, NEW b \in Byte, NEW ptr \in 0 .. ALIGN - 1,
             SliceBegin("read", n, NoByte, ptr) \/ SliceBegin("write", n, b, ptr)
      PROVE  SliceInv'
  <2>1. /\ wrapped /\ call = Idle /\ asked' = Limited(n)
        /\ Limited(n) \in 1 .. Length - current_offset
        /\ call'.left = Limited(n) /\ call' # Idle
        /\ UNCHANGED <<wrapped, slice_offset, behind, current_offset>>
    BY <1>4 DEF SliceBegin, Begin, Idle
  <2>2. Limited(n) \in 1 .. size - slice_offset
    BY <1>t, <2>1, LengthIsNat DEF Limited
  <2>3. ~behind => current_offset = SliceStart
    BY <2>1 DEF SliceInv, SliceInStep, SliceStart
  <2>4. ~behind => current_offset + call'.left = SliceStart + asked' /\ SliceStart <= current_offset
    BY <1>t, <2>1, <2>2, <2>3
  <2>5. SliceInStep' /\ StreamInSlice'
    BY <1>t, <2>1, <2>2 DEF SliceInv, SliceInStep, StreamInSlice
  <2>6. CallInSlice'
    BY <2>1, <2>4 DEF CallInSlice, SliceStart
  <2> QED BY <1>1, <2>5, <2>6 DEF SliceInv
<1>5. CASE StreamStep /\ Counted /\ UNCHANGED wrapped
  <2>1. CASE ~wrapped
    <3>1. /\ asked = 0 /\ wrapped' = wrapped
          /\ slice_offset' = slice_offset /\ asked' = asked /\ behind' = behind
      BY <1>t, <1>5, <2>1 DEF Counted
    <3> QED BY <1>1, <1>t, <2>1, <3>1 DEF SliceInv, SliceInStep, CallInSlice, StreamInSlice
  <2>2. CASE wrapped /\ behind
    <3>1. call # Idle /\ wrapped' = wrapped
      BY <1>5, StreamStepMoves DEF SliceInv
    <3>2. behind' = TRUE
      BY <1>5, <2>2 DEF Counted
    <3>3. /\ slice_offset' \in 0 .. size /\ asked' \in 0 .. size - slice_offset'
          /\ call' = Idle => asked' = 0
      BY <1>t, <1>5 DEF Counted
    <3> QED BY <1>1, <2>2, <3>1, <3>2, <3>3 DEF SliceInv, SliceInStep, CallInSlice, StreamInSlice
  <2>3. CASE wrapped /\ ~behind
    <3>1. /\ call # Idle /\ ~behind /\ SliceStart <= current_offset
          /\ current_offset + call.left = SliceStart + asked
          /\ current_offset <= start_offset + size
          /\ wrapped' = wrapped
      BY <1>t, <1>5, <2>3, StreamStepMoves DEF SliceInv, CallInSlice, StreamInSlice
    <3>2. call.left \in Nat /\ current_offset' \in Nat /\ call'.left \in Nat
      BY <1>1, LengthIsNat DEF SliceInv, Inv, TypeOK
    <3>3. CASE call' # Idle
      <4>1. /\ slice_offset' = slice_offset /\ asked' = asked /\ behind' = behind
        BY <1>5, <3>3 DEF Counted
      <4>2. /\ current_offset' >= current_offset
            /\ current_offset' + call'.left = current_offset + call.left
        BY <1>5, <3>3, StreamStepMoves DEF SliceInv
      <4>3. current_offset' \in start_offset .. start_offset + size
        BY <1>t, <3>1, <3>2, <4>2 DEF SliceStart
      <4> QED BY <1>1, <1>t, <2>3, <3>1, <3>2, <3>3, <4>1, <4>2, <4>3
              DEF SliceInv, SliceInStep, CallInSlice, StreamInSlice, SliceStart
    <3>4. CASE call' = Idle /\ current_offset' = current_offset + call.left
                            /\ current_offset' # current_offset
      <4>1. asked' = 0 /\ slice_offset' = slice_offset + asked /\ behind' = behind
        BY <1>5, <2>3, <3>4 DEF Counted
      <4>2. /\ current_offset' = start_offset + slice_offset'
            /\ slice_offset' \in 0 .. size
        BY <1>t, <3>1, <3>2, <3>4, <4>1 DEF SliceStart
      <4> QED BY <1>1, <1>t, <2>3, <3>1, <3>4, <4>1, <4>2
              DEF SliceInv, SliceInStep, CallInSlice, StreamInSlice
    <3>5. CASE call' = Idle /\ current_offset' = current_offset
      <4>1. asked' = 0 /\ slice_offset' = slice_offset /\ behind' = TRUE
        BY <1>5, <2>3, <3>5 DEF Counted
      <4>2. current_offset' \in start_offset .. start_offset + size
        BY <1>t, <3>1, <3>5 DEF SliceStart
      <4> QED BY <1>1, <1>t, <2>3, <3>1, <3>5, <4>1, <4>2
              DEF SliceInv, SliceInStep, CallInSlice, StreamInSlice
    <3> QED BY <1>5, <3>3, <3>4, <3>5, StreamStepMoves DEF SliceInv
  <2> QED BY <1>t, <2>1, <2>2, <2>3
<1>6. ASSUME NEW from, NEW x, SliceSeek(from, x)
      PROVE  SliceInv'
  <2>1. slice_target(from, x) \in 0 .. size
    BY <1>6 DEF SliceSeek
  <2> DEFINE p == slice_target(from, x)
  <2>2. /\ call = Idle /\ call' = Idle /\ Seek("Start", start_offset + p)
        /\ wrapped /\ wrapped' = wrapped /\ slice_offset' = p /\ behind' = FALSE /\ asked' = asked
    BY <1>6 DEF SliceSeek, Seek, Fail
  <2> HIDE DEF p
  <2>3. current_offset' = start_offset + p
    BY <1>t, <2>1, <2>2 DEF Seek, seek_target, AtLeast0, p
  <2>4. /\ p \in 0 .. size /\ asked' \in 0 .. size - p
        /\ current_offset' \in start_offset .. start_offset + size
    BY <1>t, <2>1, <2>2, <2>3 DEF p
  <2>5. SliceInStep'
    BY <2>2, <2>3, <2>4 DEF SliceInv, SliceInStep
  <2>6. CallInSlice' /\ StreamInSlice'
    BY <1>t, <2>2, <2>4 DEF CallInSlice, StreamInSlice
  <2> QED BY <1>1, <2>5, <2>6 DEF SliceInv
<1>7. CASE Flush /\ UNCHANGED slice
  <2>1. call = Idle /\ call' = Idle /\ current_offset' = current_offset
        /\ UNCHANGED <<wrapped, slice_offset, asked, behind>>
    BY <1>7 DEF Flush, WriteBufferFails, Fail, slice
  <2> QED BY <1>1, <1>t, <2>1 DEF SliceInv, SliceInStep, CallInSlice, StreamInSlice
<1>8. CASE ~wrapped /\ ClientCalls /\ UNCHANGED slice
  BY <1>1, <1>t, <1>8 DEF slice, SliceInv, SliceInStep, CallInSlice, StreamInSlice
<1>9. CASE UNCHANGED <<vars, slice>>
  <2>1. UNCHANGED <<call, current_offset, wrapped, slice_offset, asked, behind>>
    BY <1>9 DEF vars, slice
  <2> QED BY <1>1, <1>t, <2>1 DEF SliceInv, SliceInStep, CallInSlice, StreamInSlice, SliceStart
<1> QED BY <1>2, <1>3, <1>4, <1>5, <1>6, <1>7, <1>8, <1>9 DEF SliceNext

(* What is left of a call that is under way, and so all it writes, lies    *)
(* inside the slice.                                                       *)
LEMMA WritesStayInside ==
  ASSUME SliceInv, wrapped, ~behind
  PROVE  Pos \in start_offset .. start_offset + size
<1>1. /\ current_offset \in start_offset .. start_offset + size
      /\ call.left \in Nat /\ call.copied \in Nat
      /\ slice_offset \in 0 .. size /\ asked \in 0 .. size - slice_offset
  BY LengthIsNat, SizesAssumption DEF SliceInv, SliceInStep, StreamInSlice, Inv, TypeOK
<1>2. call.copied > 0 => call # Idle /\ call.copied <= call.left
  BY DEF SliceInv, Inv, CallOK, Idle
<1>3. call # Idle => current_offset + call.left <= start_offset + size
  BY <1>1, SliceAssumption DEF SliceInv, CallInSlice, SliceStart
<1> QED BY <1>1, <1>2, <1>3, SliceAssumption DEF Pos

(* Only a call that fails, and leaves the position, puts the slice behind. *)
LEMMA CallsFailInPlace ==
  ASSUME SliceInv, [SliceNext]_<<vars, slice>>, wrapped, ~behind, wrapped', behind'
  PROVE  call' = Idle /\ current_offset' = current_offset
<1>1. CASE StreamStep /\ Counted /\ UNCHANGED wrapped
  BY <1>1 DEF Counted
<1>2. CASE ~(StreamStep /\ Counted /\ UNCHANGED wrapped)
  BY <1>2 DEF SliceNext, new, into_inner, SliceBegin, SliceSeek, slice
<1> QED BY <1>1, <1>2

LEMMA StepKeepsOutside ==
  ASSUME ~Overlap, SliceInv, [SliceNext]_<<vars, slice>>, wrapped, ~behind,
         NEW o \in Certain \ Slice
  PROVE  o \div SIZE \in doubtful' \/ Held(o)' = Held(o)
<1> SUFFICES ASSUME o \div SIZE \notin doubtful' PROVE Held(o)' = Held(o)
  OBVIOUS
<1> DEFINE held == [p \in Certain |-> Held(p)]
<1>1. o \in Certain /\ o \in Certain' /\ o \notin Slice
  BY DEF Certain
<1>2. held[o] = Held(o) /\ held'[o] = Held(o)'
  BY <1>1
<1>3. CASE into_inner \/ UNCHANGED <<vars, slice>>
  BY <1>3 DEF into_inner, vars, slice, Held
<1>4. CASE wrapped'
  <2>1. SliceInv'
    BY NextSliceInv
  <2>2. Pos \in start_offset .. start_offset + size /\ Pos' \in start_offset .. start_offset + size
    <3>1. Pos \in start_offset .. start_offset + size
      BY WritesStayInside
    <3>2. (SliceInv /\ wrapped /\ ~behind => Pos \in start_offset .. start_offset + size)'
      BY WritesStayInside, PTL
    <3>3. CASE behind'
      <4>1. call' = Idle /\ current_offset' = current_offset
        BY <1>4, <3>3, CallsFailInPlace
      <4>2. current_offset \in start_offset .. start_offset + size
        BY DEF SliceInv, StreamInSlice
      <4> QED BY <3>1, <4>1, <4>2 DEF Pos, Idle
    <3> QED BY <1>4, <2>1, <3>1, <3>2, <3>3
  <2>3. [Abstract!Next]_(Abstract!vars)
    BY SliceStepsAreStreamSteps, NextInv DEF SliceInv
  <2>4. CASE UNCHANGED Abstract!vars
    BY <1>2, <2>4 DEF Abstract!vars
  <2>5. ASSUME NEW n \in 1 .. Length - Pos, NEW b, Abstract!Write(n, b)
        PROVE  held'[o] = held[o]
    <3>1. Pos' = Pos + n /\ held' = [p \in DOMAIN held |->
                                        IF p \in Abstract!Piece(n) THEN b ELSE held[p]]
      BY <2>5 DEF Abstract!Write, Pos
    <3>2. Abstract!Piece(n) = Pos .. Pos + n - 1
      BY DEF Abstract!Piece, Pos
    <3>3. Abstract!Piece(n) \subseteq Slice
      BY <2>2, <3>1, <3>2, SliceAssumption, LengthIsNat DEF Slice
    <3> QED BY <1>1, <3>1, <3>3
  <2>6. ASSUME NEW bytes, Abstract!Lose(bytes)
        PROVE  held'[o] = held[o]
    <3>1. held' = [p \in DOMAIN held \ bytes |-> held[p]] /\ DOMAIN held' = Certain'
      BY <2>6 DEF Abstract!Lose
    <3> QED BY <1>1, <3>1
  <2>7. ASSUME held' = held
        PROVE  held'[o] = held[o]
    BY <2>7
  <2> HIDE DEF held
  <2>8. Abstract!Next => held'[o] = held[o]
    BY <2>5, <2>6, <2>7 DEF Abstract!Next, Abstract!Read, Abstract!Seek, held, Pos
  <2> QED BY <1>2, <2>3, <2>4, <2>8
<1>5. into_inner \/ UNCHANGED <<vars, slice>> \/ wrapped'
  BY DEF SliceNext, new, SliceBegin, SliceSeek, slice
<1> QED BY <1>3, <1>4, <1>5

-----------------------------------------------------------------------------
(* The slice's state is always in order, whatever the client calls and     *)
(* whatever fails.                                                         *)
THEOREM SliceIsInOrder == ~Overlap => (SliceSpec => []SliceInv)
<1> SUFFICES ASSUME ~Overlap PROVE SliceSpec => []SliceInv
  OBVIOUS
<1>1. SliceInit => SliceInv
  BY InitSliceInv
<1>2. SliceInv /\ [SliceNext]_<<vars, slice>> => SliceInv'
  BY NextSliceInv
<1> QED BY <1>1, <1>2, PTL DEF SliceSpec

(* The slice and the stream agree on the position between any two calls,   *)
(* but from one that failed half-way to the next seek, for every slice of  *)
(* every device.                                                           *)
THEOREM SliceKeepsStep == ~Overlap => (SliceSpec => []SliceInStep)
<1> SUFFICES ASSUME ~Overlap PROVE SliceSpec => []SliceInStep
  OBVIOUS
<1>1. SliceSpec => []SliceInv
  BY SliceIsInOrder
<1>2. SliceInv => SliceInStep
  BY DEF SliceInv
<1> QED BY <1>1, <1>2, PTL

(* While no call goes direct over the buffered block, no step changes a    *)
(* byte outside the slice the stream is in: the slice's bound on each call,*)
(* and the copying in and out of the blocks at its two ends                *)
(* (stream_slice.rs, buf_stream.rs).  Excepted are the calls made between  *)
(* one that failed half-way and the next seek, which may pass the slice's  *)
(* end, and the blocks whose device call failed.                           *)
THEOREM SliceKeepsOutside == ~Overlap => (SliceSpec => OutsideIsKept)
<1> SUFFICES ASSUME ~Overlap PROVE SliceSpec => OutsideIsKept
  OBVIOUS
<1>1. SliceSpec => []SliceInv
  BY SliceIsInOrder
<1>2. SliceInv /\ [SliceNext]_<<vars, slice>> =>
        [wrapped /\ ~behind => \A o \in Certain \ Slice :
           o \div SIZE \in doubtful' \/ Held(o)' = Held(o)]_vars
  BY StepKeepsOutside
<1> QED BY <1>1, <1>2, PTL DEF SliceSpec, OutsideIsKept

(* Under a client of the slice, too, the stream implements the abstract    *)
(* one, and a clean buffer hides nothing from the device.                  *)
THEOREM SlicedStreamRefines == ~Overlap => (SliceSpec => Refines /\ []CleanMeansStored)
<1> SUFFICES ASSUME ~Overlap PROVE SliceSpec => Refines /\ []CleanMeansStored
  OBVIOUS
<1>1. SliceSpec => []SliceInv
  BY SliceIsInOrder
<1>2. SliceInit => Abstract!Init
  BY InitInv DEF SliceInit
<1>3. SliceInv /\ [SliceNext]_<<vars, slice>> => [Abstract!Next]_(Abstract!vars)
  BY SliceStepsAreStreamSteps, NextInv DEF SliceInv
<1>4. SliceInv => CleanMeansStored
  BY DEF SliceInv, Inv
<1> QED BY <1>1, <1>2, <1>3, <1>4, PTL DEF SliceSpec, Refines, Abstract!Spec
====
