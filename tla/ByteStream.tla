---- MODULE ByteStream ----
(***************************************************************************)
(* What a seekable stream of bytes promises its one client: a read returns *)
(* what the stream holds at the position, a write replaces it, and both    *)
(* move on, a piece at a time.  An error may cost the piece that was being *)
(* written, or one block: of these bytes nothing is promised any more, of  *)
(* all others everything still is.                                         *)
(***************************************************************************)
EXTENDS Integers

CONSTANTS Length, SIZE, Byte

VARIABLES
  content,   (* the bytes the stream holds for certain, by offset          *)
  pos,       (* the position of the client                                 *)
  got        (* what the last step delivered, by offset                    *)

vars == <<content, pos, got>>

Offsets == 0 .. Length - 1
Piece(n) == pos .. pos + n - 1
NoBytes == [o \in {} |-> o]

Init == /\ content \in [Offsets -> Byte]
        /\ pos = 0 /\ got = NoBytes

Read(n) == /\ got' \in [Piece(n) -> Byte]
           /\ \A o \in Piece(n) : o \in DOMAIN content => got'[o] = content[o]
           /\ pos' = pos + n
           /\ UNCHANGED content

Write(n, b) == /\ content' = [o \in DOMAIN content |->
                                IF o \in Piece(n) THEN b ELSE content[o]]
               /\ pos' = pos + n /\ got' = NoBytes

Seek(p) == pos' = p /\ got' = NoBytes /\ UNCHANGED content

Lose(bytes) == /\ content' = [o \in DOMAIN content \ bytes |-> content[o]]
               /\ pos' \in 0 .. pos /\ got' = NoBytes

BlockBytes(block) == {o \in Offsets : o \div SIZE = block}

Next == \/ \E n \in 1 .. Length - pos : Read(n) \/ \E b \in Byte : Write(n, b)
        \/ \E p \in 0 .. Length : Seek(p)
        \/ \E n \in 1 .. Length - pos : Lose(Piece(n))
        \/ \E block \in 0 .. Length \div SIZE : Lose(BlockBytes(block))

Spec == Init /\ [][Next]_vars
====
