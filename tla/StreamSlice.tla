---- MODULE StreamSlice ----
(***************************************************************************)
(* block-device-adapters stream_slice.rs over BufStream: the window of the *)
(* card that the FAT volume lives in (deluge-sdk sd/fat.rs).  `new` wraps  *)
(* the stream, `into_inner` gives it back.  The slice keeps an offset of   *)
(* its own, counted only when a call returns: one that fails half-way has  *)
(* moved the stream and not the slice, until the next seek.  The FAT layer *)
(* seeks before it reads or writes again; the client here may go on        *)
(* without, and then its calls are cut by an offset that is not the        *)
(* stream's.                                                               *)
(***************************************************************************)
EXTENDS BufStream

CONSTANTS
  start_offset,  (* the first byte of the slice                            *)
  size           (* the bytes of the slice                                 *)

ASSUME SliceAssumption ==
  /\ start_offset \in Nat /\ size \in Nat
  /\ start_offset + size <= BlockCount * SIZE

VARIABLES
  wrapped,       (* is the stream in a slice?                              *)
  slice_offset,  (* StreamSlice::current_offset                            *)
  asked,         (* the length of the slice's call to the stream           *)
  behind         (* a call has failed since the last seek                  *)

slice == <<wrapped, slice_offset, asked, behind>>

new ==
  /\ ~wrapped /\ Seek("Start", start_offset)
  /\ wrapped' = TRUE /\ slice_offset' = 0
  /\ UNCHANGED <<asked, behind>>

into_inner ==
  /\ wrapped /\ call = Idle
  /\ wrapped' = FALSE /\ slice_offset' = 0 /\ behind' = FALSE
  /\ UNCHANGED <<vars, asked>>

(* Seeded bug: the call is passed on as long as it is.                     *)
Unlimited(n) == n

(* No more than is left of the slice.                                      *)
Limited(n) == IF size - slice_offset < n THEN size - slice_offset ELSE n

SliceBegin(op, n, b, ptr) ==
  /\ wrapped
  /\ Limited(n) \in 1 .. Length - current_offset
  /\ Begin(op, Limited(n), b, ptr)
  /\ asked' = Limited(n)
  /\ UNCHANGED <<wrapped, slice_offset, behind>>

(* Seeded bug: the slice moves on by what was asked for, come what may.    *)
CountedAnyway ==
  IF wrapped /\ call' = Idle
    THEN slice_offset' = slice_offset + asked /\ asked' = 0 /\ UNCHANGED behind
    ELSE UNCHANGED <<slice_offset, asked, behind>>

(* The last step of the stream's call is the slice's as well.  A call that *)
(* returns has moved the stream, one that fails has not.                   *)
Counted ==
  IF wrapped /\ call' = Idle
    THEN /\ asked' = 0
         /\ IF current_offset' # current_offset
              THEN slice_offset' = slice_offset + asked /\ UNCHANGED behind
              ELSE behind' = TRUE /\ UNCHANGED slice_offset
    ELSE UNCHANGED <<slice_offset, asked, behind>>

(* Out of the slice is an error, and nothing moves.                        *)
slice_target(from, x) ==
  CASE from = "Start" -> x
    [] from = "End" -> size + x
    [] from = "Current" -> slice_offset + x

SliceSeek(from, x) ==
  /\ wrapped
  /\ slice_target(from, x) \in 0 .. size
  /\ Seek("Start", start_offset + slice_target(from, x))
  /\ slice_offset' = slice_target(from, x)
  /\ behind' = FALSE
  /\ UNCHANGED <<wrapped, asked>>

-----------------------------------------------------------------------------
SliceInit == Init /\ wrapped = FALSE /\ slice_offset = 0 /\ asked = 0 /\ behind = FALSE

SliceNext ==
  \/ new \/ into_inner
  \/ \E n \in 1 .. size + 1, b \in Byte, ptr \in 0 .. ALIGN - 1 :
       SliceBegin("read", n, NoByte, ptr) \/ SliceBegin("write", n, b, ptr)
  \/ StreamStep /\ Counted /\ UNCHANGED wrapped
  \/ \E x \in 0 .. Length : SliceSeek("Start", x)
  \/ \E x \in Moves \cup {-d : d \in Moves} : SliceSeek("End", x) \/ SliceSeek("Current", x)
  \/ Flush /\ UNCHANGED slice
  \/ ~wrapped /\ ClientCalls /\ UNCHANGED slice

SliceSpec == SliceInit /\ [][SliceNext]_<<vars, slice>>

-----------------------------------------------------------------------------
(* The slice and the stream agree on the position, however a call was cut  *)
(* at the slice's end or split over blocks, between any two calls, but for *)
(* those from one that failed half-way to the next seek; and the slice     *)
(* never counts past its end (`size - current_offset`, stream_slice.rs:91, *)
(* would wrap).                                                            *)
SliceInStep ==
  /\ wrapped \in BOOLEAN /\ behind \in BOOLEAN
  /\ slice_offset \in 0 .. size /\ asked \in 0 .. size - slice_offset
  /\ wrapped /\ call = Idle /\ ~behind => current_offset = start_offset + slice_offset

(* "Limited segment" (stream_slice.rs:30): however long a call is, and     *)
(* also when the block at an end of the slice is read, changed and written *)
(* back around the bytes outside it, no byte outside the slice changes     *)
(* while the stream is in it.  This excepts the calls from one that failed *)
(* half-way to the next seek (`behind`): their bound is too long by what   *)
(* the stream has moved, and they do pass the slice's end; the seek brings *)
(* the bound back.  Of a block whose device call failed nothing is said.   *)
Slice == start_offset .. start_offset + size - 1
OutsideIsKept ==
  [][wrapped /\ ~behind => \A o \in Certain \ Slice :
       o \div SIZE \in doubtful' \/ Held(o)' = Held(o)]_vars
====
