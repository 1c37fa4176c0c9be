---- MODULE MCLoaderBoot ----
(***************************************************************************)
(* LoaderBoot in an SRAM of seven units above the origin and a slot of     *)
(* four: a good image, one without the signature, one whose span is longer *)
(* than the slot, one linked below the origin, and one whose code_end,     *)
(* rounded up, lies past the SRAM.                                         *)
(***************************************************************************)
EXTENDS LoaderBoot

MCImage(base, end, entry, signed) ==
  [base |-> base, len |-> 2, signed |-> signed,
   code_start |-> base, code_end |-> end, entry |-> entry]

Good1 == MCImage(1, 3, 1, TRUE)
NoSignature == MCImage(1, 3, 1, FALSE)
TooLong == MCImage(1, 6, 2, TRUE)
TooLow == MCImage(0, 3, 1, TRUE)
PastSram == MCImage(6, 9, 6, TRUE)

MCElfs == {Good1, PastSram, NoSignature, TooLong, TooLow}
MCPastSram == {Good1, PastSram}
MCAutoBoots == {Instant}
====
