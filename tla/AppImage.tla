---- MODULE AppImage ----
(***************************************************************************)
(* The firmware images of the Deluge's flash app slot, as the code that    *)
(* stores one (app-loader elf.rs `flatten_to_flash_staging`, flashboot.rs  *)
(* `store_image_to_slot`, deluge-image elf.rs `validate_fsb_metadata`) and *)
(* the code that boots one (flashboot.rs `probe`, `desc`) see them.        *)
(*                                                                         *)
(* Addresses and lengths are in units of the model; the constants keep the *)
(* order of the real ones (2002_0000h, 2030_0000h, 2C_0000h, 48h).         *)
(***************************************************************************)
EXTENDS Integers

CONSTANTS
  SRAM_LOAD_ORIGIN,  (* the lowest address an image may load at            *)
  SRAM_END,          (* one past the top of SRAM                           *)
  SLOT_LEN,          (* the length of the app slot                         *)
  META_LEN           (* what an image must hold to have metadata           *)

ASSUME LayoutAssumption ==
  /\ SRAM_LOAD_ORIGIN \in Nat /\ SRAM_END \in Nat
  /\ SRAM_LOAD_ORIGIN < SRAM_END
  /\ SLOT_LEN \in Nat \ {0}
  /\ META_LEN \in Nat

(* base and len: where the flat image was linked and how long it is; the   *)
(* rest is the metadata it carries: signature, code_start, code_end, entry.*)
Image == [base : Nat, len : Nat, signed : BOOLEAN,
          code_start : Nat, code_end : Nat, entry : Nat]

Span(image) == image.code_end - image.code_start

(* The flash that holds no image: erased, and neither erased nor one image.*)
Unsigned(n) == [base |-> 0, len |-> 0, signed |-> FALSE,
                code_start |-> 0, code_end |-> n, entry |-> 0]
Erased == Unsigned(0)
Garbage == Unsigned(1)

-----------------------------------------------------------------------------
(* flatten_to_flash_staging: every loadable byte lies in SRAM.             *)
flatten(image) ==
  IF image.base < SRAM_LOAD_ORIGIN \/ image.base + image.len > SRAM_END
    THEN "NotFlashable"
  ELSE IF image.len > SLOT_LEN THEN "TooLarge"
  ELSE "Ok"

validate_fsb_metadata(image) ==
  IF image.len < META_LEN THEN "TooSmall"
  ELSE IF ~image.signed THEN "BadSignature"
  ELSE IF image.code_start # image.base THEN "CodeStartMismatch"
  ELSE IF image.code_end <= image.code_start THEN "BadCodeEnd"
  ELSE IF image.entry < image.code_start \/ image.entry >= image.code_end
    THEN "EntryOutOfRange"
  ELSE IF image.len > Span(image) THEN "ImageTooLong"
  ELSE "Ok"

(* What store_image_to_slot asks before it erases.                         *)
store_check(image) ==
  IF image.len > SLOT_LEN THEN "TooLargeForSlot"
  ELSE IF validate_fsb_metadata(image) # "Ok" THEN validate_fsb_metadata(image)
  ELSE IF Span(image) > SLOT_LEN THEN "TooLargeForSlot"
  ELSE "Ok"

Storable(image) == flatten(image) = "Ok" /\ store_check(image) = "Ok"

(* What probe asks of the metadata it finds.                               *)
Bootable(image) ==
  /\ image.signed
  /\ SRAM_LOAD_ORIGIN <= image.code_start /\ image.code_start < SRAM_END
  /\ image.code_end > image.code_start /\ image.code_end <= SRAM_END
  /\ Span(image) <= SLOT_LEN
  /\ image.entry >= image.code_start /\ image.entry < image.code_end

(* The copy of `desc`: slot bytes 0 .. filesz-1 to dst .. dst+filesz-1.    *)
desc(image) == [dst |-> image.code_start, filesz |-> Span(image)]
====
