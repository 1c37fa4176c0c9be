---- MODULE LoaderSettings ----
(***************************************************************************)
(* The app-loader's settings and the record they are kept in               *)
(* (deluge-image settings.rs).  A record whose magic and CRC are good has  *)
(* a version, a set of flag bits and the auto-boot byte; any other content *)
(* of the sector is no record at all.                                      *)
(***************************************************************************)
EXTENDS Integers

CONSTANTS
  MAX_AUTO_BOOT_SECS,       (* the longest countdown: 20                   *)
  DEFAULT_AUTO_BOOT_SECS    (* the countdown out of the box: 5             *)

ASSUME CountdownAssumption ==
  /\ MAX_AUTO_BOOT_SECS \in Nat /\ MAX_AUTO_BOOT_SECS <= 254
  /\ DEFAULT_AUTO_BOOT_SECS \in 1 .. MAX_AUTO_BOOT_SECS

Bytes == 0 .. 255
NEVER_BYTE == MAX_AUTO_BOOT_SECS + 1

Instant == [kind |-> "Instant", secs |-> 0]
Secs(n) == [kind |-> "Secs", secs |-> n]
Never == [kind |-> "Never", secs |-> 0]
AutoBoot == {Instant, Never} \cup {Secs(n) : n \in 1 .. MAX_AUTO_BOOT_SECS}

to_byte(auto) ==
  IF auto.kind = "Instant" THEN 0
  ELSE IF auto.kind = "Secs" THEN auto.secs ELSE NEVER_BYTE

(* A byte past the dial never boots on its own.                            *)
from_byte(b) ==
  IF b = 0 THEN Instant ELSE IF b <= MAX_AUTO_BOOT_SECS THEN Secs(b) ELSE Never

(* One turn of the encoder: along the dial, stopping at both its ends.     *)
step(auto, detents) ==
  LET pos == to_byte(auto) + detents
  IN  from_byte(IF pos < 0 THEN 0 ELSE IF pos > NEVER_BYTE THEN NEVER_BYTE ELSE pos)

-----------------------------------------------------------------------------
Settings == [dev_mode : BOOLEAN, auto_boot : AutoBoot, ssb_write_enable : BOOLEAN]

DefaultSettings == [dev_mode |-> FALSE, auto_boot |-> Secs(DEFAULT_AUTO_BOOT_SECS),
                    ssb_write_enable |-> FALSE]

FLAG_DEV_MODE == 0
FLAG_SSB_WRITE_ENABLE == 1
VERSION_V1 == 1
VERSION == 2

Record == [version : Bytes, flags : SUBSET (0 .. 7), auto_boot : Bytes]

encode(s) ==
  [version |-> VERSION,
   flags |-> (IF s.dev_mode THEN {FLAG_DEV_MODE} ELSE {})
               \cup (IF s.ssb_write_enable THEN {FLAG_SSB_WRITE_ENABLE} ELSE {}),
   auto_boot |-> to_byte(s.auto_boot)]

Decodable(r) == r.version \in {VERSION_V1, VERSION}

(* A version 1 record has no auto-boot byte; its 0 does not mean Instant.  *)
decode(r) ==
  [dev_mode |-> FLAG_DEV_MODE \in r.flags,
   auto_boot |-> IF r.version = VERSION_V1 THEN Secs(DEFAULT_AUTO_BOOT_SECS)
                 ELSE from_byte(r.auto_boot),
   ssb_write_enable |-> FLAG_SSB_WRITE_ENABLE \in r.flags]
====
