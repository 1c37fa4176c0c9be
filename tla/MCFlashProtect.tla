---- MODULE MCFlashProtect ----
(***************************************************************************)
(* FlashProtect on the register values a unit can arrive with: bare,       *)
(* provisioned, with the probe's test region, with SRP0 set by other       *)
(* software; QE or CMP set, an LB bit beyond the factory one.              *)
(***************************************************************************)
EXTENDS FlashProtect

MCInitSR1 == {{}, BOTTOM_1MB, TOP_64K, {SR1_SRP0}, {SR1_SRP0} \cup BOTTOM_1MB}
MCInitSR2 == {{}, {SR2_QE}, {SR2_CMP}, {3}}
====
