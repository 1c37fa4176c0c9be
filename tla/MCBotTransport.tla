---- MODULE MCBotTransport ----
(***************************************************************************)
(* The transport with a card of five blocks and banks of two, so that a    *)
(* long transfer uses both banks and comes back to the first.              *)
(***************************************************************************)
EXTENDS BotTransport

Ask(op, lba, blocks) == [op |-> op, lba |-> lba, blocks |-> blocks]

MCCommands ==
  {Ask("tur", 0, 0), Ask("nop", 0, 0), Ask("eject", 0, 0), Ask("load", 0, 0),
   Ask("capacity", 0, 1), Ask("sense", 0, 1), Ask("reply", 0, 0), Ask("reply", 0, 1),
   Ask("other_in", 0, 1), Ask("other_out", 0, 3),
   Ask("read", 0, 0), Ask("read", 0, 5), Ask("read", 3, 2),
   Ask("write", 0, 0), Ask("write", 0, 5), Ask("write", 2, 3),
   Ask("short_read", 3, 2), Ask("short_write", 0, 2), Ask("short_write", 0, 3),
   Ask("empty_in", 0, 1), Ask("empty_out", 0, 3)}

=============================================================================
