---- MODULE BotTransport ----
(***************************************************************************)
(* USB mass storage: the bulk-only transport loop of usb-classes bot.rs    *)
(* (run_until, handle_command, read_blocks, write_blocks), its reset       *)
(* request (msc.rs), the session around it (app-loader usbmsc.rs), the SD  *)
(* card behind it (deluge-bsp) and the pair of bulk pipes below it         *)
(* (rza1-hal usb/driver.rs), against a host.                               *)
(*                                                                         *)
(* A step ends where the code awaits.  A packet holds a block, a command   *)
(* (CBW) or a status (CSW); a CBW is shorter than a packet and ends a      *)
(* read.  The host asks for blocks the card has, with a data length that   *)
(* fits the command, and numbers its commands; a command block may be      *)
(* empty, or too short for its opcode.  No data looks like a CBW.          *)
(*                                                                         *)
(* Resetting a pipe empties its FIFO.  Whether the controller then reports *)
(* the lost packet as sent is not known: either may happen.                *)
(***************************************************************************)
EXTENDS Integers, Sequences

CONSTANTS
  BlockCount,     (* the medium's blocks                                   *)
  ChunkSectors,   (* blocks of a bank, CHUNK_SECTORS                       *)
  Commands,       (* what the host may ask: records [op, lba, blocks]      *)
  FifoPackets,    (* packets the OUT pipe holds                            *)
  MaxTag,         (* bound: commands of the host                           *)
  MaxResets       (* bound: resets nothing made necessary                  *)

Ops == {"tur", "sense", "reply", "capacity", "nop", "eject", "load",
        "read", "write", "other_in", "other_out",
        "short_read", "short_write", "empty_in", "empty_out"}
Command == [op : Ops, lba : 0 .. BlockCount - 1, blocks : 0 .. BlockCount]

ASSUME BotAssumption ==
  /\ BlockCount \in Nat \ {0} /\ ChunkSectors \in Nat \ {0}
  /\ FifoPackets \in Nat \ {0} /\ MaxTag \in Nat /\ MaxResets \in Nat
  /\ Commands \subseteq Command
  /\ \A c \in Commands : c.lba + c.blocks <= BlockCount

VARIABLES
  pc,               (* the await the transport task is at                  *)
  cmd,              (* its command, with the tag                           *)
  status,           (* of the command                                      *)
  sense, ejected,   (* run_until's                                         *)
  remaining, chunk, at, cur,  (* read_blocks, write_blocks: blocks not yet *)
                    (* fetched, of the current bank, the next LBA, the bank*)
  banks,            (* the double buffer                                   *)
  msc_reset, exit,  (* MSC_RESET, BACK_PRESSED                             *)
  ep,               (* the endpoint call awaited: state, packets moved     *)
  out_fifo,         (* packets in the OUT pipe                             *)
  card,             (* the card call awaited; "dead": it never ends        *)
  ready, wp, disk,  (* the card: usable, lock tab, contents                *)
  host,             (* the host: where it is, command, data got and sent   *)
  resets,           (* resets so far                                       *)
  hurt              (* history: the host's command met a fault, or left    *)
                    (* data that nothing takes                             *)

answer == <<cmd, status>>
scsi == <<sense, ejected>>
xfer == <<remaining, chunk, at, cur>>
flags == <<msc_reset, exit>>
medium == <<card, ready, wp, disk>>
outside == <<host, resets, hurt>>
vars == <<pc, answer, scsi, xfer, banks, flags, ep, out_fifo, medium, outside>>

(* A block names the command that wrote it and its place; 0 is no command. *)
Block == [by : 0 .. MaxTag, at : 0 .. BlockCount - 1]
Torn == [by |-> -1, at |-> -1]

NoCommand == [tag |-> 0, op |-> "nop", lba |-> 0, blocks |-> 0]
Tagged == [tag : 0 .. MaxTag, op : Ops, lba : 0 .. BlockCount - 1, blocks : 0 .. BlockCount]
Packet == [kind : {"cbw"}, cmd : Tagged] \cup [kind : {"data"}, block : Block]
Idle == [st |-> "idle", pos |-> 0]
Busy == [st |-> "busy", pos |-> 0]
Least(a, b) == IF a < b THEN a ELSE b

(* The blocks the other bank takes next.                                   *)
next_chunk == Least(remaining, ChunkSectors)

(* Seeded bug: one bank does for both.                                     *)
other_bank_same == cur

(* The bank filled while the current one is used.                          *)
other_bank == 1 - cur

(* Seeded bug: a read that ended early counts.                             *)
got_something == ep.st \in {"ok", "short"}

(* The read for a bank, or for what was left, got all of it.               *)
got_all == ep.st = "ok"

(* Seeded bug: a refused command leaves its data where they are.           *)
DataOutIgnored(c) == FALSE

(* The host has data to send for a command that is refused.                *)
HasDataOut(c) == c.op = "other_out" /\ c.blocks > 0

(* The phase the host runs after the CBW.                                  *)
DataPhase(c) ==
  IF c.blocks = 0 THEN "status"
  ELSE IF c.op \in {"write", "other_out", "short_write", "empty_out"} THEN "out"
  ELSE IF c.op \in {"read", "sense", "reply", "capacity", "other_in", "short_read", "empty_in"}
    THEN "in"
  ELSE "status"

Configured == host.pc \notin {"off", "reset"}

-----------------------------------------------------------------------------
(* The endpoint call awaited.                                              *)

Sending == pc \in {"data_in", "csw", "read_join", "read_last"}
Receiving == pc \in {"cbw", "drain", "write_prime", "write_join"}
Streaming == pc \in {"read_join", "read_last"}

(* The bank being sent is read packet by packet, as the FIFO takes it; an  *)
(* empty one is sent as a zero-length packet.                              *)
InPacket ==
  CASE pc = "csw" -> [kind |-> "csw", tag |-> cmd.tag, status |-> status]
    [] pc = "data_in" -> [kind |-> "reply"]
    [] Streaming /\ chunk = 0 -> [kind |-> "zlp"]
    [] OTHER -> [kind |-> "data", block |-> banks[cur][ep.pos + 1]]

Sent ==
  [st |-> IF Streaming /\ ep.pos + 1 < chunk THEN "busy" ELSE "ok",
   pos |-> ep.pos + 1]

(* The blocks the read in flight is for, and the bank they go to.          *)
OutWant == IF pc = "write_prime" THEN chunk ELSE next_chunk
OutBank == IF pc = "write_prime" THEN 0 ELSE other_bank

(* A read takes a packet.  One for no bytes takes none (it never ends).    *)
ReceiveBlock ==
  /\ pc \in {"write_prime", "write_join"} /\ ep.st = "busy"
  /\ out_fifo # <<>> /\ OutWant > 0
  /\ LET p == Head(out_fifo) IN
       \/ /\ p.kind = "data"
          /\ banks' = [banks EXCEPT ![OutBank][ep.pos + 1] = p.block]
          /\ ep' = [st |-> IF ep.pos + 1 = OutWant THEN "ok" ELSE "busy",
                    pos |-> ep.pos + 1]
       \/ /\ p.kind = "cbw"
          /\ ep' = [ep EXCEPT !.st = "short"]
          /\ UNCHANGED banks
  /\ out_fifo' = Tail(out_fifo)
  /\ UNCHANGED <<pc, answer, scsi, xfer, flags, medium, outside>>

-----------------------------------------------------------------------------
(* run_until                                                               *)

LoopTop ==
  /\ pc' = "cbw"
  /\ ep' = Busy
  /\ msc_reset' = FALSE
  /\ cmd' = NoCommand

(* The read of the CBW fails when a bus reset stops it; wait_enabled.      *)
CbwReadFails ==
  /\ pc = "cbw" /\ ep.st = "err"
  /\ pc' = "wait_enabled"
  /\ ep' = Idle
  /\ UNCHANGED <<answer, scsi, xfer, banks, flags, out_fifo, medium, outside>>

(* Seeded bug: a BACK pressed meanwhile is forgotten.                      *)
WaitEnabledForgets ==
  /\ pc = "wait_enabled" /\ Configured
  /\ LoopTop
  /\ exit' = FALSE
  /\ UNCHANGED <<status, scsi, xfer, banks, out_fifo, medium, outside>>

WaitEnabled ==
  /\ pc = "wait_enabled" /\ Configured
  /\ LoopTop
  /\ UNCHANGED <<status, scsi, xfer, banks, exit, out_fifo, medium, outside>>

(* Not a CBW: data of a command the device gave up.                        *)
BadCbw ==
  /\ pc = "cbw" /\ ep.st = "busy" /\ out_fifo # <<>>
  /\ Head(out_fifo).kind = "data"
  /\ out_fifo' = Tail(out_fifo)
  /\ LoopTop
  /\ UNCHANGED <<status, scsi, xfer, banks, exit, medium, outside>>

(* The exit flag races the read of the CBW, and nothing else; usbmsc.rs    *)
(* then disconnects.                                                       *)
Exit ==
  /\ pc = "cbw" /\ exit
  /\ pc' = "returned"
  /\ ep' = Idle /\ out_fifo' = <<>>
  /\ host' = [host EXCEPT !.pc = "off"]
  /\ UNCHANGED <<answer, scsi, xfer, banks, flags, medium, resets, hurt>>

(* run_session, entered from the menu again.                               *)
EnterMode ==
  /\ pc = "returned"
  /\ LoopTop
  /\ exit' = FALSE /\ sense' = "good" /\ ejected' = FALSE
  /\ hurt' = FALSE
  /\ UNCHANGED <<status, xfer, banks, out_fifo, medium, host, resets>>

(* send_csw                                                                *)
Answer(s) == pc' = "csw" /\ status' = s /\ ep' = Busy

CswDone ==
  /\ pc = "csw" /\ ep.st \in {"ok", "err"}
  /\ LoopTop
  /\ UNCHANGED <<status, scsi, xfer, banks, exit, out_fifo, medium, outside>>

-----------------------------------------------------------------------------
(* handle_command                                                          *)

Take(op) ==
  /\ pc = "cbw" /\ ep.st = "busy" /\ out_fifo # <<>>
  /\ Head(out_fifo).kind = "cbw" /\ Head(out_fifo).cmd.op = op
  /\ cmd' = Head(out_fifo).cmd
  /\ out_fifo' = Tail(out_fifo)
  /\ UNCHANGED <<banks, flags, ready, wp, disk, host, resets>>

Fail(key) == sense' = key /\ Answer("failed")

(* A command block that is empty, or too short, is refused before anything *)
(* else is looked at.  Data the host has for it stay where they are.       *)
Refuse(op) ==
  /\ Take(op)
  /\ Fail("invalid")
  /\ hurt' = (hurt \/ DataPhase(cmd') = "out")
  /\ UNCHANGED <<ejected, xfer, card>>

EmptyBlock == \E op \in {"empty_in", "empty_out"} : Refuse(op)

(* READ(10) and WRITE(10) want ten bytes; Read and Write have them.        *)
ShortBlock == \E op \in {"short_read", "short_write"} : Refuse(op)

TestUnitReady ==
  /\ Take("tur")
  /\ \/ ejected /\ Fail("not_ready") /\ UNCHANGED card
     \/ ~ejected /\ ready /\ sense' = "good" /\ Answer("good") /\ UNCHANGED card
     \/ /\ ~ejected /\ ~ready
        /\ pc' = "ensure" /\ card' = "busy" /\ ep' = Idle
        /\ UNCHANGED <<sense, status>>
  /\ UNCHANGED <<ejected, xfer, hurt>>

(* ensure_ready: sd::init                                                  *)
EnsureReady ==
  /\ pc = "ensure" /\ card = "busy"
  /\ card' = "idle"
  /\ \/ ready' = TRUE /\ sense' = "good" /\ Answer("good")
     \/ ready' = FALSE /\ Fail("not_ready")
  /\ UNCHANGED <<cmd, ejected, xfer, banks, flags, out_fifo, wp, disk, outside>>

(* send_data_in: nothing is sent to a host that wants nothing.             *)
SendDataIn ==
  IF cmd'.blocks = 0 THEN Answer("good")
  ELSE pc' = "data_in" /\ status' = "good" /\ ep' = Busy

RequestSense ==
  /\ Take("sense")
  /\ sense' = "good"
  /\ SendDataIn
  /\ UNCHANGED <<ejected, xfer, card, hurt>>

(* INQUIRY, MODE SENSE(6), READ FORMAT CAPACITIES                          *)
Inquiry ==
  /\ Take("reply")
  /\ SendDataIn
  /\ UNCHANGED <<scsi, xfer, card, hurt>>

ReadCapacity ==
  /\ Take("capacity")
  /\ IF ejected \/ ~ready THEN Fail("not_ready") ELSE SendDataIn /\ UNCHANGED sense
  /\ UNCHANGED <<ejected, xfer, card, hurt>>

DataInDone ==
  /\ pc = "data_in" /\ ep.st \in {"ok", "err"}
  /\ Answer(IF ep.st = "ok" THEN "good" ELSE "failed")
  /\ UNCHANGED <<cmd, scsi, xfer, banks, flags, out_fifo, medium, outside>>

(* PREVENT/ALLOW, SYNCHRONIZE CACHE; START STOP UNIT with LOEJ             *)
StartStopUnit ==
  \E op \in {"nop", "eject", "load"} :
    /\ Take(op)
    /\ ejected' = IF op = "nop" THEN ejected ELSE op = "eject"
    /\ sense' = "good"
    /\ Answer("good")
    /\ UNCHANGED <<xfer, card, hurt>>

StartDrain == pc' = "drain" /\ ep' = Busy /\ UNCHANGED <<sense, status>>

Unsupported ==
  \E op \in {"other_in", "other_out"} :
    /\ Take(op)
    /\ IF HasDataOut(cmd') THEN StartDrain ELSE Fail("invalid")
    /\ UNCHANGED <<ejected, xfer, card, hurt>>

(* drain_data_out does not end at a short packet, and a CBW it takes is    *)
(* too short to count for a block.                                         *)
Drain ==
  /\ pc = "drain" /\ ep.st = "busy" /\ out_fifo # <<>>
  /\ out_fifo' = Tail(out_fifo)
  /\ ep' = IF Head(out_fifo).kind = "cbw" THEN ep
           ELSE [st |-> IF ep.pos + 1 = cmd.blocks THEN "ok" ELSE "busy",
                 pos |-> ep.pos + 1]
  /\ UNCHANGED <<pc, answer, scsi, xfer, banks, flags, medium, outside>>

Drained ==
  /\ pc = "drain" /\ ep.st \in {"ok", "err"}
  /\ Fail(IF cmd.op = "write" THEN "data_protect" ELSE "invalid")
  /\ UNCHANGED <<cmd, ejected, xfer, banks, flags, out_fifo, medium, outside>>

-----------------------------------------------------------------------------
(* READ(10), read_blocks                                                   *)

Read ==
  /\ Take("read")
  /\ \/ ejected /\ Fail("not_ready") /\ UNCHANGED <<xfer, card, hurt>>
     \/ /\ ~ejected
        /\ remaining' = cmd'.blocks /\ at' = cmd'.lba
        /\ chunk' = Least(cmd'.blocks, ChunkSectors) /\ cur' = 0
        /\ pc' = "read_prime" /\ card' = "busy" /\ ep' = Idle
        /\ hurt' = (hurt \/ cmd'.blocks = 0)
        /\ UNCHANGED <<sense, status>>
  /\ UNCHANGED ejected

(* BlockDevice::read into a bank: the first chunk's or the other one.      *)
CardReads ==
  /\ card = "busy" /\ pc \in {"read_prime", "read_join"}
  /\ \/ /\ ready
        /\ LET b == IF pc = "read_prime" THEN 0 ELSE other_bank
               n == IF pc = "read_prime" THEN chunk ELSE next_chunk
           IN  banks' = [banks EXCEPT ![b] = [i \in 1 .. ChunkSectors |->
                                   IF i <= n THEN disk[at + i - 1] ELSE @[i]]]
        /\ card' = "ok"
     \/ card' = "err" /\ UNCHANGED banks
  /\ UNCHANGED <<pc, answer, scsi, xfer, flags, ep, out_fifo, ready, wp, disk, outside>>

(* The current bank goes out: while the next is read, or as the last.      *)
SendBank(left) ==
  /\ pc' = IF left > 0 THEN "read_join" ELSE "read_last"
  /\ card' = IF left > 0 THEN "busy" ELSE "idle"
  /\ ep' = Busy

ReadPrimed ==
  /\ pc = "read_prime" /\ card \in {"ok", "err"}
  /\ \/ /\ card = "err"
        /\ card' = "idle" /\ Fail("medium_error")
        /\ UNCHANGED xfer
     \/ /\ card = "ok"
        /\ remaining' = remaining - chunk /\ at' = at + chunk
        /\ SendBank(remaining')
        /\ UNCHANGED <<chunk, cur, sense, status>>
  /\ UNCHANGED <<cmd, ejected, banks, flags, out_fifo, ready, wp, disk, outside>>

ReadJoined ==
  /\ pc = "read_join" /\ ep.st \in {"ok", "err"} /\ card \in {"ok", "err"}
  /\ \/ /\ ep.st = "err"
        /\ card' = "idle" /\ Answer("failed")
        /\ UNCHANGED <<xfer, sense, hurt>>
     \/ /\ ep.st = "ok" /\ card = "err"
        /\ card' = "idle" /\ Fail("medium_error") /\ hurt' = TRUE
        /\ UNCHANGED xfer
     \/ /\ ep.st = "ok" /\ card = "ok"
        /\ chunk' = next_chunk /\ at' = at + next_chunk
        /\ remaining' = remaining - next_chunk /\ cur' = other_bank
        /\ SendBank(remaining')
        /\ UNCHANGED <<sense, status, hurt>>
  /\ UNCHANGED <<cmd, ejected, banks, flags, out_fifo, ready, wp, disk, host, resets>>

ReadDone ==
  /\ pc = "read_last" /\ ep.st \in {"ok", "err"}
  /\ Answer(IF ep.st = "ok" THEN "good" ELSE "failed")
  /\ UNCHANGED <<cmd, scsi, xfer, banks, flags, out_fifo, medium, outside>>

-----------------------------------------------------------------------------
(* WRITE(10), write_blocks                                                 *)

Write ==
  /\ Take("write")
  /\ \/ /\ ready /\ wp
        /\ IF cmd'.blocks = 0 THEN Fail("data_protect") ELSE StartDrain
        /\ UNCHANGED <<xfer, card, hurt>>
     \/ /\ ~(ready /\ wp)
        /\ chunk' = Least(cmd'.blocks, ChunkSectors) /\ cur' = 0
        /\ remaining' = cmd'.blocks /\ at' = cmd'.lba
        /\ pc' = "write_prime" /\ ep' = Busy
        /\ hurt' = (hurt \/ cmd'.blocks = 0)
        /\ UNCHANGED <<sense, status, card>>
  /\ UNCHANGED ejected

(* The current bank is committed: while the next is received, or the last. *)
CommitBank(left) ==
  /\ pc' = IF left > 0 THEN "write_join" ELSE "write_last"
  /\ ep' = IF left > 0 THEN Busy ELSE Idle
  /\ card' = "busy"

WritePrimed ==
  /\ pc = "write_prime" /\ ep.st \in {"ok", "short", "err"}
  /\ \/ /\ got_all
        /\ remaining' = remaining - chunk
        /\ CommitBank(remaining')
        /\ UNCHANGED <<chunk, at, cur, sense, status>>
     \/ /\ ~got_all
        /\ Answer("failed")
        /\ UNCHANGED <<xfer, sense, card>>
  /\ UNCHANGED <<cmd, ejected, banks, flags, out_fifo, ready, wp, disk, outside>>

(* BlockDevice::write of the current bank.  One that fails has stored the  *)
(* blocks before some one, and may have torn that.                         *)
CardWrites ==
  /\ card = "busy" /\ pc \in {"write_join", "write_last"}
  /\ \E n \in 0 .. chunk, torn \in BOOLEAN :
       /\ n > 0 \/ torn => ready
       /\ torn => n < chunk
       /\ disk' = [b \in DOMAIN disk |->
                     IF b \in at .. at + n - 1 THEN banks[cur][b - at + 1]
                     ELSE IF torn /\ b = at + n THEN Torn ELSE disk[b]]
       /\ card' \in IF n = chunk /\ ready THEN {"ok", "err"} ELSE {"err"}
  /\ UNCHANGED <<pc, answer, scsi, xfer, banks, flags, ep, out_fifo, ready, wp, outside>>

WriteJoined ==
  /\ pc = "write_join" /\ ep.st \in {"ok", "short", "err"} /\ card \in {"ok", "err"}
  /\ \/ /\ card = "err"
        /\ card' = "idle" /\ Fail("medium_error") /\ hurt' = TRUE
        /\ UNCHANGED xfer
     \/ /\ card = "ok" /\ got_all
        /\ at' = at + chunk /\ chunk' = next_chunk
        /\ remaining' = remaining - next_chunk /\ cur' = other_bank
        /\ CommitBank(remaining')
        /\ UNCHANGED <<sense, status, hurt>>
     \/ /\ card = "ok" /\ ~got_all
        /\ card' = "idle" /\ Answer("failed") /\ at' = at + chunk
        /\ UNCHANGED <<remaining, chunk, cur, sense, hurt>>
  /\ UNCHANGED <<cmd, ejected, banks, flags, out_fifo, ready, wp, disk, host, resets>>

WriteDone ==
  /\ pc = "write_last" /\ card \in {"ok", "err"}
  /\ card' = "idle"
  /\ IF card = "ok" THEN Answer("good") /\ UNCHANGED sense ELSE Fail("medium_error")
  /\ UNCHANGED <<cmd, ejected, xfer, banks, flags, out_fifo, ready, wp, disk, outside>>

(* The waits for the card have no deadline: a call that draws neither a    *)
(* completion nor an error interrupt never ends.  A card that is not       *)
(* usable is not asked.                                                    *)
CardHangs ==
  /\ card = "busy" /\ (ready \/ pc = "ensure")
  /\ card' = "dead"
  /\ hurt' = TRUE
  /\ UNCHANGED <<pc, answer, scsi, xfer, banks, flags, ep, out_fifo, ready, wp, disk,
                 host, resets>>

-----------------------------------------------------------------------------
(* The host.  It sends a command's data before it takes its status, and    *)
(* knows a status in place of the data of a read.                          *)

(* Nothing is left of earlier commands.                                    *)
Quiet == pc = "cbw" /\ ep = Busy /\ out_fifo = <<>>

SendCbw ==
  /\ host.pc = "idle" /\ host.tag < MaxTag /\ Len(out_fifo) < FifoPackets
  /\ \E c \in Commands :
       LET k == [tag |-> host.tag + 1, op |-> c.op, lba |-> c.lba, blocks |-> c.blocks]
       IN  /\ out_fifo' = Append(out_fifo, [kind |-> "cbw", cmd |-> k])
           /\ host' = [pc |-> DataPhase(k), tag |-> host.tag + 1, cmd |-> k,
                       got |-> <<>>, sent |-> 0]
  /\ hurt' = (hurt /\ ~Quiet)
  /\ UNCHANGED <<pc, answer, scsi, xfer, banks, flags, ep, medium, resets>>

SendData ==
  /\ host.pc = "out" /\ Len(out_fifo) < FifoPackets
  /\ LET n == host.sent + 1 IN
       /\ out_fifo' = Append(out_fifo, [kind |-> "data",
                        block |-> [by |-> host.tag, at |-> host.cmd.lba + host.sent]])
       /\ host' = [host EXCEPT !.sent = n,
                     !.pc = IF n = host.cmd.blocks THEN "status" ELSE "out"]
  /\ UNCHANGED <<pc, answer, scsi, xfer, banks, flags, ep, medium, resets, hurt>>

OwnStatus(p) == p.kind = "csw" /\ p.tag = host.tag

Took(p) ==
  IF OwnStatus(p) /\ (host.pc = "status" \/ host.got = <<>>) THEN [host EXCEPT !.pc = "idle"]
  ELSE IF host.pc = "status" THEN [host EXCEPT !.pc = "error"]
  ELSE IF p.kind # "data" THEN [host EXCEPT !.pc = "status"]
  ELSE IF host.cmd.op # "read" THEN [host EXCEPT !.pc = "error"]
  ELSE [host EXCEPT !.got = Append(@, p.block),
          !.pc = IF Len(host.got) + 1 = host.cmd.blocks THEN "status" ELSE "in"]

CanTake == host.pc \in {"in", "status"} /\ Sending /\ ep.st = "busy"

TakeIn ==
  /\ CanTake
  /\ host' = Took(InPacket)
  /\ ep' = Sent
  /\ UNCHANGED <<pc, answer, scsi, xfer, banks, flags, out_fifo, medium, resets, hurt>>

PressBack ==
  /\ ~exit /\ pc # "returned"
  /\ exit' = TRUE
  /\ UNCHANGED <<pc, answer, scsi, xfer, banks, msc_reset, ep, out_fifo, medium, outside>>

-----------------------------------------------------------------------------
(* Resets                                                                  *)

(* process_bus_reset: the endpoint call in flight fails; Handler::reset.   *)
BusReset ==
  /\ out_fifo' = <<>>
  /\ ep' = IF ep.st \in {"busy", "stuck"} THEN [ep EXCEPT !.st = "err"] ELSE ep
  /\ msc_reset' = FALSE
  /\ host' = [host EXCEPT !.pc = "reset"]
  /\ UNCHANGED <<pc, answer, scsi, xfer, banks, exit, medium>>

Attach ==
  /\ host.pc = "off" /\ pc # "returned"
  /\ BusReset
  /\ UNCHANGED <<resets, hurt>>

UntimelyReset ==
  /\ Configured /\ resets < MaxResets
  /\ BusReset
  /\ resets' = resets + 1 /\ hurt' = TRUE

(* pipe_reset of both pipes.                                               *)
PipesReset ==
  /\ out_fifo' = <<>>
  /\ ep' \in IF Sending /\ ep.st = "busy" THEN {[ep EXCEPT !.st = "stuck"], Sent} ELSE {ep}

(* SET_CONFIGURATION: endpoint_set_enabled                                 *)
SetConfiguration ==
  /\ host.pc = "reset"
  /\ PipesReset
  /\ host' = [host EXCEPT !.pc = "idle"]
  /\ UNCHANGED <<pc, answer, scsi, xfer, banks, flags, medium, resets, hurt>>

(* The class's own reset (control_out), then the halts cleared.            *)
ClassReset ==
  /\ host.pc \in {"out", "in", "status", "error"} /\ resets < MaxResets
  /\ msc_reset' = TRUE
  /\ resets' = resets + 1 /\ hurt' = TRUE
  /\ host' = [host EXCEPT !.pc = "clear"]
  /\ UNCHANGED <<pc, answer, scsi, xfer, banks, exit, ep, out_fifo, medium>>

ClearHalts ==
  /\ host.pc = "clear"
  /\ PipesReset
  /\ host' = [host EXCEPT !.pc = "idle"]
  /\ UNCHANGED <<pc, answer, scsi, xfer, banks, flags, medium, resets, hurt>>

(* Neither side can go on without the other, or the card never answers:    *)
(* the host's timeout is longer than anything the device does by itself.   *)
CanReceive == Receiving /\ ep.st = "busy" /\ out_fifo # <<>> /\ ~(pc = "write_prime" /\ chunk = 0)
CanSend == host.pc = "out" /\ Len(out_fifo) < FifoPackets
AtRest == pc = "cbw" /\ host.pc = "idle"

Stuck ==
  /\ Configured /\ host.pc # "clear" /\ ~AtRest
  /\ card = "dead" \/ (card # "busy" /\ ep.st \in {"busy", "stuck"})
  /\ ~CanTake /\ ~CanSend /\ ~CanReceive

HostTimeout ==
  /\ Stuck
  /\ BusReset
  /\ UNCHANGED <<resets, hurt>>

-----------------------------------------------------------------------------
Init ==
  /\ pc = "cbw" /\ ep = Busy /\ out_fifo = <<>>
  /\ cmd = NoCommand /\ status = "good"
  /\ sense = "good" /\ ejected = FALSE
  /\ remaining = 0 /\ chunk = 0 /\ at = 0 /\ cur = 0
  /\ banks = [b \in {0, 1} |-> [i \in 1 .. ChunkSectors |-> Torn]]
  /\ msc_reset = FALSE /\ exit = FALSE
  /\ card = "idle" /\ ready \in BOOLEAN /\ wp \in BOOLEAN
  /\ disk = [b \in 0 .. BlockCount - 1 |-> [by |-> 0, at |-> b]]
  /\ host = [pc |-> "off", tag |-> 0, cmd |-> NoCommand, got |-> <<>>, sent |-> 0]
  /\ resets = 0 /\ hurt = FALSE

Transport ==
  \/ ReceiveBlock \/ CbwReadFails \/ WaitEnabled \/ BadCbw \/ Exit \/ CswDone
  \/ EmptyBlock \/ ShortBlock \/ TestUnitReady \/ EnsureReady \/ RequestSense \/ Inquiry \/ ReadCapacity
  \/ DataInDone \/ StartStopUnit \/ Unsupported \/ Drain \/ Drained
  \/ Read \/ CardReads \/ ReadPrimed \/ ReadJoined \/ ReadDone
  \/ Write \/ WritePrimed \/ CardWrites \/ WriteJoined \/ WriteDone

Host ==
  \/ SendCbw \/ SendData \/ TakeIn \/ PressBack \/ EnterMode
  \/ Attach \/ UntimelyReset \/ SetConfiguration \/ ClassReset \/ ClearHalts \/ HostTimeout

Next == Transport \/ CardHangs \/ Host

Spec == Init /\ [][Next]_vars

(* Both sides go on while they can, and a host that waits in vain resets   *)
(* the bus.  A card call ends unless it hangs for good (CardHangs).        *)
FairSpec ==
  /\ Spec
  /\ WF_vars(Transport)
  /\ WF_vars(SendData) /\ WF_vars(TakeIn)
  /\ WF_vars(SetConfiguration) /\ WF_vars(ClearHalts) /\ WF_vars(HostTimeout)

-----------------------------------------------------------------------------
TypeOK ==
  /\ pc \in {"cbw", "wait_enabled", "returned", "csw", "ensure", "data_in", "drain",
             "read_prime", "read_join", "read_last",
             "write_prime", "write_join", "write_last"}
  /\ cmd \in Tagged /\ status \in {"good", "failed"}
  /\ sense \in {"good", "not_ready", "medium_error", "invalid", "data_protect"}
  /\ ejected \in BOOLEAN /\ msc_reset \in BOOLEAN /\ exit \in BOOLEAN
  /\ remaining \in 0 .. BlockCount /\ chunk \in 0 .. ChunkSectors
  /\ at \in 0 .. BlockCount /\ cur \in {0, 1}
  /\ banks \in [{0, 1} -> [1 .. ChunkSectors -> Block \cup {Torn}]]
  /\ ep \in [st : {"idle", "busy", "stuck", "ok", "short", "err"}, pos : Nat]
  /\ out_fifo \in Seq(Packet) /\ Len(out_fifo) <= FifoPackets
  /\ card \in {"idle", "busy", "ok", "err", "dead"}
  /\ ready \in BOOLEAN /\ wp \in BOOLEAN
  /\ disk \in [0 .. BlockCount - 1 -> Block \cup {Torn}]
  /\ host \in [pc : {"off", "reset", "idle", "out", "in", "status", "error", "clear"},
                tag : 0 .. MaxTag, cmd : Tagged,
                got : Seq(Block \cup {Torn}), sent : 0 .. BlockCount]
  /\ resets \in 0 .. MaxResets /\ hurt \in BOOLEAN

(* A block of the medium is what some command wrote for that very place,   *)
(* or one that a failed write tore: whatever resets and half-done commands *)
(* did, no data lands anywhere else (bot.rs, write_blocks).                *)
BlocksStayInPlace == \A b \in DOMAIN disk : disk[b] = Torn \/ disk[b].at = b

(* Host and transport never wait for each other, and no status is out of   *)
(* place, except after a reset, a card error or a card that hangs, a READ  *)
(* or WRITE of no blocks, and an empty or too short command block with     *)
(* data to send, which bot.rs:269-272 and 397-400 refuse without taking    *)
(* the data.  The two refusals that do drain them, of a WRITE to a locked  *)
(* medium and of an unknown opcode, leave the pipes in step ("so the pipe  *)
(* stays in sync", bot.rs:402, 417).                                       *)
InSync == Stuck \/ host.pc = "error" => hurt

(* The status the host accepts.                                            *)
Accepted(s) ==
  /\ CanTake /\ host'.pc = "idle"
  /\ OwnStatus(InPacket) /\ InPacket.status = s

(* The sense data a failure should leave.                                  *)
Reason(c) ==
  CASE c.op \in {"tur", "capacity"} -> "not_ready"
    [] c.op \in {"other_in", "other_out", "short_read", "short_write",
                  "empty_in", "empty_out"} -> "invalid"
    [] c.op = "read" -> IF ejected THEN "not_ready" ELSE "medium_error"
    [] c.op = "write" -> IF ready /\ wp THEN "data_protect" ELSE "medium_error"
    [] OTHER -> "good"

(* A status the host accepts is true.  With a good one for a READ it has   *)
(* the medium's blocks, all and in order; for a WRITE, its blocks are on   *)
(* the medium.  With a failed one, the sense data tell this failure's      *)
(* reason, and not one of an earlier command.                              *)
StatusIsTrue ==
  [][LET n == host.cmd.blocks
         place(i) == host.cmd.lba + i - 1 IN
     /\ Accepted("good") =>
          /\ host.cmd.op = "read" => host.got = [i \in 1 .. n |-> disk[place(i)]]
          /\ host.cmd.op = "write" => \A i \in 1 .. n :
               disk[place(i)] = [by |-> host.tag, at |-> place(i)]
     /\ Accepted("failed") => sense = Reason(host.cmd)
    ]_vars

(* The transport comes back for the next command whatever the host broke   *)
(* off, as long as the host resets the bus in the end; then BACK ends the  *)
(* session (usbmsc.rs:4).  Not when a card call never ends: the waits have *)
(* no deadline (sd.rs:348-350), and BACK is not looked at inside a command.*)
BackEndsTheSession == exit ~> pc = "returned" \/ card = "dead"

=============================================================================
