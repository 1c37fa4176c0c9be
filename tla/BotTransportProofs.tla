---- MODULE BotTransportProofs ----
(***************************************************************************)
(* Proofs about the bulk-only transport, for every card, bank size, FIFO   *)
(* size and set of commands: every variable keeps its type, no block of    *)
(* data lands in a place it was not sent to, a status that the host        *)
(* accepts is true, and host and transport do not wait for each other      *)
(* while nothing has gone wrong.                                           *)
(*                                                                         *)
(* The argument follows the data down the pipe.  PipeInOrder: each packet  *)
(* of data in the pipe, and the next one the host sends, carries on where  *)
(* the packet before it ended.  ReadInOrder: what comes next for the read  *)
(* of a WRITE is what belongs there, or a command, which ends that read.   *)
(* BankInPlace: so the bank that is committed holds what belongs to at,    *)
(* and is this command's.  A reset empties the pipe, and then a command    *)
(* comes first.  A second invariant, SInv, follows the host's command: the *)
(* commands in the pipe are numbered, so that a status with the host's     *)
(* number is for the host's command, and what was read or stored so far is *)
(* what that command asked for.  A third, LInv, says where each side is    *)
(* for the other to go on: unless something has gone wrong, the host's     *)
(* command is still in the pipe (Asked), or the transport works on it and  *)
(* has counted what the host has sent or got (Served).                     *)
(***************************************************************************)
EXTENDS BotTransport, SequenceTheorems, TLAPS

(* The pipe: packets q, and the host h that fills it.                      *)

Fits(c) == c.lba + c.blocks <= BlockCount

AllFit(q) == \A i \in 1 .. Len(q) : q[i].kind = "cbw" => Fits(q[i].cmd)

(* The block the packet after p holds, if it is data.                      *)
After(p) == IF p.kind = "data" THEN [by |-> p.block.by, at |-> p.block.at + 1]
            ELSE [by |-> p.cmd.tag, at |-> p.cmd.lba]

(* The block the host sends next.                                          *)
Upcoming(h) == [by |-> h.tag, at |-> h.cmd.lba + h.sent]

InOrder(q, h) ==
  /\ \A i \in 2 .. Len(q) : q[i].kind = "data" => q[i].block = After(q[i - 1])
  /\ h.pc = "out" /\ q # <<>> => Upcoming(h) = After(q[Len(q)])

(* Data that come next are this block.                                     *)
ComesNext(q, h, block) ==
  /\ q # <<>> /\ q[1].kind = "data" => q[1].block = block
  /\ q = <<>> /\ h.pc = "out" => Upcoming(h) = block

-----------------------------------------------------------------------------
(* The inductive invariant                                                 *)

HostPcs == {"off", "reset", "idle", "out", "in", "status", "error", "clear"}
Hosts == [pc : HostPcs, tag : 0 .. MaxTag, cmd : Tagged,
          got : Seq(Block \cup {Torn}), sent : 0 .. BlockCount]
Calls == [st : {"idle", "busy", "stuck", "ok", "short", "err"}, pos : Nat]

ControlType ==
  /\ pc \in {"cbw", "wait_enabled", "returned", "csw", "ensure", "data_in", "drain",
             "read_prime", "read_join", "read_last",
             "write_prime", "write_join", "write_last"}
  /\ status \in {"good", "failed"}
  /\ sense \in {"good", "not_ready", "medium_error", "invalid", "data_protect"}
  /\ ejected \in BOOLEAN /\ msc_reset \in BOOLEAN /\ exit \in BOOLEAN
  /\ card \in {"idle", "busy", "ok", "err", "dead"}
  /\ ready \in BOOLEAN /\ wp \in BOOLEAN
  /\ hurt \in BOOLEAN

XferType ==
  /\ remaining \in 0 .. BlockCount /\ chunk \in 0 .. ChunkSectors
  /\ at \in 0 .. BlockCount /\ cur \in {0, 1}

PipeType ==
  /\ cmd \in Tagged /\ Fits(cmd)
  /\ out_fifo \in Seq(Packet) /\ Len(out_fifo) <= FifoPackets /\ AllFit(out_fifo)

HostType ==
  /\ host \in Hosts /\ Fits(host.cmd) /\ resets \in 0 .. MaxResets
  /\ host.pc = "out" => host.sent < host.cmd.blocks

BanksType == banks \in [{0, 1} -> [1 .. ChunkSectors -> Block \cup {Torn}]]

DiskType ==
  /\ disk \in [0 .. BlockCount - 1 -> Block \cup {Torn}]
  /\ BlocksStayInPlace

PipeInOrder == InOrder(out_fifo, host)

Writing == pc \in {"write_prime", "write_join"}

(* The place of the first block of the read in flight.                     *)
Base == IF pc = "write_prime" THEN at ELSE at + chunk

(* The block the transport's command has for a place.                      *)
Due(place) == [by |-> cmd.tag, at |-> place]

ReadInOrder ==
  Writing /\ ep.st \in {"busy", "ok"} =>
    /\ ep.pos <= OutWant
    /\ ep.st = "ok" => ep.pos = OutWant
    /\ ep.st = "busy" /\ OutWant > 0 => ep.pos < OutWant
    /\ ComesNext(out_fifo, host, Due(Base + ep.pos))
    /\ \A i \in 1 .. ep.pos : banks[OutBank][i] = Due(Base + i - 1)

BankInPlace ==
  /\ pc = "write_prime" => cur = 0
  /\ pc \in {"write_join", "write_last"} => \A i \in 1 .. chunk : banks[cur][i] = Due(at + i - 1)

(* A transfer stays on the card.                                           *)
XferFits ==
  /\ pc \in {"read_prime", "write_prime"} => chunk <= remaining /\ at + remaining <= BlockCount
  /\ pc = "read_join" => at + remaining <= BlockCount
  /\ pc \in {"write_join", "write_last"} => at + chunk + remaining <= BlockCount

(* A bank that is sent is not read past its end.                           *)
SendFits == Streaming /\ ep.st = "busy" /\ chunk > 0 => ep.pos < chunk

Inv ==
  /\ ControlType /\ XferType /\ PipeType /\ HostType /\ BanksType /\ DiskType
  /\ ep \in Calls
  /\ PipeInOrder /\ ReadInOrder /\ BankInPlace /\ XferFits /\ SendFits

LEMMA InvIsEnough == Inv => TypeOK /\ BlocksStayInPlace
  BY DEF Inv, ControlType, XferType, PipeType, HostType, BanksType, DiskType, Hosts, HostPcs, Calls, TypeOK

-----------------------------------------------------------------------------
(* Packets                                                                 *)

LEMMA PacketTypes ==
  ASSUME NEW p \in Packet
  PROVE  /\ p.kind \in {"cbw", "data"}
         /\ p.kind = "cbw" => p.cmd \in Tagged
         /\ p.kind = "data" => p.block \in Block
<1>1. CASE p \in [kind : {"cbw"}, cmd : Tagged]
  BY <1>1
<1>2. CASE p \in [kind : {"data"}, block : Block]
  BY <1>2
<1> QED  BY <1>1, <1>2 DEF Packet

(* What is left of the pipe after a packet.                                *)
LEMMA AfterTheHead ==
  ASSUME NEW q \in Seq(Packet), q # <<>>, NEW h \in Hosts, AllFit(q), InOrder(q, h)
  PROVE  /\ Tail(q) \in Seq(Packet) /\ Len(Tail(q)) < Len(q)
         /\ AllFit(Tail(q)) /\ InOrder(Tail(q), h)
         /\ ComesNext(Tail(q), h, After(Head(q)))
         /\ q[1] = Head(q) /\ Head(q) \in Packet
         /\ Head(q).kind = "cbw" => Fits(Head(q).cmd)
<1>1. /\ Tail(q) \in Seq(Packet) /\ Len(Tail(q)) = Len(q) - 1
      /\ \A i \in 1 .. Len(Tail(q)) : Tail(q)[i] = q[i + 1]
      /\ q[1] = Head(q) /\ Head(q) \in Packet
      /\ Len(q) \in Nat \ {0}
  OBVIOUS
<1>2. AllFit(Tail(q)) /\ (Head(q).kind = "cbw" => Fits(Head(q).cmd))
  BY <1>1 DEF AllFit
<1>3. InOrder(Tail(q), h)
  <2>1. ASSUME NEW i \in 2 .. Len(Tail(q)), Tail(q)[i].kind = "data"
        PROVE  Tail(q)[i].block = After(Tail(q)[i - 1])
    <3>1. /\ i + 1 \in 2 .. Len(q) /\ Tail(q)[i] = q[i + 1] /\ Tail(q)[i - 1] = q[i]
          /\ (i + 1) - 1 = i
      BY <1>1
    <3> QED  BY <2>1, <3>1 DEF InOrder
  <2>2. Tail(q) # <<>> => Tail(q)[Len(Tail(q))] = q[Len(q)]
    BY <1>1
  <2> QED  BY <2>1, <2>2 DEF InOrder
<1>4. ComesNext(Tail(q), h, After(Head(q)))
  <2>1. ASSUME Tail(q) # <<>>, Tail(q)[1].kind = "data"
        PROVE  Tail(q)[1].block = After(Head(q))
    <3>1. 2 \in 2 .. Len(q) /\ Tail(q)[1] = q[2] /\ 2 - 1 = 1
      BY <1>1, <2>1
    <3> QED  BY <1>1, <2>1, <3>1 DEF InOrder
  <2>2. Tail(q) = <<>> => Len(q) = 1
    BY <1>1
  <2> QED  BY <1>1, <2>1, <2>2 DEF InOrder, ComesNext
<1> QED  BY <1>1, <1>2, <1>3, <1>4

(* A packet more, sent by a host that goes on as g.                        *)
LEMMA OneMorePacket ==
  ASSUME NEW q \in Seq(Packet), NEW h, NEW g, NEW p \in Packet, NEW block,
         AllFit(q), p.kind = "cbw" => Fits(p.cmd), InOrder(q, h),
         p.kind = "data" => h.pc = "out" /\ p.block = Upcoming(h),
         g.pc = "out" => Upcoming(g) = After(p)
  PROVE  /\ Append(q, p) \in Seq(Packet) /\ Len(Append(q, p)) = Len(q) + 1
         /\ AllFit(Append(q, p)) /\ InOrder(Append(q, p), g)
         /\ ComesNext(q, h, block) => ComesNext(Append(q, p), g, block)
<1> DEFINE r == Append(q, p)
<1>1. /\ r \in Seq(Packet) /\ Len(r) = Len(q) + 1 /\ r # <<>>
      /\ \A i \in 1 .. Len(q) : r[i] = q[i]
      /\ r[Len(q) + 1] = p /\ Len(q) \in Nat
  OBVIOUS
<1> HIDE DEF r
<1>2. AllFit(r)
  BY <1>1 DEF AllFit
<1>3. InOrder(r, g)
  <2>1. ASSUME NEW i \in 2 .. Len(r), r[i].kind = "data"
        PROVE  r[i].block = After(r[i - 1])
    <3>1. CASE i \in 2 .. Len(q)
      BY <1>1, <2>1, <3>1 DEF InOrder
    <3>2. CASE i = Len(q) + 1
      <4>1. q # <<>> /\ r[i - 1] = q[Len(q)] /\ r[i] = p
        BY <1>1, <3>2
      <4> QED  BY <2>1, <4>1 DEF InOrder
    <3> QED  BY <1>1, <3>1, <3>2
  <2> QED  BY <1>1, <2>1 DEF InOrder
<1>4. ComesNext(q, h, block) => ComesNext(r, g, block)
  <2>1. CASE q = <<>>
    BY <1>1, <2>1 DEF ComesNext
  <2>2. CASE q # <<>>
    BY <1>1, <2>2 DEF ComesNext
  <2> QED  BY <2>1, <2>2
<1> QED  BY <1>1, <1>2, <1>3, <1>4 DEF r

(* An empty pipe, or one the host no longer fills.                         *)
LEMMA EmptyPipe ==
  ASSUME NEW g, NEW block, g.pc # "out"
  PROVE  /\ <<>> \in Seq(Packet) /\ Len(<<>>) = 0
         /\ InOrder(<<>>, g) /\ AllFit(<<>>) /\ ComesNext(<<>>, g, block)
  BY DEF InOrder, ComesNext, AllFit

LEMMA HostLeavesPipe ==
  ASSUME NEW q, NEW h, NEW g, g.pc # "out"
  PROVE  /\ InOrder(q, h) => InOrder(q, g)
         /\ \A block : ComesNext(q, h, block) => ComesNext(q, g, block)
  BY DEF InOrder, ComesNext

-----------------------------------------------------------------------------
(* Steps                                                                   *)

LEMMA ControlTypeStep == ControlType /\ [Next]_vars => ControlType'
<1> SUFFICES ASSUME ControlType, [Next]_vars PROVE ControlType'
  OBVIOUS
<1> USE DEF ControlType, answer, scsi, xfer, flags, medium, outside
<1>1. CASE ReceiveBlock
  BY <1>1 DEF ReceiveBlock, LoopTop
<1>2. CASE CbwReadFails
  BY <1>2 DEF CbwReadFails, LoopTop
<1>3. CASE WaitEnabled
  BY <1>3 DEF WaitEnabled, LoopTop
<1>4. CASE BadCbw
  BY <1>4 DEF BadCbw, LoopTop
<1>5. CASE Exit
  BY <1>5 DEF Exit, LoopTop
<1>6. CASE CswDone
  BY <1>6 DEF CswDone, LoopTop
<1>7. CASE EnterMode
  BY <1>7 DEF EnterMode, LoopTop
<1>8. CASE TestUnitReady
  BY <1>8 DEF TestUnitReady, Take, Answer, Fail, SendDataIn, StartDrain
<1>9. CASE EnsureReady
  BY <1>9 DEF EnsureReady, Take, Answer, Fail, SendDataIn, StartDrain
<1>10. CASE RequestSense
  BY <1>10 DEF RequestSense, Take, Answer, Fail, SendDataIn, StartDrain
<1>11. CASE Inquiry
  BY <1>11 DEF Inquiry, Take, Answer, Fail, SendDataIn, StartDrain
<1>12. CASE ReadCapacity
  BY <1>12 DEF ReadCapacity, Take, Answer, Fail, SendDataIn, StartDrain
<1>13. CASE DataInDone
  BY <1>13 DEF DataInDone, Take, Answer, Fail, SendDataIn, StartDrain
<1>14. CASE StartStopUnit
  BY <1>14 DEF StartStopUnit, Take, Answer, Fail, SendDataIn, StartDrain
<1>15. CASE Unsupported
  BY <1>15 DEF Unsupported, Take, Answer, Fail, SendDataIn, StartDrain
<1>16. CASE Drain
  BY <1>16 DEF Drain, Take, Answer, Fail, SendDataIn, StartDrain
<1>17. CASE Drained
  BY <1>17 DEF Drained, Take, Answer, Fail, SendDataIn, StartDrain
<1>18. CASE Read
  BY <1>18 DEF Read, Take, Answer, Fail, SendBank
<1>19. CASE CardReads
  BY <1>19 DEF CardReads, Take, Answer, Fail, SendBank
<1>20. CASE ReadPrimed
  BY <1>20 DEF ReadPrimed, Take, Answer, Fail, SendBank
<1>21. CASE ReadJoined
  BY <1>21 DEF ReadJoined, Take, Answer, Fail, SendBank
<1>22. CASE ReadDone
  BY <1>22 DEF ReadDone, Take, Answer, Fail, SendBank
<1>23. CASE Write
  BY <1>23 DEF Write, Take, Answer, Fail, StartDrain, CommitBank
<1>24. CASE WritePrimed
  BY <1>24 DEF WritePrimed, Take, Answer, Fail, StartDrain, CommitBank
<1>25. CASE CardWrites
  BY <1>25 DEF CardWrites, Take, Answer, Fail, StartDrain, CommitBank
<1>26. CASE WriteJoined
  BY <1>26 DEF WriteJoined, Take, Answer, Fail, StartDrain, CommitBank
<1>27. CASE WriteDone
  BY <1>27 DEF WriteDone, Take, Answer, Fail, StartDrain, CommitBank
<1>28. CASE SendCbw
  BY <1>28 DEF SendCbw
<1>29. CASE SendData
  BY <1>29 DEF SendData
<1>30. CASE TakeIn
  BY <1>30 DEF TakeIn
<1>31. CASE PressBack
  BY <1>31 DEF PressBack
<1>32. CASE SetConfiguration
  BY <1>32 DEF SetConfiguration, PipesReset
<1>33. CASE ClassReset
  BY <1>33 DEF ClassReset, PipesReset
<1>34. CASE ClearHalts
  BY <1>34 DEF ClearHalts, PipesReset
<1>35. CASE Attach
  <2>1. /\ UNCHANGED <<pc, status, sense, ejected, exit>>
        /\ UNCHANGED <<card, ready, wp>>
    BY <1>35 DEF Attach, BusReset
  <2>2. hurt' \in BOOLEAN /\ msc_reset' \in BOOLEAN
    BY <1>35 DEF Attach, BusReset
  <2> QED  BY <2>1, <2>2 DEF ControlType
<1>36. CASE UntimelyReset
  <2>1. /\ UNCHANGED <<pc, status, sense, ejected, exit>>
        /\ UNCHANGED <<card, ready, wp>>
    BY <1>36 DEF UntimelyReset, BusReset
  <2>2. hurt' \in BOOLEAN /\ msc_reset' \in BOOLEAN
    BY <1>36 DEF UntimelyReset, BusReset
  <2> QED  BY <2>1, <2>2 DEF ControlType
<1>37. CASE HostTimeout
  <2>1. /\ UNCHANGED <<pc, status, sense, ejected, exit>>
        /\ UNCHANGED <<card, ready, wp>>
    BY <1>37 DEF HostTimeout, BusReset
  <2>2. hurt' \in BOOLEAN /\ msc_reset' \in BOOLEAN
    BY <1>37 DEF HostTimeout, BusReset
  <2> QED  BY <2>1, <2>2 DEF ControlType
<1>38. CASE UNCHANGED vars
  BY <1>38 DEF vars
<1>39. CASE EmptyBlock \/ ShortBlock
  <2>1. /\ UNCHANGED <<ejected, msc_reset, exit, card, ready, wp>>
        /\ pc' = "csw" /\ status' = "failed" /\ sense' = "invalid"
    BY Zenon, <1>39 DEF EmptyBlock, ShortBlock, Refuse, Take, Fail, Answer
  <2>2. hurt' \in BOOLEAN
    BY Zenon, <1>39 DEF EmptyBlock, ShortBlock, Refuse
  <2> QED  BY <2>1, <2>2
<1>40. CASE CardHangs
  BY <1>40 DEF CardHangs
<1> QED
  BY <1>1, <1>2, <1>3, <1>4, <1>5, <1>6, <1>7, <1>8, <1>9, <1>10, <1>11,
     <1>12, <1>13, <1>14, <1>15, <1>16, <1>17, <1>18, <1>19, <1>20, <1>21,
     <1>22, <1>23, <1>24, <1>25, <1>26, <1>27, <1>28, <1>29, <1>30, <1>31,
     <1>32, <1>33, <1>34, <1>35, <1>36, <1>37, <1>38, <1>39, <1>40
     DEF Next, Transport, Host

(* A step of the transport that neither starts nor carries on a transfer   *)
(* of blocks.                                                              *)
Taken ==
  \/ UNCHANGED <<cmd, out_fifo>>
  \/ cmd' = NoCommand /\ UNCHANGED out_fifo
  \/ /\ out_fifo # <<>> /\ out_fifo' = Tail(out_fifo)
     /\ \/ cmd' \in {cmd, NoCommand}
        \/ Head(out_fifo).kind = "cbw" /\ cmd' = Head(out_fifo).cmd

ControlStep ==
  /\ pc' \notin {"read_prime", "read_join", "read_last", "write_prime", "write_join", "write_last"}
  /\ UNCHANGED <<banks, disk, host, resets>> /\ XferType' /\ ep' \in Calls
  /\ Taken

LEMMA NoCommandType == NoCommand \in Tagged /\ Fits(NoCommand)
  BY BotAssumption DEF NoCommand, Tagged, Ops, Fits

LEMMA TakenKeepsPipe ==
  ASSUME PipeType, PipeInOrder, HostType, Taken, UNCHANGED host
  PROVE  PipeType' /\ PipeInOrder'
<1>1. CASE UNCHANGED <<cmd, out_fifo>>
  BY <1>1 DEF PipeType, PipeInOrder
<1>2. CASE UNCHANGED out_fifo /\ cmd' = NoCommand
  BY <1>2, NoCommandType DEF PipeType, PipeInOrder
<1>3. CASE /\ out_fifo # <<>> /\ out_fifo' = Tail(out_fifo)
           /\ \/ cmd' \in {cmd, NoCommand}
              \/ Head(out_fifo).kind = "cbw" /\ cmd' = Head(out_fifo).cmd
  <2>1. /\ out_fifo' \in Seq(Packet) /\ Len(out_fifo') < Len(out_fifo)
        /\ AllFit(out_fifo') /\ InOrder(out_fifo', host)
        /\ Head(out_fifo).kind = "cbw" => Head(out_fifo).cmd \in Tagged /\ Fits(Head(out_fifo).cmd)
    BY <1>3, AfterTheHead, PacketTypes DEF PipeType, PipeInOrder, HostType
  <2>2. cmd' \in Tagged /\ Fits(cmd')
    BY <1>3, <2>1, NoCommandType DEF PipeType
  <2>3. Len(out_fifo') <= FifoPackets
    BY <2>1, BotAssumption DEF PipeType
  <2> QED  BY <2>1, <2>2, <2>3 DEF PipeType, PipeInOrder
<1> QED  BY <1>1, <1>2, <1>3 DEF Taken

LEMMA ControlStepKeeps == Inv /\ ControlType' /\ ControlStep => Inv'
<1> SUFFICES ASSUME Inv, ControlType', ControlStep PROVE Inv'
  OBVIOUS
<1>1. PipeType' /\ PipeInOrder'
  BY TakenKeepsPipe DEF Inv, ControlStep
<1>2. HostType' /\ BanksType' /\ DiskType'
  BY DEF Inv, ControlStep, HostType, BanksType, DiskType, BlocksStayInPlace
<1>3. ReadInOrder' /\ BankInPlace' /\ XferFits' /\ SendFits'
  BY DEF ControlStep, ReadInOrder, Writing, BankInPlace, XferFits, SendFits, Streaming
<1> QED  BY <1>1, <1>2, <1>3 DEF Inv, ControlStep

LEMMA CallTypes == Busy \in Calls /\ Idle \in Calls
  BY DEF Busy, Idle, Calls

LEMMA ControlActions ==
  ASSUME Inv,
         \/ CbwReadFails \/ WaitEnabled \/ BadCbw \/ CswDone \/ EnterMode
         \/ TestUnitReady \/ EnsureReady \/ RequestSense \/ Inquiry \/ ReadCapacity
         \/ DataInDone \/ StartStopUnit \/ Unsupported \/ Drain \/ Drained
         \/ ReadDone \/ WriteDone \/ EmptyBlock \/ ShortBlock
  PROVE  ControlStep
<1> USE CallTypes DEF Inv, XferType, ControlStep, Taken, answer, scsi, xfer, medium, outside,
        LoopTop, Answer, Fail, Take, SendDataIn, StartDrain
<1>1. CASE CbwReadFails
  BY <1>1 DEF CbwReadFails
<1>2. CASE WaitEnabled
  BY <1>2 DEF WaitEnabled
<1>3. CASE BadCbw
  <2>1. Taken
    BY <1>3 DEF BadCbw
  <2> QED  BY <1>3, <2>1 DEF BadCbw
<1>4. CASE CswDone
  BY <1>4 DEF CswDone
<1>5. CASE EnterMode
  BY <1>5 DEF EnterMode
<1>6. CASE TestUnitReady
  BY <1>6 DEF TestUnitReady
<1>7. CASE EnsureReady
  BY <1>7 DEF EnsureReady
<1>8. CASE RequestSense
  BY <1>8 DEF RequestSense
<1>9. CASE Inquiry
  BY <1>9 DEF Inquiry
<1>10. CASE ReadCapacity
  BY <1>10 DEF ReadCapacity
<1>11. CASE DataInDone
  BY <1>11 DEF DataInDone
<1>12. CASE StartStopUnit
  BY <1>12 DEF StartStopUnit
<1>13. CASE Unsupported
  BY <1>13 DEF Unsupported
<1>14. CASE Drain
  <2>1. ep' \in Calls
    BY <1>14 DEF Drain, Calls
  <2> QED  BY <1>14, <2>1 DEF Drain
<1>15. CASE Drained
  BY <1>15 DEF Drained
<1>16. CASE ReadDone
  BY <1>16 DEF ReadDone
<1>17. CASE WriteDone
  BY <1>17 DEF WriteDone
<1>18. CASE EmptyBlock \/ ShortBlock
  BY <1>18 DEF EmptyBlock, ShortBlock, Refuse
<1> QED
  BY <1>1, <1>2, <1>3, <1>4, <1>5, <1>6, <1>7, <1>8, <1>9, <1>10, <1>11,
     <1>12, <1>13, <1>14, <1>15, <1>16, <1>17, <1>18

-----------------------------------------------------------------------------
(* The host                                                                *)

(* A reset, or the end of the session: the host sends no more data, and    *)
(* the call in flight fails, or is as it was, or is done by mistake.       *)
PipeStops ==
  /\ pc' \in {pc, "returned"}
  /\ UNCHANGED <<cmd, xfer, banks, disk>>
  /\ out_fifo' \in {out_fifo, <<>>}
  /\ host' = [host EXCEPT !.pc = host'.pc] /\ host'.pc \in HostPcs \ {"out"}
  /\ resets' \in 0 .. MaxResets
  /\ ep' \in Calls
  /\ ep'.st \in {"busy", "ok"} => ep' = ep \/ (Sending /\ ep.st = "busy" /\ ep' = Sent)

LEMMA SentIsACall ==
  ASSUME ep \in Calls, SendFits, ep.st = "busy"
  PROVE  /\ Sent \in Calls
         /\ Streaming /\ Sent.st = "busy" => Sent.pos < chunk
  BY DEF Sent, Calls, SendFits

LEMMA PipeStopsKeeps == Inv /\ ControlType' /\ PipeStops => Inv'
<1> SUFFICES ASSUME Inv, ControlType', PipeStops PROVE Inv'
  OBVIOUS
<1>1. host' \in Hosts /\ host'.cmd = host.cmd /\ host'.pc # "out"
  BY DEF Inv, PipeStops, HostType, Hosts, HostPcs
<1>2. XferType' /\ BanksType' /\ DiskType' /\ HostType' /\ ep' \in Calls
  BY <1>1 DEF Inv, PipeStops, XferType, BanksType, DiskType, BlocksStayInPlace, HostType, xfer
<1>3. PipeType' /\ PipeInOrder'
  <2>1. CASE out_fifo' = out_fifo
    BY <1>1, <2>1, HostLeavesPipe DEF Inv, PipeStops, PipeType, PipeInOrder
  <2>2. CASE out_fifo' = <<>>
    <3>1. <<>> \in Seq(Packet) /\ Len(<<>>) = 0 /\ AllFit(<<>>) /\ InOrder(<<>>, host')
      BY <1>1, EmptyPipe
    <3>2. UNCHANGED cmd /\ 0 <= FifoPackets
      BY BotAssumption DEF PipeStops
    <3> QED  BY <2>2, <3>1, <3>2 DEF Inv, PipeType, PipeInOrder
  <2> QED  BY <2>1, <2>2 DEF PipeStops
<1>4. ReadInOrder'
  <2> SUFFICES ASSUME Writing', ep'.st \in {"busy", "ok"} PROVE ReadInOrder'
    BY DEF ReadInOrder
  <2>1. /\ pc' = pc /\ ep' = ep /\ Writing /\ ep.st \in {"busy", "ok"}
        /\ OutWant' = OutWant /\ OutBank' = OutBank /\ Base' = Base
    BY DEF PipeStops, Writing, Sending, xfer, OutWant, next_chunk, Least, OutBank, other_bank, Base
  <2>2. ComesNext(out_fifo', host', Due(Base + ep.pos))
    <3>1. CASE out_fifo' = out_fifo
      BY <1>1, <2>1, <3>1, HostLeavesPipe DEF Inv, ReadInOrder
    <3>2. CASE out_fifo' = <<>>
      BY <1>1, <3>2, EmptyPipe
    <3> QED  BY <3>1, <3>2 DEF PipeStops
  <2> QED  BY <2>1, <2>2 DEF Inv, PipeStops, ReadInOrder, Due
<1>5. BankInPlace' /\ XferFits'
  BY DEF Inv, PipeStops, BankInPlace, XferFits, xfer, Due
<1>6. SendFits'
  BY SentIsACall DEF Inv, PipeStops, SendFits, Streaming, xfer
<1> QED  BY <1>1, <1>2, <1>3, <1>4, <1>5, <1>6 DEF Inv

LEMMA StoppingActions ==
  ASSUME Inv, \/ Exit \/ Attach \/ UntimelyReset \/ HostTimeout
              \/ SetConfiguration \/ ClassReset \/ ClearHalts
  PROVE  PipeStops
<1>1. CASE Exit
  BY <1>1, CallTypes DEF Inv, HostType, Hosts, HostPcs, Exit, PipeStops, answer, medium, Idle
<1>2. ASSUME BusReset, resets' \in 0 .. MaxResets PROVE PipeStops
  <2>1. /\ ep' = ep \/ ep' = [ep EXCEPT !.st = "err"]
        /\ ep'.st \in {"busy", "ok"} => ep' = ep
    BY <1>2 DEF Inv, Calls, BusReset
  <2>2. ep' \in Calls
    BY <2>1 DEF Inv, Calls
  <2>3. host' = [host EXCEPT !.pc = "reset"] /\ host'.pc = "reset"
    BY <1>2 DEF BusReset, Inv, HostType, Hosts
  <2> QED
    BY <1>2, <2>1, <2>2, <2>3 DEF BusReset, HostPcs, PipeStops, answer, medium
<1>3. CASE Attach
  BY <1>2, <1>3 DEF Inv, HostType, Attach
<1>4. CASE UntimelyReset
  BY <1>2, <1>4, BotAssumption DEF Inv, HostType, UntimelyReset
<1>5. CASE HostTimeout
  BY <1>2, <1>5 DEF Inv, HostType, HostTimeout
<1>6. ASSUME PipesReset
      PROVE  /\ ep' \in Calls
             /\ ep'.st \in {"busy", "ok"} => ep' = ep \/ (Sending /\ ep.st = "busy" /\ ep' = Sent)
  <2>1. CASE Sending /\ ep.st = "busy" /\ ep' = [ep EXCEPT !.st = "stuck"]
    BY <2>1 DEF Inv, Calls
  <2>2. CASE Sending /\ ep.st = "busy" /\ ep' = Sent
    BY <2>2, SentIsACall DEF Inv
  <2>3. CASE ep' = ep
    BY <2>3 DEF Inv
  <2> QED  BY <1>6, <2>1, <2>2, <2>3 DEF PipesReset
<1>7. CASE SetConfiguration
  BY <1>6, <1>7 DEF Inv, HostType, Hosts, HostPcs, SetConfiguration, PipesReset, PipeStops, answer, medium
<1>8. CASE ClassReset
  <2>1. resets' \in 0 .. MaxResets
    BY <1>8, BotAssumption DEF Inv, HostType, ClassReset
  <2> QED
    BY <1>8, <2>1 DEF Inv, HostType, Hosts, HostPcs, ClassReset, PipeStops, answer, medium
<1>9. CASE ClearHalts
  BY <1>6, <1>9 DEF Inv, HostType, Hosts, HostPcs, ClearHalts, PipesReset, PipeStops, answer, medium
<1> QED  BY <1>1, <1>3, <1>4, <1>5, <1>7, <1>8, <1>9

(* A packet of the host.                                                   *)
LEMMA SendKeeps ==
  ASSUME Inv, ControlType', HostType', NEW p \in Packet,
         Len(out_fifo) < FifoPackets, out_fifo' = Append(out_fifo, p),
         p.kind = "cbw" => Fits(p.cmd),
         p.kind = "data" => host.pc = "out" /\ p.block = Upcoming(host),
         host'.pc = "out" => Upcoming(host') = After(p),
         UNCHANGED <<pc, cmd, xfer, banks, disk, ep>>
  PROVE  Inv'
<1>1. XferType' /\ BanksType' /\ DiskType' /\ ep' \in Calls
  BY DEF Inv, XferType, BanksType, DiskType, BlocksStayInPlace, xfer
<1>2. PipeType' /\ PipeInOrder'
  <2>1. /\ Append(out_fifo, p) \in Seq(Packet) /\ Len(Append(out_fifo, p)) = Len(out_fifo) + 1
        /\ AllFit(Append(out_fifo, p)) /\ InOrder(Append(out_fifo, p), host')
    BY OneMorePacket DEF Inv, PipeType, PipeInOrder
  <2> QED  BY <2>1, BotAssumption DEF Inv, PipeType, PipeInOrder
<1>3. ReadInOrder'
  <2> SUFFICES ASSUME Writing', ep'.st \in {"busy", "ok"} PROVE ReadInOrder'
    BY DEF ReadInOrder
  <2>1. /\ Writing /\ OutWant' = OutWant /\ OutBank' = OutBank /\ Base' = Base
    BY DEF Writing, xfer, OutWant, next_chunk, Least, OutBank, other_bank, Base
  <2>2. ComesNext(out_fifo', host', Due(Base + ep.pos))
    BY <2>1, OneMorePacket DEF Inv, ReadInOrder, PipeType, PipeInOrder
  <2> QED  BY <2>1, <2>2 DEF Inv, ReadInOrder, Due
<1>4. BankInPlace' /\ XferFits' /\ SendFits'
  BY DEF Inv, BankInPlace, XferFits, SendFits, Streaming, xfer, Due
<1> QED  BY <1>1, <1>2, <1>3, <1>4 DEF Inv

LEMMA SendCbwKeeps == Inv /\ ControlType' /\ SendCbw => Inv'
<1> SUFFICES ASSUME Inv, ControlType', SendCbw PROVE Inv'
  OBVIOUS
<1>1. PICK c \in Commands :
        LET k == [tag |-> host.tag + 1, op |-> c.op, lba |-> c.lba, blocks |-> c.blocks]
        IN  /\ out_fifo' = Append(out_fifo, [kind |-> "cbw", cmd |-> k])
            /\ host' = [pc |-> DataPhase(k), tag |-> host.tag + 1, cmd |-> k,
                        got |-> <<>>, sent |-> 0]
  BY DEF SendCbw
<1> DEFINE k == [tag |-> host.tag + 1, op |-> c.op, lba |-> c.lba, blocks |-> c.blocks]
           p == [kind |-> "cbw", cmd |-> k]
<1>2. c \in Command /\ Fits(c)
  BY BotAssumption DEF Fits
<1>3. k \in Tagged /\ Fits(k) /\ k.lba = c.lba
  <2>1. host.tag + 1 \in 0 .. MaxTag
    BY BotAssumption DEF Inv, HostType, Hosts, SendCbw
  <2>2. c.op \in Ops /\ c.lba \in 0 .. BlockCount - 1 /\ c.blocks \in 0 .. BlockCount
    BY <1>2 DEF Command
  <2> QED  BY <1>2, <2>1, <2>2 DEF Tagged, Fits
<1>4. DataPhase(k) \in HostPcs /\ (DataPhase(k) = "out" => k.blocks > 0)
  BY <1>3, BotAssumption DEF DataPhase, HostPcs, Tagged
<1>5. host'.pc = DataPhase(k) /\ host'.cmd = k /\ host'.sent = 0 /\ host'.tag = k.tag
      /\ out_fifo' = Append(out_fifo, p) /\ resets' = resets
  BY <1>1 DEF SendCbw
<1>6. host' \in Hosts
  <2>1. host.tag + 1 \in 0 .. MaxTag
    BY BotAssumption DEF Inv, HostType, Hosts, SendCbw
  <2>2. <<>> \in Seq(Block \cup {Torn}) /\ 0 \in 0 .. BlockCount
    BY BotAssumption
  <2> QED  BY <1>1, <1>3, <1>4, <2>1, <2>2 DEF Hosts
<1>7. p \in Packet /\ p.kind = "cbw" /\ p.cmd = k /\ After(p) = [by |-> k.tag, at |-> k.lba]
  BY <1>3 DEF Packet, After
<1>8. Len(out_fifo) < FifoPackets /\ UNCHANGED <<pc, cmd, xfer, banks, disk, ep>>
  BY DEF SendCbw, answer, medium
<1> HIDE DEF k, p
<1>9. HostType'
  BY <1>3, <1>4, <1>5, <1>6 DEF Inv, HostType
<1>10. Upcoming(host') = After(p)
  BY <1>3, <1>5, <1>7, BotAssumption DEF Tagged, Upcoming
<1> QED  BY <1>3, <1>5, <1>7, <1>8, <1>9, <1>10, SendKeeps

LEMMA SendDataKeeps == Inv /\ ControlType' /\ SendData => Inv'
<1> SUFFICES ASSUME Inv, ControlType', SendData PROVE Inv'
  OBVIOUS
<1> DEFINE b == [by |-> host.tag, at |-> host.cmd.lba + host.sent]
           p == [kind |-> "data", block |-> b]
<1>1. /\ host.pc = "out" /\ Len(out_fifo) < FifoPackets /\ out_fifo' = Append(out_fifo, p)
      /\ host' = [host EXCEPT !.sent = host.sent + 1,
                    !.pc = IF host.sent + 1 = host.cmd.blocks THEN "status" ELSE "out"]
      /\ UNCHANGED <<pc, cmd, xfer, banks, disk, ep, resets>>
  BY DEF SendData, answer, medium
<1>2. /\ host.cmd.lba \in Nat /\ host.cmd.blocks \in 0 .. BlockCount /\ host.sent \in Nat
      /\ host.sent < host.cmd.blocks /\ host.cmd.lba + host.cmd.blocks <= BlockCount
      /\ host.tag \in 0 .. MaxTag
  BY <1>1, BotAssumption DEF Inv, HostType, Hosts, Tagged, Fits
<1>3. p \in Packet /\ p.kind = "data" /\ p.block = Upcoming(host)
      /\ After(p) = [by |-> host.tag, at |-> host.cmd.lba + host.sent + 1]
  BY <1>2, BotAssumption DEF Packet, Block, After, Upcoming
<1>4. /\ host' \in Hosts /\ host'.cmd = host.cmd /\ host'.sent = host.sent + 1
      /\ host'.tag = host.tag
      /\ host'.pc = "out" => host.sent + 1 # host.cmd.blocks
  <2>1. host \in Hosts
    BY DEF Inv, HostType
  <2>2. host.sent + 1 \in 0 .. BlockCount
    BY <1>2, BotAssumption
  <2> QED  BY <1>1, <2>1, <2>2 DEF Hosts, HostPcs
<1> HIDE DEF b, p
<1>5. HostType'
  BY <1>1, <1>2, <1>4 DEF Inv, HostType
<1>6. Upcoming(host') = After(p)
  <2>1. host.cmd.lba + (host.sent + 1) = host.cmd.lba + host.sent + 1
    BY <1>2
  <2> QED  BY <1>3, <1>4, <2>1 DEF Upcoming
<1> QED  BY <1>1, <1>3, <1>5, <1>6, SendKeeps

LEMMA TakeInKeeps == Inv /\ ControlType' /\ TakeIn => Inv'
<1> SUFFICES ASSUME Inv, ControlType', TakeIn PROVE Inv'
  OBVIOUS
<1>1. /\ Sending /\ ep.st = "busy" /\ ep' = Sent /\ host' = Took(InPacket)
      /\ host.pc \in {"in", "status"}
      /\ UNCHANGED <<pc, cmd, out_fifo, xfer, banks, disk, resets>>
  BY DEF TakeIn, CanTake, answer, medium
<1>2. /\ ep' \in Calls
      /\ Streaming /\ ep'.st = "busy" => ep'.pos < chunk
  BY <1>1, SentIsACall DEF Inv
<1>3. InPacket.kind = "data" => InPacket.block \in Block \cup {Torn}
  <2> SUFFICES ASSUME InPacket.kind = "data" PROVE InPacket.block \in Block \cup {Torn}
    OBVIOUS
  <2>1. Streaming /\ chunk # 0 /\ InPacket = [kind |-> "data", block |-> banks[cur][ep.pos + 1]]
    BY <1>1 DEF InPacket, Sending, Streaming
  <2>2. ep.pos + 1 \in 1 .. ChunkSectors /\ cur \in {0, 1}
    BY <1>1, <2>1, BotAssumption DEF Inv, SendFits, XferType, Calls
  <2> QED  BY <2>1, <2>2 DEF Inv, BanksType
<1>4. host' \in Hosts /\ host'.pc # "out" /\ host'.cmd = host.cmd
  <2>1. host \in Hosts
    BY DEF Inv, HostType
  <2>2. CASE host' = [host EXCEPT !.pc = host'.pc] /\ host'.pc \in {"idle", "error", "status"}
    BY <2>1, <2>2 DEF Hosts, HostPcs
  <2>3. CASE /\ InPacket.kind = "data"
             /\ host' = [host EXCEPT !.got = Append(@, InPacket.block), !.pc = host'.pc]
             /\ host'.pc \in {"status", "in"}
    <3>1. Append(host.got, InPacket.block) \in Seq(Block \cup {Torn})
      BY <1>3, <2>1, <2>3 DEF Hosts
    <3> QED  BY <2>1, <2>3, <3>1 DEF Hosts, HostPcs
  <2> QED  BY <1>1, <2>1, <2>2, <2>3 DEF Took, Hosts
<1>5. XferType' /\ BanksType' /\ DiskType' /\ HostType'
  BY <1>1, <1>4 DEF Inv, XferType, BanksType, DiskType, BlocksStayInPlace, HostType, xfer
<1>6. PipeType' /\ PipeInOrder'
  BY <1>1, <1>4, HostLeavesPipe DEF Inv, PipeType, PipeInOrder
<1>7. ReadInOrder' /\ BankInPlace' /\ XferFits' /\ SendFits'
  BY <1>1, <1>2 DEF Inv, ReadInOrder, Writing, Sending, Streaming, BankInPlace, XferFits, SendFits, xfer, Due
<1> QED  BY <1>2, <1>5, <1>6, <1>7 DEF Inv

LEMMA PressBackKeeps == Inv /\ ControlType' /\ PressBack => Inv'
<1> SUFFICES ASSUME Inv, ControlType', PressBack PROVE Inv'
  OBVIOUS
<1>1. UNCHANGED <<pc, cmd, out_fifo, xfer, banks, disk, ep, host, resets>>
  BY DEF PressBack, answer, medium, outside
<1>2. XferType' /\ PipeType' /\ HostType' /\ BanksType' /\ DiskType' /\ PipeInOrder'
  BY <1>1 DEF Inv, XferType, PipeType, HostType, BanksType, DiskType, BlocksStayInPlace, PipeInOrder, xfer
<1>3. ReadInOrder' /\ BankInPlace' /\ XferFits' /\ SendFits'
  BY <1>1 DEF Inv, ReadInOrder, Writing, Base, OutWant, OutBank, next_chunk, other_bank, Least,
     Streaming, BankInPlace, XferFits, SendFits, xfer, Due
<1> QED  BY <1>1, <1>2, <1>3 DEF Inv

-----------------------------------------------------------------------------
(* READ                                                                    *)

LEMMA LeastFits ==
  ASSUME NEW n \in Nat
  PROVE  Least(n, ChunkSectors) \in 0 .. ChunkSectors /\ Least(n, ChunkSectors) <= n
  BY BotAssumption DEF Least

(* A bank goes out: it is the first of its packets that comes next.        *)
LEMMA SendBankKeeps ==
  ASSUME Inv, ControlType', XferType', ep' = Busy,
         pc' \in {"read_join", "read_last"}, at' + remaining' <= BlockCount,
         UNCHANGED <<cmd, out_fifo, banks, disk, host, resets>>
  PROVE  Inv'
<1>1. PipeType' /\ HostType' /\ BanksType' /\ DiskType' /\ PipeInOrder' /\ ep' \in Calls
  BY CallTypes DEF Inv, PipeType, HostType, BanksType, DiskType, BlocksStayInPlace, PipeInOrder
<1>2. ReadInOrder' /\ BankInPlace' /\ XferFits'
  BY DEF ReadInOrder, Writing, BankInPlace, XferFits
<1>3. SendFits'
  BY DEF SendFits, XferType, Busy
<1> QED  BY <1>1, <1>2, <1>3 DEF Inv

LEMMA ReadKeeps == Inv /\ ControlType' /\ Read => Inv'
<1> SUFFICES ASSUME Inv, ControlType', Read PROVE Inv'
  OBVIOUS
<1>1. /\ out_fifo # <<>> /\ Head(out_fifo).kind = "cbw" /\ cmd' = Head(out_fifo).cmd
      /\ out_fifo' = Tail(out_fifo) /\ UNCHANGED <<banks, disk, host, resets>>
  BY DEF Read, Take
<1>2. CASE ejected
  <2>1. pc' = "csw" /\ ep' = Busy /\ UNCHANGED xfer
    BY <1>2 DEF Read, Fail, Answer
  <2> QED
    BY <1>1, <2>1, CallTypes, ControlStepKeeps DEF Inv, ControlStep, Taken, XferType, xfer
<1>3. CASE ~ejected
  <2>1. /\ remaining' = cmd'.blocks /\ at' = cmd'.lba /\ cur' = 0
        /\ chunk' = Least(cmd'.blocks, ChunkSectors)
        /\ pc' = "read_prime" /\ ep' = Idle
    BY <1>3 DEF Read
  <2>2. PipeType' /\ PipeInOrder'
    BY <1>1, TakenKeepsPipe DEF Inv, Taken
  <2>3. /\ cmd'.blocks \in 0 .. BlockCount /\ cmd'.lba \in 0 .. BlockCount - 1
        /\ cmd'.lba + cmd'.blocks <= BlockCount
    BY <2>2 DEF PipeType, Tagged, Fits
  <2>4. XferType' /\ XferFits'
    BY <2>1, <2>3, LeastFits, BotAssumption DEF XferType, XferFits
  <2>5. HostType' /\ BanksType' /\ DiskType' /\ ep' \in Calls
    BY <1>1, <2>1, CallTypes DEF Inv, HostType, BanksType, DiskType, BlocksStayInPlace
  <2>6. ReadInOrder' /\ BankInPlace' /\ SendFits'
    BY <2>1 DEF ReadInOrder, Writing, BankInPlace, SendFits, Streaming
  <2> QED  BY <2>2, <2>4, <2>5, <2>6 DEF Inv
<1> QED  BY <1>2, <1>3

LEMMA CardReadsKeeps == Inv /\ ControlType' /\ CardReads => Inv'
<1> SUFFICES ASSUME Inv, ControlType', CardReads PROVE Inv'
  OBVIOUS
<1>1. /\ pc \in {"read_prime", "read_join"}
      /\ UNCHANGED <<pc, cmd, out_fifo, xfer, disk, ep, host, resets>>
  BY DEF CardReads, answer, outside
<1>2. BanksType'
  <2> DEFINE b == IF pc = "read_prime" THEN 0 ELSE other_bank
             n == IF pc = "read_prime" THEN chunk ELSE next_chunk
             fill == [i \in 1 .. ChunkSectors |->
                        IF i <= n THEN disk[at + i - 1] ELSE banks[b][i]]
  <2>1. n <= remaining /\ n \in Nat /\ at + remaining <= BlockCount /\ at \in Nat
    BY <1>1, LeastFits, BotAssumption DEF Inv, XferType, XferFits, next_chunk
  <2>2. b \in {0, 1}
    BY DEF Inv, XferType, other_bank
  <2>3. ASSUME NEW i \in 1 .. ChunkSectors PROVE fill[i] \in Block \cup {Torn}
    <3>1. CASE i <= n
      <4>1. at + i - 1 \in 0 .. BlockCount - 1
        BY <2>1, <3>1, BotAssumption DEF Inv, XferType
      <4> QED  BY <3>1, <4>1 DEF Inv, DiskType
    <3>2. CASE ~(i <= n)
      BY <2>2, <3>2 DEF Inv, BanksType
    <3> QED  BY <3>1, <3>2
  <2>4. banks' = banks \/ banks' = [banks EXCEPT ![b] = fill]
    BY DEF CardReads
  <2>5. fill \in [1 .. ChunkSectors -> Block \cup {Torn}]
    BY <2>3
  <2> HIDE DEF b, n, fill
  <2> QED  BY <2>2, <2>4, <2>5 DEF Inv, BanksType
<1>3. XferType' /\ PipeType' /\ HostType' /\ DiskType' /\ PipeInOrder'
  BY <1>1 DEF Inv, XferType, PipeType, HostType, DiskType, BlocksStayInPlace, PipeInOrder, xfer
<1>4. ReadInOrder' /\ BankInPlace' /\ XferFits' /\ SendFits'
  BY <1>1 DEF Inv, ReadInOrder, Writing, BankInPlace, XferFits, SendFits, Streaming, xfer
<1> QED  BY <1>1, <1>2, <1>3, <1>4 DEF Inv

LEMMA ReadPrimedKeeps == Inv /\ ControlType' /\ ReadPrimed => Inv'
<1> SUFFICES ASSUME Inv, ControlType', ReadPrimed PROVE Inv'
  OBVIOUS
<1>1. UNCHANGED <<cmd, out_fifo, banks, disk, host, resets>> /\ pc = "read_prime"
  BY DEF ReadPrimed, outside
<1>2. CASE card = "err"
  <2>1. pc' = "csw" /\ ep' = Busy /\ UNCHANGED xfer
    BY <1>2 DEF ReadPrimed, Fail, Answer
  <2> QED
    BY <1>1, <2>1, CallTypes, ControlStepKeeps DEF Inv, ControlStep, Taken, XferType, xfer
<1>3. CASE card = "ok"
  <2>1. /\ remaining' = remaining - chunk /\ at' = at + chunk /\ UNCHANGED <<chunk, cur>>
        /\ pc' \in {"read_join", "read_last"} /\ ep' = Busy
    BY <1>3 DEF ReadPrimed, SendBank
  <2>2. XferType' /\ at' + remaining' <= BlockCount
    BY <1>1, <2>1, BotAssumption DEF Inv, XferType, XferFits
  <2> QED  BY <1>1, <2>1, <2>2, SendBankKeeps
<1> QED  BY <1>2, <1>3 DEF ReadPrimed

LEMMA ReadJoinedKeeps == Inv /\ ControlType' /\ ReadJoined => Inv'
<1> SUFFICES ASSUME Inv, ControlType', ReadJoined PROVE Inv'
  OBVIOUS
<1>1. UNCHANGED <<cmd, out_fifo, banks, disk, host, resets>> /\ pc = "read_join"
  BY DEF ReadJoined
<1>2. CASE ep.st = "err" \/ card = "err"
  <2>1. pc' = "csw" /\ ep' = Busy /\ UNCHANGED xfer
    BY <1>2 DEF ReadJoined, Fail, Answer
  <2> QED
    BY <1>1, <2>1, CallTypes, ControlStepKeeps DEF Inv, ControlStep, Taken, XferType, xfer
<1>3. CASE ep.st = "ok" /\ card = "ok"
  <2>1. /\ chunk' = next_chunk /\ at' = at + next_chunk
        /\ remaining' = remaining - next_chunk /\ cur' = other_bank
        /\ pc' \in {"read_join", "read_last"} /\ ep' = Busy
    BY <1>3 DEF ReadJoined, SendBank
  <2>2. next_chunk \in 0 .. ChunkSectors /\ next_chunk <= remaining /\ other_bank \in {0, 1}
    BY LeastFits, BotAssumption DEF Inv, XferType, next_chunk, other_bank
  <2>3. XferType' /\ at' + remaining' <= BlockCount
    BY <1>1, <2>1, <2>2, BotAssumption DEF Inv, XferType, XferFits
  <2> QED  BY <1>1, <2>1, <2>3, SendBankKeeps
<1> QED  BY <1>2, <1>3 DEF ReadJoined

-----------------------------------------------------------------------------
(* WRITE                                                                   *)

LEMMA WantFits ==
  ASSUME Inv, Writing
  PROVE  /\ OutWant \in 0 .. ChunkSectors /\ OutBank \in {0, 1}
         /\ Base \in Nat /\ Base + OutWant <= BlockCount
         /\ pc = "write_join" => OutBank # cur
<1>1. CASE pc = "write_prime"
  BY <1>1, BotAssumption DEF Inv, XferType, XferFits, OutWant, OutBank, Base
<1>2. CASE pc = "write_join"
  <2>1. next_chunk \in 0 .. ChunkSectors /\ next_chunk <= remaining
    BY LeastFits, BotAssumption DEF Inv, XferType, next_chunk
  <2> QED
    BY <1>2, <2>1, BotAssumption DEF Inv, XferType, XferFits, OutWant, OutBank, other_bank, Base
<1> QED  BY <1>1, <1>2 DEF Writing

LEMMA ReceiveBlockKeeps == Inv /\ ControlType' /\ ReceiveBlock => Inv'
<1> SUFFICES ASSUME Inv, ControlType', ReceiveBlock PROVE Inv'
  OBVIOUS
<1> DEFINE p == Head(out_fifo)
<1>1. /\ Writing /\ ep.st = "busy" /\ out_fifo # <<>> /\ OutWant > 0
      /\ out_fifo' = Tail(out_fifo)
      /\ UNCHANGED <<pc, cmd, xfer, disk, host, resets>>
  BY DEF ReceiveBlock, Writing, answer, medium, outside
<1>2. /\ OutWant \in 0 .. ChunkSectors /\ OutBank \in {0, 1} /\ Base \in Nat
      /\ pc = "write_join" => OutBank # cur
  BY <1>1, WantFits
<1>3. /\ OutWant' = OutWant /\ OutBank' = OutBank /\ Base' = Base /\ Writing'
  BY <1>1 DEF Writing, xfer, OutWant, next_chunk, Least, OutBank, other_bank, Base
<1>4. PipeType' /\ PipeInOrder'
  BY <1>1, TakenKeepsPipe DEF Inv, Taken
<1>5. XferType' /\ HostType' /\ DiskType' /\ XferFits'
  BY <1>1 DEF Inv, XferType, HostType, DiskType, BlocksStayInPlace, XferFits, xfer
<1>6. SendFits'
  BY <1>3 DEF SendFits, Streaming, Writing
<1>7. /\ ComesNext(Tail(out_fifo), host, After(p)) /\ out_fifo[1] = p /\ p \in Packet
  BY <1>1, AfterTheHead DEF Inv, PipeType, PipeInOrder, HostType
<1>8. CASE p.kind = "cbw"
  <2>1. ep' = [ep EXCEPT !.st = "short"] /\ UNCHANGED banks
    BY <1>8 DEF ReceiveBlock
  <2>2. ep' \in Calls /\ ep'.st = "short"
    BY <2>1 DEF Inv, Calls
  <2>3. BanksType' /\ BankInPlace' /\ ReadInOrder'
    BY <1>1, <2>1, <2>2 DEF Inv, BanksType, BankInPlace, ReadInOrder, xfer, Due
  <2> QED  BY <1>4, <1>5, <1>6, <2>2, <2>3 DEF Inv
<1>9. CASE p.kind = "data"
  <2> DEFINE n == ep.pos + 1
  <2>1. /\ banks' = [banks EXCEPT ![OutBank][n] = p.block]
        /\ ep' = [st |-> IF n = OutWant THEN "ok" ELSE "busy", pos |-> n]
    BY <1>9 DEF ReceiveBlock
  <2>2. /\ ep.pos \in Nat /\ ep.pos < OutWant
        /\ n \in 1 .. OutWant /\ n \in 1 .. ChunkSectors
    BY <1>1, <1>2, BotAssumption DEF Inv, ReadInOrder, Calls
  <2>3. p.block \in Block /\ p.block = Due(Base + ep.pos)
    BY <1>1, <1>7, <1>9, PacketTypes DEF Inv, ReadInOrder, ComesNext
  <2>4. ep' \in Calls /\ ep'.pos = n /\ (ep'.st = "ok" <=> n = OutWant) /\ (ep'.st = "busy" <=> n # OutWant)
    BY <2>1, <2>2 DEF Calls
  <2>5. /\ BanksType' /\ banks'[OutBank][n] = p.block
        /\ \A i \in 1 .. ChunkSectors : i # n => banks'[OutBank][i] = banks[OutBank][i]
        /\ pc = "write_join" => banks'[cur] = banks[cur]
    BY <1>2, <2>1, <2>2, <2>3 DEF Inv, BanksType, XferType
  <2>6. After(p) = Due(Base + n)
    <3>1. Base + ep.pos + 1 = Base + n
      BY <1>2, <2>2
    <3> QED  BY <1>9, <2>3, <3>1 DEF After, Due
  <2>7. \A i \in 1 .. n : banks'[OutBank][i] = Due(Base + i - 1)
    <3> SUFFICES ASSUME NEW i \in 1 .. n PROVE banks'[OutBank][i] = Due(Base + i - 1)
      OBVIOUS
    <3>1. CASE i = n
      <4>1. Base + ep.pos = Base + i - 1
        BY <1>2, <2>2, <3>1
      <4> QED  BY <2>3, <2>5, <3>1, <4>1
    <3>2. CASE i # n
      <4>1. i \in 1 .. ep.pos /\ i \in 1 .. ChunkSectors
        BY <2>2, <3>2, BotAssumption
      <4> QED  BY <1>1, <2>5, <3>2, <4>1 DEF Inv, ReadInOrder
    <3> QED  BY <3>1, <3>2
  <2>8. ReadInOrder'
    <3> HIDE DEF n, p
    <3>1. /\ ep'.pos <= OutWant' /\ (ep'.st = "ok" => ep'.pos = OutWant')
          /\ ep'.st = "busy" /\ OutWant' > 0 => ep'.pos < OutWant'
      BY <1>2, <1>3, <2>2, <2>4
    <3>2. ComesNext(out_fifo', host', Due(Base' + ep'.pos))
      BY <1>1, <1>3, <1>7, <2>4, <2>6
    <3>3. \A i \in 1 .. ep'.pos : banks'[OutBank'][i] = Due(Base' + i - 1)
      BY <1>3, <2>4, <2>7
    <3> QED  BY <1>1, <3>1, <3>2, <3>3 DEF ReadInOrder, Due
  <2>9. BankInPlace'
    <3>1. pc' \in {"write_prime", "write_join"} /\ cur' = cur /\ chunk' = chunk /\ at' = at
      BY <1>1 DEF xfer, Writing
    <3> QED  BY <1>1, <2>5, <3>1 DEF Inv, BankInPlace, xfer, Due
  <2> QED  BY <1>4, <1>5, <1>6, <2>4, <2>5, <2>8, <2>9 DEF Inv
<1> QED  BY <1>7, <1>8, <1>9, PacketTypes

LEMMA WriteKeeps == Inv /\ ControlType' /\ Write => Inv'
<1> SUFFICES ASSUME Inv, ControlType', Write PROVE Inv'
  OBVIOUS
<1>1. /\ out_fifo # <<>> /\ Head(out_fifo).kind = "cbw" /\ cmd' = Head(out_fifo).cmd
      /\ out_fifo' = Tail(out_fifo) /\ UNCHANGED <<banks, disk, host, resets>>
  BY DEF Write, Take
<1>2. CASE ready /\ wp
  <2>1. pc' \in {"csw", "drain"} /\ ep' = Busy /\ UNCHANGED xfer
    BY <1>2 DEF Write, Fail, Answer, StartDrain
  <2> QED
    BY <1>1, <2>1, CallTypes, ControlStepKeeps DEF Inv, ControlStep, Taken, XferType, xfer
<1>3. CASE ~(ready /\ wp)
  <2>1. /\ remaining' = cmd'.blocks /\ at' = cmd'.lba /\ cur' = 0
        /\ chunk' = Least(cmd'.blocks, ChunkSectors)
        /\ pc' = "write_prime" /\ ep' = Busy
    BY <1>3 DEF Write
  <2>2. PipeType' /\ PipeInOrder'
    BY <1>1, TakenKeepsPipe DEF Inv, Taken
  <2>3. /\ cmd'.blocks \in 0 .. BlockCount /\ cmd'.lba \in 0 .. BlockCount - 1
        /\ cmd'.lba + cmd'.blocks <= BlockCount
    BY <2>2 DEF PipeType, Tagged, Fits
  <2>4. XferType' /\ XferFits'
    BY <2>1, <2>3, LeastFits, BotAssumption DEF XferType, XferFits
  <2>5. HostType' /\ BanksType' /\ DiskType' /\ ep' \in Calls
    BY <1>1, <2>1, CallTypes DEF Inv, HostType, BanksType, DiskType, BlocksStayInPlace
  <2>6. BankInPlace' /\ SendFits'
    BY <2>1 DEF BankInPlace, SendFits, Streaming
  <2>7. ComesNext(out_fifo', host', [by |-> cmd'.tag, at |-> at'])
    BY <1>1, <2>1, AfterTheHead DEF Inv, PipeType, PipeInOrder, HostType, After
  <2>8. ReadInOrder'
    <3>1. OutWant' = chunk' /\ Base' = at' /\ ep'.pos = 0 /\ ep'.st = "busy" /\ at' + 0 = at'
      BY <2>1, <2>3, BotAssumption DEF OutWant, Base, Busy
    <3> QED  BY <2>4, <2>7, <3>1, BotAssumption DEF ReadInOrder, XferType, Due
  <2> QED  BY <2>2, <2>4, <2>5, <2>6, <2>8 DEF Inv
<1> QED  BY <1>2, <1>3

(* The bank just received is committed, and the read of the next begins.   *)
LEMMA CommitBankKeeps ==
  ASSUME Inv, ControlType', XferType', CommitBank(remaining'),
         at' + chunk' + remaining' <= BlockCount,
         \A i \in 1 .. chunk' : banks[cur'][i] = Due(at' + i - 1),
         ComesNext(out_fifo, host, Due(at' + chunk')),
         UNCHANGED <<cmd, out_fifo, banks, disk, host, resets>>
  PROVE  Inv'
<1>1. /\ pc' = (IF remaining' > 0 THEN "write_join" ELSE "write_last")
      /\ ep' = (IF remaining' > 0 THEN Busy ELSE Idle)
  BY DEF CommitBank
<1>2. PipeType' /\ HostType' /\ BanksType' /\ DiskType' /\ PipeInOrder' /\ ep' \in Calls
  BY <1>1, CallTypes DEF Inv, PipeType, HostType, BanksType, DiskType, BlocksStayInPlace, PipeInOrder
<1>3. BankInPlace' /\ XferFits' /\ SendFits'
  BY <1>1 DEF BankInPlace, XferFits, SendFits, Streaming, Due
<1>4. ReadInOrder'
  <2> SUFFICES ASSUME Writing', ep'.st \in {"busy", "ok"} PROVE ReadInOrder'
    BY DEF ReadInOrder
  <2>1. pc' = "write_join" /\ ep' = Busy
    BY <1>1 DEF Writing
  <2>2. OutWant' \in Nat
    BY <2>1, BotAssumption DEF OutWant, next_chunk, Least, XferType
  <2>3. Base' = at' + chunk' /\ Base' \in Nat /\ Base' + 0 = Base'
    <3>1. at' \in Nat /\ chunk' \in Nat
      BY BotAssumption DEF XferType
    <3>2. Base' = at' + chunk'
      BY <2>1 DEF Base
    <3>3. \A a, c \in Nat : a + c \in Nat /\ a + c + 0 = a + c
      OBVIOUS
    <3> QED  BY <3>1, <3>2, <3>3
  <2>4. ep'.pos = 0 /\ ep'.st = "busy"
    BY <2>1 DEF Busy
  <2> QED  BY <2>2, <2>3, <2>4 DEF ReadInOrder, Due
<1> QED  BY <1>2, <1>3, <1>4 DEF Inv

LEMMA WritePrimedKeeps == Inv /\ ControlType' /\ WritePrimed => Inv'
<1> SUFFICES ASSUME Inv, ControlType', WritePrimed PROVE Inv'
  OBVIOUS
<1>1. UNCHANGED <<cmd, out_fifo, banks, disk, host, resets>> /\ pc = "write_prime" /\ Writing
  BY DEF WritePrimed, outside, Writing
<1>2. CASE ~got_all
  <2>1. pc' = "csw" /\ ep' = Busy /\ UNCHANGED xfer
    BY <1>2 DEF WritePrimed, Answer
  <2> QED
    BY <1>1, <2>1, CallTypes, ControlStepKeeps DEF Inv, ControlStep, Taken, XferType, xfer
<1>3. CASE got_all
  <2>1. /\ remaining' = remaining - chunk /\ UNCHANGED <<chunk, at, cur>>
        /\ CommitBank(remaining')
    BY <1>3 DEF WritePrimed
  <2>2. XferType' /\ at' + chunk' + remaining' <= BlockCount
    BY <1>1, <2>1, BotAssumption DEF Inv, XferType, XferFits
  <2>3. /\ ep.pos = chunk /\ OutBank = cur /\ Base = at
        /\ ComesNext(out_fifo, host, Due(Base + ep.pos))
        /\ \A i \in 1 .. ep.pos : banks[OutBank][i] = Due(Base + i - 1)
    BY <1>1, <1>3 DEF got_all, Inv, ReadInOrder, BankInPlace, OutWant, OutBank, Base
  <2> QED  BY <1>1, <2>1, <2>2, <2>3, CommitBankKeeps
<1> QED  BY <1>2, <1>3

LEMMA WriteJoinedKeeps == Inv /\ ControlType' /\ WriteJoined => Inv'
<1> SUFFICES ASSUME Inv, ControlType', WriteJoined PROVE Inv'
  OBVIOUS
<1>1. UNCHANGED <<cmd, out_fifo, banks, disk, host, resets>> /\ pc = "write_join" /\ Writing
  BY DEF WriteJoined, Writing
<1>2. CASE card = "err"
  <2>1. pc' = "csw" /\ ep' = Busy /\ UNCHANGED xfer
    BY <1>2 DEF WriteJoined, Fail, Answer
  <2> QED
    BY <1>1, <2>1, CallTypes, ControlStepKeeps DEF Inv, ControlStep, Taken, XferType, xfer
<1>3. CASE card = "ok" /\ ~got_all
  <2>1. pc' = "csw" /\ ep' = Busy /\ at' = at + chunk /\ UNCHANGED <<remaining, chunk, cur>>
    BY <1>3 DEF WriteJoined, Answer
  <2>2. XferType'
    BY <1>1, <2>1, BotAssumption DEF Inv, XferType, XferFits
  <2> QED
    BY <1>1, <2>1, <2>2, CallTypes, ControlStepKeeps DEF ControlStep, Taken
<1>4. CASE card = "ok" /\ got_all
  <2>1. /\ at' = at + chunk /\ chunk' = next_chunk
        /\ remaining' = remaining - next_chunk /\ cur' = other_bank
        /\ CommitBank(remaining')
    BY <1>4 DEF WriteJoined
  <2>2. next_chunk \in 0 .. ChunkSectors /\ next_chunk <= remaining /\ other_bank \in {0, 1}
    BY LeastFits, BotAssumption DEF Inv, XferType, next_chunk, other_bank
  <2>3. XferType' /\ at' + chunk' + remaining' <= BlockCount
    BY <1>1, <2>1, <2>2, BotAssumption DEF Inv, XferType, XferFits
  <2>4. /\ ep.pos = next_chunk /\ OutBank = other_bank /\ Base = at + chunk
        /\ ComesNext(out_fifo, host, Due(Base + ep.pos))
        /\ \A i \in 1 .. ep.pos : banks[OutBank][i] = Due(Base + i - 1)
    BY <1>1, <1>4 DEF got_all, Inv, ReadInOrder, OutWant, OutBank, Base
  <2> QED  BY <1>1, <2>1, <2>3, <2>4, CommitBankKeeps
<1> QED  BY <1>2, <1>3, <1>4 DEF WriteJoined

LEMMA CardWritesKeeps == Inv /\ ControlType' /\ CardWrites => Inv'
<1> SUFFICES ASSUME Inv, ControlType', CardWrites PROVE Inv'
  OBVIOUS
<1>1. /\ pc \in {"write_join", "write_last"}
      /\ UNCHANGED <<pc, cmd, out_fifo, xfer, banks, ep, host, resets>>
  BY DEF CardWrites, answer, outside
<1>2. DiskType'
  <2>1. PICK n \in 0 .. chunk, torn \in BOOLEAN :
          disk' = [b \in DOMAIN disk |->
                     IF b \in at .. at + n - 1 THEN banks[cur][b - at + 1]
                     ELSE IF torn /\ b = at + n THEN Torn ELSE disk[b]]
    BY DEF CardWrites
  <2>2. /\ DOMAIN disk = 0 .. BlockCount - 1 /\ at \in Nat /\ chunk \in 0 .. ChunkSectors
        /\ cur \in {0, 1}
    BY DEF Inv, DiskType, XferType
  <2>3. ASSUME NEW b \in 0 .. BlockCount - 1
        PROVE  /\ disk'[b] \in Block \cup {Torn}
               /\ disk'[b] = Torn \/ disk'[b].at = b
    <3>1. CASE b \in at .. at + n - 1
      <4>1. disk'[b] = banks[cur][b - at + 1]
        BY <2>1, <2>2, <3>1
      <4>2. /\ b - at + 1 \in 1 .. chunk /\ b - at + 1 \in 1 .. ChunkSectors
            /\ at + (b - at + 1) - 1 = b
        BY <2>1, <2>2, <3>1, BotAssumption
      <4>3. banks[cur][b - at + 1].at = b
        <5>1. banks[cur][b - at + 1] = Due(at + (b - at + 1) - 1)
          BY <1>1, <4>2 DEF Inv, BankInPlace
        <5> QED  BY <4>2, <5>1 DEF Due
      <4> QED  BY <2>2, <4>1, <4>2, <4>3 DEF Inv, BanksType
    <3>2. CASE b \notin at .. at + n - 1
      BY <2>1, <2>2, <3>2 DEF Inv, DiskType, BlocksStayInPlace
    <3> QED  BY <3>1, <3>2
  <2>4. DOMAIN disk' = 0 .. BlockCount - 1 /\ disk' = [b \in 0 .. BlockCount - 1 |-> disk'[b]]
    BY <2>1, <2>2
  <2>5. disk' \in [0 .. BlockCount - 1 -> Block \cup {Torn}]
    BY <2>3, <2>4
  <2> QED  BY <2>3, <2>4, <2>5 DEF DiskType, BlocksStayInPlace
<1>3. XferType' /\ PipeType' /\ HostType' /\ BanksType' /\ PipeInOrder' /\ ep' \in Calls
  BY <1>1 DEF Inv, XferType, PipeType, HostType, BanksType, PipeInOrder, xfer
<1>4. ReadInOrder' /\ BankInPlace' /\ XferFits' /\ SendFits'
  BY <1>1 DEF Inv, ReadInOrder, Writing, Base, OutWant, OutBank, next_chunk, other_bank, Least,
     BankInPlace, XferFits, SendFits, Streaming, xfer, Due
<1> QED  BY <1>1, <1>2, <1>3, <1>4 DEF Inv

-----------------------------------------------------------------------------
(* Every behaviour                                                         *)

LEMMA InitInv == Init => Inv
<1> SUFFICES ASSUME Init PROVE Inv
  OBVIOUS
<1> USE BotAssumption
<1>1. ControlType /\ XferType
  <2>1. ejected \in BOOLEAN /\ msc_reset \in BOOLEAN /\ exit \in BOOLEAN /\ hurt \in BOOLEAN
    BY Zenon DEF Init
  <2> QED  BY <2>1 DEF Init, ControlType, XferType
<1>2. NoCommand \in Tagged /\ Fits(NoCommand)
  BY DEF NoCommand, Tagged, Ops, Fits
<1>3. PipeType /\ PipeInOrder
  <2>1. host.pc # "out" /\ 0 <= FifoPackets
    BY DEF Init
  <2> QED  BY <1>2, <2>1, EmptyPipe DEF Init, PipeType, PipeInOrder
<1>4. HostType
  <2>1. <<>> \in Seq(Block \cup {Torn})
    OBVIOUS
  <2> QED  BY <1>2, <2>1 DEF Init, HostType, Hosts, HostPcs
<1>5. BanksType
  BY DEF Init, BanksType
<1>6. DiskType
  <2>1. \A b \in 0 .. BlockCount - 1 : [by |-> 0, at |-> b] \in Block
    BY DEF Block
  <2> QED  BY <2>1 DEF Init, DiskType, BlocksStayInPlace
<1>7. ep \in Calls
  BY CallTypes DEF Init
<1>8. ReadInOrder /\ BankInPlace /\ XferFits /\ SendFits
  BY DEF Init, ReadInOrder, Writing, BankInPlace, XferFits, SendFits, Streaming
<1> QED  BY <1>1, <1>3, <1>4, <1>5, <1>6, <1>7, <1>8 DEF Inv

(* Nothing moves, and the card may hang.                                   *)
LEMMA StutterKeeps ==
  ASSUME Inv, ControlType', UNCHANGED vars \/ CardHangs
  PROVE  Inv'
<1>1. UNCHANGED <<pc, cmd, out_fifo, xfer, banks, disk, ep, host, resets>>
  BY DEF vars, answer, medium, outside, CardHangs
<1>2. ControlType'
  OBVIOUS
<1>3. XferType' /\ PipeType' /\ HostType' /\ BanksType' /\ DiskType' /\ PipeInOrder' /\ ep' \in Calls
  BY <1>1 DEF Inv, XferType, PipeType, HostType, BanksType, DiskType, BlocksStayInPlace, PipeInOrder, xfer
<1>4. ReadInOrder' /\ BankInPlace' /\ XferFits' /\ SendFits'
  BY <1>1 DEF Inv, ReadInOrder, Writing, Base, OutWant, OutBank, next_chunk, other_bank, Least,
     Streaming, BankInPlace, XferFits, SendFits, xfer, Due
<1> QED  BY <1>2, <1>3, <1>4 DEF Inv

LEMMA InvStep == Inv /\ [Next]_vars => Inv'
<1> SUFFICES ASSUME Inv, [Next]_vars PROVE Inv'
  OBVIOUS
<1>1. ControlType'
  BY ControlTypeStep DEF Inv
<1>2. CASE \/ CbwReadFails \/ WaitEnabled \/ BadCbw \/ CswDone \/ EnterMode
           \/ TestUnitReady \/ EnsureReady \/ RequestSense \/ Inquiry \/ ReadCapacity
           \/ DataInDone \/ StartStopUnit \/ Unsupported \/ Drain \/ Drained
           \/ ReadDone \/ WriteDone \/ EmptyBlock \/ ShortBlock
  BY <1>1, <1>2, ControlActions, ControlStepKeeps
<1>3. CASE \/ Exit \/ Attach \/ UntimelyReset \/ HostTimeout
           \/ SetConfiguration \/ ClassReset \/ ClearHalts
  BY <1>1, <1>3, StoppingActions, PipeStopsKeeps
<1>4. CASE SendCbw \/ SendData \/ TakeIn \/ PressBack
  BY <1>1, <1>4, SendCbwKeeps, SendDataKeeps, TakeInKeeps, PressBackKeeps
<1>5. CASE Read \/ CardReads \/ ReadPrimed \/ ReadJoined
  BY <1>1, <1>5, ReadKeeps, CardReadsKeeps, ReadPrimedKeeps, ReadJoinedKeeps
<1>6. CASE ReceiveBlock \/ Write \/ WritePrimed \/ CardWrites \/ WriteJoined
  BY <1>1, <1>6, ReceiveBlockKeeps, WriteKeeps, WritePrimedKeeps, CardWritesKeeps, WriteJoinedKeeps
<1>7. CASE UNCHANGED vars \/ CardHangs
  BY <1>1, <1>7, StutterKeeps
<1> QED  BY <1>2, <1>3, <1>4, <1>5, <1>6, <1>7 DEF Next, Transport, Host

LEMMA InvAlways == Spec => []Inv
  BY InitInv, InvStep, PTL DEF Spec

(* The transport, the pipe, the host and the card keep their types,        *)
(* whatever the card, the banks, the FIFO and the commands are: no index   *)
(* leaves a bank or the medium (bot.rs, read_blocks and write_blocks).     *)
THEOREM TypeCorrect == Spec => []TypeOK
  BY InvAlways, InvIsEnough, PTL

(* No block of a WRITE lands anywhere but in its place, through every      *)
(* reset, abandoned command and card error (bot.rs, write_blocks).         *)
THEOREM BlocksAreInPlace == Spec => []BlocksStayInPlace
  BY InvAlways, InvIsEnough, PTL

-----------------------------------------------------------------------------
(* The status is true.  Second inductive invariant.                        *)

(* The host waits for its command, and the transport works on it.          *)
Live == host.pc \in {"out", "in", "status"}
Own == cmd.tag = host.tag /\ Live

(* The commands on their way are numbered in order, after the transport's  *)
(* command c and up to the host's, and a number means one command.         *)
Numbered(q, c, h) ==
  /\ c.tag <= h.tag /\ h.cmd.tag = h.tag
  /\ c.tag = h.tag => c = h.cmd
  /\ \A i \in 1 .. Len(q) : q[i].kind = "cbw" =>
       /\ c.tag < q[i].cmd.tag /\ q[i].cmd.tag <= h.tag
       /\ q[i].cmd.tag = h.tag => q[i].cmd = h.cmd
       /\ \A j \in 1 .. i - 1 : q[j].kind = "cbw" => q[j].cmd.tag < q[i].cmd.tag

TagsInOrder == Numbered(out_fifo, cmd, host)

HostInOrder ==
  /\ host.tag = 0 => host.cmd = NoCommand /\ ~Live
  /\ host.pc = "in" => host.cmd.blocks > 0
  /\ host.pc = "out" => host.cmd.op \in {"write", "other_out", "short_write", "empty_out"}

(* What sort of command is at which await.                                 *)
CommandOfPlace ==
  /\ pc \in {"cbw", "wait_enabled", "returned"} => cmd = NoCommand
  /\ pc = "ensure" => cmd.op = "tur"
  /\ pc = "data_in" => cmd.op \in {"sense", "reply", "capacity"}
  /\ pc = "drain" => cmd.op = "other_out" \/ (cmd.op = "write" /\ ready /\ wp)
  /\ pc \in {"read_prime", "read_join", "read_last"} => cmd.op = "read" /\ ~ejected
  /\ pc \in {"write_prime", "write_join", "write_last"} => cmd.op = "write" /\ ~(ready /\ wp)

(* A call fails or ends early only when the host has given the command up. *)
BrokenOff ==
  /\ ep.st = "err" => ~Own
  /\ ep.st = "short" => cmd.tag < host.tag

(* What is on the medium of a WRITE, and in the banks and at the host of a *)
(* READ.                                                                   *)
Stored(first, end) == \A b \in first .. end - 1 : disk[b] = Due(b)

WriteSoFar ==
  /\ pc = "write_prime" => at = cmd.lba /\ remaining = cmd.blocks
  /\ pc \in {"write_join", "write_last"} =>
       /\ cmd.lba <= at /\ at + chunk + remaining = cmd.lba + cmd.blocks
       /\ Stored(cmd.lba, at)
       /\ card = "ok" => Stored(at, at + chunk)
  /\ pc = "write_last" => remaining = 0

Copied(bank, n, place) == \A i \in 1 .. n : banks[bank][i] = disk[place + i - 1]

BankIsRead ==
  /\ cmd.lba <= at - chunk /\ at + remaining = cmd.lba + cmd.blocks
  /\ chunk = 0 => cmd.blocks = 0
  /\ Copied(cur, chunk, at - chunk)
BankIsSent ==
  /\ ep.st = "ok" => ep.pos > 0 /\ (chunk > 0 => ep.pos = chunk)
  /\ chunk = 0 /\ ep.st = "busy" => ep.pos = 0

ReadSoFar ==
  /\ pc = "read_prime" =>
       /\ at = cmd.lba /\ remaining = cmd.blocks /\ cur = 0 /\ chunk = next_chunk
       /\ card = "ok" => Copied(0, chunk, at)
  /\ Streaming => BankIsRead /\ BankIsSent
  /\ pc = "read_join" => remaining > 0 /\ (card = "ok" => Copied(other_bank, next_chunk, at))
  /\ pc = "read_last" => remaining = 0

HasFirst(k) == Len(host.got) = k /\ \A i \in 1 .. k : host.got[i] = disk[host.cmd.lba + i - 1]

(* The packets sent of a READ.                                             *)
Moved == (at - chunk - cmd.lba) + ep.pos

(* Data of an earlier READ are followed by its status before the host's    *)
(* own command begins, so that they never count as the host's.             *)
NothingStale == host.pc = "in" /\ host.got # <<>> => Streaming \/ (pc = "csw" /\ ep.st = "busy")
GotSoFar ==
  Streaming /\ Own =>
    /\ host.pc = "in" => HasFirst(Moved)
    /\ host.pc = "status" => Moved = 0 \/ (Moved = cmd.blocks /\ HasFirst(Moved))

CswIsTrue ==
  pc = "csw" /\ Own =>
    /\ status = "good" /\ cmd.op = "read" => HasFirst(cmd.blocks)
    /\ status = "good" /\ cmd.op = "write" => Stored(cmd.lba, cmd.lba + cmd.blocks)
    /\ status = "failed" => sense = Reason(cmd)

SInv ==
  /\ TagsInOrder /\ HostInOrder /\ CommandOfPlace /\ BrokenOff
  /\ WriteSoFar /\ ReadSoFar /\ NothingStale /\ GotSoFar /\ CswIsTrue

-----------------------------------------------------------------------------
(* The numbers                                                             *)

LEMMA InvTypes ==
  ASSUME Inv
  PROVE  /\ cmd \in Tagged /\ cmd.tag \in Nat /\ cmd.lba \in Nat /\ cmd.blocks \in Nat
         /\ host \in Hosts /\ host.tag \in 0 .. MaxTag /\ host.cmd \in Tagged /\ host.cmd.tag \in Nat
         /\ host.cmd.lba \in Nat /\ host.cmd.blocks \in Nat
         /\ out_fifo \in Seq(Packet)
         /\ \A i \in 1 .. Len(out_fifo) : out_fifo[i].kind = "cbw" => out_fifo[i].cmd.tag \in Nat
         /\ remaining \in Nat /\ chunk \in Nat /\ at \in Nat /\ ep \in Calls /\ ep.pos \in Nat
<1>1. cmd \in Tagged /\ host \in Hosts /\ host.cmd \in Tagged /\ out_fifo \in Seq(Packet)
  BY DEF Inv, PipeType, HostType, Hosts
<1>2. \A c \in Tagged : c.tag \in Nat /\ c.lba \in Nat /\ c.blocks \in Nat
  BY BotAssumption DEF Tagged
<1>3. ASSUME NEW i \in 1 .. Len(out_fifo), out_fifo[i].kind = "cbw"
      PROVE  out_fifo[i].cmd.tag \in Nat
  BY <1>1, <1>2, <1>3, PacketTypes
<1>4. host.tag \in 0 .. MaxTag
  BY DEF Inv, HostType, Hosts
<1>5. remaining \in Nat /\ chunk \in Nat /\ at \in Nat /\ ep \in Calls /\ ep.pos \in Nat
  BY BotAssumption DEF Inv, XferType, Calls
<1> QED  BY <1>1, <1>2, <1>3, <1>4, <1>5

LEMMA NumbersWithout ==
  ASSUME NEW q \in Seq(Packet), q # <<>>, NEW c, NEW h, Numbered(q, c, h)
  PROVE  /\ Numbered(Tail(q), c, h)
         /\ Head(q).kind = "cbw" =>
              Numbered(Tail(q), Head(q).cmd, h) /\ c.tag < Head(q).cmd.tag /\ Head(q).cmd.tag <= h.tag
<1>1. /\ Len(Tail(q)) = Len(q) - 1 /\ Len(q) \in Nat \ {0}
      /\ \A i \in 1 .. Len(Tail(q)) : Tail(q)[i] = q[i + 1]
      /\ q[1] = Head(q)
  OBVIOUS
<1> DEFINE r == Tail(q)
<1>2. ASSUME NEW i \in 1 .. Len(r), r[i].kind = "cbw"
      PROVE  /\ c.tag < r[i].cmd.tag /\ r[i].cmd.tag <= h.tag
             /\ r[i].cmd.tag = h.tag => r[i].cmd = h.cmd
             /\ \A j \in 1 .. i - 1 : r[j].kind = "cbw" => r[j].cmd.tag < r[i].cmd.tag
             /\ q[1].kind = "cbw" => q[1].cmd.tag < r[i].cmd.tag
  <2>1. i + 1 \in 1 .. Len(q) /\ r[i] = q[i + 1] /\ 1 \in 1 .. (i + 1) - 1
    BY <1>1
  <2>2. \A j \in 1 .. i - 1 : j + 1 \in 1 .. (i + 1) - 1 /\ r[j] = q[j + 1]
    BY <1>1
  <2> QED  BY <1>2, <2>1, <2>2 DEF Numbered
<1>3. 1 \in 1 .. Len(q)
  BY <1>1
<1> QED  BY <1>1, <1>2, <1>3 DEF Numbered

LEMMA NumbersOfNone ==
  ASSUME NEW q \in Seq(Packet), NEW c, NEW h, Numbered(q, c, h), c.tag \in Nat, h.tag \in Nat,
         \A i \in 1 .. Len(q) : q[i].kind = "cbw" => q[i].cmd.tag \in Nat,
         h.tag = 0 => h.cmd = NoCommand
  PROVE  Numbered(q, NoCommand, h)
<1>1. NoCommand.tag = 0
  BY DEF NoCommand
<1>2. ASSUME NEW i \in 1 .. Len(q), q[i].kind = "cbw" PROVE 0 < q[i].cmd.tag
  BY <1>2 DEF Numbered
<1> QED  BY <1>1, <1>2 DEF Numbered

LEMMA TakenKeepsNumbers ==
  ASSUME Inv, SInv, Taken, UNCHANGED host
  PROVE  TagsInOrder'
<1>t. /\ out_fifo \in Seq(Packet) /\ cmd.tag \in Nat /\ host.tag \in Nat
      /\ \A i \in 1 .. Len(out_fifo) : out_fifo[i].kind = "cbw" => out_fifo[i].cmd.tag \in Nat
      /\ host.tag = 0 => host.cmd = NoCommand
      /\ Numbered(out_fifo, cmd, host)
  <2>1. host.tag = 0 => host.cmd = NoCommand
    BY DEF SInv, HostInOrder
  <2>2. Numbered(out_fifo, cmd, host)
    BY DEF SInv, TagsInOrder
  <2>3. host.tag \in Nat
    BY InvTypes, BotAssumption
  <2> QED  BY <2>1, <2>2, <2>3, InvTypes
<1>n. Numbered(out_fifo, NoCommand, host)
  BY <1>t, NumbersOfNone
<1>1. CASE UNCHANGED <<cmd, out_fifo>>
  BY <1>t, <1>1 DEF TagsInOrder
<1>2. CASE cmd' = NoCommand /\ UNCHANGED out_fifo
  BY <1>n, <1>2 DEF TagsInOrder
<1>3. CASE /\ out_fifo # <<>> /\ out_fifo' = Tail(out_fifo)
           /\ \/ cmd' \in {cmd, NoCommand}
              \/ Head(out_fifo).kind = "cbw" /\ cmd' = Head(out_fifo).cmd
  BY <1>t, <1>n, <1>3, NumbersWithout DEF TagsInOrder
<1> QED  BY <1>1, <1>2, <1>3 DEF Taken

-----------------------------------------------------------------------------
(* Steps of the transport outside its transfers: they keep SInv if they    *)
(* keep what it says of commands, failures and statuses.                   *)

Transfers == {"read_prime", "read_join", "read_last", "write_prime", "write_join", "write_last"}

LEMMA ControlKeepsS ==
  ASSUME Inv, SInv, ControlStep, CommandOfPlace', BrokenOff', NothingStale', CswIsTrue'
  PROVE  SInv'
<1>1. TagsInOrder'
  BY TakenKeepsNumbers DEF ControlStep
<1>2. HostInOrder'
  BY DEF SInv, ControlStep, HostInOrder, Live
<1>3. WriteSoFar' /\ ReadSoFar' /\ GotSoFar'
  BY DEF ControlStep, WriteSoFar, ReadSoFar, GotSoFar, Streaming
<1> QED  BY <1>1, <1>2, <1>3 DEF SInv

(* Nothing a host has got of a READ is left when the next command begins.  *)
LEMMA NothingIsLeft ==
  ASSUME SInv, UNCHANGED host, ~Streaming, pc = "csw" => ep.st # "busy"
  PROVE  NothingStale'
  BY DEF SInv, NothingStale

(* A command is taken.                                                     *)
LEMMA TakingKeepsS ==
  ASSUME Inv, SInv,
         \/ TestUnitReady \/ RequestSense \/ Inquiry \/ ReadCapacity
         \/ StartStopUnit \/ Unsupported \/ EmptyBlock \/ ShortBlock
  PROVE  SInv'
<1>1. ControlStep
  BY ControlActions
<1>2. pc = "cbw"
  BY DEF TestUnitReady, RequestSense, Inquiry, ReadCapacity, StartStopUnit, Unsupported,
     EmptyBlock, ShortBlock, Refuse, Take
<1>3. NothingStale'
  BY <1>1, <1>2, NothingIsLeft DEF ControlStep, Streaming
<1>4. CASE TestUnitReady
  <2>1. cmd'.op = "tur"
    BY <1>4 DEF TestUnitReady, Take
  <2>2. \/ pc' = "csw" /\ ep' = Busy /\ (status' = "good" \/ sense' = "not_ready")
        \/ pc' = "ensure" /\ ep' = Idle
    BY <1>4 DEF TestUnitReady, Fail, Answer
  <2>3. CommandOfPlace' /\ BrokenOff' /\ CswIsTrue'
    BY <2>1, <2>2 DEF CommandOfPlace, BrokenOff, CswIsTrue, Reason, Busy, Idle
  <2> QED  BY <1>1, <1>3, <2>3, ControlKeepsS
<1>5. CASE RequestSense \/ Inquiry
  <2>1. cmd'.op \in {"sense", "reply"}
    BY <1>5 DEF RequestSense, Inquiry, Take
  <2>2. pc' \in {"csw", "data_in"} /\ ep' = Busy /\ status' = "good"
    BY <1>5 DEF RequestSense, Inquiry, SendDataIn, Answer
  <2>3. CommandOfPlace' /\ BrokenOff' /\ CswIsTrue'
    BY <2>1, <2>2 DEF CommandOfPlace, BrokenOff, CswIsTrue, Busy
  <2> QED  BY <1>1, <1>3, <2>3, ControlKeepsS
<1>6. CASE ReadCapacity
  <2>1. cmd'.op = "capacity"
    BY <1>6 DEF ReadCapacity, Take
  <2>2. /\ pc' \in {"csw", "data_in"} /\ ep' = Busy
        /\ status' = "good" \/ sense' = "not_ready"
    BY <1>6 DEF ReadCapacity, SendDataIn, Fail, Answer
  <2>3. CommandOfPlace' /\ BrokenOff' /\ CswIsTrue'
    BY <2>1, <2>2 DEF CommandOfPlace, BrokenOff, CswIsTrue, Reason, Busy
  <2> QED  BY <1>1, <1>3, <2>3, ControlKeepsS
<1>7. CASE StartStopUnit
  <2>1. cmd'.op \in {"nop", "eject", "load"} /\ pc' = "csw" /\ ep' = Busy /\ status' = "good"
    BY <1>7 DEF StartStopUnit, Take, Answer
  <2>2. CommandOfPlace' /\ BrokenOff' /\ CswIsTrue'
    BY <2>1 DEF CommandOfPlace, BrokenOff, CswIsTrue, Busy
  <2> QED  BY <1>1, <1>3, <2>2, ControlKeepsS
<1>8. CASE Unsupported
  <2>1. cmd'.op \in {"other_in", "other_out"} /\ ep' = Busy
    BY <1>8 DEF Unsupported, Take, StartDrain, Fail, Answer
  <2>2. \/ pc' = "drain" /\ cmd'.op = "other_out"
        \/ pc' = "csw" /\ status' = "failed" /\ sense' = "invalid"
    BY <1>8 DEF Unsupported, HasDataOut, StartDrain, Fail, Answer
  <2>3. CommandOfPlace' /\ BrokenOff' /\ CswIsTrue'
    BY <2>1, <2>2 DEF CommandOfPlace, BrokenOff, CswIsTrue, Reason, Busy
  <2> QED  BY <1>1, <1>3, <2>3, ControlKeepsS
<1>9. CASE EmptyBlock \/ ShortBlock
  <2>1. /\ cmd'.op \in {"empty_in", "empty_out", "short_read", "short_write"}
        /\ pc' = "csw" /\ ep' = Busy /\ status' = "failed" /\ sense' = "invalid"
    BY <1>9 DEF EmptyBlock, ShortBlock, Refuse, Take, Fail, Answer
  <2>2. CswIsTrue'
    BY <2>1 DEF CswIsTrue, Reason
  <2>3. CommandOfPlace' /\ BrokenOff'
    BY <2>1 DEF CommandOfPlace, BrokenOff, Busy
  <2> QED  BY <1>1, <1>3, <2>2, <2>3, ControlKeepsS
<1> QED  BY <1>4, <1>5, <1>6, <1>7, <1>8, <1>9

(* Back to the read of the next command.                                   *)
LEMMA LoopingKeepsS ==
  ASSUME Inv, SInv, CbwReadFails \/ WaitEnabled \/ BadCbw \/ CswDone \/ EnterMode
  PROVE  SInv'
<1>1. ControlStep
  BY ControlActions
<1>2. /\ pc \in {"cbw", "wait_enabled", "returned", "csw"} /\ (pc = "csw" => ep.st # "busy")
      /\ pc' \in {"cbw", "wait_enabled"} /\ ep'.st \in {"busy", "idle"}
  BY DEF CbwReadFails, WaitEnabled, BadCbw, CswDone, EnterMode, LoopTop, Busy, Idle
<1>3. cmd' = NoCommand
  BY DEF SInv, CommandOfPlace, CbwReadFails, WaitEnabled, BadCbw, CswDone, EnterMode, LoopTop, answer
<1>4. NothingStale'
  BY <1>1, <1>2, NothingIsLeft DEF ControlStep, Streaming
<1>5. CommandOfPlace' /\ BrokenOff' /\ CswIsTrue'
  BY <1>2, <1>3 DEF CommandOfPlace, BrokenOff, CswIsTrue
<1> QED  BY <1>1, <1>4, <1>5, ControlKeepsS

(* The answer to a command.                                                *)
LEMMA AnswersKeepS ==
  ASSUME Inv, SInv, ControlStep, pc' = "csw", ep' = Busy, NothingStale', CswIsTrue'
  PROVE  SInv'
<1>1. CommandOfPlace' /\ BrokenOff'
  BY DEF CommandOfPlace, BrokenOff, Busy
<1> QED  BY <1>1, ControlKeepsS

(* A bank more on the medium.                                              *)
LEMMA StoredOn ==
  ASSUME Inv, Stored(cmd.lba, at), Stored(at, at + chunk), remaining = 0,
         at + chunk + remaining = cmd.lba + cmd.blocks
  PROVE  Stored(cmd.lba, cmd.lba + cmd.blocks)
<1>1. at \in Nat /\ chunk \in Nat /\ cmd.lba \in Nat /\ cmd.blocks \in Nat
  BY InvTypes
<1>2. ASSUME NEW b \in cmd.lba .. cmd.lba + cmd.blocks - 1 PROVE disk[b] = Due(b)
  <2>1. b \in cmd.lba .. at - 1 \/ b \in at .. at + chunk - 1
    BY <1>1
  <2>2. CASE b \in cmd.lba .. at - 1
    BY <1>1, <2>2 DEF Stored
  <2>3. CASE b \in at .. at + chunk - 1
    BY <1>1, <2>3 DEF Stored
  <2> QED  BY <2>1, <2>2, <2>3
<1> QED  BY <1>1, <1>2 DEF Stored

(* A refused or finished command.                                          *)
LEMMA AnsweringKeepsS ==
  ASSUME Inv, SInv, EnsureReady \/ DataInDone \/ Drained \/ WriteDone
  PROVE  SInv'
<1>1. ControlStep
  BY ControlActions
<1>2. pc \in {"ensure", "data_in", "drain", "write_last"} /\ pc' = "csw" /\ ep' = Busy
  BY DEF EnsureReady, DataInDone, Drained, WriteDone, Fail, Answer
<1>3. NothingStale'
  BY <1>1, <1>2, NothingIsLeft DEF ControlStep, Streaming
<1>4. CASE EnsureReady
  <2>1. cmd' = cmd /\ cmd.op = "tur" /\ (status' = "good" \/ sense' = "not_ready")
    BY <1>4 DEF EnsureReady, Fail, Answer, SInv, CommandOfPlace
  <2>2. CswIsTrue'
    BY <2>1 DEF CswIsTrue, Reason
  <2> QED  BY <1>1, <1>2, <1>3, <2>2, AnswersKeepS
<1>5. CASE DataInDone
  <2>1. /\ cmd' = cmd /\ host' = host /\ cmd.op \in {"sense", "reply", "capacity"}
        /\ status' = "good" \/ ep.st = "err"
    BY <1>5 DEF DataInDone, Answer, SInv, CommandOfPlace, answer, outside
  <2>2. CswIsTrue'
    BY <2>1 DEF SInv, BrokenOff, CswIsTrue, Own, Live
  <2> QED  BY <1>1, <1>2, <1>3, <2>2, AnswersKeepS
<1>6. CASE Drained
  <2>1. /\ cmd' = cmd /\ UNCHANGED <<ready, wp>>
        /\ cmd.op = "other_out" \/ (cmd.op = "write" /\ ready /\ wp)
        /\ status' = "failed"
        /\ sense' = IF cmd.op = "write" THEN "data_protect" ELSE "invalid"
    BY <1>6 DEF Drained, Fail, Answer, SInv, CommandOfPlace, medium
  <2>2. CswIsTrue'
    BY <2>1 DEF CswIsTrue, Reason
  <2> QED  BY <1>1, <1>2, <1>3, <2>2, AnswersKeepS
<1>7. CASE WriteDone
  <2>1. /\ cmd' = cmd /\ UNCHANGED <<ready, wp, disk>> /\ cmd.op = "write" /\ ~(ready /\ wp)
        /\ \/ card = "ok" /\ status' = "good"
           \/ status' = "failed" /\ sense' = "medium_error"
    BY <1>7 DEF WriteDone, Fail, Answer, SInv, CommandOfPlace
  <2>2. card = "ok" => Stored(cmd.lba, cmd.lba + cmd.blocks)
    <3> SUFFICES ASSUME card = "ok" PROVE Stored(cmd.lba, cmd.lba + cmd.blocks)
      OBVIOUS
    <3>1. /\ at + chunk + remaining = cmd.lba + cmd.blocks /\ remaining = 0
          /\ Stored(cmd.lba, at) /\ Stored(at, at + chunk)
      BY <1>7 DEF WriteDone, SInv, WriteSoFar
    <3> QED  BY <3>1, StoredOn
  <2>3. CswIsTrue'
    BY <2>1, <2>2 DEF CswIsTrue, Reason, Stored, Due
  <2> QED  BY <1>1, <1>2, <1>3, <2>3, AnswersKeepS
<1> QED  BY <1>4, <1>5, <1>6, <1>7

(* The drain of refused data.                                              *)
LEMMA DrainKeepsS == Inv /\ SInv /\ Drain => SInv'
<1> SUFFICES ASSUME Inv, SInv, Drain PROVE SInv'
  OBVIOUS
<1>1. ControlStep
  BY ControlActions
<1>2. /\ pc = "drain" /\ UNCHANGED <<pc, cmd, ready, wp, host>>
      /\ ep'.st \in {"busy", "ok"}
  BY DEF Drain, answer, medium, outside
<1>3. NothingStale'
  BY <1>2, NothingIsLeft DEF Streaming
<1>4. CommandOfPlace' /\ BrokenOff' /\ CswIsTrue'
  BY <1>2 DEF SInv, CommandOfPlace, BrokenOff, CswIsTrue
<1> QED  BY <1>1, <1>3, <1>4, ControlKeepsS

(* The end of a READ: the last bank has gone.                              *)
LEMMA LastBankIsSent ==
  ASSUME Inv, SInv, pc = "read_last", ep.st = "ok", Own
  PROVE  HasFirst(cmd.blocks)
<1>1. Streaming /\ cmd.op = "read" /\ remaining = 0
  BY DEF Streaming, SInv, CommandOfPlace, ReadSoFar
<1>2. /\ cmd.lba <= at - chunk /\ at + remaining = cmd.lba + cmd.blocks
      /\ chunk = 0 => cmd.blocks = 0
      /\ ep.pos > 0 /\ (chunk > 0 => ep.pos = chunk)
  BY <1>1 DEF SInv, ReadSoFar, BankIsRead, BankIsSent
<1>3. cmd = host.cmd
  BY DEF Own, SInv, TagsInOrder, Numbered
<1>4. CASE chunk > 0
  <2>1. Moved = cmd.blocks /\ Moved # 0
    BY <1>1, <1>2, <1>4, InvTypes DEF Moved
  <2>2. host.pc # "out"
    BY <1>1, <1>3 DEF SInv, HostInOrder
  <2> QED  BY <1>1, <2>1, <2>2 DEF SInv, GotSoFar, Own, Live
<1>5. CASE chunk = 0
  <2>1. Moved = ep.pos /\ Moved # 0 /\ cmd.blocks = 0 /\ Moved # cmd.blocks
    <3>1. at \in Nat /\ cmd.lba \in Nat /\ ep.pos \in Nat
      BY InvTypes
    <3>2. at = cmd.lba /\ cmd.blocks = 0
      BY <1>1, <1>2, <1>5, <3>1
    <3>3. at - 0 - cmd.lba + ep.pos = ep.pos
      BY <3>1, <3>2
    <3> QED  BY <1>2, <1>5, <3>1, <3>2, <3>3 DEF Moved
  <2>2. host.pc # "out" /\ host.pc # "in"
    BY <1>1, <1>3, <2>1 DEF SInv, HostInOrder
  <2> QED  BY <1>1, <2>1, <2>2 DEF SInv, GotSoFar, Own, Live
<1> QED  BY <1>4, <1>5, InvTypes

LEMMA ReadDoneKeepsS == Inv /\ SInv /\ ReadDone => SInv'
<1> SUFFICES ASSUME Inv, SInv, ReadDone PROVE SInv'
  OBVIOUS
<1>1. ControlStep
  BY ControlActions
<1>2. /\ pc = "read_last" /\ pc' = "csw" /\ ep' = Busy
      /\ UNCHANGED <<cmd, disk, host>>
      /\ \/ ep.st = "ok" /\ status' = "good"
         \/ ep.st = "err" /\ status' = "failed"
  BY DEF ReadDone, Answer, answer, medium, outside
<1>3. NothingStale'
  BY <1>2 DEF NothingStale, Busy
<1>4. CswIsTrue'
  <2>1. ep.st = "ok" /\ Own => HasFirst(cmd.blocks)
    BY <1>2, LastBankIsSent
  <2>2. cmd.op = "read"
    BY <1>2 DEF SInv, CommandOfPlace
  <2> QED  BY <1>2, <2>1, <2>2 DEF SInv, BrokenOff, CswIsTrue, HasFirst, Own, Live
<1> QED  BY <1>1, <1>2, <1>3, <1>4, AnswersKeepS

-----------------------------------------------------------------------------
(* READ                                                                    *)

LEMMA TransferKeepsS ==
  ASSUME Inv, SInv, Taken, UNCHANGED host, pc' \in Transfers,
         CommandOfPlace', BrokenOff', WriteSoFar', ReadSoFar', NothingStale', GotSoFar'
  PROVE  SInv'
<1>1. TagsInOrder'
  BY TakenKeepsNumbers
<1>2. HostInOrder' /\ CswIsTrue'
  BY DEF SInv, HostInOrder, Live, CswIsTrue, Transfers
<1> QED  BY <1>1, <1>2 DEF SInv

LEMMA ReadKeepsS == Inv /\ SInv /\ Read => SInv'
<1> SUFFICES ASSUME Inv, SInv, Read PROVE SInv'
  OBVIOUS
<1>1. /\ pc = "cbw" /\ out_fifo # <<>> /\ Head(out_fifo).kind = "cbw" /\ cmd' = Head(out_fifo).cmd
      /\ cmd'.op = "read" /\ ejected' = ejected
      /\ out_fifo' = Tail(out_fifo) /\ UNCHANGED <<banks, disk, host, resets>>
  BY DEF Read, Take
<1>2. NothingStale'
  BY <1>1, NothingIsLeft DEF Streaming
<1>3. CASE ejected
  <2>1. pc' = "csw" /\ ep' = Busy /\ sense' = "not_ready" /\ UNCHANGED xfer
    BY <1>3 DEF Read, Fail, Answer
  <2>2. ControlStep
    BY <1>1, <2>1, CallTypes DEF Inv, ControlStep, Taken, XferType, xfer
  <2>3. CswIsTrue'
    <3>1. status' = "failed" /\ Reason(cmd)' = "not_ready"
      BY <1>1, <1>3 DEF Read, Fail, Answer, Reason
    <3> QED  BY <2>1, <3>1 DEF CswIsTrue
  <2> QED  BY <1>2, <2>1, <2>2, <2>3, AnswersKeepS
<1>4. CASE ~ejected
  <2>1. /\ remaining' = cmd'.blocks /\ at' = cmd'.lba /\ cur' = 0
        /\ chunk' = Least(cmd'.blocks, ChunkSectors)
        /\ pc' = "read_prime" /\ ep' = Idle /\ card' = "busy"
    BY <1>4 DEF Read
  <2>2. CommandOfPlace' /\ BrokenOff' /\ WriteSoFar'
    BY <1>1, <1>4, <2>1 DEF CommandOfPlace, BrokenOff, WriteSoFar, Idle
  <2>3. ReadSoFar' /\ GotSoFar'
    BY <2>1 DEF ReadSoFar, Streaming, GotSoFar, next_chunk
  <2> QED  BY <1>1, <1>2, <2>1, <2>2, <2>3, TransferKeepsS DEF Taken, Transfers
<1> QED  BY <1>3, <1>4

LEMMA CardReadsKeepsS == Inv /\ SInv /\ CardReads => SInv'
<1> SUFFICES ASSUME Inv, SInv, CardReads PROVE SInv'
  OBVIOUS
<1>1. /\ pc \in {"read_prime", "read_join"} /\ card' \in {"ok", "err"}
      /\ UNCHANGED <<pc, cmd, out_fifo, remaining, chunk, at, cur, disk, ep, host, ejected, resets>>
  BY DEF CardReads, answer, scsi, xfer, outside
<1> DEFINE b == IF pc = "read_prime" THEN 0 ELSE other_bank
           n == IF pc = "read_prime" THEN chunk ELSE next_chunk
<1>2. /\ b \in {0, 1} /\ n \in 0 .. ChunkSectors
      /\ cur \in {0, 1} /\ (pc = "read_join" => b # cur)
      /\ DOMAIN banks = {0, 1}
  BY LeastFits, BotAssumption DEF Inv, XferType, other_bank, next_chunk, BanksType
<1>3. /\ card' = "ok" => Copied(b, n, at)'
      /\ pc = "read_join" => banks'[cur] = banks[cur]
  <2>1. CASE card' = "err" /\ UNCHANGED banks
    BY <2>1
  <2>2. CASE banks' = [banks EXCEPT ![b] = [i \in 1 .. ChunkSectors |->
                          IF i <= n THEN disk[at + i - 1] ELSE @[i]]]
    <3>1. banks'[b] = [i \in 1 .. ChunkSectors |-> IF i <= n THEN disk[at + i - 1] ELSE banks[b][i]]
      BY <1>2, <2>2
    <3>2. \A i \in 1 .. n : i \in 1 .. ChunkSectors /\ i <= n
      BY <1>2, BotAssumption
    <3>3. \A i \in 1 .. n : banks'[b][i] = disk[at + i - 1]
      BY <3>1, <3>2
    <3>4. pc = "read_join" => banks'[cur] = banks[cur]
      BY <1>2, <2>2
    <3>5. b' = b /\ n' = n
      BY <1>1 DEF other_bank, next_chunk, Least
    <3> HIDE DEF b, n
    <3> QED  BY <1>1, <3>3, <3>4, <3>5 DEF Copied
  <2> QED  BY <2>1, <2>2 DEF CardReads
<1>4. CommandOfPlace' /\ BrokenOff' /\ WriteSoFar'
  BY <1>1 DEF SInv, CommandOfPlace, BrokenOff, WriteSoFar, Own, Live
<1>5. ReadSoFar'
  <2>1. CASE pc = "read_prime"
    BY <1>1, <1>3, <2>1 DEF SInv, ReadSoFar, next_chunk, Streaming
  <2>2. CASE pc = "read_join"
    <3>1. BankIsRead' /\ BankIsSent'
      BY <1>1, <1>3, <2>2 DEF SInv, ReadSoFar, Streaming, BankIsRead, BankIsSent, Copied
    <3>2. card' = "ok" => Copied(other_bank, next_chunk, at)'
      BY <1>1, <1>3, <2>2 DEF other_bank, next_chunk
    <3> QED  BY <1>1, <2>2, <3>1, <3>2 DEF SInv, ReadSoFar, Streaming
  <2> QED  BY <1>1, <2>1, <2>2
<1>6. NothingStale' /\ GotSoFar'
  BY <1>1 DEF SInv, NothingStale, GotSoFar, Streaming, Moved, HasFirst, Own, Live
<1> QED  BY <1>1, <1>4, <1>5, <1>6, TransferKeepsS DEF Taken, Transfers

(* A bank that goes out is the next of the READ, and the host has the      *)
(* blocks before it, if it still takes them.                               *)
LEMMA SendingKeepsS ==
  ASSUME Inv, SInv, XferType', pc \in {"read_prime", "read_join"},
         UNCHANGED <<cmd, out_fifo, disk, host, ejected>>,
         pc' = (IF remaining' > 0 THEN "read_join" ELSE "read_last"), ep' = Busy,
         card' \in {"busy", "idle"}, remaining' \in Nat,
         BankIsRead', NothingStale,
         Own /\ host.pc = "in" => HasFirst(at' - chunk' - cmd.lba),
         Own /\ host.pc = "status" =>
           LET m == at' - chunk' - cmd.lba IN m = 0 \/ (m = cmd.blocks /\ HasFirst(m))
  PROVE  SInv'
<1>1. pc' \in {"read_join", "read_last"} /\ ep'.st = "busy" /\ ep'.pos = 0 /\ Streaming'
  BY DEF Busy, Streaming
<1>2. CommandOfPlace' /\ BrokenOff' /\ WriteSoFar'
  BY <1>1 DEF SInv, CommandOfPlace, BrokenOff, WriteSoFar
<1>3. ReadSoFar'
  <2>1. pc' = "read_join" => remaining' > 0
    OBVIOUS
  <2>2. pc' = "read_last" => remaining' = 0
    OBVIOUS
  <2>3. BankIsSent'
    BY <1>1 DEF BankIsSent
  <2> QED  BY <1>1, <2>1, <2>2, <2>3 DEF ReadSoFar
<1>4. NothingStale'
  BY <1>1 DEF NothingStale
<1>5. GotSoFar'
  <2>1. \A m \in Int : m + 0 = m
    OBVIOUS
  <2>2. at' - chunk' - cmd.lba \in Int
    <3>1. at' \in Nat /\ chunk' \in Nat /\ cmd.lba \in Nat
      BY InvTypes, BotAssumption DEF XferType
    <3> QED  BY <3>1
  <2>3. Moved' = at' - chunk' - cmd.lba
    BY <1>1, <2>1, <2>2 DEF Moved
  <2> QED  BY <2>3 DEF GotSoFar, Own, Live, HasFirst
<1> QED  BY <1>1, <1>2, <1>3, <1>4, <1>5, TransferKeepsS DEF Taken, Transfers

LEMMA ReadPrimedKeepsS == Inv /\ SInv /\ ReadPrimed => SInv'
<1> SUFFICES ASSUME Inv, SInv, ReadPrimed PROVE SInv'
  OBVIOUS
<1>1. /\ UNCHANGED <<cmd, out_fifo, banks, disk, host, resets, ejected>> /\ pc = "read_prime"
      /\ cmd.op = "read" /\ ~ejected
  BY DEF ReadPrimed, outside, SInv, CommandOfPlace
<1>2. NothingStale /\ NothingStale' /\ (host.pc = "in" => host.got = <<>>)
  BY <1>1, NothingIsLeft DEF Streaming, SInv, NothingStale
<1>3. CASE card = "err"
  <2>1. pc' = "csw" /\ ep' = Busy /\ sense' = "medium_error" /\ UNCHANGED xfer
    BY <1>3 DEF ReadPrimed, Fail, Answer
  <2>2. ControlStep
    BY <1>1, <2>1, CallTypes DEF Inv, ControlStep, Taken, XferType, xfer
  <2>3. CswIsTrue'
    <3>1. status' = "failed"
      BY <1>3 DEF ReadPrimed, Fail, Answer
    <3>2. Reason(cmd)' = "medium_error"
      BY <1>1 DEF Reason
    <3> QED  BY <2>1, <3>1, <3>2 DEF CswIsTrue
  <2> QED  BY <1>2, <2>1, <2>2, <2>3, AnswersKeepS
<1>4. CASE card = "ok"
  <2>1. /\ remaining' = remaining - chunk /\ at' = at + chunk /\ UNCHANGED <<chunk, cur>>
        /\ pc' = (IF remaining' > 0 THEN "read_join" ELSE "read_last") /\ ep' = Busy
        /\ card' \in {"busy", "idle"}
    BY <1>4 DEF ReadPrimed, SendBank
  <2>2. /\ at = cmd.lba /\ remaining = cmd.blocks /\ cur = 0 /\ chunk = next_chunk
        /\ Copied(0, chunk, at)
    BY <1>1, <1>4 DEF SInv, ReadSoFar
  <2>t. at \in Nat /\ chunk \in Nat /\ remaining \in Nat /\ cmd.lba \in Nat
    BY InvTypes
  <2>3. XferType' /\ remaining' \in Nat
    BY <1>1, <2>1, BotAssumption DEF Inv, XferType, XferFits
  <2>4. at' - chunk' = at /\ at' - chunk' - cmd.lba = 0 /\ at' + remaining' = at + remaining
    BY <2>1, <2>2, <2>t
  <2>5. chunk = 0 => remaining = 0
    BY <2>2, <2>t, BotAssumption DEF next_chunk, Least
  <2>6. BankIsRead'
    <3>1. Copied(cur, chunk, at - chunk)'
      BY <1>1, <2>1, <2>2, <2>4 DEF Copied
    <3>2. cmd'.lba <= at' - chunk' /\ at' + remaining' = cmd'.lba + cmd'.blocks
      BY <1>1, <2>1, <2>2, <2>4, <2>t
    <3>3. chunk' = 0 => cmd'.blocks = 0
      BY <1>1, <2>1, <2>2, <2>5
    <3> QED  BY <3>1, <3>2, <3>3 DEF BankIsRead
  <2>7. host.pc = "in" => HasFirst(0)
    BY <1>2 DEF HasFirst
  <2> QED  BY <1>1, <1>2, <2>1, <2>3, <2>4, <2>6, <2>7, SendingKeepsS
<1> QED  BY <1>3, <1>4 DEF ReadPrimed

LEMMA ReadJoinedKeepsS == Inv /\ SInv /\ ReadJoined => SInv'
<1> SUFFICES ASSUME Inv, SInv, ReadJoined PROVE SInv'
  OBVIOUS
<1>1. /\ UNCHANGED <<cmd, out_fifo, banks, disk, host, resets, ejected>> /\ pc = "read_join" /\ Streaming
      /\ cmd.op = "read" /\ ~ejected
  BY DEF ReadJoined, SInv, CommandOfPlace, Streaming
<1>2. CASE ep.st = "err" \/ card = "err"
  <2>1. /\ pc' = "csw" /\ ep' = Busy /\ status' = "failed" /\ UNCHANGED xfer
        /\ ep.st = "err" \/ sense' = "medium_error"
    BY <1>2 DEF ReadJoined, Fail, Answer
  <2>2. ControlStep
    BY <1>1, <2>1, CallTypes DEF Inv, ControlStep, Taken, XferType, xfer
  <2>3. NothingStale'
    BY <2>1 DEF NothingStale, Busy
  <2>4. CswIsTrue'
    <3>1. Reason(cmd)' = "medium_error"
      BY <1>1 DEF Reason
    <3>2. ep.st = "err" => ~Own'
      BY <1>1 DEF SInv, BrokenOff, Own, Live
    <3> QED  BY <2>1, <3>1, <3>2 DEF CswIsTrue
  <2> QED  BY <2>1, <2>2, <2>3, <2>4, AnswersKeepS
<1>3. CASE ep.st = "ok" /\ card = "ok"
  <2>1. /\ chunk' = next_chunk /\ at' = at + next_chunk
        /\ remaining' = remaining - next_chunk /\ cur' = other_bank
        /\ pc' = (IF remaining' > 0 THEN "read_join" ELSE "read_last") /\ ep' = Busy
        /\ card' \in {"busy", "idle"}
    BY <1>3 DEF ReadJoined, SendBank
  <2>2. /\ cmd.lba <= at - chunk /\ at + remaining = cmd.lba + cmd.blocks
        /\ chunk = 0 => cmd.blocks = 0
        /\ chunk > 0 => ep.pos = chunk
        /\ remaining > 0 /\ Copied(other_bank, next_chunk, at)
    BY <1>1, <1>3 DEF SInv, ReadSoFar, BankIsRead, BankIsSent
  <2>t. /\ at \in Nat /\ chunk \in Nat /\ remaining \in Nat /\ ep.pos \in Nat
        /\ cmd.lba \in Nat /\ cmd.blocks \in Nat
    BY InvTypes
  <2>3. next_chunk \in 1 .. ChunkSectors /\ next_chunk <= remaining /\ other_bank \in {0, 1}
    <3>1. next_chunk > 0
      BY <2>2, <2>t, BotAssumption DEF next_chunk, Least
    <3> QED  BY <3>1, <2>t, LeastFits, BotAssumption DEF Inv, XferType, next_chunk, other_bank
  <2>4. XferType' /\ remaining' \in Nat
    BY <1>1, <2>1, <2>3, BotAssumption DEF Inv, XferType, XferFits
  <2>5. /\ at' - chunk' = at /\ at' + remaining' = at + remaining /\ chunk' > 0
        /\ ep.pos = chunk /\ at' - chunk' - cmd.lba = at - cmd.lba
    <3>1. chunk > 0
      BY <2>2, <2>t
    <3> QED  BY <2>1, <2>2, <2>3, <2>t, <3>1
  <2>6. Moved = at' - chunk' - cmd.lba
    <3>1. at - chunk - cmd.lba + chunk = at - cmd.lba
      BY <2>t
    <3> QED  BY <2>5, <3>1 DEF Moved
  <2>7. BankIsRead'
    <3>1. Copied(cur, chunk, at - chunk)'
      BY <1>1, <2>1, <2>2, <2>5 DEF Copied
    <3>2. cmd'.lba <= at' - chunk' /\ at' + remaining' = cmd'.lba + cmd'.blocks
      BY <1>1, <2>2, <2>5, <2>t
    <3>3. chunk' # 0
      BY <2>1, <2>3, BotAssumption
    <3> QED  BY <3>1, <3>2, <3>3 DEF BankIsRead
  <2>8. /\ NothingStale
        /\ Own /\ host.pc = "in" => HasFirst(Moved)
        /\ Own /\ host.pc = "status" => Moved = 0 \/ (Moved = cmd.blocks /\ HasFirst(Moved))
    BY <1>1 DEF SInv, GotSoFar
  <2> HIDE DEF Moved
  <2> QED  BY <1>1, <2>1, <2>4, <2>6, <2>7, <2>8, SendingKeepsS
<1> QED  BY <1>2, <1>3 DEF ReadJoined

-----------------------------------------------------------------------------
(* WRITE                                                                   *)

(* A call that failed or ended early is for a command given up.            *)
LEMMA GivenUp ==
  ASSUME Inv, SInv, ep.st \in {"short", "err"}
  PROVE  ~Own
<1>1. cmd.tag \in Nat /\ host.tag \in Nat
  BY InvTypes, BotAssumption
<1> QED  BY <1>1 DEF SInv, BrokenOff, Own

LEMMA WriteKeepsS == Inv /\ SInv /\ Write => SInv'
<1> SUFFICES ASSUME Inv, SInv, Write PROVE SInv'
  OBVIOUS
<1>1. /\ pc = "cbw" /\ out_fifo # <<>> /\ Head(out_fifo).kind = "cbw" /\ cmd' = Head(out_fifo).cmd
      /\ cmd'.op = "write" /\ UNCHANGED <<ready, wp>>
      /\ out_fifo' = Tail(out_fifo) /\ UNCHANGED <<banks, disk, host, resets>>
  BY DEF Write, Take
<1>2. NothingStale'
  BY <1>1, NothingIsLeft DEF Streaming
<1>3. CASE ready /\ wp
  <2>1. /\ ep' = Busy /\ UNCHANGED xfer
        /\ pc' = "drain" \/ (pc' = "csw" /\ status' = "failed" /\ sense' = "data_protect")
    BY <1>3 DEF Write, Fail, Answer, StartDrain
  <2>2. ControlStep
    BY <1>1, <2>1, CallTypes DEF Inv, ControlStep, Taken, XferType, xfer
  <2>3. CommandOfPlace' /\ BrokenOff'
    BY <1>1, <1>3, <2>1 DEF CommandOfPlace, BrokenOff, Busy
  <2>4. CswIsTrue'
    <3>1. Reason(cmd)' = "data_protect"
      BY <1>1, <1>3 DEF Reason
    <3> QED  BY <2>1, <3>1 DEF CswIsTrue
  <2> QED  BY <1>2, <2>2, <2>3, <2>4, ControlKeepsS
<1>4. CASE ~(ready /\ wp)
  <2>1. /\ remaining' = cmd'.blocks /\ at' = cmd'.lba
        /\ pc' = "write_prime" /\ ep' = Busy
    BY <1>4 DEF Write
  <2>2. CommandOfPlace' /\ BrokenOff' /\ WriteSoFar'
    BY <1>1, <1>4, <2>1 DEF CommandOfPlace, BrokenOff, WriteSoFar, Busy
  <2>3. ReadSoFar' /\ GotSoFar'
    BY <2>1 DEF ReadSoFar, Streaming, GotSoFar
  <2> QED  BY <1>1, <1>2, <2>1, <2>2, <2>3, TransferKeepsS DEF Taken, Transfers
<1> QED  BY <1>3, <1>4

(* The transport is in a WRITE and stays there.                            *)
LEMMA WritingKeepsS ==
  ASSUME Inv, SInv, Taken, UNCHANGED <<cmd, host, ready, wp>>,
         pc \in {"write_prime", "write_join", "write_last"},
         pc' \in {"write_prime", "write_join", "write_last"},
         BrokenOff', WriteSoFar'
  PROVE  SInv'
<1>1. NothingStale'
  BY NothingIsLeft DEF Streaming
<1>2. CommandOfPlace'
  BY DEF SInv, CommandOfPlace
<1>3. ReadSoFar' /\ GotSoFar'
  BY DEF ReadSoFar, Streaming, GotSoFar
<1> QED  BY <1>1, <1>2, <1>3, TransferKeepsS DEF Transfers

LEMMA ReceiveBlockKeepsS == Inv /\ SInv /\ ReceiveBlock => SInv'
<1> SUFFICES ASSUME Inv, SInv, ReceiveBlock PROVE SInv'
  OBVIOUS
<1>1. /\ pc \in {"write_prime", "write_join"} /\ out_fifo # <<>> /\ out_fifo' = Tail(out_fifo)
      /\ UNCHANGED <<pc, cmd, xfer, disk, host, ready, wp, card>>
      /\ \/ ep'.st \in {"ok", "busy"}
         \/ Head(out_fifo).kind = "cbw" /\ ep'.st = "short"
  <2>1. CASE Head(out_fifo).kind = "data" /\ ep' = [st |-> IF ep.pos + 1 = OutWant THEN "ok" ELSE "busy",
                                                    pos |-> ep.pos + 1]
    BY <2>1 DEF ReceiveBlock, answer, medium, outside
  <2>2. CASE Head(out_fifo).kind = "cbw" /\ ep' = [ep EXCEPT !.st = "short"]
    <3>1. ep'.st = "short"
      BY <2>2 DEF Inv, Calls
    <3> QED  BY <2>2, <3>1 DEF ReceiveBlock, answer, medium, outside
  <2> QED  BY <2>1, <2>2 DEF ReceiveBlock
<1>2. BrokenOff'
  <2>1. Head(out_fifo).kind = "cbw" => cmd.tag < Head(out_fifo).cmd.tag /\ Head(out_fifo).cmd.tag <= host.tag
    BY <1>1, NumbersWithout, InvTypes DEF SInv, TagsInOrder
  <2>2. Head(out_fifo).kind = "cbw" => Head(out_fifo).cmd.tag \in Nat
    BY <1>1, InvTypes
  <2>3. Head(out_fifo).kind = "cbw" => cmd.tag < host.tag
    BY <2>1, <2>2, InvTypes, BotAssumption
  <2> QED  BY <1>1, <2>3 DEF BrokenOff
<1>3. WriteSoFar'
  BY <1>1 DEF SInv, WriteSoFar, Stored, Due, xfer
<1> QED  BY <1>1, <1>2, <1>3, WritingKeepsS DEF Taken

(* The bank received is committed, after all the blocks before it.         *)
LEMMA CommittingKeepsS ==
  ASSUME Inv, SInv, CommitBank(remaining'), remaining' \in Nat,
         pc \in {"write_prime", "write_join"},
         cmd.lba <= at', at' + chunk' + remaining' = cmd.lba + cmd.blocks, Stored(cmd.lba, at'),
         UNCHANGED <<cmd, out_fifo, disk, host, ready, wp>>
  PROVE  SInv'
<1>1. /\ pc' = (IF remaining' > 0 THEN "write_join" ELSE "write_last")
      /\ ep' = (IF remaining' > 0 THEN Busy ELSE Idle) /\ card' = "busy"
  BY DEF CommitBank
<1>2. BrokenOff'
  BY <1>1 DEF BrokenOff, Busy, Idle
<1>3. Stored(cmd.lba, at)'
  BY DEF Stored, Due
<1>4. pc' = "write_last" => remaining' = 0
  BY <1>1
<1>5. WriteSoFar'
  BY <1>1, <1>3, <1>4 DEF WriteSoFar
<1> QED  BY <1>1, <1>2, <1>5, WritingKeepsS DEF Taken

LEMMA WritePrimedKeepsS == Inv /\ SInv /\ WritePrimed => SInv'
<1> SUFFICES ASSUME Inv, SInv, WritePrimed PROVE SInv'
  OBVIOUS
<1>1. /\ UNCHANGED <<cmd, out_fifo, banks, disk, host, resets, ready, wp>> /\ pc = "write_prime"
      /\ at = cmd.lba /\ remaining = cmd.blocks
  BY DEF WritePrimed, outside, SInv, WriteSoFar
<1>2. CASE ~got_all
  <2>1. pc' = "csw" /\ ep' = Busy /\ status' = "failed" /\ UNCHANGED xfer /\ ep.st \in {"short", "err"}
    BY <1>2 DEF WritePrimed, Answer, got_all
  <2>2. ControlStep
    BY <1>1, <2>1, CallTypes DEF Inv, ControlStep, Taken, XferType, xfer
  <2>3. NothingStale'
    BY <1>1, NothingIsLeft DEF Streaming
  <2>4. CswIsTrue'
    BY <1>1, <2>1, GivenUp DEF CswIsTrue, Own, Live
  <2> QED  BY <2>1, <2>2, <2>3, <2>4, AnswersKeepS
<1>3. CASE got_all
  <2>1. /\ remaining' = remaining - chunk /\ UNCHANGED <<chunk, at, cur>>
        /\ CommitBank(remaining')
    BY <1>3 DEF WritePrimed
  <2>t. at \in Nat /\ chunk \in Nat /\ remaining \in Nat /\ chunk <= remaining
    BY <1>1, InvTypes DEF Inv, XferFits
  <2>2. remaining' \in Nat /\ at' + chunk' + remaining' = cmd.lba + cmd.blocks /\ cmd.lba <= at'
    BY <1>1, <2>1, <2>t
  <2>3. Stored(cmd.lba, at')
    <3>1. \A n \in Nat : n .. n - 1 = {}
      OBVIOUS
    <3> QED  BY <1>1, <2>1, <2>t, <3>1 DEF Stored
  <2> QED  BY <1>1, <2>1, <2>2, <2>3, CommittingKeepsS
<1> QED  BY <1>2, <1>3

LEMMA WriteJoinedKeepsS == Inv /\ SInv /\ WriteJoined => SInv'
<1> SUFFICES ASSUME Inv, SInv, WriteJoined PROVE SInv'
  OBVIOUS
<1>1. /\ UNCHANGED <<cmd, out_fifo, banks, disk, host, resets, ready, wp>> /\ pc = "write_join"
      /\ cmd.op = "write" /\ ~(ready /\ wp)
      /\ cmd.lba <= at /\ at + chunk + remaining = cmd.lba + cmd.blocks
      /\ Stored(cmd.lba, at) /\ (card = "ok" => Stored(at, at + chunk))
  BY DEF WriteJoined, SInv, WriteSoFar, CommandOfPlace
<1>2. NothingStale'
  BY <1>1, NothingIsLeft DEF Streaming
<1>3. CASE card = "err"
  <2>1. pc' = "csw" /\ ep' = Busy /\ status' = "failed" /\ sense' = "medium_error" /\ UNCHANGED xfer
    BY <1>3 DEF WriteJoined, Fail, Answer
  <2>2. ControlStep
    BY <1>1, <2>1, CallTypes DEF Inv, ControlStep, Taken, XferType, xfer
  <2>3. CswIsTrue'
    <3>1. Reason(cmd)' = "medium_error"
      BY <1>1 DEF Reason
    <3> QED  BY <2>1, <3>1 DEF CswIsTrue
  <2> QED  BY <1>2, <2>1, <2>2, <2>3, AnswersKeepS
<1>4. CASE card = "ok" /\ ~got_all
  <2>1. /\ pc' = "csw" /\ ep' = Busy /\ status' = "failed" /\ ep.st \in {"short", "err"}
        /\ at' = at + chunk /\ UNCHANGED <<remaining, chunk, cur>>
    BY <1>4 DEF WriteJoined, Answer, got_all
  <2>2. XferType'
    BY <1>1, <2>1, BotAssumption DEF Inv, XferType, XferFits
  <2>3. ControlStep
    BY <1>1, <2>1, <2>2, CallTypes DEF ControlStep, Taken
  <2>4. CswIsTrue'
    BY <1>1, <2>1, GivenUp DEF CswIsTrue, Own, Live
  <2> QED  BY <1>2, <2>1, <2>3, <2>4, AnswersKeepS
<1>5. CASE card = "ok" /\ got_all
  <2>1. /\ at' = at + chunk /\ chunk' = next_chunk
        /\ remaining' = remaining - next_chunk /\ CommitBank(remaining')
    BY <1>5 DEF WriteJoined
  <2>t. /\ at \in Nat /\ chunk \in Nat /\ remaining \in Nat /\ cmd.lba \in Nat /\ cmd.blocks \in Nat
        /\ next_chunk \in Nat /\ next_chunk <= remaining
    <3>1. at \in Nat /\ chunk \in Nat /\ remaining \in Nat /\ cmd.lba \in Nat /\ cmd.blocks \in Nat
      BY InvTypes
    <3> QED  BY <3>1, LeastFits, BotAssumption DEF next_chunk
  <2>2. remaining' \in Nat /\ at' + chunk' + remaining' = cmd.lba + cmd.blocks /\ cmd.lba <= at'
    BY <1>1, <2>1, <2>t
  <2>3. Stored(cmd.lba, at')
    <3>1. ASSUME NEW b \in cmd.lba .. at + chunk - 1 PROVE disk[b] = Due(b)
      <4>1. b \in cmd.lba .. at - 1 \/ b \in at .. at + chunk - 1
        BY <2>t
      <4>2. CASE b \in cmd.lba .. at - 1
        BY <1>1, <2>t, <4>2 DEF Stored
      <4>3. CASE b \in at .. at + chunk - 1
        BY <1>1, <1>5, <2>t, <4>3 DEF Stored
      <4> QED  BY <4>1, <4>2, <4>3
    <3> QED  BY <2>1, <2>t, <3>1 DEF Stored
  <2> QED  BY <1>1, <2>1, <2>2, <2>3, CommittingKeepsS
<1> QED  BY <1>3, <1>4, <1>5 DEF WriteJoined

LEMMA CardWritesKeepsS == Inv /\ SInv /\ CardWrites => SInv'
<1> SUFFICES ASSUME Inv, SInv, CardWrites PROVE SInv'
  OBVIOUS
<1>1. /\ pc \in {"write_join", "write_last"} /\ card = "busy"
      /\ UNCHANGED <<pc, cmd, out_fifo, remaining, chunk, at, cur, banks, ep, host, ready, wp, resets>>
  BY DEF CardWrites, answer, xfer, outside
<1>2. BrokenOff'
  BY <1>1 DEF SInv, BrokenOff, Own, Live
<1>3. PICK n \in 0 .. chunk, torn \in BOOLEAN :
        /\ disk' = [b \in DOMAIN disk |->
                     IF b \in at .. at + n - 1 THEN banks[cur][b - at + 1]
                     ELSE IF torn /\ b = at + n THEN Torn ELSE disk[b]]
        /\ card' = "ok" => n = chunk
  BY DEF CardWrites
<1>t. /\ at \in Nat /\ chunk \in Nat /\ remaining \in Nat /\ cmd.lba \in Nat /\ cmd.blocks \in Nat
      /\ n \in Nat
  <2>1. at \in Nat /\ chunk \in Nat /\ remaining \in Nat /\ cmd.lba \in Nat /\ cmd.blocks \in Nat
    BY InvTypes
  <2> QED  BY <2>1
<1>4. /\ cmd.lba <= at /\ at + chunk + remaining = cmd.lba + cmd.blocks
      /\ Stored(cmd.lba, at)
      /\ pc = "write_last" => remaining = 0
      /\ DOMAIN disk = 0 .. BlockCount - 1 /\ at + chunk + remaining <= BlockCount
  BY <1>1 DEF SInv, WriteSoFar, Inv, DiskType, XferFits
<1>5. \A b \in cmd.lba .. at + chunk - 1 : b \in DOMAIN disk
  BY <1>4, <1>t, BotAssumption
<1>6. Stored(cmd.lba, at)'
  <2>1. ASSUME NEW b \in cmd.lba .. at - 1 PROVE disk'[b] = Due(b)
    <3>1. b \in DOMAIN disk /\ b \notin at .. at + n - 1 /\ b # at + n
      BY <1>5, <1>t
    <3>2. disk'[b] = disk[b]
      BY <1>3, <3>1
    <3> QED  BY <1>4, <1>t, <3>2 DEF Stored
  <2> QED  BY <1>1, <1>t, <2>1 DEF Stored, Due
<1>7. card' = "ok" => Stored(at, at + chunk)'
  <2> SUFFICES ASSUME card' = "ok" PROVE Stored(at, at + chunk)'
    OBVIOUS
  <2>1. ASSUME NEW b \in at .. at + chunk - 1 PROVE disk'[b] = Due(b)
    <3>1. b \in DOMAIN disk /\ b \in at .. at + n - 1
      BY <1>3, <1>4, <1>5, <1>t
    <3>2. disk'[b] = banks[cur][b - at + 1]
      BY <1>3, <3>1
    <3>3. b - at + 1 \in 1 .. chunk /\ at + (b - at + 1) - 1 = b
      BY <1>t
    <3>4. banks[cur][b - at + 1] = Due(at + (b - at + 1) - 1)
      BY <1>1, <3>3 DEF Inv, BankInPlace
    <3> QED  BY <3>2, <3>3, <3>4
  <2> QED  BY <1>1, <1>t, <2>1 DEF Stored, Due
<1>8. WriteSoFar'
  BY <1>1, <1>4, <1>6, <1>7 DEF WriteSoFar
<1> QED  BY <1>1, <1>2, <1>8, WritingKeepsS DEF Taken

-----------------------------------------------------------------------------
(* The host                                                                *)

(* The host gives its command up: whatever the transport says is none of   *)
(* its business until the next.                                            *)
GivesUp ==
  /\ PipeStops
  /\ host'.pc \in {"off", "reset", "idle", "clear"}
  /\ ep'.st = "short" => ep.st = "short"
  /\ pc' = "returned" => cmd = NoCommand
  /\ UNCHANGED <<sense, ejected, card, ready, wp>>

LEMMA GivingUpActions ==
  ASSUME Inv, SInv,
         \/ Exit \/ Attach \/ UntimelyReset \/ HostTimeout
         \/ SetConfiguration \/ ClassReset \/ ClearHalts
  PROVE  GivesUp
<1>1. PipeStops
  BY StoppingActions
<1>2. pc' = "returned" => cmd = NoCommand
  BY DEF Exit, Attach, UntimelyReset, HostTimeout, BusReset, SetConfiguration, ClassReset, ClearHalts,
     SInv, CommandOfPlace
<1>3. host'.pc \in {"off", "reset", "idle", "clear"}
  BY DEF Exit, Attach, UntimelyReset, HostTimeout, BusReset, SetConfiguration, ClassReset, ClearHalts,
     Inv, HostType, Hosts
<1>4. UNCHANGED <<sense, ejected, card, ready, wp>>
  BY Zenon DEF Exit, Attach, UntimelyReset, HostTimeout, BusReset, SetConfiguration, ClassReset, ClearHalts,
     scsi, medium
<1>5. ep'.st = "short" => ep.st = "short"
  <2>1. CASE Exit
    BY <2>1 DEF Exit, Idle
  <2>2. CASE Attach \/ UntimelyReset \/ HostTimeout
    BY <2>2 DEF Attach, UntimelyReset, HostTimeout, BusReset, Inv, Calls
  <2>3. CASE SetConfiguration \/ ClearHalts
    BY <2>3 DEF SetConfiguration, ClearHalts, PipesReset, Sent, Inv, Calls
  <2>4. CASE ClassReset
    BY <2>4 DEF ClassReset
  <2> QED  BY <2>1, <2>2, <2>3, <2>4
<1> QED  BY <1>1, <1>2, <1>3, <1>4, <1>5 DEF GivesUp

(* A packet of the bank being sent is gone.                                *)
LEMMA SentCounts ==
  ASSUME Inv, Streaming, ep.st = "busy"
  PROVE  /\ Sent.pos = ep.pos + 1 /\ ep.pos \in Nat
         /\ Sent.st = "ok" => Sent.pos > 0 /\ (chunk > 0 => Sent.pos = chunk)
         /\ Sent.st \in {"busy", "ok"} /\ (Sent.st = "busy" => chunk > 0)
         /\ chunk > 0 => ep.pos < chunk
<1>1. ep.pos \in Nat /\ chunk \in Nat /\ (chunk > 0 => ep.pos < chunk)
  BY InvTypes DEF Inv, SendFits
<1> QED  BY <1>1 DEF Sent

LEMMA GivingUpKeepsS == Inv /\ SInv /\ GivesUp => SInv'
<1> SUFFICES ASSUME Inv, SInv, GivesUp PROVE SInv'
  OBVIOUS
<1>1. /\ pc' \in {pc, "returned"} /\ (pc' = "returned" => cmd = NoCommand)
      /\ UNCHANGED <<cmd, remaining, chunk, at, cur, banks, disk, ejected, card, ready, wp>>
      /\ out_fifo' \in {out_fifo, <<>>}
      /\ host'.tag = host.tag /\ host'.cmd = host.cmd /\ host'.pc \in {"off", "reset", "idle", "clear"}
  BY DEF GivesUp, PipeStops, xfer, Inv, HostType, Hosts
<1>2. ~Live' /\ ~Own'
  BY <1>1 DEF Live, Own
<1>3. TagsInOrder'
  <2>1. CASE out_fifo' = out_fifo
    BY <1>1, <2>1 DEF SInv, TagsInOrder, Numbered
  <2>2. CASE out_fifo' = <<>>
    BY <1>1, <2>2 DEF SInv, TagsInOrder, Numbered
  <2> QED  BY <1>1, <2>1, <2>2
<1>4. HostInOrder' /\ NothingStale' /\ GotSoFar' /\ CswIsTrue'
  BY <1>1, <1>2 DEF SInv, HostInOrder, NothingStale, GotSoFar, CswIsTrue
<1>5. BrokenOff'
  BY <1>1, <1>2 DEF GivesUp, SInv, BrokenOff
<1>6. CommandOfPlace' /\ WriteSoFar'
  BY <1>1 DEF SInv, CommandOfPlace, WriteSoFar, Stored, Due
<1>7. ReadSoFar'
  <2>1. Streaming' => Streaming /\ BankIsRead' /\ pc' = pc
    BY <1>1 DEF SInv, ReadSoFar, Streaming, BankIsRead, Copied
  <2>2. Streaming' => BankIsSent'
    <3>1. CASE ep'.st \notin {"busy", "ok"}
      BY <3>1 DEF BankIsSent
    <3>2. CASE ep' = ep
      BY <1>1, <2>1, <3>2 DEF SInv, ReadSoFar, BankIsSent
    <3>3. CASE Sending /\ ep.st = "busy" /\ ep' = Sent
      BY <1>1, <2>1, <3>3, SentCounts DEF BankIsSent
    <3> QED  BY <3>1, <3>2, <3>3 DEF GivesUp, PipeStops
  <2> QED
    BY <1>1, <2>1, <2>2 DEF SInv, ReadSoFar, Streaming, Copied, next_chunk, Least, other_bank
<1> QED  BY <1>3, <1>4, <1>5, <1>6, <1>7 DEF SInv

(* A packet more of the pipe's.                                            *)
LEMMA SendDataKeepsS == Inv /\ SInv /\ SendData => SInv'
<1> SUFFICES ASSUME Inv, SInv, SendData PROVE SInv'
  OBVIOUS
<1>1. /\ host.pc = "out" /\ Live
      /\ UNCHANGED <<pc, cmd, status, sense, ejected, remaining, chunk, at, cur, banks, ep, card, ready, wp, disk>>
      /\ host'.tag = host.tag /\ host'.cmd = host.cmd /\ host'.got = host.got
      /\ host'.pc \in {"out", "status"} /\ Live'
  BY DEF SendData, answer, scsi, xfer, medium, Live, Inv, HostType, Hosts
<1>2. TagsInOrder'
  <2>1. PICK p \in [kind : {"data"}, block : [by : {host.tag}, at : {host.cmd.lba + host.sent}]] :
          out_fifo' = Append(out_fifo, p) /\ p.kind = "data"
    BY DEF SendData
  <2>2. /\ Len(out_fifo') = Len(out_fifo) + 1 /\ Len(out_fifo) \in Nat
        /\ \A i \in 1 .. Len(out_fifo) : out_fifo'[i] = out_fifo[i]
        /\ out_fifo'[Len(out_fifo) + 1].kind = "data"
    BY <2>1, InvTypes
  <2>3. \A i \in 1 .. Len(out_fifo') : out_fifo'[i].kind = "cbw" =>
          /\ i \in 1 .. Len(out_fifo) /\ out_fifo'[i] = out_fifo[i]
          /\ \A j \in 1 .. i - 1 : out_fifo'[j] = out_fifo[j]
    BY <2>2
  <2> QED  BY <1>1, <2>3 DEF SInv, TagsInOrder, Numbered
<1>3. HostInOrder' /\ NothingStale' /\ CommandOfPlace'
  BY <1>1 DEF SInv, HostInOrder, NothingStale, CommandOfPlace
<1>4. BrokenOff' /\ CswIsTrue'
  BY <1>1 DEF SInv, BrokenOff, CswIsTrue, Own, HasFirst, Stored, Due, Reason
<1>5. WriteSoFar' /\ ReadSoFar'
  BY <1>1 DEF SInv, WriteSoFar, ReadSoFar, Stored, Due, Copied, BankIsRead, BankIsSent, Streaming, next_chunk,
     Least, other_bank
<1>6. GotSoFar'
  <2>1. ~(Streaming /\ Own)
    <3>1. Own => cmd = host.cmd
      BY DEF Own, SInv, TagsInOrder, Numbered
    <3>2. Streaming => cmd.op = "read"
      BY DEF Streaming, SInv, CommandOfPlace
    <3> QED  BY <1>1, <3>1, <3>2 DEF SInv, HostInOrder
  <2> QED  BY <1>1, <2>1 DEF GotSoFar, Streaming, Own
<1> QED  BY <1>2, <1>3, <1>4, <1>5, <1>6 DEF SInv

LEMMA SendCbwKeepsS == Inv /\ SInv /\ SendCbw => SInv'
<1> SUFFICES ASSUME Inv, SInv, SendCbw PROVE SInv'
  OBVIOUS
<1>1. PICK c \in Commands :
        LET k == [tag |-> host.tag + 1, op |-> c.op, lba |-> c.lba, blocks |-> c.blocks]
        IN  /\ out_fifo' = Append(out_fifo, [kind |-> "cbw", cmd |-> k])
            /\ host' = [pc |-> DataPhase(k), tag |-> host.tag + 1, cmd |-> k,
                        got |-> <<>>, sent |-> 0]
  BY DEF SendCbw
<1> DEFINE k == [tag |-> host.tag + 1, op |-> c.op, lba |-> c.lba, blocks |-> c.blocks]
           p == [kind |-> "cbw", cmd |-> k]
<1>2. /\ UNCHANGED <<pc, cmd, status, sense, ejected, remaining, chunk, at, cur, banks, ep, card, ready, wp, disk>>
      /\ host'.tag = host.tag + 1 /\ host'.cmd = k /\ host'.got = <<>> /\ host'.pc = DataPhase(k)
      /\ out_fifo' = Append(out_fifo, p)
  BY <1>1 DEF SendCbw, answer, scsi, xfer, medium
<1>t. host.tag \in Nat /\ cmd.tag \in Nat /\ k.tag = host.tag + 1 /\ p.kind = "cbw" /\ p.cmd = k
  BY InvTypes, BotAssumption
<1>b. k.blocks \in Nat
  BY BotAssumption DEF Command
<1>3. ~Own' /\ cmd.tag < host'.tag
  <2>1. cmd.tag <= host.tag
    BY DEF SInv, TagsInOrder, Numbered
  <2> QED  BY <1>2, <1>t, <2>1 DEF Own
<1>h. DataPhase(k) = "in" => k.blocks > 0
  BY <1>b DEF DataPhase
<1>o. DataPhase(k) = "out" => k.op \in {"write", "other_out", "short_write", "empty_out"}
  BY DEF DataPhase
<1> HIDE DEF k, p
<1>4. TagsInOrder'
  <2>2. /\ Len(out_fifo') = Len(out_fifo) + 1 /\ Len(out_fifo) \in Nat
        /\ \A i \in 1 .. Len(out_fifo) : out_fifo'[i] = out_fifo[i]
        /\ out_fifo'[Len(out_fifo) + 1] = p
    BY <1>2, InvTypes
  <2>3. ASSUME NEW i \in 1 .. Len(out_fifo'), out_fifo'[i].kind = "cbw"
        PROVE  /\ cmd'.tag < out_fifo'[i].cmd.tag /\ out_fifo'[i].cmd.tag <= host'.tag
               /\ out_fifo'[i].cmd.tag = host'.tag => out_fifo'[i].cmd = host'.cmd
               /\ \A j \in 1 .. i - 1 : out_fifo'[j].kind = "cbw" => out_fifo'[j].cmd.tag < out_fifo'[i].cmd.tag
    <3>1. CASE i \in 1 .. Len(out_fifo)
      <4>1. /\ out_fifo'[i] = out_fifo[i] /\ out_fifo[i].cmd.tag \in Nat
            /\ \A j \in 1 .. i - 1 : out_fifo'[j] = out_fifo[j]
        BY <2>2, <2>3, <3>1, InvTypes
      <4>2. /\ cmd.tag < out_fifo[i].cmd.tag /\ out_fifo[i].cmd.tag <= host.tag
            /\ \A j \in 1 .. i - 1 : out_fifo[j].kind = "cbw" => out_fifo[j].cmd.tag < out_fifo[i].cmd.tag
        BY <2>3, <3>1, <4>1 DEF SInv, TagsInOrder, Numbered
      <4>3. out_fifo[i].cmd.tag < host.tag + 1
        BY <1>t, <4>1, <4>2
      <4>4. out_fifo[i].cmd.tag <= host'.tag /\ out_fifo[i].cmd.tag # host'.tag
        BY <1>2, <1>t, <4>1, <4>3
      <4> QED  BY <1>2, <4>1, <4>2, <4>4
    <3>2. CASE i = Len(out_fifo) + 1
      <4>1. out_fifo'[i].cmd = k /\ k.tag = host'.tag /\ cmd' = cmd /\ host'.cmd = k
        BY <1>2, <1>t, <2>2, <3>2
      <4>2. ASSUME NEW j \in 1 .. i - 1, out_fifo'[j].kind = "cbw" PROVE out_fifo'[j].cmd.tag < k.tag
        <5>1. j \in 1 .. Len(out_fifo) /\ out_fifo'[j] = out_fifo[j]
          BY <2>2, <3>2
        <5>2. out_fifo[j].cmd.tag <= host.tag /\ out_fifo[j].cmd.tag \in Nat
          BY <4>2, <5>1, InvTypes DEF SInv, TagsInOrder, Numbered
        <5> QED  BY <1>t, <5>1, <5>2
      <4>3. k.tag <= host'.tag
        BY <1>2, <1>t
      <4> QED  BY <1>3, <4>1, <4>2, <4>3
    <3> QED  BY <2>2, <3>1, <3>2
  <2>4. cmd'.tag <= host'.tag /\ host'.cmd.tag = host'.tag /\ cmd'.tag # host'.tag
    BY <1>2, <1>3, <1>t
  <2> QED  BY <2>3, <2>4 DEF TagsInOrder, Numbered
<1>5. HostInOrder'
  <2>1. host'.tag # 0
    BY <1>2, <1>t
  <2> QED  BY <1>2, <1>h, <1>o, <2>1 DEF HostInOrder
<1>6. NothingStale' /\ CommandOfPlace' /\ GotSoFar' /\ CswIsTrue' /\ BrokenOff'
  BY <1>2, <1>3 DEF SInv, NothingStale, CommandOfPlace, GotSoFar, CswIsTrue, BrokenOff
<1>7. WriteSoFar' /\ ReadSoFar'
  BY <1>2 DEF SInv, WriteSoFar, ReadSoFar, Stored, Due, Copied, BankIsRead, BankIsSent, Streaming, next_chunk,
     Least, other_bank
<1> QED  BY <1>4, <1>5, <1>6, <1>7 DEF SInv

(* The next block of a READ is the one the host lacks.                     *)
LEMMA OneMoreBlock ==
  ASSUME Inv, SInv, Own, Streaming, chunk > 0, ep.st = "busy", host.pc = "in",
         UNCHANGED <<disk, at, chunk, cmd>>, host'.cmd = host.cmd, ep' = Sent,
         host'.got = Append(host.got, banks[cur][ep.pos + 1])
  PROVE  HasFirst(Moved)' /\ Moved' = Len(host.got) + 1
<1>t. /\ at \in Nat /\ chunk \in Nat /\ ep.pos \in Nat /\ cmd.lba \in Nat
      /\ ep.pos < chunk /\ ep'.pos = ep.pos + 1
  BY InvTypes, SentCounts
<1>1. /\ HasFirst(Moved) /\ cmd.lba <= at - chunk /\ Copied(cur, chunk, at - chunk)
      /\ cmd = host.cmd
  BY DEF SInv, GotSoFar, ReadSoFar, BankIsRead, Own, TagsInOrder, Numbered
<1>2. Moved \in Nat /\ Moved' = Moved + 1 /\ cmd.lba + (Moved + 1) - 1 = at - chunk + (ep.pos + 1) - 1
  <2>2. Moved = (at - chunk - cmd.lba) + ep.pos /\ Moved' = (at - chunk - cmd.lba) + (ep.pos + 1)
    BY <1>t DEF Moved
  <2> HIDE DEF Moved
  <2>3. PICK l \in Nat, n \in Nat, a \in Nat, c \in Nat :
          l = cmd.lba /\ n = ep.pos /\ a = at /\ c = chunk
    BY <1>t
  <2>4. l <= a - c
    BY <1>1, <2>3
  <2>5. (a - c - l) + n \in Nat /\ (a - c - l) + (n + 1) = ((a - c - l) + n) + 1
    BY <2>4
  <2>6. l + (((a - c - l) + n) + 1) - 1 = a - c + (n + 1) - 1
    OBVIOUS
  <2> QED  BY <2>2, <2>3, <2>5, <2>6
<1>3. banks[cur][ep.pos + 1] = disk[cmd.lba + (Moved + 1) - 1]
  <2>1. ep.pos + 1 \in 1 .. chunk
    BY <1>t
  <2> QED  BY <1>1, <1>2, <2>1 DEF Copied
<1> DEFINE m == Moved
<1>4. host.got \in Seq(Block \cup {Torn}) /\ Len(host.got) = m
      /\ \A i \in 1 .. m : host.got[i] = disk[host.cmd.lba + i - 1]
  BY <1>1 DEF Inv, HostType, Hosts, HasFirst
<1>5. m \in Nat /\ Moved' = m + 1 /\ banks[cur][ep.pos + 1] = disk[host.cmd.lba + (m + 1) - 1]
  BY <1>1, <1>2, <1>3
<1> HIDE DEF m
<1>6. Len(host'.got) = m + 1 /\ host'.got[m + 1] = banks[cur][ep.pos + 1]
      /\ \A i \in 1 .. m : host'.got[i] = host.got[i]
  BY <1>4, <1>5
<1>7. \A i \in 1 .. m + 1 : i \in 1 .. m \/ i = m + 1
  BY <1>5
<1>8. \A i \in 1 .. m + 1 : host'.got[i] = disk'[host'.cmd.lba + i - 1]
  <2>1. host'.got[m + 1] = disk'[host'.cmd.lba + (m + 1) - 1]
    BY <1>5, <1>6
  <2>2. \A i \in 1 .. m : host'.got[i] = disk'[host'.cmd.lba + i - 1]
    BY <1>4, <1>6
  <2> QED  BY <1>7, <2>1, <2>2
<1> QED  BY <1>4, <1>5, <1>6, <1>8 DEF HasFirst

LEMMA TakeInKeepsS == Inv /\ SInv /\ TakeIn => SInv'
<1> SUFFICES ASSUME Inv, SInv, TakeIn PROVE SInv'
  OBVIOUS
<1>1. /\ Sending /\ ep.st = "busy" /\ ep' = Sent /\ host' = Took(InPacket)
      /\ host.pc \in {"in", "status"} /\ Live
      /\ UNCHANGED <<pc, cmd, out_fifo, status, sense, ejected, remaining, chunk, at, cur, banks,
                     disk, card, ready, wp>>
  BY DEF TakeIn, CanTake, Live, answer, scsi, xfer, medium
<1>2. \/ /\ host'.pc \in {"idle", "error", "status"} /\ host'.got = host.got
         /\ Streaming => host'.pc = "error" \/ (chunk = 0 /\ host.pc = "in")
      \/ /\ Streaming /\ chunk # 0 /\ host.pc = "in"
         /\ host'.got = Append(host.got, banks[cur][ep.pos + 1])
         /\ host'.pc = IF Len(host.got) + 1 = host.cmd.blocks THEN "status" ELSE "in"
  <2>h. host \in Hosts
    BY DEF Inv, HostType
  <2>1. CASE pc \in {"csw", "data_in"}
    BY <1>1, <2>h, <2>1 DEF InPacket, Took, OwnStatus, Hosts, Streaming
  <2>2. CASE Streaming /\ chunk = 0
    BY <1>1, <2>h, <2>2 DEF InPacket, Took, OwnStatus, Hosts, Streaming
  <2>3. CASE Streaming /\ chunk # 0
    BY <1>1, <2>h, <2>3 DEF InPacket, Took, OwnStatus, Hosts, Streaming
  <2> QED  BY <1>1, <2>1, <2>2, <2>3 DEF Sending, Streaming
<1>3. host'.tag = host.tag /\ host'.cmd = host.cmd
  BY <1>1 DEF Took, Inv, HostType, Hosts
<1>4. Own' => Own
  BY <1>1, <1>3 DEF Own
<1>5. TagsInOrder'
  BY <1>1, <1>3 DEF SInv, TagsInOrder, Numbered
<1>6. HostInOrder' /\ NothingStale'
  <2>1. host'.pc = "in" => host.pc = "in" /\ Streaming
    BY <1>2
  <2>2. host'.pc # "out" /\ host.tag # 0
    BY <1>1, <1>2 DEF SInv, HostInOrder
  <2> QED  BY <1>1, <1>3, <2>1, <2>2 DEF SInv, HostInOrder, NothingStale, Streaming
<1>7. CommandOfPlace' /\ WriteSoFar'
  BY <1>1 DEF SInv, CommandOfPlace, WriteSoFar, Stored, Due
<1>8. BrokenOff'
  BY <1>1 DEF BrokenOff, Sent
<1>9. ReadSoFar'
  <2>1. Streaming => BankIsRead' /\ BankIsSent'
    BY <1>1, SentCounts DEF SInv, ReadSoFar, BankIsRead, BankIsSent, Copied
  <2> QED
    BY <1>1, <2>1 DEF SInv, ReadSoFar, Streaming, Copied, next_chunk, Least, other_bank
<1>10. CswIsTrue'
  <2> SUFFICES ASSUME pc = "csw", Own' PROVE CswIsTrue'
    BY <1>1 DEF CswIsTrue
  <2>1. host'.got = host.got /\ Own
    BY <1>2, <1>4 DEF Streaming
  <2> QED  BY <1>1, <1>3, <2>1 DEF SInv, CswIsTrue, HasFirst, Stored, Due, Reason
<1>11. GotSoFar'
  <2> SUFFICES ASSUME Streaming, Own' PROVE GotSoFar'
    BY <1>1 DEF GotSoFar, Streaming
  <2>1. Own /\ cmd = host.cmd /\ Live'
    BY <1>4 DEF Own, SInv, TagsInOrder, Numbered
  <2>2. ~(chunk = 0 /\ host.pc = "in")
    BY <2>1, InvTypes DEF SInv, ReadSoFar, BankIsRead, HostInOrder
  <2>3. /\ chunk # 0 /\ host.pc = "in"
        /\ host'.got = Append(host.got, banks[cur][ep.pos + 1])
        /\ host'.pc = IF Len(host.got) + 1 = host.cmd.blocks THEN "status" ELSE "in"
    BY <1>2, <2>1, <2>2 DEF Live
  <2>4. chunk > 0
    BY <2>3, InvTypes
  <2>5. HasFirst(Moved)' /\ Moved' = Len(host.got) + 1
    BY <1>1, <1>3, <2>1, <2>3, <2>4, OneMoreBlock
  <2> QED  BY <1>1, <2>1, <2>3, <2>5 DEF GotSoFar
<1> QED  BY <1>5, <1>6, <1>7, <1>8, <1>9, <1>10, <1>11 DEF SInv

(* What neither side of the transfer sees.                                 *)
LEMMA UnseenKeepsS ==
  ASSUME SInv, UNCHANGED <<pc, answer, scsi, xfer, banks, ep, out_fifo, medium, host>>
  PROVE  SInv'
<1>1. TagsInOrder' /\ HostInOrder' /\ CommandOfPlace' /\ BrokenOff' /\ NothingStale'
  BY DEF SInv, TagsInOrder, HostInOrder, CommandOfPlace, BrokenOff, NothingStale, Live, Own, Streaming,
     answer, scsi, medium
<1>2. WriteSoFar' /\ ReadSoFar'
  BY DEF SInv, WriteSoFar, ReadSoFar, Stored, Due, Copied, BankIsRead, BankIsSent, Streaming, next_chunk,
     Least, other_bank, answer, xfer, medium
<1>3. GotSoFar' /\ CswIsTrue'
  BY DEF SInv, GotSoFar, CswIsTrue, HasFirst, Moved, Stored, Due, Reason, Live, Own, Streaming,
     answer, scsi, xfer, medium
<1> QED  BY <1>1, <1>2, <1>3 DEF SInv

LEMMA HangKeepsS ==
  ASSUME SInv, CardHangs
  PROVE  SInv'
<1>1. card' = "dead" /\ UNCHANGED <<pc, answer, scsi, xfer, banks, ep, out_fifo, ready, wp, disk, host>>
  BY DEF CardHangs
<1>2. TagsInOrder' /\ HostInOrder' /\ CommandOfPlace' /\ BrokenOff' /\ NothingStale'
  BY <1>1 DEF SInv, TagsInOrder, HostInOrder, CommandOfPlace, BrokenOff, NothingStale, Live, Own,
     Streaming, answer, scsi
<1>3. WriteSoFar' /\ ReadSoFar'
  BY <1>1 DEF SInv, WriteSoFar, ReadSoFar, Stored, Due, Copied, BankIsRead, BankIsSent, Streaming,
     next_chunk, Least, other_bank, answer, xfer
<1>4. GotSoFar' /\ CswIsTrue'
  BY <1>1 DEF SInv, GotSoFar, CswIsTrue, HasFirst, Moved, Stored, Due, Reason, Live, Own, Streaming,
     answer, scsi, xfer
<1> QED  BY <1>2, <1>3, <1>4 DEF SInv

-----------------------------------------------------------------------------
(* Every behaviour                                                         *)

LEMMA InitSInv == Init => SInv
<1> SUFFICES ASSUME Init PROVE SInv
  OBVIOUS
<1>1. /\ pc = "cbw" /\ ep.st = "busy" /\ out_fifo = <<>> /\ cmd = NoCommand
      /\ host.pc = "off" /\ host.tag = 0 /\ host.cmd = NoCommand
  BY DEF Init, Busy
<1>2. TagsInOrder
  BY <1>1 DEF TagsInOrder, Numbered, NoCommand
<1>3. HostInOrder /\ CommandOfPlace /\ BrokenOff /\ WriteSoFar /\ ReadSoFar /\ NothingStale /\ GotSoFar /\ CswIsTrue
  BY <1>1 DEF HostInOrder, Live, CommandOfPlace, BrokenOff, WriteSoFar, ReadSoFar, Streaming, NothingStale,
     GotSoFar, CswIsTrue
<1> QED  BY <1>2, <1>3 DEF SInv

LEMMA SInvStep == Inv /\ SInv /\ [Next]_vars => SInv'
<1> SUFFICES ASSUME Inv, SInv, [Next]_vars PROVE SInv'
  OBVIOUS
<1>1. CASE \/ TestUnitReady \/ RequestSense \/ Inquiry \/ ReadCapacity \/ StartStopUnit \/ Unsupported
           \/ EmptyBlock \/ ShortBlock
  BY <1>1, TakingKeepsS
<1>2. CASE CbwReadFails \/ WaitEnabled \/ BadCbw \/ CswDone \/ EnterMode
  BY <1>2, LoopingKeepsS
<1>3. CASE EnsureReady \/ DataInDone \/ Drained \/ WriteDone
  BY <1>3, AnsweringKeepsS
<1>4. CASE Drain \/ ReadDone
  BY <1>4, DrainKeepsS, ReadDoneKeepsS
<1>5. CASE Read \/ CardReads \/ ReadPrimed \/ ReadJoined
  BY <1>5, ReadKeepsS, CardReadsKeepsS, ReadPrimedKeepsS, ReadJoinedKeepsS
<1>6. CASE ReceiveBlock \/ Write \/ WritePrimed \/ CardWrites \/ WriteJoined
  BY <1>6, ReceiveBlockKeepsS, WriteKeepsS, WritePrimedKeepsS, CardWritesKeepsS, WriteJoinedKeepsS
<1>7. CASE \/ Exit \/ Attach \/ UntimelyReset \/ HostTimeout
           \/ SetConfiguration \/ ClassReset \/ ClearHalts
  BY <1>7, GivingUpActions, GivingUpKeepsS
<1>8. CASE SendCbw \/ SendData \/ TakeIn
  BY <1>8, SendCbwKeepsS, SendDataKeepsS, TakeInKeepsS
<1>9. CASE PressBack \/ UNCHANGED vars
  BY <1>9, UnseenKeepsS DEF PressBack, vars, outside
<1>10. CASE CardHangs
  BY <1>10, HangKeepsS
<1> QED  BY <1>1, <1>2, <1>3, <1>4, <1>5, <1>6, <1>7, <1>8, <1>9, <1>10 DEF Next, Transport, Host

LEMMA SInvAlways == Spec => [](Inv /\ SInv)
<1>1. Init => Inv /\ SInv
  BY InitInv, InitSInv
<1>2. Inv /\ SInv /\ [Next]_vars => (Inv /\ SInv)'
  BY InvStep, SInvStep
<1> QED  BY <1>1, <1>2, PTL DEF Spec

(* The status a host accepts is its own command's, sent by a transport     *)
(* that is still at that command.                                          *)
LEMMA AcceptedIsOwn ==
  ASSUME Inv, SInv, NEW s \in {"good", "failed"}, Accepted(s)
  PROVE  pc = "csw" /\ Own /\ cmd = host.cmd /\ status = s
<1>1. CanTake /\ OwnStatus(InPacket) /\ InPacket.status = s
  BY DEF Accepted
<1>2. pc = "csw"
  <2>1. CASE pc = "data_in"
    <3>1. InPacket = [kind |-> "reply"]
      BY <2>1 DEF InPacket, Streaming
    <3>2. InPacket.kind = "reply"
      BY <3>1
    <3> QED  BY <1>1, <3>2 DEF OwnStatus
  <2>2. CASE Streaming
    <3>1. InPacket.kind \in {"zlp", "data"}
      BY <2>2 DEF InPacket, Streaming
    <3> QED  BY <1>1, <3>1 DEF OwnStatus
  <2> QED  BY <1>1, <2>1, <2>2 DEF CanTake, Sending, Streaming
<1>3. cmd.tag = host.tag /\ status = s /\ Live
  BY <1>1, <1>2 DEF InPacket, OwnStatus, CanTake, Live
<1> QED  BY <1>2, <1>3 DEF Own, SInv, TagsInOrder, Numbered

LEMMA AcceptedIsTrue ==
  ASSUME Inv, SInv
  PROVE  LET n == host.cmd.blocks
             place(i) == host.cmd.lba + i - 1 IN
         /\ Accepted("good") =>
              /\ host.cmd.op = "read" => host.got = [i \in 1 .. n |-> disk[place(i)]]
              /\ host.cmd.op = "write" => \A i \in 1 .. n :
                   disk[place(i)] = [by |-> host.tag, at |-> place(i)]
         /\ Accepted("failed") => sense = Reason(host.cmd)
<1>1. ASSUME Accepted("good"), host.cmd.op = "read"
      PROVE  host.got = [i \in 1 .. host.cmd.blocks |-> disk[host.cmd.lba + i - 1]]
  <2>1. HasFirst(host.cmd.blocks)
    BY <1>1, AcceptedIsOwn DEF SInv, CswIsTrue
  <2>2. host.got \in Seq(Block \cup {Torn})
    BY DEF Inv, HostType, Hosts
  <2>3. host.got = [i \in 1 .. Len(host.got) |-> host.got[i]]
    BY <2>2
  <2> QED  BY <2>1, <2>3 DEF HasFirst
<1>2. ASSUME Accepted("good"), host.cmd.op = "write", NEW i \in 1 .. host.cmd.blocks
      PROVE  disk[host.cmd.lba + i - 1] = [by |-> host.tag, at |-> host.cmd.lba + i - 1]
  <2>1. Stored(cmd.lba, cmd.lba + cmd.blocks) /\ cmd = host.cmd /\ cmd.tag = host.tag
    BY <1>2, AcceptedIsOwn DEF SInv, CswIsTrue, Own
  <2>2. cmd.lba + i - 1 \in cmd.lba .. cmd.lba + cmd.blocks - 1
    BY <1>2, <2>1, InvTypes
  <2>3. disk[cmd.lba + i - 1] = Due(cmd.lba + i - 1)
    <3>1. cmd.lba \in Nat /\ cmd.blocks \in Nat
      BY InvTypes
    <3> QED  BY <2>1, <2>2, <3>1 DEF Stored
  <2> QED  BY <2>1, <2>3 DEF Due
<1>3. ASSUME Accepted("failed") PROVE sense = Reason(host.cmd)
  BY <1>3, AcceptedIsOwn DEF SInv, CswIsTrue
<1> QED  BY <1>1, <1>2, <1>3

(* A status the host accepts is true, of READs and of WRITEs and of        *)
(* refusals, whatever was broken off before (bot.rs, run_until).           *)
THEOREM StatusesAreTrue == Spec => StatusIsTrue
<1>1. Inv /\ SInv /\ [Next]_vars =>
        [LET n == host.cmd.blocks
             place(i) == host.cmd.lba + i - 1 IN
         /\ Accepted("good") =>
              /\ host.cmd.op = "read" => host.got = [i \in 1 .. n |-> disk[place(i)]]
              /\ host.cmd.op = "write" => \A i \in 1 .. n :
                   disk[place(i)] = [by |-> host.tag, at |-> place(i)]
         /\ Accepted("failed") => sense = Reason(host.cmd)]_vars
  BY AcceptedIsTrue
<1> QED  BY <1>1, SInvAlways, PTL DEF Spec, StatusIsTrue
-----------------------------------------------------------------------------
(* Nobody waits for the other.  Third inductive invariant.                 *)

(* The transport has answered the command before.                          *)
Between == pc \in {"cbw", "wait_enabled", "returned"} \/ (pc = "csw" /\ ep.st = "ok")

(* Where the host is after it sent so many blocks.                         *)
Phase(c, sent) == IF DataPhase(c) = "out" /\ sent = c.blocks THEN "status" ELSE DataPhase(c)

OnlyData(q) == \A i \in 1 .. Len(q) : q[i].kind = "data"

(* The host's command is still in the pipe, with data behind it.           *)
Asked ==
  /\ Between /\ out_fifo # <<>> /\ host.got = <<>>
  /\ out_fifo[1].kind = "cbw" /\ out_fifo[1].cmd = host.cmd
  /\ OnlyData(Tail(out_fifo)) /\ Len(out_fifo) = host.sent + 1
  /\ host.pc = Phase(host.cmd, host.sent)
  /\ host.sent <= host.cmd.blocks
  /\ DataPhase(host.cmd) # "out" => host.sent = 0

(* The host's data that the transport has taken.                           *)
Received == IF pc = "write_join" THEN (at + chunk - cmd.lba) + ep.pos ELSE ep.pos

(* The transport works on the host's command, and each of the two is where *)
(* the other expects it.                                                   *)
TakesData ==
  /\ DataPhase(cmd) = "out" /\ host.sent <= cmd.blocks /\ host.pc = Phase(cmd, host.sent)
  /\ Received + Len(out_fifo) = host.sent /\ OnlyData(out_fifo)
  /\ pc = "drain" => (ep.st = "busy" => ep.pos < cmd.blocks) /\ (ep.st = "ok" => ep.pos = cmd.blocks)
  /\ pc = "write_prime" => chunk > 0
  /\ pc = "write_join" => remaining > 0

Served ==
  /\ cmd = host.cmd
  /\ IF pc \in {"drain", "write_prime", "write_join"} THEN TakesData
     ELSE /\ out_fifo = <<>>
          /\ pc \in {"ensure", "write_last"} => host.pc = "status"
          /\ pc = "data_in" => host.got = <<>> /\ host.pc = IF ep.st = "ok" THEN "status" ELSE "in"
          /\ pc = "read_prime" => host.pc = "in" /\ host.got = <<>> /\ cmd.blocks > 0
          /\ Streaming => host.pc = IF Moved = cmd.blocks THEN "status" ELSE "in"
          /\ Streaming => chunk > 0
          /\ pc = "csw" => /\ ep.st = "busy"
                           /\ host.pc = "status" \/ (host.pc = "in" /\ host.got = <<>>)

LockStep ==
  /\ host.pc \notin {"clear", "error"} /\ ep.st \notin {"stuck", "short"}
  /\ ep.st = "err" => pc = "cbw"
  /\ pc = "cbw" => ep.st # "ok"
  /\ pc \in {"wait_enabled", "ensure", "read_prime", "write_last"} => ep.st = "idle"
  /\ IF Live THEN Asked \/ Served ELSE Between /\ out_fifo = <<>>

Gone == pc = "returned" => host.pc = "off" /\ out_fifo = <<>>

(* The transport awaits a card that is busy or hangs.                      *)
AwaitsCard == pc \in {"ensure", "read_prime", "read_join", "write_join", "write_last"}
DeadHolds ==
  /\ card \in {"busy", "dead"} => AwaitsCard
  /\ card = "dead" => hurt

LInv == Gone /\ DeadHolds /\ (~hurt => LockStep)

(* While the transport is between two commands, the host's own has yet to  *)
(* be taken.                                                               *)
LEMMA AskedBetween ==
  ASSUME Inv, SInv, LockStep, Between, Live
  PROVE  Asked
<1>1. SUFFICES ASSUME Served PROVE FALSE
  BY DEF LockStep
<1>2. CASE pc \in {"cbw", "wait_enabled", "returned"}
  <2>1. cmd.tag = 0 /\ cmd.tag = host.tag
    BY <1>1, <1>2 DEF SInv, CommandOfPlace, TagsInOrder, Numbered, NoCommand, Served
  <2> QED  BY <2>1 DEF SInv, HostInOrder
<1>3. CASE pc = "csw" /\ ep.st = "ok"
  BY <1>1, <1>3 DEF Served
<1> QED  BY <1>2, <1>3 DEF Between

LEMMA ServedAtWork ==
  ASSUME LockStep, ~Between
  PROVE  Live /\ Served
  BY DEF LockStep, Asked

(* A read of the host's data that is not done has not taken them all.      *)
LEMMA ReceivedShort ==
  ASSUME Inv, SInv, TakesData, ep.st = "busy", pc \in {"drain", "write_prime", "write_join"}
  PROVE  Received # cmd.blocks
<1>t. /\ at \in Nat /\ chunk \in Nat /\ remaining \in Nat /\ ep.pos \in Nat
      /\ cmd.lba \in Nat /\ cmd.blocks \in Nat
  BY InvTypes
<1>1. CASE pc = "drain"
  BY <1>t, <1>1 DEF TakesData, Received
<1>2. CASE pc = "write_prime"
  <2>1. ep.pos < chunk /\ chunk <= remaining /\ remaining = cmd.blocks
    BY <1>t, <1>2 DEF Inv, ReadInOrder, Writing, OutWant, XferFits, TakesData, SInv, WriteSoFar
  <2> QED  BY <1>t, <1>2, <2>1 DEF Received
<1>3. CASE pc = "write_join"
  <2>1. next_chunk \in Nat /\ next_chunk <= remaining /\ next_chunk > 0
    BY <1>t, <1>3, LeastFits, BotAssumption DEF TakesData, next_chunk, Least
  <2>2. ep.pos < next_chunk /\ at + chunk + remaining = cmd.lba + cmd.blocks
    BY <1>3, <2>1 DEF Inv, ReadInOrder, Writing, OutWant, SInv, WriteSoFar
  <2>3. (at + chunk - cmd.lba) + ep.pos # cmd.blocks
    BY <1>t, <2>1, <2>2
  <2> QED  BY <1>3, <2>3 DEF Received
<1> QED  BY <1>1, <1>2, <1>3

(* Lock step is what both sides need to go on.                             *)
LEMMA LockStepRuns ==
  ASSUME Inv, SInv, Gone, LockStep, card # "dead"
  PROVE  ~Stuck /\ host.pc # "error"
<1> SUFFICES ASSUME Stuck PROVE FALSE
  BY DEF LockStep
<1>1. /\ Configured /\ ~AtRest /\ ep.st = "busy" /\ ~CanTake /\ ~CanSend /\ ~CanReceive
  BY DEF Stuck, LockStep
<1>2. CASE Between
  <2>1. pc = "cbw" \/ pc = "returned"
    BY <1>1, <1>2 DEF Between, LockStep
  <2>2. CASE ~Live
    <3>1. host.pc \in {"off", "reset", "idle"}
      BY <2>2 DEF Live, LockStep, Inv, HostType, Hosts, HostPcs
    <3> QED  BY <1>1, <2>1, <3>1 DEF Configured, AtRest, Gone
  <2>3. CASE Live
    <3>1. out_fifo # <<>> /\ pc = "cbw"
      BY <1>2, <2>1, <2>3, AskedBetween DEF Asked, Gone, Live
    <3> QED  BY <1>1, <3>1 DEF CanReceive, Receiving
  <2> QED  BY <2>2, <2>3
<1>3. CASE ~Between
  <2>1. Live /\ Served
    BY <1>3, ServedAtWork
  <2>2. CASE pc \in {"drain", "write_prime", "write_join"}
    <3>1. TakesData /\ out_fifo = <<>>
      BY <1>1, <2>1, <2>2 DEF Served, TakesData, CanReceive, Receiving
    <3>2. Received = host.sent /\ host.sent \in Nat
      <4>1. Received + 0 = host.sent /\ host.sent \in Nat
        BY <3>1, BotAssumption DEF TakesData, Inv, HostType, Hosts
      <4>2. Received \in Int
        BY InvTypes DEF Received
      <4> QED  BY <4>1, <4>2
    <3>3. host.sent # cmd.blocks
      BY <1>1, <2>1, <2>2, <3>1, <3>2, ReceivedShort
    <3>4. host.pc = "out" /\ Len(out_fifo) < FifoPackets
      BY <3>1, <3>3, BotAssumption DEF TakesData, Phase
    <3> QED  BY <1>1, <3>4 DEF CanSend
  <2>3. CASE pc \in {"csw", "data_in", "read_join", "read_last"}
    <3>1. host.pc \in {"in", "status"}
      BY <2>1, <2>3 DEF Served, Streaming
    <3> QED  BY <1>1, <2>3, <3>1 DEF CanTake, Sending
  <2>4. CASE pc \in {"ensure", "read_prime", "write_last"}
    BY <1>1, <2>4 DEF LockStep
  <2> QED  BY <1>3, <2>2, <2>3, <2>4 DEF Between, Inv, ControlType
<1> QED  BY <1>2, <1>3

(* The session ends with the host gone and the pipe empty.                 *)
LEMMA GoneStep == Inv /\ Gone /\ [Next]_vars => Gone'
<1> SUFFICES ASSUME Inv, Gone, [Next]_vars, pc' = "returned" PROVE Gone'
  BY DEF Gone
<1> USE DEF Gone
<1>1. CASE Exit
  BY <1>1 DEF Exit, Inv, HostType, Hosts
<1>2. CASE \/ ReceiveBlock \/ CardReads \/ CardWrites \/ CardHangs \/ Drain
  BY <1>2 DEF ReceiveBlock, CardReads, CardWrites, CardHangs, Drain
<1>3. CASE \/ CbwReadFails \/ WaitEnabled \/ BadCbw \/ CswDone \/ EnterMode
  BY <1>3 DEF CbwReadFails, WaitEnabled, BadCbw, CswDone, EnterMode, LoopTop
<1>4. CASE \/ TestUnitReady \/ EnsureReady \/ RequestSense \/ Inquiry \/ ReadCapacity
           \/ DataInDone \/ StartStopUnit \/ Unsupported \/ Drained \/ ReadDone \/ WriteDone
           \/ EmptyBlock \/ ShortBlock
  <2>1. pc' \in {"csw", "ensure", "data_in", "drain"}
    BY <1>4 DEF TestUnitReady, EnsureReady, RequestSense, Inquiry, ReadCapacity, DataInDone, StartStopUnit,
       Unsupported, Drained, ReadDone, WriteDone, EmptyBlock, ShortBlock, Refuse, SendDataIn,
       StartDrain, Fail, Answer
  <2> QED  BY <2>1
<1>5. CASE \/ Read \/ ReadPrimed \/ ReadJoined
  <2>1. pc' \in {"csw", "read_prime", "read_join", "read_last"}
    BY <1>5 DEF Read, ReadPrimed, ReadJoined, SendBank, Fail, Answer
  <2> QED  BY <2>1
<1>6. CASE \/ Write \/ WritePrimed \/ WriteJoined
  <2>1. pc' \in {"csw", "drain", "write_prime", "write_join", "write_last"}
    BY <1>6 DEF Write, WritePrimed, WriteJoined, CommitBank, StartDrain, Fail, Answer
  <2> QED  BY <2>1
<1>7. CASE SendCbw \/ SendData \/ TakeIn \/ PressBack \/ UNCHANGED vars
  BY <1>7 DEF SendCbw, SendData, TakeIn, CanTake, PressBack, outside, vars
<1>8. CASE \/ Attach \/ UntimelyReset \/ SetConfiguration \/ ClassReset \/ ClearHalts \/ HostTimeout
  BY <1>8 DEF Attach, BusReset, UntimelyReset, SetConfiguration, ClassReset, ClearHalts, HostTimeout,
     Stuck, Configured
<1> QED  BY <1>1, <1>2, <1>3, <1>4, <1>5, <1>6, <1>7, <1>8 DEF Next, Transport, Host

(* A card that hangs holds the transport where it awaits it, for good.     *)
LEMMA CardIsAwaited == DeadHolds /\ [Next]_vars => (card' \in {"busy", "dead"} => AwaitsCard')
<1> SUFFICES ASSUME DeadHolds, [Next]_vars, card' \in {"busy", "dead"} PROVE AwaitsCard'
  OBVIOUS
<1> USE DEF DeadHolds, AwaitsCard
<1>1. CASE \/ ReceiveBlock \/ CardReads \/ CardWrites \/ CardHangs \/ Drain
  BY <1>1 DEF ReceiveBlock, CardReads, CardWrites, CardHangs, Drain, medium
<1>2. CASE \/ CbwReadFails \/ WaitEnabled \/ BadCbw \/ CswDone \/ EnterMode \/ Exit
  BY <1>2 DEF CbwReadFails, WaitEnabled, BadCbw, CswDone, EnterMode, Exit, medium
<1>3. CASE \/ TestUnitReady \/ RequestSense \/ Inquiry \/ ReadCapacity
           \/ StartStopUnit \/ Unsupported \/ EmptyBlock \/ ShortBlock
  BY <1>3 DEF TestUnitReady, RequestSense, Inquiry, ReadCapacity, StartStopUnit,
     Unsupported, EmptyBlock, ShortBlock, Refuse, Take
<1>4. CASE \/ EnsureReady \/ DataInDone \/ Drained \/ ReadDone \/ WriteDone
  BY <1>4 DEF EnsureReady, DataInDone, Drained, ReadDone, WriteDone, medium
<1>5. CASE Read \/ ReadPrimed \/ ReadJoined
  BY <1>5 DEF Read, Take, ReadPrimed, ReadJoined, SendBank, Fail, Answer
<1>6. CASE Write \/ WritePrimed \/ WriteJoined
  BY <1>6 DEF Write, Take, WritePrimed, WriteJoined, CommitBank, Fail, Answer
<1>7. CASE SendCbw \/ SendData \/ TakeIn \/ PressBack \/ UNCHANGED vars
  BY <1>7 DEF SendCbw, SendData, TakeIn, PressBack, medium, vars
<1>8. CASE \/ Attach \/ UntimelyReset \/ SetConfiguration \/ ClassReset \/ ClearHalts \/ HostTimeout
  BY <1>8 DEF Attach, BusReset, UntimelyReset, SetConfiguration, ClassReset, ClearHalts, HostTimeout, medium
<1> QED  BY <1>1, <1>2, <1>3, <1>4, <1>5, <1>6, <1>7, <1>8 DEF Next, Transport, Host

LEMMA OnlyHangs == [Next]_vars /\ card' = "dead" => card = "dead" \/ CardHangs
<1> SUFFICES ASSUME [Next]_vars, card' = "dead", ~CardHangs PROVE card = "dead"
  OBVIOUS
<1>1. CASE \/ ReceiveBlock \/ CardReads \/ CardWrites \/ Drain \/ CbwReadFails
           \/ WaitEnabled \/ BadCbw \/ CswDone \/ EnterMode \/ Exit
  BY <1>1 DEF ReceiveBlock, CardReads, CardWrites, Drain, CbwReadFails, WaitEnabled, BadCbw, CswDone,
     EnterMode, Exit, medium
<1>2. CASE \/ TestUnitReady \/ RequestSense \/ Inquiry \/ ReadCapacity
           \/ StartStopUnit \/ Unsupported \/ EmptyBlock \/ ShortBlock
           \/ EnsureReady \/ DataInDone \/ Drained \/ ReadDone \/ WriteDone
  BY <1>2 DEF TestUnitReady, RequestSense, Inquiry, ReadCapacity, StartStopUnit, Unsupported,
     EmptyBlock, ShortBlock, Refuse, EnsureReady, DataInDone, Drained, ReadDone, WriteDone, medium
<1>3. CASE Read \/ ReadPrimed \/ ReadJoined \/ Write \/ WritePrimed \/ WriteJoined
  BY <1>3 DEF Read, ReadPrimed, ReadJoined, SendBank, Write, WritePrimed, WriteJoined, CommitBank
<1>4. CASE \/ SendCbw \/ SendData \/ TakeIn \/ PressBack \/ UNCHANGED vars \/ SetConfiguration
           \/ ClassReset \/ ClearHalts
  BY <1>4 DEF SendCbw, SendData, TakeIn, PressBack, SetConfiguration, ClassReset, ClearHalts, medium, vars
<1>5. CASE Attach \/ UntimelyReset \/ HostTimeout
  BY <1>5 DEF Attach, UntimelyReset, HostTimeout, BusReset, medium
<1> QED  BY <1>1, <1>2, <1>3, <1>4, <1>5 DEF Next, Transport, Host

-----------------------------------------------------------------------------
(* Between two commands                                                    *)

LEMMA LoopingKeepsL ==
  ASSUME Inv, SInv, LockStep, CbwReadFails \/ WaitEnabled \/ CswDone
  PROVE  LockStep'
<1>1. /\ Between /\ UNCHANGED <<out_fifo, host>> /\ pc' \in {"cbw", "wait_enabled"}
      /\ pc' = "cbw" => ep'.st = "busy"
      /\ pc' = "wait_enabled" => ep'.st = "idle"
  BY DEF CbwReadFails, WaitEnabled, CswDone, LoopTop, Between, Busy, Idle, outside, LockStep
<1>2. Live => Asked'
  BY <1>1, AskedBetween DEF Asked, Between
<1> QED  BY <1>1, <1>2 DEF LockStep, Live, Between

(* No data come where a command should.                                    *)
LEMMA NoBadCbw ==
  ASSUME Inv, SInv, LockStep
  PROVE  ~BadCbw
<1> SUFFICES ASSUME BadCbw PROVE FALSE
  OBVIOUS
<1>1. pc = "cbw" /\ out_fifo # <<>> /\ Head(out_fifo).kind = "data" /\ Between
  BY DEF BadCbw, Between
<1>2. Live
  BY <1>1 DEF LockStep
<1>3. out_fifo[1].kind = "cbw" /\ Head(out_fifo) = out_fifo[1]
  BY <1>1, <1>2, AskedBetween, InvTypes DEF Asked
<1> QED  BY <1>1, <1>3

LEMMA SessionKeepsL ==
  ASSUME Inv, SInv, Gone, Exit \/ EnterMode \/ (LockStep /\ (Attach \/ SetConfiguration))
  PROVE  LockStep'
<1>h. host \in Hosts
  BY DEF Inv, HostType
<1>1. CASE Exit
  <2>1. pc' = "returned" /\ ep'.st = "idle" /\ out_fifo' = <<>> /\ host'.pc = "off"
    BY <1>1, <1>h DEF Exit, Idle, Hosts
  <2> QED  BY <2>1 DEF LockStep, Live, Between
<1>2. CASE EnterMode
  <2>1. pc' = "cbw" /\ ep'.st = "busy" /\ out_fifo' = <<>> /\ host'.pc = "off"
    BY <1>2 DEF EnterMode, LoopTop, Busy, Gone
  <2> QED  BY <2>1 DEF LockStep, Live, Between
<1>3. CASE LockStep /\ Attach
  <2>1. pc' = pc /\ pc # "returned" /\ out_fifo' = <<>> /\ host'.pc = "reset" /\ ~Live
    BY <1>3, <1>h DEF Attach, BusReset, Hosts, Live
  <2>2. Between
    BY <1>3, <2>1 DEF LockStep
  <2>3. /\ ep.st \in {"busy", "stuck"} => ep'.st = "err" /\ pc = "cbw"
        /\ ep.st \notin {"busy", "stuck"} => ep' = ep
    <3>1. ep.st = "busy" => pc = "cbw"
      BY <1>3, <2>1, <2>2 DEF LockStep, Between
    <3>2. ep.st # "stuck"
      BY <1>3 DEF LockStep
    <3> QED  BY <1>3, <3>1, <3>2 DEF Attach, BusReset, Inv, Calls
  <2>4. Between'
    BY <2>1, <2>2, <2>3 DEF Between
  <2> QED  BY <1>3, <2>1, <2>2, <2>3, <2>4 DEF LockStep, Live
<1>4. CASE LockStep /\ SetConfiguration
  <2>1. pc' = pc /\ out_fifo' = <<>> /\ host'.pc = "idle" /\ ~Live
    BY <1>4, <1>h DEF SetConfiguration, PipesReset, Hosts, Live
  <2>2. Between
    BY <1>4, <2>1 DEF LockStep
  <2>3. ep' = ep
    BY <1>4, <2>2 DEF SetConfiguration, PipesReset, Sending, Between
  <2> QED  BY <1>4, <2>1, <2>2, <2>3 DEF LockStep, Live, Between
<1> QED  BY <1>1, <1>2, <1>3, <1>4

(* The command taken is the host's, and only its data are left in the pipe.*)
LEMMA TakesItsOwn ==
  ASSUME Inv, SInv, LockStep, pc = "cbw", out_fifo # <<>>, NEW c, c = Head(out_fifo).cmd
  PROVE  /\ c = host.cmd /\ Live /\ host.got = <<>> /\ c.blocks \in Nat
         /\ OnlyData(Tail(out_fifo)) /\ Len(Tail(out_fifo)) = host.sent
         /\ host.pc = Phase(c, host.sent) /\ host.sent \in Nat /\ host.sent <= c.blocks
         /\ DataPhase(c) # "out" => Tail(out_fifo) = <<>> /\ host.pc = DataPhase(c)
<1>1. Live
  BY DEF LockStep
<1>2. Asked /\ Head(out_fifo) = out_fifo[1] /\ Len(Tail(out_fifo)) = Len(out_fifo) - 1
      /\ Tail(out_fifo) \in Seq(Packet) /\ Len(out_fifo) \in Nat
  BY <1>1, AskedBetween, InvTypes DEF Between
<1>3. host.sent \in Nat /\ host.cmd.blocks \in Nat
  BY InvTypes, BotAssumption DEF Inv, HostType, Hosts
<1>4. c = host.cmd /\ Len(Tail(out_fifo)) = host.sent
  BY <1>2, <1>3 DEF Asked
<1>5. DataPhase(c) # "out" => Tail(out_fifo) = <<>>
  <2>1. DataPhase(c) # "out" => Len(Tail(out_fifo)) = 0
    BY <1>2, <1>4 DEF Asked
  <2>2. \A q \in Seq(Packet) : Len(q) = 0 => q = <<>>
    OBVIOUS
  <2> QED  BY <1>2, <2>1, <2>2
<1> QED  BY <1>1, <1>2, <1>3, <1>4, <1>5 DEF Asked, Phase

(* A command that is answered at once, or has its reply sent.              *)
LEMMA AnsweredL ==
  ASSUME pc' = "csw", ep' = Busy, out_fifo' = <<>>, cmd' = host'.cmd,
         host'.pc = "status" \/ (host'.pc = "in" /\ host'.got = <<>>)
  PROVE  LockStep'
  BY DEF LockStep, Served, Live, Streaming, Busy

(* What a read of the host's data begins with.                             *)
LEMMA DataAwaitedL ==
  ASSUME Inv, SInv, LockStep, pc = "cbw", out_fifo # <<>>,
         cmd' = Head(out_fifo).cmd, out_fifo' = Tail(out_fifo), UNCHANGED host,
         DataPhase(cmd') = "out", ep' = Busy,
         pc' = "drain" \/ (pc' = "write_prime" /\ chunk' > 0)
  PROVE  LockStep'
<1>1. /\ cmd' = host.cmd /\ Live /\ cmd'.blocks \in Nat
      /\ OnlyData(out_fifo') /\ Len(out_fifo') = host.sent
      /\ host.pc = Phase(cmd', host.sent) /\ host.sent \in Nat /\ host.sent <= cmd'.blocks
  BY TakesItsOwn
<1>2. ep'.st = "busy" /\ ep'.pos = 0 /\ Received' = 0
  BY DEF Busy, Received
<1>3. cmd'.blocks > 0
  BY <1>1 DEF DataPhase
<1>4. Received' + Len(out_fifo') = host'.sent
  BY <1>1, <1>2
<1>5. TakesData'
  BY <1>1, <1>2, <1>3, <1>4 DEF TakesData
<1> QED  BY <1>1, <1>2, <1>5 DEF LockStep, Served, Live

LEMMA TakingKeepsL ==
  ASSUME Inv, SInv, LockStep, ~hurt',
         \/ TestUnitReady \/ RequestSense \/ Inquiry \/ ReadCapacity
         \/ StartStopUnit \/ Unsupported \/ Read \/ Write \/ EmptyBlock \/ ShortBlock
  PROVE  LockStep'
<1>1. /\ pc = "cbw" /\ out_fifo # <<>> /\ cmd' = Head(out_fifo).cmd
      /\ out_fifo' = Tail(out_fifo) /\ UNCHANGED host
  BY DEF TestUnitReady, RequestSense, Inquiry, ReadCapacity, StartStopUnit, Unsupported, Read, Write,
     EmptyBlock, ShortBlock, Refuse, Take
<1>2. /\ cmd' = host.cmd /\ Live /\ host.got = <<>> /\ cmd'.blocks \in Nat
      /\ DataPhase(cmd') # "out" => out_fifo' = <<>> /\ host.pc = DataPhase(cmd')
  BY <1>1, TakesItsOwn
<1>3. DataPhase(cmd') \in {"in", "status"} /\ pc' = "csw" /\ ep' = Busy => LockStep'
  BY <1>1, <1>2, AnsweredL
<1>4. DataPhase(cmd') = "in" /\ pc' = "data_in" /\ ep' = Busy => LockStep'
  <2> SUFFICES ASSUME DataPhase(cmd') = "in", pc' = "data_in", ep' = Busy PROVE LockStep'
    OBVIOUS
  <2> QED  BY <1>1, <1>2 DEF LockStep, Served, Live, Streaming, Busy
<1>5. CASE TestUnitReady
  <2>1. cmd'.op = "tur" /\ DataPhase(cmd') = "status"
    BY <1>5 DEF TestUnitReady, Take, DataPhase
  <2>2. CASE pc' = "csw" /\ ep' = Busy
    BY <1>3, <2>1, <2>2
  <2>3. CASE pc' = "ensure" /\ ep' = Idle
    BY <1>1, <1>2, <2>1, <2>3 DEF LockStep, Served, Live, Streaming, Idle
  <2> QED  BY <1>5, <2>2, <2>3 DEF TestUnitReady, Fail, Answer
<1>6. CASE RequestSense \/ Inquiry \/ ReadCapacity
  <2>1. cmd'.op \in {"sense", "reply", "capacity"}
    BY <1>6 DEF RequestSense, Inquiry, ReadCapacity, Take
  <2>2. DataPhase(cmd') = IF cmd'.blocks = 0 THEN "status" ELSE "in"
    BY <2>1 DEF DataPhase
  <2>3. /\ ep' = Busy
        /\ pc' = "csw" \/ (pc' = "data_in" /\ cmd'.blocks # 0)
    BY <1>6 DEF RequestSense, Inquiry, ReadCapacity, SendDataIn, Fail, Answer
  <2> QED  BY <1>3, <1>4, <2>2, <2>3
<1>7. CASE StartStopUnit
  <2>1. cmd'.op \in {"nop", "eject", "load"} /\ pc' = "csw" /\ ep' = Busy
    BY <1>7 DEF StartStopUnit, Take, Answer
  <2>2. DataPhase(cmd') = "status"
    BY <2>1 DEF DataPhase
  <2> QED  BY <1>3, <2>1, <2>2
<1>8. CASE Unsupported
  <2>1. cmd'.op \in {"other_in", "other_out"} /\ ep' = Busy
    BY <1>8 DEF Unsupported, Take, StartDrain, Fail, Answer
  <2>2. CASE HasDataOut(cmd')
    <3>1. DataPhase(cmd') = "out" /\ pc' = "drain"
      BY <1>2, <1>8, <2>2 DEF Unsupported, StartDrain, HasDataOut, DataPhase
    <3> QED  BY <1>1, <2>1, <3>1, DataAwaitedL
  <2>3. CASE ~HasDataOut(cmd')
    <3>1. DataPhase(cmd') \in {"in", "status"} /\ pc' = "csw"
      BY <1>2, <1>8, <2>1, <2>3 DEF Unsupported, Fail, Answer, HasDataOut, DataPhase
    <3> QED  BY <1>3, <2>1, <3>1
  <2> QED  BY <2>2, <2>3
<1>9. CASE Read
  <2>1. cmd'.op = "read"
    BY <1>9 DEF Read, Take
  <2>2. DataPhase(cmd') = IF cmd'.blocks = 0 THEN "status" ELSE "in"
    BY <2>1 DEF DataPhase
  <2>3. CASE ejected
    <3>1. pc' = "csw" /\ ep' = Busy
      BY <1>9, <2>3 DEF Read, Fail, Answer
    <3> QED  BY <1>3, <2>2, <3>1
  <2>4. CASE ~ejected
    <3>1. pc' = "read_prime" /\ ep' = Idle /\ cmd'.blocks # 0
      BY <1>9, <2>4 DEF Read
    <3> QED  BY <1>1, <1>2, <2>2, <3>1 DEF LockStep, Served, Live, Streaming, Idle
  <2> QED  BY <2>3, <2>4
<1>10. CASE Write
  <2>1. cmd'.op = "write"
    BY <1>10 DEF Write, Take
  <2>2. DataPhase(cmd') = IF cmd'.blocks = 0 THEN "status" ELSE "out"
    BY <2>1 DEF DataPhase
  <2>3. CASE ready /\ wp
    <3>1. ep' = Busy /\ pc' = IF cmd'.blocks = 0 THEN "csw" ELSE "drain"
      BY <1>10, <2>3 DEF Write, Fail, Answer, StartDrain
    <3> QED  BY <1>1, <1>3, <2>2, <3>1, DataAwaitedL
  <2>4. CASE ~(ready /\ wp)
    <3>1. pc' = "write_prime" /\ ep' = Busy /\ cmd'.blocks # 0 /\ chunk' = Least(cmd'.blocks, ChunkSectors)
      BY <1>10, <2>4 DEF Write
    <3>2. chunk' > 0
      BY <1>2, <3>1, BotAssumption DEF Least
    <3> QED  BY <1>1, <2>2, <3>1, <3>2, DataAwaitedL
  <2> QED  BY <2>3, <2>4
<1>11. CASE EmptyBlock \/ ShortBlock
  <2>1. DataPhase(cmd') # "out"
    BY Zenon, <1>11 DEF EmptyBlock, ShortBlock, Refuse
  <2>2. DataPhase(cmd') \in {"in", "status"}
    BY <2>1 DEF DataPhase
  <2>3. pc' = "csw" /\ ep' = Busy
    BY <1>11 DEF EmptyBlock, ShortBlock, Refuse, Fail, Answer
  <2> QED  BY <1>3, <2>2, <2>3
<1> QED  BY <1>5, <1>6, <1>7, <1>8, <1>9, <1>10, <1>11

-----------------------------------------------------------------------------
(* At work                                                                 *)

(* The host has sent everything, and it is taken.                          *)
LEMMA AllTaken ==
  ASSUME Inv, SInv, TakesData, Received = cmd.blocks
  PROVE  out_fifo = <<>> /\ host.pc = "status"
<1>1. /\ cmd.blocks \in Nat /\ host.sent \in Nat /\ out_fifo \in Seq(Packet) /\ Len(out_fifo) \in Nat
  BY InvTypes, BotAssumption DEF Inv, HostType, Hosts
<1>2. cmd.blocks + Len(out_fifo) = host.sent /\ host.sent <= cmd.blocks
  BY DEF TakesData
<1>3. Len(out_fifo) = 0 /\ host.sent = cmd.blocks
  BY <1>1, <1>2
<1>4. \A q \in Seq(Packet) : Len(q) = 0 => q = <<>>
  OBVIOUS
<1> QED  BY <1>1, <1>3, <1>4 DEF TakesData, Phase

(* A packet of data is taken from a pipe of data.                          *)
LEMMA OneDataLess ==
  ASSUME Inv, OnlyData(out_fifo), out_fifo # <<>>
  PROVE  /\ Head(out_fifo).kind = "data" /\ OnlyData(Tail(out_fifo))
         /\ Len(Tail(out_fifo)) + 1 = Len(out_fifo) /\ Len(Tail(out_fifo)) \in Nat
<1>1. /\ Len(Tail(out_fifo)) = Len(out_fifo) - 1 /\ Len(out_fifo) \in Nat \ {0}
      /\ \A i \in 1 .. Len(Tail(out_fifo)) : Tail(out_fifo)[i] = out_fifo[i + 1]
      /\ out_fifo[1] = Head(out_fifo)
  BY InvTypes
<1> QED  BY <1>1 DEF OnlyData

LEMMA AnsweringKeepsL ==
  ASSUME Inv, SInv, LockStep, EnsureReady \/ DataInDone \/ Drained \/ WriteDone
  PROVE  LockStep'
<1>1. /\ pc \in {"ensure", "data_in", "drain", "write_last"} /\ pc' = "csw" /\ ep' = Busy
      /\ UNCHANGED <<cmd, out_fifo, host>>
  BY DEF EnsureReady, DataInDone, Drained, WriteDone, Fail, Answer, answer, outside
<1>2. Live /\ Served
  BY <1>1, ServedAtWork DEF Between
<1>3. CASE EnsureReady \/ WriteDone
  <2>1. out_fifo = <<>> /\ host.pc = "status"
    BY <1>2, <1>3 DEF EnsureReady, WriteDone, Served
  <2> QED  BY <1>1, <1>2, <2>1, AnsweredL DEF Served
<1>4. CASE DataInDone
  <2>1. ep.st = "ok"
    BY <1>4 DEF DataInDone, LockStep
  <2>2. out_fifo = <<>> /\ host.pc = "status"
    BY <1>2, <1>4, <2>1 DEF DataInDone, Served
  <2> QED  BY <1>1, <1>2, <2>2, AnsweredL DEF Served
<1>5. CASE Drained
  <2>1. ep.st = "ok" /\ pc = "drain"
    BY <1>5 DEF Drained, LockStep
  <2>2. TakesData /\ ep.pos = cmd.blocks /\ Received = ep.pos
    BY <1>2, <2>1 DEF Served, TakesData, Received
  <2>3. out_fifo = <<>> /\ host.pc = "status"
    BY <2>2, AllTaken
  <2> QED  BY <1>1, <1>2, <2>3, AnsweredL DEF Served
<1> QED  BY <1>1, <1>3, <1>4, <1>5

LEMMA DrainKeepsL == Inv /\ SInv /\ LockStep /\ Drain => LockStep'
<1> SUFFICES ASSUME Inv, SInv, LockStep, Drain PROVE LockStep'
  OBVIOUS
<1>1. /\ pc = "drain" /\ ep.st = "busy" /\ out_fifo # <<>> /\ out_fifo' = Tail(out_fifo)
      /\ UNCHANGED <<pc, cmd, host>>
  BY DEF Drain, answer, outside
<1>2. Live /\ Served /\ TakesData
  BY <1>1, ServedAtWork DEF Between, Served
<1>3. /\ Head(out_fifo).kind = "data" /\ OnlyData(out_fifo') /\ Len(out_fifo') + 1 = Len(out_fifo)
      /\ Len(out_fifo') \in Nat
  BY <1>1, <1>2, OneDataLess DEF TakesData
<1>4. ep' = [st |-> IF ep.pos + 1 = cmd.blocks THEN "ok" ELSE "busy", pos |-> ep.pos + 1]
  BY <1>3 DEF Drain
<1>5. ep.pos \in Nat /\ cmd.blocks \in Nat /\ ep.pos < cmd.blocks
  BY <1>1, <1>2, InvTypes DEF TakesData
<1>6. ep'.pos = ep.pos + 1 /\ ep'.st \in {"ok", "busy"} /\ (ep'.st = "ok" <=> ep.pos + 1 = cmd.blocks)
  BY <1>4
<1>7. Received' + Len(out_fifo') = host.sent
  <2>1. ep.pos + Len(out_fifo) = host.sent
    BY <1>1, <1>2 DEF TakesData, Received
  <2>2. Received' = ep.pos + 1
    BY <1>1, <1>6 DEF Received
  <2> QED  BY <1>3, <1>5, <2>1, <2>2
<1>8. TakesData'
  BY <1>1, <1>2, <1>3, <1>5, <1>6, <1>7 DEF TakesData
<1> QED  BY <1>1, <1>2, <1>6, <1>8 DEF LockStep, Served, Live

LEMMA ReceiveBlockKeepsL == Inv /\ SInv /\ LockStep /\ ReceiveBlock => LockStep'
<1> SUFFICES ASSUME Inv, SInv, LockStep, ReceiveBlock PROVE LockStep'
  OBVIOUS
<1>1. /\ pc \in {"write_prime", "write_join"} /\ ep.st = "busy" /\ out_fifo # <<>> /\ out_fifo' = Tail(out_fifo)
      /\ UNCHANGED <<pc, cmd, remaining, chunk, at, host>>
  BY DEF ReceiveBlock, answer, xfer, outside
<1>2. Live /\ Served /\ TakesData
  BY <1>1, ServedAtWork DEF Between, Served
<1>3. /\ Head(out_fifo).kind = "data" /\ OnlyData(out_fifo') /\ Len(out_fifo') + 1 = Len(out_fifo)
      /\ Len(out_fifo') \in Nat
  BY <1>1, <1>2, OneDataLess DEF TakesData
<1>4. ep' = [st |-> IF ep.pos + 1 = OutWant THEN "ok" ELSE "busy", pos |-> ep.pos + 1]
  BY <1>3 DEF ReceiveBlock
<1>6. ep'.pos = ep.pos + 1 /\ ep'.st \in {"ok", "busy"}
  BY <1>4
<1>t. /\ at \in Nat /\ chunk \in Nat /\ ep.pos \in Nat /\ cmd.lba \in Nat
  BY InvTypes
<1>7. Received' + Len(out_fifo') = host.sent
  <2>1. Received \in Int /\ Received' = Received + 1
    <3>1. (at + chunk - cmd.lba) + (ep.pos + 1) = ((at + chunk - cmd.lba) + ep.pos) + 1
      BY <1>t
    <3> QED  BY <1>1, <1>6, <1>t, <3>1 DEF Received
  <2>2. Received + Len(out_fifo) = host.sent
    BY <1>2 DEF TakesData
  <2> QED  BY <1>3, <2>1, <2>2
<1>8. TakesData'
  BY <1>1, <1>2, <1>3, <1>7 DEF TakesData
<1> QED  BY <1>1, <1>2, <1>6, <1>8 DEF LockStep, Served, Live

(* The bank received is committed, and the read of the next begins.        *)
LEMMA CommittingKeepsL ==
  ASSUME Inv, SInv, XferType', LockStep, CommitBank(remaining'), pc \in {"write_prime", "write_join"}, ep.st = "ok",
         remaining' \in Nat, at' + chunk' + remaining' = cmd.lba + cmd.blocks,
         Received = at' + chunk' - cmd.lba,
         UNCHANGED <<cmd, out_fifo, host>>
  PROVE  LockStep'
<1>1. Live /\ Served /\ TakesData
  BY ServedAtWork DEF Between, Served
<1>t. at' \in Nat /\ chunk' \in Nat /\ cmd.lba \in Nat /\ cmd.blocks \in Nat
  BY InvTypes, BotAssumption DEF XferType
<1>2. CASE remaining' > 0
  <2>1. pc' = "write_join" /\ ep'.st = "busy" /\ ep'.pos = 0
    BY <1>2 DEF CommitBank, Busy
  <2>2. Received' = Received
    <3>1. (at' + chunk' - cmd.lba) + 0 = at' + chunk' - cmd.lba
      BY <1>t
    <3> QED  BY <2>1, <3>1 DEF Received
  <2>3. TakesData'
    BY <1>1, <1>2, <2>1, <2>2 DEF TakesData
  <2> QED  BY <1>1, <2>1, <2>3 DEF LockStep, Served, Live
<1>3. CASE remaining' = 0
  <2>1. pc' = "write_last" /\ ep'.st = "idle"
    BY <1>3 DEF CommitBank, Idle
  <2>2. Received = cmd.blocks
    BY <1>3, <1>t
  <2>3. out_fifo = <<>> /\ host.pc = "status"
    BY <1>1, <2>2, AllTaken
  <2> QED  BY <1>1, <2>1, <2>3 DEF LockStep, Served, Live, Streaming
<1> QED  BY <1>2, <1>3

LEMMA WritePrimedKeepsL == Inv /\ SInv /\ XferType' /\ LockStep /\ WritePrimed => LockStep'
<1> SUFFICES ASSUME Inv, SInv, XferType', LockStep, WritePrimed PROVE LockStep'
  OBVIOUS
<1>1. pc = "write_prime" /\ UNCHANGED <<cmd, out_fifo, host>> /\ ep.st = "ok"
      /\ at = cmd.lba /\ remaining = cmd.blocks
  BY DEF WritePrimed, LockStep, outside, SInv, WriteSoFar
<1>2. remaining' = remaining - chunk /\ UNCHANGED <<chunk, at>> /\ CommitBank(remaining')
  BY <1>1 DEF WritePrimed, got_all
<1>3. ep.pos = chunk /\ chunk <= remaining
  BY <1>1 DEF Inv, ReadInOrder, Writing, OutWant, XferFits
<1>t. at \in Nat /\ chunk \in Nat /\ remaining \in Nat
  BY InvTypes
<1>4. remaining' \in Nat /\ at' + chunk' + remaining' = cmd.lba + cmd.blocks
  BY <1>1, <1>2, <1>3, <1>t
<1>5. Received = at' + chunk' - cmd.lba
  BY <1>1, <1>2, <1>3, <1>t DEF Received
<1> QED  BY <1>1, <1>2, <1>4, <1>5, CommittingKeepsL

LEMMA WriteJoinedKeepsL == Inv /\ SInv /\ XferType' /\ LockStep /\ ~hurt' /\ WriteJoined => LockStep'
<1> SUFFICES ASSUME Inv, SInv, XferType', LockStep, ~hurt', WriteJoined PROVE LockStep'
  OBVIOUS
<1>1. pc = "write_join" /\ UNCHANGED <<cmd, out_fifo, host>> /\ ep.st = "ok" /\ card = "ok"
      /\ at + chunk + remaining = cmd.lba + cmd.blocks
  BY DEF WriteJoined, LockStep, outside, SInv, WriteSoFar
<1>2. at' = at + chunk /\ chunk' = next_chunk /\ remaining' = remaining - next_chunk /\ CommitBank(remaining')
  BY <1>1 DEF WriteJoined, got_all
<1>t. at \in Nat /\ chunk \in Nat /\ remaining \in Nat /\ cmd.lba \in Nat
  BY InvTypes
<1>3. ep.pos = next_chunk /\ next_chunk <= remaining /\ next_chunk \in Nat
  BY <1>1, <1>t, LeastFits, BotAssumption DEF Inv, ReadInOrder, Writing, OutWant, next_chunk
<1>4. remaining' \in Nat /\ at' + chunk' + remaining' = cmd.lba + cmd.blocks
  BY <1>1, <1>2, <1>3, <1>t
<1>5. Received = at' + chunk' - cmd.lba
  <2>1. Received = (at + chunk - cmd.lba) + next_chunk
    BY <1>1, <1>3 DEF Received
  <2> QED  BY <1>2, <1>3, <1>t, <2>1
<1> QED  BY <1>1, <1>2, <1>4, <1>5, CommittingKeepsL

(* The card reads or writes a bank: neither side of the pipe sees it.      *)
LEMMA CardKeepsL == LockStep /\ (CardReads \/ CardWrites) => LockStep'
<1> SUFFICES ASSUME LockStep, CardReads \/ CardWrites PROVE LockStep'
  OBVIOUS
<1>1. UNCHANGED <<pc, cmd, remaining, chunk, at, ep, out_fifo, host>>
  BY DEF CardReads, CardWrites, answer, xfer, outside
<1> QED
  BY <1>1 DEF LockStep, Live, Between, Asked, Served, TakesData, Received, Streaming, Moved

(* Of a bank that is to be sent nothing has moved.                         *)
LEMMA BankIsToGo ==
  ASSUME NEW a \in Nat, NEW n \in Nat, cmd.lba \in Nat,
         at' = a + n, chunk' = n, ep'.pos = 0, UNCHANGED cmd
  PROVE  Moved' = a - cmd.lba
<1>1. Moved' = (a + n - n - cmd.lba) + 0
  BY DEF Moved
<1>2. \A l \in Nat : (a + n - n - l) + 0 = a - l
  OBVIOUS
<1> QED  BY <1>1, <1>2

LEMMA ReadPrimedKeepsL == Inv /\ SInv /\ LockStep /\ ReadPrimed => LockStep'
<1> SUFFICES ASSUME Inv, SInv, LockStep, ReadPrimed PROVE LockStep'
  OBVIOUS
<1>1. pc = "read_prime" /\ UNCHANGED <<cmd, out_fifo, host>>
  BY DEF ReadPrimed, outside
<1>2. Live /\ Served /\ out_fifo = <<>> /\ host.pc = "in" /\ host.got = <<>> /\ cmd.blocks > 0
  BY <1>1, ServedAtWork DEF Between, Served
<1>3. CASE card = "err"
  <2>1. pc' = "csw" /\ ep' = Busy
    BY <1>3 DEF ReadPrimed, Fail, Answer
  <2> QED  BY <1>1, <1>2, <2>1, AnsweredL DEF Served
<1>4. CASE card = "ok"
  <2>1. /\ at' = at + chunk /\ chunk' = chunk /\ pc' \in {"read_join", "read_last"} /\ ep'.st = "busy" /\ ep'.pos = 0
    BY <1>4 DEF ReadPrimed, SendBank, Busy
  <2>2. at = cmd.lba /\ remaining = cmd.blocks /\ chunk = next_chunk
    BY <1>1 DEF SInv, ReadSoFar
  <2>t. at \in Nat /\ chunk \in Nat /\ remaining \in Nat
    BY InvTypes
  <2>3. chunk > 0
    BY <1>2, <2>2, <2>t, BotAssumption DEF next_chunk, Least
  <2>4. Moved' = 0
    <3>1. Moved' = at - cmd.lba
      BY <1>1, <2>1, <2>2, <2>t, BankIsToGo
    <3> QED  BY <2>2, <2>t, <3>1
  <2>5. cmd.blocks # 0
    BY <1>2
  <2> QED  BY <1>1, <1>2, <2>1, <2>3, <2>4, <2>5 DEF LockStep, Served, Live, Streaming
<1> QED  BY <1>3, <1>4 DEF ReadPrimed

(* A bank that has gone.                                                   *)
LEMMA BankIsGone ==
  ASSUME Inv, SInv, LockStep, Streaming, ep.st \in {"ok", "err"}
  PROVE  /\ Live /\ Served /\ out_fifo = <<>> /\ chunk > 0 /\ ep.st = "ok"
         /\ Moved = at - cmd.lba
         /\ host.pc = IF Moved = cmd.blocks THEN "status" ELSE "in"
<1>1. Live /\ Served /\ out_fifo = <<>> /\ chunk > 0
  BY ServedAtWork DEF Streaming, Between, Served
<1>2. ep.st = "ok" /\ ep.pos = chunk
  BY <1>1 DEF Streaming, LockStep, SInv, ReadSoFar, BankIsSent
<1>3. at \in Nat /\ chunk \in Nat /\ cmd.lba \in Nat
  BY InvTypes
<1>4. (at - chunk - cmd.lba) + chunk = at - cmd.lba
  BY <1>3
<1>5. Moved = at - cmd.lba
  BY <1>2, <1>4 DEF Moved
<1>6. host.pc = IF Moved = cmd.blocks THEN "status" ELSE "in"
  BY <1>1 DEF Served, Streaming
<1> QED  BY <1>1, <1>2, <1>5, <1>6

LEMMA ReadJoinedKeepsL == Inv /\ SInv /\ LockStep /\ ~hurt' /\ ReadJoined => LockStep'
<1> SUFFICES ASSUME Inv, SInv, LockStep, ~hurt', ReadJoined PROVE LockStep'
  OBVIOUS
<1>1. pc = "read_join" /\ Streaming /\ UNCHANGED <<cmd, out_fifo, host>>
  BY DEF ReadJoined, outside, Streaming
<1>2. /\ Live /\ Served /\ out_fifo = <<>> /\ chunk > 0 /\ ep.st = "ok"
      /\ Moved = at - cmd.lba
      /\ host.pc = IF Moved = cmd.blocks THEN "status" ELSE "in"
  BY <1>1, BankIsGone DEF ReadJoined
<1>3. /\ chunk' = next_chunk /\ at' = at + next_chunk
      /\ pc' \in {"read_join", "read_last"} /\ ep'.st = "busy" /\ ep'.pos = 0
  BY <1>2 DEF ReadJoined, SendBank, Busy
<1>t. at \in Nat /\ remaining \in Nat /\ cmd.lba \in Nat
  BY InvTypes
<1>4. next_chunk > 0 /\ next_chunk \in Nat
  <2>1. remaining > 0
    BY <1>1 DEF SInv, ReadSoFar
  <2> QED  BY <1>t, <2>1, BotAssumption DEF next_chunk, Least
<1>5. Moved' = Moved
  BY <1>1, <1>2, <1>3, <1>4, <1>t, BankIsToGo
<1> QED  BY <1>1, <1>2, <1>3, <1>4, <1>5 DEF LockStep, Served, Live, Streaming

LEMMA ReadDoneKeepsL == Inv /\ SInv /\ LockStep /\ ReadDone => LockStep'
<1> SUFFICES ASSUME Inv, SInv, LockStep, ReadDone PROVE LockStep'
  OBVIOUS
<1>1. pc = "read_last" /\ Streaming /\ UNCHANGED <<cmd, out_fifo, host>> /\ pc' = "csw" /\ ep' = Busy
  BY DEF ReadDone, outside, answer, Answer, Streaming
<1>2. /\ Live /\ Served /\ out_fifo = <<>> /\ Moved = at - cmd.lba
      /\ host.pc = IF Moved = cmd.blocks THEN "status" ELSE "in"
  BY <1>1, BankIsGone DEF ReadDone
<1>3. remaining = 0 /\ at + remaining = cmd.lba + cmd.blocks
  BY <1>1 DEF SInv, ReadSoFar, BankIsRead
<1>t. at \in Nat /\ cmd.lba \in Nat /\ cmd.blocks \in Nat
  BY InvTypes
<1>4. Moved = cmd.blocks
  BY <1>2, <1>3, <1>t
<1> QED  BY <1>1, <1>2, <1>4, AnsweredL DEF Served

-----------------------------------------------------------------------------
(* The host goes on                                                        *)

LEMMA SendCbwKeepsL ==
  ASSUME Inv, SInv, ~hurt => LockStep, SendCbw, ~hurt'
  PROVE  LockStep'
<1>1. /\ host.pc = "idle" /\ (~hurt \/ Quiet)
      /\ UNCHANGED <<pc, ep>>
  BY DEF SendCbw
<1>2. Between /\ out_fifo = <<>>
  BY <1>1 DEF LockStep, Live, Quiet, Between
<1>3. /\ ep.st \notin {"stuck", "short"} /\ (ep.st = "err" => pc = "cbw") /\ (pc = "cbw" => ep.st # "ok")
      /\ pc \in {"wait_enabled", "ensure", "read_prime", "write_last"} => ep.st = "idle"
  BY <1>1 DEF LockStep, Quiet, Busy
<1>4. PICK k \in [tag : {host.tag + 1}, op : Ops, lba : 0 .. BlockCount - 1, blocks : 0 .. BlockCount] :
        /\ out_fifo' = Append(out_fifo, [kind |-> "cbw", cmd |-> k])
        /\ host' = [pc |-> DataPhase(k), tag |-> host.tag + 1, cmd |-> k, got |-> <<>>, sent |-> 0]
  BY BotAssumption DEF SendCbw, Command
<1>5. out_fifo' = <<[kind |-> "cbw", cmd |-> k]>>
  BY <1>2, <1>4
<1>6. /\ out_fifo' # <<>> /\ out_fifo'[1].kind = "cbw" /\ out_fifo'[1].cmd = k
      /\ Tail(out_fifo') = <<>> /\ Len(out_fifo') = 1
  BY <1>5
<1>7. host'.pc = DataPhase(k) /\ host'.cmd = k /\ host'.got = <<>> /\ host'.sent = 0
  BY <1>4
<1>8. DataPhase(k) \in {"status", "out", "in"} /\ (DataPhase(k) = "out" => 0 # k.blocks)
      /\ k.blocks \in Nat
  BY BotAssumption DEF DataPhase
<1>9. Phase(k, 0) = DataPhase(k)
  BY <1>8 DEF Phase
<1>10. Asked'
  <2>1. Between' /\ OnlyData(Tail(out_fifo'))
    <3>1. Between'
      BY <1>1, <1>2 DEF Between
    <3>2. OnlyData(<<>>)
      BY DEF OnlyData
    <3> QED  BY <1>6, <3>1, <3>2
  <2>2. Len(out_fifo') = host'.sent + 1 /\ host'.sent <= host'.cmd.blocks
    BY <1>6, <1>7, <1>8
  <2> QED  BY <1>6, <1>7, <1>9, <2>1, <2>2 DEF Asked
<1> QED  BY <1>1, <1>3, <1>7, <1>8, <1>10 DEF LockStep, Live

(* One packet of data more in the pipe.                                    *)
LEMMA OneDataMore ==
  ASSUME NEW q \in Seq(Packet), NEW p, p.kind = "data"
  PROVE  /\ Len(Append(q, p)) = Len(q) + 1 /\ Len(q) \in Nat /\ Append(q, p) # <<>>
         /\ OnlyData(q) => OnlyData(Append(q, p))
         /\ q # <<>> => Append(q, p)[1] = q[1]
         /\ q # <<>> /\ OnlyData(Tail(q)) => OnlyData(Tail(Append(q, p)))
<1> DEFINE r == Append(q, p)
<1>1. /\ Len(r) = Len(q) + 1 /\ Len(q) \in Nat /\ r # <<>>
      /\ \A i \in 1 .. Len(q) : r[i] = q[i]
      /\ r[Len(q) + 1] = p
  OBVIOUS
<1>2. q # <<>> => /\ Len(q) > 0 /\ Len(Tail(q)) = Len(q) - 1
                  /\ \A i \in 1 .. Len(q) - 1 : Tail(q)[i] = q[i + 1]
  OBVIOUS
<1>3. /\ Len(Tail(r)) = Len(q)
      /\ \A i \in 1 .. Len(q) : Tail(r)[i] = r[i + 1]
  OBVIOUS
<1> HIDE DEF r
<1>4. OnlyData(q) => OnlyData(r)
  BY <1>1 DEF OnlyData
<1>5. ASSUME q # <<>>, OnlyData(Tail(q)) PROVE OnlyData(Tail(r))
  <2>1. ASSUME NEW i \in 1 .. Len(q) PROVE Tail(r)[i].kind = "data"
    <3>1. CASE i = Len(q)
      BY <1>1, <1>3, <3>1
    <3>2. CASE i \in 1 .. Len(q) - 1
      <4>1. r[i + 1] = q[i + 1] /\ q[i + 1] = Tail(q)[i]
        BY <1>1, <1>2, <1>5, <3>2
      <4>2. Tail(q)[i].kind = "data"
        BY <1>2, <1>5, <3>2 DEF OnlyData
      <4> QED  BY <1>3, <4>1, <4>2
    <3> QED  BY <1>1, <3>1, <3>2
  <2> QED  BY <1>3, <2>1 DEF OnlyData
<1>6. q # <<>> => r[1] = q[1]
  BY <1>1, <1>2
<1> QED  BY <1>1, <1>4, <1>5, <1>6 DEF r

LEMMA SendDataKeepsL == Inv /\ SInv /\ LockStep /\ SendData => LockStep'
<1> SUFFICES ASSUME Inv, SInv, LockStep, SendData PROVE LockStep'
  OBVIOUS
<1>1. /\ host.pc = "out" /\ Live
      /\ UNCHANGED <<pc, cmd, remaining, chunk, at, ep>>
  BY DEF SendData, answer, xfer, Live
<1>2. /\ host'.cmd = host.cmd /\ host'.got = host.got /\ host'.sent = host.sent + 1
      /\ host'.pc = IF host.sent + 1 = host.cmd.blocks THEN "status" ELSE "out"
  BY DEF SendData, Inv, HostType, Hosts
<1>3. PICK p \in [kind : {"data"}, block : [by : {host.tag}, at : {host.cmd.lba + host.sent}]] :
        out_fifo' = Append(out_fifo, p) /\ p.kind = "data"
  BY DEF SendData
<1>t. out_fifo \in Seq(Packet) /\ host.sent \in Nat /\ host.cmd.blocks \in Nat
  BY InvTypes, BotAssumption DEF Inv, HostType, Hosts
<1>4. /\ Len(out_fifo') = Len(out_fifo) + 1 /\ Len(out_fifo) \in Nat /\ out_fifo' # <<>>
      /\ OnlyData(out_fifo) => OnlyData(out_fifo')
      /\ out_fifo # <<>> => out_fifo'[1] = out_fifo[1]
      /\ out_fifo # <<>> /\ OnlyData(Tail(out_fifo)) => OnlyData(Tail(out_fifo'))
  BY <1>3, <1>t, OneDataMore
(* What the host sends next, and where that leaves it.                     *)
<1>5. ASSUME host.sent <= host.cmd.blocks, host.pc = Phase(host.cmd, host.sent)
      PROVE  /\ DataPhase(host'.cmd) = "out" /\ host'.sent <= host'.cmd.blocks
             /\ host'.pc = Phase(host'.cmd, host'.sent)
  <2>1. DataPhase(host.cmd) = "out" /\ host.sent # host.cmd.blocks
    BY <1>1, <1>5 DEF Phase
  <2>2. host.sent + 1 <= host.cmd.blocks
    BY <1>5, <1>t, <2>1
  <2> QED  BY <1>2, <2>1, <2>2 DEF Phase
<1>6. Live'
  BY <1>2 DEF Live
<1>7. Asked \/ (Served /\ pc \in {"drain", "write_prime", "write_join"})
  <2>1. CASE Between
    BY <1>1, <2>1, AskedBetween
  <2>2. CASE ~Between
    <3>1. Served
      BY <2>2, ServedAtWork
    <3>2. pc \notin {"csw", "ensure", "data_in", "read_prime", "read_join", "read_last", "write_last"}
      BY <1>1, <3>1 DEF Served, Streaming
    <3> QED  BY <2>2, <3>1, <3>2 DEF Between, Inv, ControlType
  <2> QED  BY <2>1, <2>2
<1>8. CASE Asked
  <2>1. Len(out_fifo') = host'.sent + 1
    BY <1>2, <1>4, <1>8 DEF Asked
  <2>2. Asked'
    BY <1>1, <1>2, <1>4, <1>5, <1>8, <2>1 DEF Asked, Between
  <2> QED  BY <1>1, <1>2, <1>6, <2>2 DEF LockStep
<1>9. CASE Served /\ pc \in {"drain", "write_prime", "write_join"}
  <2>1. TakesData /\ cmd = host.cmd
    BY <1>9 DEF Served
  <2>2. Received' = Received /\ Received \in Int
    BY <1>1, InvTypes DEF Received
  <2>3. Received' + Len(out_fifo') = host'.sent
    <3>1. Received + Len(out_fifo) = host.sent
      BY <2>1 DEF TakesData
    <3> QED  BY <1>2, <1>4, <2>2, <3>1
  <2>4. TakesData'
    BY <1>1, <1>2, <1>4, <1>5, <2>1, <2>3 DEF TakesData
  <2> QED  BY <1>1, <1>2, <1>6, <1>9, <2>1, <2>4 DEF LockStep, Served
<1> QED  BY <1>7, <1>8, <1>9

LEMMA TakeInKeepsL == Inv /\ SInv /\ LockStep /\ TakeIn => LockStep'
<1> SUFFICES ASSUME Inv, SInv, LockStep, TakeIn PROVE LockStep'
  OBVIOUS
<1>1. /\ Sending /\ ep.st = "busy" /\ ep' = Sent /\ host' = Took(InPacket)
      /\ host.pc \in {"in", "status"} /\ Live
      /\ UNCHANGED <<pc, cmd, out_fifo, remaining, chunk, at, disk>>
  BY DEF TakeIn, CanTake, Live, answer, xfer, medium
<1>2. Served /\ out_fifo = <<>> /\ cmd = host.cmd
  BY <1>1, ServedAtWork DEF Between, Sending, Served
<1>h. host \in Hosts
  BY DEF Inv, HostType
<1>3. CASE pc = "csw"
  <2>1. ep'.st = "ok"
    BY <1>1, <1>3 DEF Sent, Streaming
  <2>2. InPacket.kind = "csw" /\ InPacket.tag = cmd.tag
    <3>1. InPacket = [kind |-> "csw", tag |-> cmd.tag, status |-> status]
      BY <1>3 DEF InPacket, Streaming
    <3> QED  BY <3>1
  <2>3. OwnStatus(InPacket) /\ (host.pc = "status" \/ host.got = <<>>)
    BY <1>2, <1>3, <2>2 DEF OwnStatus, Served, SInv, TagsInOrder, Numbered
  <2>4. host'.pc = "idle"
    BY <1>1, <1>h, <2>3 DEF Took, Hosts
  <2> QED  BY <1>1, <1>2, <1>3, <2>1, <2>4 DEF LockStep, Live, Between
<1>4. CASE pc = "data_in"
  <2>1. ep'.st = "ok" /\ host.pc = "in" /\ host.got = <<>>
    BY <1>1, <1>2, <1>4 DEF Sent, Streaming, Served
  <2>2. InPacket = [kind |-> "reply"]
    BY <1>4 DEF InPacket, Streaming
  <2>3. InPacket.kind = "reply"
    BY <2>2
  <2>4. host' = [host EXCEPT !.pc = "status"]
    BY <1>1, <2>1, <2>3 DEF Took, OwnStatus
  <2>5. host'.pc = "status" /\ host'.cmd = host.cmd /\ host'.got = host.got
    BY <1>h, <2>4 DEF Hosts
  <2> QED  BY <1>1, <1>2, <1>4, <2>1, <2>5 DEF LockStep, Live, Served, Streaming
<1>5. CASE Streaming
  <2>t. /\ at \in Nat /\ chunk \in Nat /\ remaining \in Nat /\ ep.pos \in Nat /\ cmd.lba \in Nat /\ cmd.blocks \in Nat
    BY InvTypes
  <2>1. chunk > 0 /\ host.pc = IF Moved = cmd.blocks THEN "status" ELSE "in"
    BY <1>2, <1>5 DEF Served, Streaming
  <2>2. host.pc = "in"
    <3>1. ep.pos < chunk /\ at + remaining = cmd.lba + cmd.blocks
      BY <1>1, <1>5, <2>1 DEF Inv, SendFits, SInv, ReadSoFar, BankIsRead
    <3>2. (at - chunk - cmd.lba) + ep.pos # cmd.blocks
      BY <2>t, <3>1
    <3>3. Moved # cmd.blocks
      BY <3>2 DEF Moved
    <3> QED  BY <2>1, <3>3
  <2>3. InPacket.kind = "data" /\ InPacket.block = banks[cur][ep.pos + 1]
    <3>1. InPacket = [kind |-> "data", block |-> banks[cur][ep.pos + 1]]
      BY <1>5, <2>1, <2>t DEF InPacket, Streaming
    <3> QED  BY <3>1
  <2>4. cmd.op = "read"
    BY <1>5 DEF Streaming, SInv, CommandOfPlace
  <2>5. /\ host'.cmd = host.cmd /\ host'.got = Append(host.got, banks[cur][ep.pos + 1])
        /\ host'.pc = IF Len(host.got) + 1 = host.cmd.blocks THEN "status" ELSE "in"
    <3>1. host' = [host EXCEPT !.got = Append(@, InPacket.block),
                     !.pc = IF Len(host.got) + 1 = host.cmd.blocks THEN "status" ELSE "in"]
      BY <1>1, <1>2, <2>2, <2>3, <2>4 DEF Took, OwnStatus
    <3> QED  BY <1>h, <2>3, <3>1 DEF Hosts
  <2>6. Own
    BY <1>1, <1>2 DEF Own, SInv, TagsInOrder, Numbered
  <2>7. Moved' = Len(host.got) + 1
    BY <1>1, <1>5, <2>1, <2>2, <2>5, <2>6, OneMoreBlock
  <2>8. ep'.st \in {"busy", "ok"}
    BY <1>1, <1>5, SentCounts
  <2> QED
    BY <1>1, <1>2, <1>5, <2>1, <2>5, <2>7, <2>8 DEF LockStep, Live, Served, Streaming
<1> QED  BY <1>1, <1>3, <1>4, <1>5 DEF Sending, Streaming

(* What neither side of the pipe sees.                                     *)
LEMMA UnseenKeepsL ==
  ASSUME LockStep, PressBack \/ UNCHANGED vars
  PROVE  LockStep'
<1>1. UNCHANGED <<pc, cmd, remaining, chunk, at, ep, out_fifo, host>>
  BY DEF PressBack, vars, answer, xfer, outside
<1> QED
  BY <1>1 DEF LockStep, Live, Between, Asked, Served, TakesData, Received, Streaming, Moved

-----------------------------------------------------------------------------
(* Every behaviour                                                         *)

LEMMA InitLInv == Init => LInv
  BY DEF Init, LInv, Gone, DeadHolds, LockStep, Live, Between, Busy

(* Only a new session and a command in a quiet pipe end a fault.           *)
LEMMA StillWhole == [Next]_vars /\ ~hurt' => ~hurt \/ EnterMode \/ SendCbw
<1> SUFFICES ASSUME [Next]_vars, ~hurt', ~EnterMode, ~SendCbw PROVE ~hurt
  OBVIOUS
<1>1. CASE \/ ReceiveBlock \/ CbwReadFails \/ WaitEnabled \/ BadCbw \/ Exit \/ CswDone
  BY Zenon, <1>1 DEF ReceiveBlock, CbwReadFails, WaitEnabled, BadCbw, Exit, CswDone, outside
<1>2. CASE \/ TestUnitReady \/ EnsureReady \/ RequestSense \/ Inquiry \/ ReadCapacity
           \/ DataInDone \/ StartStopUnit \/ Unsupported \/ Drain \/ Drained
  BY Zenon, <1>2 DEF TestUnitReady, EnsureReady, RequestSense, Inquiry, ReadCapacity,
     DataInDone, StartStopUnit, Unsupported, Drain, Drained, outside
<1>3. CASE \/ Read \/ CardReads \/ ReadPrimed \/ ReadJoined \/ ReadDone
  BY <1>3 DEF Read, CardReads, ReadPrimed, ReadJoined, ReadDone, outside
<1>4. CASE \/ Write \/ WritePrimed \/ CardWrites \/ WriteJoined \/ WriteDone
  BY <1>4 DEF Write, WritePrimed, CardWrites, WriteJoined, WriteDone, outside
<1>5. CASE \/ SendData \/ TakeIn \/ PressBack \/ Attach \/ UntimelyReset \/ SetConfiguration
           \/ ClassReset \/ ClearHalts \/ HostTimeout \/ UNCHANGED vars
  BY Zenon, <1>5 DEF SendData, TakeIn, PressBack, Attach, UntimelyReset, SetConfiguration,
     ClassReset, ClearHalts, HostTimeout, outside, vars
<1>6. CASE EmptyBlock \/ ShortBlock \/ CardHangs
  BY Zenon, <1>6 DEF EmptyBlock, ShortBlock, Refuse, CardHangs
<1> QED  BY <1>1, <1>2, <1>3, <1>4, <1>5, <1>6 DEF Next, Transport, Host

LEMMA DeadHoldsStep == DeadHolds /\ [Next]_vars => DeadHolds'
<1> SUFFICES ASSUME DeadHolds, [Next]_vars, card' = "dead", ~hurt' PROVE FALSE
  BY CardIsAwaited DEF DeadHolds
<1>1. ~CardHangs
  BY DEF CardHangs
<1>2. card = "dead" /\ hurt /\ AwaitsCard
  BY <1>1, OnlyHangs DEF DeadHolds
<1>3. CASE EnterMode
  BY <1>2, <1>3 DEF EnterMode, AwaitsCard
<1>4. CASE SendCbw
  BY <1>2, <1>4 DEF SendCbw, Quiet, AwaitsCard
<1> QED  BY <1>2, <1>3, <1>4, StillWhole

LEMMA LInvStep == Inv /\ SInv /\ LInv /\ [Next]_vars => LInv'
<1> SUFFICES ASSUME Inv, SInv, LInv, [Next]_vars, ~hurt' PROVE LockStep'
  BY GoneStep, DeadHoldsStep DEF LInv
<1>1. XferType'
  BY InvStep DEF Inv
<1>2. CASE EnterMode \/ SendCbw
  BY <1>2, SessionKeepsL, SendCbwKeepsL DEF LInv
<1>3. CASE ~EnterMode /\ ~SendCbw
  <2>1. LockStep /\ Gone /\ card # "dead"
    <3>1. ~hurt
      BY <1>3, StillWhole
    <3> QED  BY <3>1 DEF LInv, DeadHolds
  <2>2. CASE CbwReadFails \/ WaitEnabled \/ CswDone \/ BadCbw
    BY <2>1, <2>2, LoopingKeepsL, NoBadCbw
  <2>3. CASE \/ TestUnitReady \/ RequestSense \/ Inquiry \/ ReadCapacity
             \/ StartStopUnit \/ Unsupported \/ Read \/ Write \/ EmptyBlock \/ ShortBlock
    BY <2>1, <2>3, TakingKeepsL
  <2>4. CASE \/ EnsureReady \/ DataInDone \/ Drained \/ WriteDone \/ Drain \/ ReceiveBlock
    BY <2>1, <2>4, AnsweringKeepsL, DrainKeepsL, ReceiveBlockKeepsL
  <2>5. CASE \/ CardReads \/ CardWrites \/ WritePrimed \/ WriteJoined
    BY <1>1, <2>1, <2>5, CardKeepsL, WritePrimedKeepsL, WriteJoinedKeepsL
  <2>6. CASE \/ ReadPrimed \/ ReadJoined \/ ReadDone
    BY <2>1, <2>6, ReadPrimedKeepsL, ReadJoinedKeepsL, ReadDoneKeepsL
  <2>7. CASE \/ Exit \/ Attach \/ SetConfiguration
    BY <2>1, <2>7, SessionKeepsL
  <2>8. CASE \/ SendData \/ TakeIn \/ PressBack \/ UNCHANGED vars
    BY <2>1, <2>8, SendDataKeepsL, TakeInKeepsL, UnseenKeepsL
  <2>9. ~UntimelyReset /\ ~ClassReset /\ ~CardHangs
    BY DEF UntimelyReset, ClassReset, CardHangs
  <2>10. ~ClearHalts /\ ~HostTimeout
    BY <2>1, LockStepRuns DEF ClearHalts, HostTimeout, LockStep
  <2> QED
    BY <1>3, <2>2, <2>3, <2>4, <2>5, <2>6, <2>7, <2>8, <2>9, <2>10 DEF Next, Transport, Host
<1> QED  BY <1>2, <1>3

(* Host and transport never wait for each other while nothing has gone     *)
(* wrong (a reset, a card error, a card that hangs, a transfer of no       *)
(* blocks) and no empty or too short command block has left its data in    *)
(* the pipe (bot.rs:269-272, 397-400): every other command, refused or     *)
(* not, leaves the pipes in step (bot.rs:402, 417).                        *)
THEOREM StaysInSync == Spec => []InSync
<1>1. Init => LInv
  BY InitLInv
<1>2. Inv /\ SInv /\ LInv /\ [Next]_vars => LInv'
  BY LInvStep
<1>3. Inv /\ SInv /\ LInv => InSync
  BY LockStepRuns DEF LInv, DeadHolds, InSync
<1> QED  BY <1>1, <1>2, <1>3, SInvAlways, PTL DEF Spec
=============================================================================
