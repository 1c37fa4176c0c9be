---- MODULE PanelBus ----
(***************************************************************************)
(* RSPI0 shared by the OLED and the CV DAC (deluge-bsp bus.rs, oled.rs,    *)
(* cv_gate.rs), and the link to the PIC that drives the OLED's chip select *)
(* (pic.rs).  A frame takes the bus, has the PIC select the OLED, streams  *)
(* by DMA, has it deselected and gives the bus back; the PIC echoes each   *)
(* command once the line has moved.  Both ways the link keeps its order,   *)
(* may be slow and may lose a byte.  The PIC and the panel are external.   *)
(*                                                                         *)
(* The panel is anchored once, by oled::init, and never again: its column  *)
(* pointer must be back at 0 after every frame.  A frame whose future is   *)
(* dropped by its caller leaves the bus as it is (usbmsc.rs:64); `dropped` *)
(* remembers that, and one is dropped at most.                             *)
(***************************************************************************)
EXTENDS Integers, Sequences

CONSTANTS
  FrameBytes,   (* bytes of a frame, FRAME_BYTES                           *)
  FifoBytes,    (* bytes RSPI0 takes from the DMA before they shift out    *)
  MaxLink,      (* bound: bytes in flight on the PIC link, each way        *)
  MaxContent    (* bound: changes of what the OLED is to show              *)

ASSUME PanelBusAssumption ==
  /\ FrameBytes \in Nat \ {0} /\ FifoBytes \in Nat \ {0}
  /\ MaxLink \in Nat \ {0} /\ MaxContent \in Nat

VARIABLES
  locked,         (* the guard of RSPI0 is held                            *)
  mode,           (* its frame width, 8 or 32                              *)
  pc,             (* where the OLED task is                                *)
  redraw,         (* redraw_signal::FLAG                                   *)
  content, fb,    (* what is to be shown; what this frame shows            *)
  selected_flag, deselected_flag,
  dma,            (* bytes DMAC channel 4 still has to hand to RSPI0       *)
  fifo,           (* bytes RSPI0 still has to shift out                    *)
  to_pic, to_cpu, (* the link's bytes in flight                            *)
  firmware_version_next,  (* the parser takes the next byte for a version  *)
  cs,             (* the OLED's chip select is asserted                    *)
  pointer,        (* the OLED's column pointer, 0 at the anchor            *)
  shown,          (* history: the last content sent to its end             *)
  dropped         (* history: was a frame dropped?                         *)

bus == <<locked, mode>>
screen == <<redraw, content, fb>>
flags == <<selected_flag, deselected_flag>>
spi == <<dma, fifo>>
link == <<to_pic, to_cpu, firmware_version_next>>
panel == <<cs, pointer>>
vars == <<bus, pc, screen, flags, spi, link, panel, shown, dropped>>

Columns == 0 .. FrameBytes - 1
Commands == {"select", "deselect"}

(* The panel takes a byte that is clocked while it is selected; what a     *)
(* switch of frame width or a foreign word does to it is anybody's guess.  *)
Clocked == pointer' = IF cs THEN (pointer + 1) % FrameBytes ELSE pointer
Disturbed == IF cs THEN pointer' \in Columns ELSE pointer' = pointer

-----------------------------------------------------------------------------
(* The rest of the firmware changes what is to be shown, and writes CVs.   *)

Notify ==
  /\ content < MaxContent
  /\ content' = content + 1
  /\ redraw' = TRUE
  /\ UNCHANGED <<bus, pc, fb, flags, spi, link, panel, shown, dropped>>

(* The whole of it runs without an await once the bus is free.             *)
cv_set ==
  /\ ~locked
  /\ mode' = 32
  /\ Disturbed
  /\ UNCHANGED <<locked, pc, screen, flags, spi, link, cs, shown, dropped>>

-----------------------------------------------------------------------------
(* The OLED task: wait_redraw, render, send_frame.                         *)

Step(from, to) == pc = from /\ pc' = to

WaitRedraw ==
  /\ Step("idle", "lock")
  /\ redraw
  /\ redraw' = FALSE
  /\ fb' = content
  /\ UNCHANGED <<bus, content, flags, spi, link, panel, shown, dropped>>

(* lock_rspi0 and reconfigure_8bit.                                        *)
LockBus ==
  /\ Step("lock", "clear selected")
  /\ ~locked
  /\ locked' = TRUE
  /\ mode' = 8
  /\ IF mode = 8 /\ dma = 0 /\ fifo = 0 THEN UNCHANGED pointer ELSE Disturbed
  /\ UNCHANGED <<screen, flags, spi, link, cs, shown, dropped>>

(* Seeded bug: an echo that came before is not forgotten.                  *)
KeepSelected ==
  /\ Step("clear selected", "send select")
  /\ UNCHANGED <<bus, screen, flags, spi, link, panel, shown, dropped>>

(* oled_select_and_wait, and oled_deselect_and_wait: the echo that came    *)
(* before is forgotten, the command is sent, and sent again after a while  *)
(* without an echo.                                                        *)
ClearSelected ==
  /\ Step("clear selected", "send select")
  /\ selected_flag' = FALSE
  /\ UNCHANGED <<bus, screen, deselected_flag, spi, link, panel, shown, dropped>>

ClearDeselected ==
  /\ Step("clear deselected", "send deselect")
  /\ deselected_flag' = FALSE
  /\ UNCHANGED <<bus, screen, selected_flag, spi, link, panel, shown, dropped>>

SendCommand(command) ==
  /\ Len(to_pic) < MaxLink
  /\ to_pic' = Append(to_pic, command)
  /\ UNCHANGED <<bus, screen, flags, spi, to_cpu, firmware_version_next, panel,
                 shown, dropped>>

SendSelect == Step("send select", "wait selected") /\ SendCommand("select")
SendDeselect == Step("send deselect", "wait deselected") /\ SendCommand("deselect")

(* Seeded bug: only the select is sent again.                              *)
SelectTimeout ==
  /\ Step("wait selected", "clear selected") /\ ~selected_flag
  /\ UNCHANGED <<bus, screen, flags, spi, link, panel, shown, dropped>>

EchoTimeout ==
  /\ \/ Step("wait selected", "clear selected") /\ ~selected_flag
     \/ Step("wait deselected", "clear deselected") /\ ~deselected_flag
  /\ UNCHANGED <<bus, screen, flags, spi, link, panel, shown, dropped>>

(* Seeded bug: one byte too many.                                          *)
StartLongTransfer ==
  /\ Step("wait selected", "transfer")
  /\ selected_flag
  /\ selected_flag' = FALSE
  /\ dma' = FrameBytes + 1
  /\ UNCHANGED <<bus, screen, deselected_flag, fifo, link, panel, shown, dropped>>

(* The echo is there: copy the frame and start the DMA.                    *)
StartTransfer ==
  /\ Step("wait selected", "transfer")
  /\ selected_flag
  /\ selected_flag' = FALSE
  /\ dma' = FrameBytes
  /\ UNCHANGED <<bus, screen, deselected_flag, fifo, link, panel, shown, dropped>>

(* Seeded bug: no wait_end.                                                *)
DmaEnds ==
  /\ Step("transfer", "clear deselected")
  /\ dma = 0
  /\ UNCHANGED <<bus, screen, flags, spi, link, panel, shown, dropped>>

(* wait_transfer_complete, and wait_end.                                   *)
TransferEnds ==
  /\ Step("transfer", "clear deselected")
  /\ dma = 0 /\ fifo = 0
  /\ UNCHANGED <<bus, screen, flags, spi, link, panel, shown, dropped>>

(* Seeded bug: the deselect is given some time, and not waited for.        *)
ReleaseBusUnheard ==
  /\ Step("wait deselected", "idle")
  /\ deselected_flag' = FALSE
  /\ locked' = FALSE
  /\ shown' = fb
  /\ UNCHANGED <<mode, screen, selected_flag, spi, link, panel, dropped>>

(* Seeded bug: the request to draw is taken back once the frame is out.    *)
ReleaseBusAndRequest ==
  /\ Step("wait deselected", "idle")
  /\ deselected_flag
  /\ deselected_flag' = FALSE
  /\ locked' = FALSE
  /\ shown' = fb
  /\ redraw' = FALSE
  /\ UNCHANGED <<mode, content, fb, selected_flag, spi, link, panel, dropped>>

ReleaseBus ==
  /\ Step("wait deselected", "idle")
  /\ deselected_flag
  /\ deselected_flag' = FALSE
  /\ locked' = FALSE
  /\ shown' = fb
  /\ UNCHANGED <<mode, screen, selected_flag, spi, link, panel, dropped>>

(* The caller drops the frame at one of its awaits.  The guard goes with   *)
(* it; the DMA and the PIC go on.  The caller draws something else.        *)
Awaits == {"lock", "send select", "wait selected", "transfer",
           "send deselect", "wait deselected"}

DropFrame ==
  /\ ~dropped
  /\ pc \in Awaits
  /\ pc' = "idle"
  /\ locked' = FALSE
  /\ redraw' = TRUE
  /\ dropped' = TRUE
  /\ UNCHANGED <<mode, content, fb, flags, spi, link, panel, shown>>

-----------------------------------------------------------------------------
(* DMAC and RSPI0.                                                         *)

DmaFeeds ==
  /\ dma > 0 /\ fifo < FifoBytes
  /\ dma' = dma - 1
  /\ fifo' = fifo + 1
  /\ UNCHANGED <<bus, pc, screen, flags, link, panel, shown, dropped>>

ShiftOut ==
  /\ fifo > 0
  /\ fifo' = fifo - 1
  /\ IF mode = 8 THEN Clocked ELSE Disturbed
  /\ UNCHANGED <<bus, pc, screen, flags, dma, link, cs, shown, dropped>>

-----------------------------------------------------------------------------
(* The PIC, the link, and pic_pump with its parser.                        *)

PicObeys ==
  /\ to_pic # <<>>
  /\ Len(to_cpu) < MaxLink
  /\ cs' = (Head(to_pic) = "select")
  /\ to_pic' = Tail(to_pic)
  /\ to_cpu' = Append(to_cpu, Head(to_pic))
  /\ UNCHANGED <<bus, pc, screen, flags, spi, firmware_version_next, pointer,
                 shown, dropped>>

(* Parser::push, and notify_oled_selected or notify_oled_deselected.       *)
Receive ==
  /\ to_cpu # <<>>
  /\ to_cpu' = Tail(to_cpu)
  /\ firmware_version_next' = FALSE
  /\ LET heard == ~firmware_version_next
     IN  /\ selected_flag' = (selected_flag \/ (heard /\ Head(to_cpu) = "select"))
         /\ deselected_flag' = (deselected_flag \/ (heard /\ Head(to_cpu) = "deselect"))
  /\ UNCHANGED <<bus, pc, screen, spi, to_pic, panel, shown, dropped>>

LoseByte ==
  /\ \/ /\ to_pic # <<>>
        /\ to_pic' = Tail(to_pic)
        /\ UNCHANGED to_cpu
     \/ /\ to_cpu # <<>>
        /\ to_cpu' = Tail(to_cpu)
        /\ UNCHANGED to_pic
  /\ UNCHANGED <<bus, pc, screen, flags, spi, firmware_version_next, panel,
                 shown, dropped>>

-----------------------------------------------------------------------------
(* As oled::init leaves it.  The answer to pic::init's version request may *)
(* still be on its way, with its second byte lost.                         *)
Init ==
  /\ locked = FALSE /\ mode \in {8, 32}
  /\ pc = "idle"
  /\ redraw = TRUE /\ content = 0 /\ fb = 0 /\ shown = 0
  /\ selected_flag = FALSE /\ deselected_flag = FALSE
  /\ dma = 0 /\ fifo = 0
  /\ to_pic = <<>> /\ to_cpu = <<>>
  /\ firmware_version_next \in BOOLEAN
  /\ cs = FALSE /\ pointer = 0
  /\ dropped = FALSE

OledTask ==
  \/ WaitRedraw \/ LockBus \/ ClearSelected \/ SendSelect \/ StartTransfer
  \/ TransferEnds \/ ClearDeselected \/ SendDeselect \/ ReleaseBus
  \/ EchoTimeout

Next ==
  \/ OledTask \/ DropFrame
  \/ Notify \/ cv_set
  \/ DmaFeeds \/ ShiftOut
  \/ PicObeys \/ Receive \/ LoseByte

Spec == Init /\ [][Next]_vars

(* The executor runs the task, the DMA runs, the link does not lose or     *)
(* delay past the timeout every byte for ever.                             *)
Waiting == pc \in {"wait selected", "wait deselected"}

Fairness ==
  /\ WF_vars(OledTask)
  /\ WF_vars(DmaFeeds) /\ WF_vars(ShiftOut)
  /\ WF_vars(PicObeys) /\ SF_vars(Waiting /\ PicObeys)
  /\ WF_vars(Receive) /\ SF_vars(Waiting /\ Receive)

FairSpec == Spec /\ Fairness

-----------------------------------------------------------------------------
TypeOK ==
  /\ locked \in BOOLEAN /\ mode \in {8, 32}
  /\ pc \in Awaits \cup {"idle", "clear selected", "clear deselected"}
  /\ redraw \in BOOLEAN
  /\ content \in 0 .. MaxContent /\ fb \in 0 .. content /\ shown \in 0 .. content
  /\ selected_flag \in BOOLEAN /\ deselected_flag \in BOOLEAN
  /\ dma \in 0 .. FrameBytes /\ fifo \in 0 .. FifoBytes
  /\ to_pic \in Seq(Commands) /\ to_cpu \in Seq(Commands)
  /\ Len(to_pic) <= MaxLink /\ Len(to_cpu) <= MaxLink
  /\ firmware_version_next \in BOOLEAN
  /\ cs \in BOOLEAN /\ pointer \in Columns
  /\ dropped \in BOOLEAN

(* Whatever is lost, late or sent again, the bus is free only while the    *)
(* OLED does not listen: it is deselected, no select is on its way to the  *)
(* PIC, and no DMA runs.  So no CV word and no switch of frame width       *)
(* reaches the panel (oled.rs:588-606, 634-650), unless a frame was        *)
(* dropped.                                                                *)
NothingUnderWay ==
  /\ ~cs
  /\ \A i \in DOMAIN to_pic : to_pic[i] # "select"
  /\ dma = 0 /\ fifo = 0
FreeBusIsDeselected == ~locked /\ ~dropped => NothingUnderWay

(* The wait for the select echo is never ended early by the late echo of   *)
(* an earlier attempt or frame (pic.rs:874-876): as long as the DMA feeds  *)
(* the panel it is selected, stays so, and takes 8-bit frames.             *)
FrameReachesThePanel ==
  ~dropped /\ (dma > 0 \/ fifo > 0) =>
    /\ cs /\ mode = 8
    /\ \A i \in DOMAIN to_pic : to_pic[i] # "deselect"

(* The panel takes whole frames: whenever the bus is free its pointer is   *)
(* at the anchor oled::init set and nobody sets again (oled.rs:437-446),   *)
(* unless a frame was dropped.                                             *)
PanelStaysAnchored == ~locked /\ ~dropped => pointer = 0

(* A frame gives the bus back, over lost bytes and late echoes; the        *)
(* resends are there for that (pic.rs:873-876).                            *)
BusIsReleased == locked ~> ~locked

(* A change notified at any moment, also while a frame is being sent or    *)
(* dropped, is shown in the end (redraw_signal).                           *)
LatestIsShown == \A v \in 0 .. MaxContent : content = v ~> shown >= v
====
