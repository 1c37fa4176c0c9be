---- MODULE PanelBusProofs ----
(***************************************************************************)
(* What TLAPS proves of PanelBus, for every length of frame, FIFO and      *)
(* link, and any number of changes of what is to be shown.                 *)
(***************************************************************************)
EXTENDS PanelBus, TLAPS

(* The PIC obeyed `c` last.                                                *)
At(c) == cs = (c = "select")

All(s, c) == \A i \in DOMAIN s : s[i] = c
Has(s, c) == \E i \in DOMAIN s : s[i] = c

(* Once a `c` is in flight only `c` follows it.                            *)
EndsIn(s, c) == \A i, j \in DOMAIN s : i < j /\ s[i] = c => s[j] = c

(* The task asks for `c` and nothing else: whatever else is in flight is   *)
(* older, and when the PIC obeyed one `c` all that is still under way to   *)
(* it is `c`.                                                              *)
Heading(c) ==
  /\ EndsIn(to_pic, c) /\ EndsIn(to_cpu, c)
  /\ Has(to_cpu, c) => At(c)
  /\ At(c) => All(to_pic, c)

(* An echo of `c` is in: it was obeyed, and nothing else is in flight.     *)
Settled(c) == At(c) /\ All(to_pic, c) /\ All(to_cpu, c)

Quiet == dma = 0 /\ fifo = 0 /\ pointer = 0

GuardIsHeld == locked <=> pc \notin {"idle", "lock"}

(* Where the line, the link and the panel are while no frame was dropped.  *)
FrameInStep ==
  /\ pc \in {"idle", "lock"} => Settled("deselect") /\ Quiet
  /\ pc \in {"clear selected", "send select", "wait selected"} =>
       /\ Heading("select") /\ Quiet /\ mode = 8
       /\ pc # "clear selected" /\ selected_flag => Settled("select")
  /\ pc = "transfer" =>
       /\ Settled("select") /\ mode = 8
       /\ pointer + dma + fifo = FrameBytes \/ Quiet
  /\ pc \in {"clear deselected", "send deselect", "wait deselected"} =>
       /\ Heading("deselect") /\ Quiet
       /\ pc # "clear deselected" /\ deselected_flag => Settled("deselect")

PInv ==
  /\ TypeOK
  /\ GuardIsHeld
  /\ ~dropped => FrameInStep

-----------------------------------------------------------------------------
(* The link's two ends, a byte taken off and a byte put on.                *)

LEMMA TailKeeps ==
  ASSUME NEW s \in Seq(Commands), s # <<>>, NEW c
  PROVE  /\ Tail(s) \in Seq(Commands) /\ Len(Tail(s)) < Len(s)
         /\ Head(s) \in Commands
         /\ All(s, c) => Head(s) = c /\ All(Tail(s), c)
         /\ EndsIn(s, c) => EndsIn(Tail(s), c)
         /\ Has(Tail(s), c) => Has(s, c)
         /\ EndsIn(s, c) /\ Head(s) = c => All(s, c)
<1>1. /\ Len(s) \in Nat \ {0} /\ DOMAIN s = 1 .. Len(s)
      /\ Head(s) = s[1] /\ s[1] \in Commands
      /\ Tail(s) \in Seq(Commands) /\ Len(Tail(s)) = Len(s) - 1
      /\ DOMAIN Tail(s) = 1 .. Len(s) - 1
  OBVIOUS
<1>2. \A i \in 1 .. Len(s) - 1 : Tail(s)[i] = s[i + 1] /\ i + 1 \in 1 .. Len(s)
  BY <1>1
<1>3. All(s, c) => Head(s) = c /\ All(Tail(s), c)
  BY <1>1, <1>2 DEF All
<1>4. EndsIn(s, c) => EndsIn(Tail(s), c)
  BY <1>1, <1>2 DEF EndsIn
<1>5. Has(Tail(s), c) => Has(s, c)
  BY <1>1, <1>2 DEF Has
<1>6. EndsIn(s, c) /\ Head(s) = c => All(s, c)
  BY <1>1 DEF EndsIn, All
<1> QED
  BY <1>1, <1>3, <1>4, <1>5, <1>6

LEMMA AppendKeeps ==
  ASSUME NEW s \in Seq(Commands), NEW x \in Commands, NEW c
  PROVE  /\ Append(s, x) \in Seq(Commands) /\ Len(Append(s, x)) = Len(s) + 1
         /\ x = c /\ EndsIn(s, c) => EndsIn(Append(s, x), c)
         /\ x = c /\ All(s, c) => All(Append(s, x), c)
         /\ x # c /\ ~Has(s, c) => EndsIn(Append(s, x), c) /\ ~Has(Append(s, x), c)
<1>1. /\ Len(s) \in Nat /\ DOMAIN s = 1 .. Len(s)
      /\ Append(s, x) \in Seq(Commands) /\ Len(Append(s, x)) = Len(s) + 1
      /\ DOMAIN Append(s, x) = 1 .. Len(s) + 1
      /\ Append(s, x)[Len(s) + 1] = x
      /\ \A i \in 1 .. Len(s) : Append(s, x)[i] = s[i]
  OBVIOUS
<1> DEFINE t == Append(s, x)
<1>2. \A i \in 1 .. Len(s) + 1 : i \in 1 .. Len(s) \/ i = Len(s) + 1
  BY <1>1
<1> HIDE DEF t
<1>3. DOMAIN t = 1 .. Len(s) + 1 /\ t[Len(s) + 1] = x /\ \A i \in 1 .. Len(s) : t[i] = s[i]
  BY <1>1 DEF t
<1>4. x = c /\ EndsIn(s, c) => EndsIn(t, c)
  BY <1>1, <1>2, <1>3 DEF EndsIn
<1>5. x = c /\ All(s, c) => All(t, c)
  BY <1>1, <1>2, <1>3 DEF All
<1>6. x # c /\ ~Has(s, c) => ~Has(t, c)
  BY <1>1, <1>2, <1>3 DEF Has
<1>7. ~Has(t, c) => EndsIn(t, c)
  BY DEF Has, EndsIn
<1> QED
  BY <1>1, <1>4, <1>5, <1>6, <1>7 DEF t

(* Nothing but a step of the task changes what the link heads for.         *)
LEMMA HeadingKept ==
  ASSUME TypeOK, NEW c \in Commands, Heading(c), PicObeys \/ Receive \/ LoseByte
  PROVE  Heading(c)'
<1>t. to_pic \in Seq(Commands) /\ to_cpu \in Seq(Commands) /\ cs \in BOOLEAN
  BY DEF TypeOK
<1>1. CASE PicObeys
  <2>1. /\ to_pic # <<>> /\ cs' = (Head(to_pic) = "select")
        /\ to_pic' = Tail(to_pic) /\ to_cpu' = Append(to_cpu, Head(to_pic))
    BY <1>1 DEF PicObeys
  <2>2. Head(to_pic) \in Commands /\ EndsIn(to_pic', c)
    BY <1>t, <2>1, TailKeeps DEF Heading
  <2>3. CASE Head(to_pic) = c
    <3>1. At(c)'
      BY <2>1, <2>3 DEF At
    <3>2. All(to_pic', c)
      BY <1>t, <2>1, <2>3, TailKeeps DEF Heading
    <3>3. EndsIn(to_cpu', c)
      BY <1>t, <2>1, <2>2, <2>3, AppendKeeps DEF Heading
    <3> QED
      BY <2>2, <3>1, <3>2, <3>3 DEF Heading
  <2>4. CASE Head(to_pic) # c
    <3>1. ~At(c)'
      BY <2>1, <2>2, <2>4 DEF At, Commands
    <3>2. ~All(to_pic, c)
      BY <1>t, <2>1, <2>4, TailKeeps
    <3>3. ~Has(to_cpu, c)
      BY <3>2 DEF Heading
    <3>4. EndsIn(to_cpu', c) /\ ~Has(to_cpu', c)
      BY <1>t, <2>1, <2>2, <2>4, <3>3, AppendKeeps
    <3> QED
      BY <2>2, <3>1, <3>4 DEF Heading
  <2> QED
    BY <2>3, <2>4
<1>2. CASE Receive \/ LoseByte
  <2>1. /\ cs' = cs
        /\ to_pic' = to_pic \/ (to_pic # <<>> /\ to_pic' = Tail(to_pic))
        /\ to_cpu' = to_cpu \/ (to_cpu # <<>> /\ to_cpu' = Tail(to_cpu))
    BY <1>2 DEF Receive, LoseByte, panel
  <2>2. EndsIn(to_pic', c) /\ (All(to_pic, c) => All(to_pic', c))
    BY <1>t, <2>1, TailKeeps DEF Heading
  <2>3. EndsIn(to_cpu', c) /\ (Has(to_cpu', c) => Has(to_cpu, c))
    BY <1>t, <2>1, TailKeeps DEF Heading
  <2>4. At(c)' <=> At(c)
    BY <2>1 DEF At
  <2> QED
    BY <2>2, <2>3, <2>4 DEF Heading
<1> QED
  BY <1>1, <1>2

LEMMA SettledKept ==
  ASSUME TypeOK, NEW c \in Commands, Settled(c), PicObeys \/ Receive \/ LoseByte
  PROVE  Settled(c)'
<1>t. to_pic \in Seq(Commands) /\ to_cpu \in Seq(Commands) /\ cs \in BOOLEAN
  BY DEF TypeOK
<1>1. CASE PicObeys
  <2>1. /\ to_pic # <<>> /\ cs' = (Head(to_pic) = "select")
        /\ to_pic' = Tail(to_pic) /\ to_cpu' = Append(to_cpu, Head(to_pic))
    BY <1>1 DEF PicObeys
  <2>2. Head(to_pic) = c /\ All(to_pic', c)
    BY <1>t, <2>1, TailKeeps DEF Settled
  <2>3. All(to_cpu', c)
    BY <1>t, <2>1, <2>2, AppendKeeps DEF Settled
  <2>4. At(c)'
    BY <2>1, <2>2 DEF At
  <2> QED
    BY <2>2, <2>3, <2>4 DEF Settled
<1>2. CASE Receive \/ LoseByte
  <2>1. /\ cs' = cs
        /\ to_pic' = to_pic \/ (to_pic # <<>> /\ to_pic' = Tail(to_pic))
        /\ to_cpu' = to_cpu \/ (to_cpu # <<>> /\ to_cpu' = Tail(to_cpu))
    BY <1>2 DEF Receive, LoseByte, panel
  <2>2. All(to_pic', c) /\ All(to_cpu', c)
    BY <1>t, <2>1, TailKeeps DEF Settled
  <2>3. At(c)'
    BY <2>1 DEF At, Settled
  <2> QED
    BY <2>2, <2>3 DEF Settled
<1> QED
  BY <1>1, <1>2

(* The echo that is heard settles the line.                                *)
LEMMA EchoSettles ==
  ASSUME TypeOK, NEW c \in Commands, Heading(c), Receive, Head(to_cpu) = c
  PROVE  Settled(c)'
<1>t. to_pic \in Seq(Commands) /\ to_cpu \in Seq(Commands) /\ to_cpu # <<>>
      /\ to_cpu' = Tail(to_cpu) /\ to_pic' = to_pic /\ cs' = cs
  BY DEF TypeOK, Receive, panel
<1>1. All(to_cpu, c)
  BY <1>t, TailKeeps DEF Heading
<1>2. Has(to_cpu, c)
  <2>1. 1 \in DOMAIN to_cpu /\ to_cpu[1] = Head(to_cpu)
    BY <1>t
  <2> QED
    BY <2>1 DEF Has
<1>3. Settled(c)
  BY <1>1, <1>2 DEF Heading, Settled
<1> QED
  BY <1>3, SettledKept

(* A command sent, and what the other command left behind.                 *)
LEMMA SendKeeps ==
  ASSUME TypeOK, NEW c \in Commands, SendCommand(c)
  PROVE  /\ Heading(c) => Heading(c)'
         /\ Settled(c) => Settled(c)'
<1>1. /\ to_pic \in Seq(Commands) /\ to_pic' = Append(to_pic, c)
      /\ to_cpu' = to_cpu /\ cs' = cs
  BY DEF TypeOK, SendCommand, panel
<1>2. At(c)' <=> At(c)
  BY <1>1 DEF At
<1> QED
  BY <1>1, <1>2, AppendKeeps DEF Heading, Settled

LEMMA LineSame ==
  ASSUME NEW c, UNCHANGED <<to_pic, to_cpu, cs>>
  PROVE  (Heading(c)' <=> Heading(c)) /\ (Settled(c)' <=> Settled(c))
BY DEF Heading, Settled, At

LEMMA SettledHeads ==
  ASSUME TypeOK, NEW c \in Commands, NEW d \in Commands, Settled(c)
  PROVE  Heading(d)
<1>1. CASE d = c
  BY <1>1 DEF Settled, Heading, All, EndsIn
<1>2. CASE d # c
  <2>1. ~At(d)
    BY <1>2 DEF Settled, At, Commands
  <2>2. ~Has(to_cpu, d) /\ ~Has(to_pic, d)
    BY <1>2 DEF Settled, All, Has
  <2>3. EndsIn(to_pic, d) /\ EndsIn(to_cpu, d)
    BY <2>2 DEF Has, EndsIn
  <2> QED
    BY <2>1, <2>2, <2>3 DEF Heading
<1> QED
  BY <1>1, <1>2

-----------------------------------------------------------------------------
(* The type invariant in three parts: booleans, numbers and the link.      *)
FlagTypes ==
  /\ locked \in BOOLEAN /\ redraw \in BOOLEAN
  /\ selected_flag \in BOOLEAN /\ deselected_flag \in BOOLEAN
  /\ firmware_version_next \in BOOLEAN
  /\ cs \in BOOLEAN /\ dropped \in BOOLEAN

NumberTypes ==
  /\ mode \in {8, 32}
  /\ pc \in Awaits \cup {"idle", "clear selected", "clear deselected"}
  /\ content \in 0 .. MaxContent /\ fb \in 0 .. content /\ shown \in 0 .. content
  /\ dma \in 0 .. FrameBytes /\ fifo \in 0 .. FifoBytes
  /\ pointer \in Columns

LinkTypes ==
  /\ to_pic \in Seq(Commands) /\ to_cpu \in Seq(Commands)
  /\ Len(to_pic) <= MaxLink /\ Len(to_cpu) <= MaxLink

LEMMA TypeParts == TypeOK <=> FlagTypes /\ NumberTypes /\ LinkTypes
BY Zenon DEF TypeOK, FlagTypes, NumberTypes, LinkTypes

LEMMA FlagStep == FlagTypes /\ [Next]_vars => FlagTypes'
<1> SUFFICES ASSUME FlagTypes, [Next]_vars PROVE FlagTypes'
  OBVIOUS
<1> USE DEF FlagTypes, bus, screen, flags, spi, link, panel
<1>1. CASE WaitRedraw \/ LockBus \/ ClearSelected \/ ClearDeselected
  BY <1>1, Zenon DEF WaitRedraw, LockBus, ClearSelected, ClearDeselected
<1>2. CASE SendSelect \/ SendDeselect \/ StartTransfer \/ TransferEnds
  BY <1>2, Zenon DEF SendSelect, SendDeselect, SendCommand, StartTransfer, TransferEnds
<1>3. CASE ReleaseBus \/ EchoTimeout \/ DropFrame
  BY <1>3, Zenon DEF ReleaseBus, EchoTimeout, DropFrame
<1>4. CASE Notify \/ cv_set \/ DmaFeeds \/ ShiftOut
  BY <1>4, Zenon DEF Notify, cv_set, DmaFeeds, ShiftOut
<1>5. CASE PicObeys
  <2>1. cs' = (Head(to_pic) = "select") /\ UNCHANGED <<locked, redraw, flags,
          firmware_version_next, dropped>>
    BY <1>5 DEF PicObeys
  <2> QED
    BY <2>1, Zenon
<1>6. CASE Receive
  <2>1. /\ selected_flag' \in BOOLEAN /\ deselected_flag' \in BOOLEAN
        /\ firmware_version_next' \in BOOLEAN
    BY <1>6, Zenon DEF Receive
  <2>2. UNCHANGED <<locked, redraw, cs, dropped>>
    BY <1>6 DEF Receive
  <2> QED
    BY <2>1, <2>2, Zenon
<1>7. CASE LoseByte \/ UNCHANGED vars
  BY <1>7, Zenon DEF LoseByte, vars
<1> QED
  BY <1>1, <1>2, <1>3, <1>4, <1>5, <1>6, <1>7 DEF Next, OledTask

(* The column pointer wraps at the end of a frame.                         *)
LEMMA NextColumn ==
  ASSUME NEW a \in Columns
  PROVE  /\ (a + 1) % FrameBytes \in Columns
         /\ (a + 1) % FrameBytes = IF a + 1 = FrameBytes THEN 0 ELSE a + 1
<1>1. ASSUME NEW n \in Nat, NEW b \in Nat \ {0}, n <= b
      PROVE  n % b = IF n = b THEN 0 ELSE n
  <2>1. CASE n = b
    BY <2>1
  <2>2. CASE n < b
    BY <2>2
  <2> QED
    BY <1>1, <2>1, <2>2
<1>2. FrameBytes \in Nat \ {0} /\ a + 1 \in Nat /\ a + 1 <= FrameBytes
  BY PanelBusAssumption DEF Columns
<1>3. (a + 1) % FrameBytes = IF a + 1 = FrameBytes THEN 0 ELSE a + 1
  BY <1>1, <1>2
<1> QED
  BY <1>2, <1>3 DEF Columns

(* A counter within its bound, one up and one down.                        *)
LEMMA UpDown ==
  \A n \in Nat :
    /\ n \in 0 .. n
    /\ \A a \in 0 .. n : /\ a < n => a + 1 \in 0 .. n
                         /\ a > 0 => a - 1 \in 0 .. n
                         /\ \A b \in 0 .. a : b \in 0 .. a + 1
OBVIOUS

LEMMA NumberStep == NumberTypes /\ [Next]_vars => NumberTypes'
<1> SUFFICES ASSUME NumberTypes, [Next]_vars PROVE NumberTypes'
  OBVIOUS
<1>c. FrameBytes \in Nat /\ FifoBytes \in Nat /\ MaxContent \in Nat
  BY PanelBusAssumption
<1> USE DEF NumberTypes, bus, screen, flags, spi, link, panel, Step,
      Awaits
<1>p. Disturbed \/ UNCHANGED pointer \/ Clocked => pointer' \in Columns
  BY NextColumn DEF Disturbed, Clocked
<1>1. CASE WaitRedraw
  BY <1>1 DEF WaitRedraw
<1>2. CASE LockBus \/ cv_set
  <2>1. pointer' \in Columns
    BY <1>2, <1>p DEF LockBus, cv_set
  <2> QED
    BY <1>2, <2>1 DEF LockBus, cv_set
<1>3. CASE ClearSelected \/ ClearDeselected \/ SendSelect \/ SendDeselect \/ EchoTimeout
  BY <1>3 DEF ClearSelected, ClearDeselected, SendSelect, SendDeselect, SendCommand,
    EchoTimeout
<1>4. CASE StartTransfer \/ TransferEnds
  <2>1. dma' \in 0 .. FrameBytes
    <3>1. dma' = FrameBytes \/ dma' = dma
      BY <1>4 DEF StartTransfer, TransferEnds
    <3>2. FrameBytes \in 0 .. FrameBytes
      BY <1>c, UpDown, Zenon
    <3> QED
      BY <3>1, <3>2
  <2>2. /\ UNCHANGED <<mode, content, fb, shown, fifo, pointer>>
        /\ pc' \in {"transfer", "clear deselected"}
    BY <1>4 DEF StartTransfer, TransferEnds
  <2> QED
    BY <2>1, <2>2
<1>5. CASE ReleaseBus \/ DropFrame
  <2>1. /\ UNCHANGED <<mode, content, fb, dma, fifo, pointer>> /\ pc' = "idle"
        /\ shown' = fb \/ shown' = shown
    BY <1>5 DEF ReleaseBus, DropFrame
  <2> QED
    BY <2>1
<1>9. CASE Notify
  <2>1. /\ content' = content + 1 /\ content < MaxContent
        /\ UNCHANGED <<mode, pc, fb, shown, dma, fifo, pointer>>
    BY <1>9 DEF Notify
  <2>2. content' \in 0 .. MaxContent /\ fb \in 0 .. content' /\ shown \in 0 .. content'
    BY <2>1, <1>c, UpDown, Zenon
  <2> QED
    BY <2>1, <2>2
<1>6. CASE DmaFeeds
  <2>1. /\ dma' = dma - 1 /\ dma > 0 /\ fifo' = fifo + 1 /\ fifo < FifoBytes
        /\ UNCHANGED <<mode, pc, content, fb, shown, pointer>>
    BY <1>6 DEF DmaFeeds
  <2>2. dma' \in 0 .. FrameBytes /\ fifo' \in 0 .. FifoBytes
    BY <2>1, <1>c, UpDown, Zenon
  <2> QED
    BY <2>1, <2>2
<1>7. CASE ShiftOut
  <2>1. pointer' \in Columns
    BY <1>7, <1>p DEF ShiftOut
  <2>2. /\ fifo' = fifo - 1 /\ fifo > 0
        /\ UNCHANGED <<mode, pc, content, fb, shown, dma>>
    BY <1>7 DEF ShiftOut
  <2>3. fifo' \in 0 .. FifoBytes
    BY <2>2, <1>c, UpDown, Zenon
  <2> QED
    BY <2>1, <2>2, <2>3
<1>8. CASE PicObeys \/ Receive \/ LoseByte \/ UNCHANGED vars
  BY <1>8 DEF PicObeys, Receive, LoseByte, vars
<1> QED
  BY <1>1, <1>2, <1>3, <1>4, <1>5, <1>6, <1>7, <1>8, <1>9 DEF Next, OledTask

LEMMA LinkStep == LinkTypes /\ [Next]_vars => LinkTypes'
<1> SUFFICES ASSUME LinkTypes, [Next]_vars PROVE LinkTypes'
  OBVIOUS
<1> USE PanelBusAssumption DEF LinkTypes
<1>1. CASE SendSelect \/ SendDeselect
  <2>1. PICK c \in Commands : SendCommand(c)
    BY <1>1 DEF SendSelect, SendDeselect, Commands
  <2>2. to_pic' = Append(to_pic, c) /\ Len(to_pic) < MaxLink /\ to_cpu' = to_cpu
    BY <2>1 DEF SendCommand
  <2>3. to_pic' \in Seq(Commands) /\ Len(to_pic') = Len(to_pic) + 1 /\ Len(to_pic) \in Nat
    BY <2>2
  <2> QED
    BY <2>2, <2>3
<1>2. CASE PicObeys
  <2>1. /\ to_pic # <<>> /\ Len(to_cpu) < MaxLink /\ Len(to_cpu) \in Nat
        /\ to_pic' = Tail(to_pic) /\ to_cpu' = Append(to_cpu, Head(to_pic))
    BY <1>2 DEF PicObeys
  <2>2. /\ Tail(to_pic) \in Seq(Commands) /\ Len(Tail(to_pic)) < Len(to_pic)
        /\ Head(to_pic) \in Commands /\ Len(to_pic) \in Nat /\ Len(Tail(to_pic)) \in Nat
    BY <2>1, TailKeeps
  <2>3. /\ to_cpu' \in Seq(Commands) /\ Len(to_cpu') = Len(to_cpu) + 1
    BY <2>1, <2>2, AppendKeeps
  <2> QED
    BY <2>1, <2>2, <2>3
<1>3. CASE Receive \/ LoseByte
  <2>1. /\ to_pic' = to_pic \/ (to_pic # <<>> /\ to_pic' = Tail(to_pic))
        /\ to_cpu' = to_cpu \/ (to_cpu # <<>> /\ to_cpu' = Tail(to_cpu))
    BY <1>3 DEF Receive, LoseByte
  <2>2. to_pic' \in Seq(Commands) /\ Len(to_pic') <= Len(to_pic)
    <3>1. CASE to_pic' = to_pic
      BY <3>1
    <3>2. CASE to_pic' # to_pic
      BY <2>1, <3>2, TailKeeps
    <3> QED
      BY <3>1, <3>2
  <2>3. to_cpu' \in Seq(Commands) /\ Len(to_cpu') <= Len(to_cpu)
    <3>1. CASE to_cpu' = to_cpu
      BY <3>1
    <3>2. CASE to_cpu' # to_cpu
      BY <2>1, <3>2, TailKeeps
    <3> QED
      BY <3>1, <3>2
  <2> QED
    BY <2>2, <2>3
<1>4. CASE UNCHANGED <<to_pic, to_cpu>>
  BY <1>4
<1>5. WaitRedraw \/ LockBus \/ ClearSelected \/ ClearDeselected \/ StartTransfer
        \/ TransferEnds \/ ReleaseBus \/ EchoTimeout \/ DropFrame \/ Notify \/ cv_set
        \/ DmaFeeds \/ ShiftOut \/ UNCHANGED vars => UNCHANGED <<to_pic, to_cpu>>
  BY DEF WaitRedraw, LockBus, ClearSelected, ClearDeselected, StartTransfer,
    TransferEnds, ReleaseBus, EchoTimeout, DropFrame, Notify, cv_set, DmaFeeds,
    ShiftOut, vars, link
<1> QED
  BY <1>1, <1>2, <1>3, <1>4, <1>5 DEF Next, OledTask

LEMMA TypeStep == TypeOK /\ [Next]_vars => TypeOK'
<1>1. ASSUME FlagTypes', NumberTypes', LinkTypes' PROVE TypeOK'
  BY <1>1, Zenon DEF TypeOK, FlagTypes, NumberTypes, LinkTypes
<1> QED
  BY <1>1, TypeParts, FlagStep, NumberStep, LinkStep

-----------------------------------------------------------------------------
(* The guard is held from the moment the task has it until the frame is    *)
(* over or dropped.                                                        *)
LEMMA GuardStep == TypeOK /\ GuardIsHeld /\ [Next]_vars => GuardIsHeld'
<1> SUFFICES ASSUME TypeOK, GuardIsHeld, [Next]_vars PROVE GuardIsHeld'
  OBVIOUS
<1>b. locked \in BOOLEAN
  BY DEF TypeOK
<1> USE DEF GuardIsHeld, Step, bus
<1>1. CASE WaitRedraw \/ LockBus \/ ReleaseBus \/ DropFrame
  BY <1>1, <1>b DEF WaitRedraw, LockBus, ReleaseBus, DropFrame
<1>2. CASE ClearSelected \/ ClearDeselected \/ SendSelect \/ SendDeselect \/ EchoTimeout
           \/ StartTransfer \/ TransferEnds
  BY <1>2, <1>b DEF ClearSelected, ClearDeselected, SendSelect, SendDeselect, SendCommand,
    EchoTimeout, StartTransfer, TransferEnds
<1>3. CASE Notify \/ cv_set \/ DmaFeeds \/ ShiftOut \/ PicObeys \/ Receive \/ LoseByte
           \/ UNCHANGED vars
  BY <1>3, <1>b DEF Notify, cv_set, DmaFeeds, ShiftOut, PicObeys, Receive, LoseByte, vars
<1> QED
  BY <1>1, <1>2, <1>3 DEF Next, OledTask

-----------------------------------------------------------------------------
(* A frame, step by step.                                                  *)

LEMMA QuietLink ==
  ASSUME TypeOK, FrameInStep, PicObeys \/ Receive \/ LoseByte
  PROVE  FrameInStep'
<1>c. "select" \in Commands /\ "deselect" \in Commands
  BY DEF Commands
<1>u. UNCHANGED <<pc, mode, spi, pointer>>
  BY DEF PicObeys, Receive, LoseByte, bus, spi, panel
<1>f. /\ selected_flag' => selected_flag \/ (Receive /\ Head(to_cpu) = "select")
      /\ deselected_flag' => deselected_flag \/ (Receive /\ Head(to_cpu) = "deselect")
  <2>1. CASE Receive
    BY <2>1, Zenon DEF Receive
  <2>2. CASE PicObeys \/ LoseByte
    BY <2>2 DEF PicObeys, LoseByte, flags
  <2> QED
    BY <2>1, <2>2
<1>q. Quiet' <=> Quiet
  BY <1>u DEF Quiet, spi
<1>1. CASE pc \in {"idle", "lock"}
  BY <1>1, <1>c, <1>u, <1>q, SettledKept DEF FrameInStep
<1>2. CASE pc \in {"clear selected", "send select", "wait selected"}
  <2>1. Heading("select")'
    BY <1>2, <1>c, HeadingKept DEF FrameInStep
  <2>2. ASSUME pc # "clear selected", selected_flag' PROVE Settled("select")'
    <3>1. CASE selected_flag
      BY <1>2, <1>c, <2>2, <3>1, SettledKept DEF FrameInStep
    <3>2. CASE Receive /\ Head(to_cpu) = "select"
      BY <1>2, <1>c, <3>2, EchoSettles DEF FrameInStep
    <3> QED
      BY <1>f, <2>2, <3>1, <3>2
  <2> QED
    BY <1>2, <1>u, <1>q, <2>1, <2>2 DEF FrameInStep
<1>3. CASE pc = "transfer"
  <2>1. Settled("select")'
    BY <1>3, <1>c, SettledKept DEF FrameInStep
  <2> QED
    BY <1>3, <1>u, <1>q, <2>1 DEF FrameInStep, spi
<1>4. CASE pc \in {"clear deselected", "send deselect", "wait deselected"}
  <2>1. Heading("deselect")'
    BY <1>4, <1>c, HeadingKept DEF FrameInStep
  <2>2. ASSUME pc # "clear deselected", deselected_flag' PROVE Settled("deselect")'
    <3>1. CASE deselected_flag
      BY <1>4, <1>c, <2>2, <3>1, SettledKept DEF FrameInStep
    <3>2. CASE Receive /\ Head(to_cpu) = "deselect"
      BY <1>4, <1>c, <3>2, EchoSettles DEF FrameInStep
    <3> QED
      BY <1>f, <2>2, <3>1, <3>2
  <2> QED
    BY <1>4, <1>u, <1>q, <2>1, <2>2 DEF FrameInStep
<1> QED
  BY <1>1, <1>2, <1>3, <1>4 DEF TypeOK, Awaits

LEMMA TaskStep ==
  ASSUME TypeOK, GuardIsHeld, FrameInStep, OledTask PROVE FrameInStep'
<1>c. "select" \in Commands /\ "deselect" \in Commands
  BY DEF Commands
<1> USE DEF Step
<1>1. CASE WaitRedraw
  <2>1. UNCHANGED <<to_pic, to_cpu, cs, spi, pointer>> /\ pc = "idle" /\ pc' = "lock"
    BY <1>1 DEF WaitRedraw, link, panel
  <2> QED
    BY <2>1, LineSame DEF FrameInStep, Quiet, spi
<1>2. CASE LockBus
  <2>1. /\ UNCHANGED <<to_pic, to_cpu, cs, spi>> /\ pc = "lock" /\ mode' = 8
        /\ pc' = "clear selected"
        /\ pointer' = pointer \/ Disturbed
    BY <1>2 DEF LockBus, link
  <2>2. Settled("deselect") /\ Quiet
    BY <2>1 DEF FrameInStep
  <2>3. ~cs
    BY <2>2 DEF Settled, At
  <2>4. Quiet'
    BY <2>1, <2>2, <2>3 DEF Quiet, spi, Disturbed
  <2>5. Heading("select")'
    BY <1>c, <2>1, <2>2, SettledHeads, LineSame
  <2> QED
    BY <2>1, <2>4, <2>5 DEF FrameInStep
<1>3. CASE ClearSelected
  <2>1. /\ UNCHANGED <<to_pic, to_cpu, cs, spi, pointer, mode>> /\ pc = "clear selected"
        /\ pc' = "send select" /\ ~selected_flag'
    BY <1>3 DEF ClearSelected, link, panel, bus
  <2>2. Heading("select")' /\ Quiet'
    BY <2>1, LineSame DEF FrameInStep, Quiet, spi
  <2> QED
    BY <2>1, <2>2 DEF FrameInStep
<1>4. CASE SendSelect
  <2>1. /\ UNCHANGED <<spi, pointer, mode, selected_flag>> /\ pc = "send select"
        /\ pc' = "wait selected" /\ SendCommand("select")
    BY <1>4 DEF SendSelect, SendCommand, panel, bus, flags
  <2>2. Heading("select")' /\ Quiet' /\ (Settled("select") => Settled("select")')
    BY <1>c, <2>1, SendKeeps DEF FrameInStep, Quiet, spi
  <2> QED
    BY <2>1, <2>2 DEF FrameInStep
<1>5. CASE EchoTimeout
  <2>1. /\ UNCHANGED <<to_pic, to_cpu, cs, spi, pointer, mode>>
        /\ \/ pc = "wait selected" /\ pc' = "clear selected"
           \/ pc = "wait deselected" /\ pc' = "clear deselected"
    BY <1>5 DEF EchoTimeout, link, panel, bus
  <2>2. Quiet' <=> Quiet
    BY <2>1 DEF Quiet, spi
  <2> QED
    BY <2>1, <2>2, LineSame DEF FrameInStep
<1>6. CASE StartTransfer
  <2>1. /\ UNCHANGED <<to_pic, to_cpu, cs, fifo, pointer, mode>> /\ selected_flag
        /\ pc = "wait selected" /\ pc' = "transfer" /\ dma' = FrameBytes
    BY <1>6 DEF StartTransfer, link, panel, bus
  <2>2. Settled("select")' /\ mode = 8 /\ fifo = 0 /\ pointer = 0
    BY <2>1, LineSame DEF FrameInStep, Quiet
  <2>3. pointer' + dma' + fifo' = FrameBytes
    <3>1. \A n \in Nat : 0 + n + 0 = n
      OBVIOUS
    <3>2. pointer' = 0 /\ dma' = FrameBytes /\ fifo' = 0
      BY <2>1, <2>2
    <3> QED
      BY <3>1, <3>2, PanelBusAssumption, Zenon
  <2> QED
    BY <2>1, <2>2, <2>3 DEF FrameInStep
<1>7. CASE TransferEnds
  <2>1. /\ UNCHANGED <<to_pic, to_cpu, cs, spi, pointer>> /\ dma = 0 /\ fifo = 0
        /\ pc = "transfer" /\ pc' = "clear deselected"
    BY <1>7 DEF TransferEnds, link, panel
  <2>2. pointer = 0
    <3>1. pointer \in 0 .. FrameBytes - 1 /\ FrameBytes \in Nat
      BY PanelBusAssumption DEF TypeOK, Columns
    <3>2. pointer + 0 + 0 = FrameBytes \/ pointer = 0
      BY <2>1 DEF FrameInStep, Quiet
    <3> QED
      BY <3>1, <3>2
  <2>3. Heading("deselect")'
    BY <1>c, <2>1, SettledHeads, LineSame DEF FrameInStep
  <2> QED
    BY <2>1, <2>2, <2>3 DEF FrameInStep, Quiet, spi
<1>8. CASE ClearDeselected
  <2>1. /\ UNCHANGED <<to_pic, to_cpu, cs, spi, pointer>> /\ pc = "clear deselected"
        /\ pc' = "send deselect" /\ ~deselected_flag'
    BY <1>8 DEF ClearDeselected, link, panel
  <2>2. Heading("deselect")' /\ Quiet'
    BY <2>1, LineSame DEF FrameInStep, Quiet, spi
  <2> QED
    BY <2>1, <2>2 DEF FrameInStep
<1>9. CASE SendDeselect
  <2>1. /\ UNCHANGED <<spi, pointer, deselected_flag>> /\ pc = "send deselect"
        /\ pc' = "wait deselected" /\ SendCommand("deselect")
    BY <1>9 DEF SendDeselect, SendCommand, panel, flags
  <2>2. Heading("deselect")' /\ Quiet' /\ (Settled("deselect") => Settled("deselect")')
    BY <1>c, <2>1, SendKeeps DEF FrameInStep, Quiet, spi
  <2> QED
    BY <2>1, <2>2 DEF FrameInStep
<1>10. CASE ReleaseBus
  <2>1. /\ UNCHANGED <<to_pic, to_cpu, cs, spi, pointer>> /\ deselected_flag
        /\ pc = "wait deselected" /\ pc' = "idle"
    BY <1>10 DEF ReleaseBus, link, panel
  <2>2. Settled("deselect")' /\ Quiet'
    BY <2>1, LineSame DEF FrameInStep, Quiet, spi
  <2> QED
    BY <2>1, <2>2 DEF FrameInStep
<1> QED
  BY <1>1, <1>2, <1>3, <1>4, <1>5, <1>6, <1>7, <1>8, <1>9, <1>10 DEF OledTask

LEMMA StreamStep ==
  ASSUME TypeOK, FrameInStep, DmaFeeds \/ ShiftOut PROVE FrameInStep'
<1>t. /\ dma \in 0 .. FrameBytes /\ fifo \in 0 .. FifoBytes /\ pointer \in Columns
      /\ FrameBytes \in Nat /\ FifoBytes \in Nat
  BY PanelBusAssumption DEF TypeOK
<1>1. pc = "transfer"
  <2>1. ~Quiet
    BY <1>t DEF Quiet, DmaFeeds, ShiftOut
  <2> QED
    BY <2>1 DEF FrameInStep, TypeOK, Awaits
<1>2. /\ UNCHANGED <<to_pic, to_cpu, cs, mode, pc>>
  BY DEF DmaFeeds, ShiftOut, link, panel, bus
<1>3. Settled("select")' /\ cs /\ mode = 8
  BY <1>1, <1>2, LineSame DEF FrameInStep, Settled, At
<1>4. pointer + dma + fifo = FrameBytes
  BY <1>1, <1>t DEF FrameInStep, Quiet, DmaFeeds, ShiftOut
<1>5. CASE DmaFeeds
  <2>1. dma' = dma - 1 /\ fifo' = fifo + 1 /\ pointer' = pointer
    BY <1>5 DEF DmaFeeds, panel
  <2>2. \A a, b, c \in Nat : a + (b - 1) + (c + 1) = a + b + c
    OBVIOUS
  <2>3. pointer' + dma' + fifo' = FrameBytes
    BY <2>1, <2>2, <1>4, <1>t DEF Columns
  <2> QED
    BY <1>1, <1>2, <1>3, <2>3 DEF FrameInStep
<1>6. CASE ShiftOut
  <2>1. fifo > 0 /\ fifo' = fifo - 1 /\ dma' = dma /\ Clocked
    BY <1>3, <1>6 DEF ShiftOut
  <2>2. pointer' = IF pointer + 1 = FrameBytes THEN 0 ELSE pointer + 1
    BY <2>1, <1>3, <1>t, NextColumn DEF Clocked
  <2>3. pointer' + dma' + fifo' = FrameBytes \/ Quiet'
    <3>1. ASSUME NEW a \in Nat, NEW b \in Nat, NEW c \in Nat, NEW n \in Nat,
                 a + b + c = n, c > 0
          PROVE  /\ a + 1 # n => (a + 1) + b + (c - 1) = n
                 /\ a + 1 = n => b = 0 /\ c - 1 = 0
      BY <3>1
    <3>2. /\ pointer + 1 # FrameBytes => (pointer + 1) + dma + (fifo - 1) = FrameBytes
          /\ pointer + 1 = FrameBytes => dma = 0 /\ fifo - 1 = 0
      BY <3>1, <1>4, <1>t, <2>1 DEF Columns
    <3> QED
      BY <2>1, <2>2, <3>2 DEF Quiet
  <2> QED
    BY <1>1, <1>2, <1>3, <2>3 DEF FrameInStep
<1> QED
  BY <1>5, <1>6

LEMMA OthersStep ==
  ASSUME TypeOK, GuardIsHeld, FrameInStep, Notify \/ cv_set \/ UNCHANGED vars
  PROVE  FrameInStep'
<1>1. UNCHANGED <<to_pic, to_cpu, cs, spi, pc, selected_flag, deselected_flag>>
  BY DEF Notify, cv_set, vars, link, panel, flags
<1>2. CASE cv_set
  <2>1. pc \in {"idle", "lock"} /\ Disturbed
    BY <1>2 DEF cv_set, GuardIsHeld
  <2>2. Settled("deselect") /\ Quiet
    BY <2>1 DEF FrameInStep
  <2>3. Quiet'
    BY <1>1, <2>1, <2>2 DEF Settled, At, Disturbed, Quiet, spi
  <2> QED
    BY <1>1, <2>1, <2>2, <2>3, LineSame DEF FrameInStep
<1>3. CASE ~cv_set
  <2>1. UNCHANGED <<pointer, mode>>
    BY <1>3 DEF Notify, vars, panel, bus
  <2>2. Quiet' <=> Quiet
    BY <1>1, <2>1 DEF Quiet, spi
  <2> QED
    BY <1>1, <2>1, <2>2, LineSame DEF FrameInStep, spi
<1> QED
  BY <1>2, <1>3

-----------------------------------------------------------------------------
LEMMA InitPInv == Init => PInv
<1> SUFFICES ASSUME Init PROVE PInv
  OBVIOUS
<1>1. FlagTypes
  BY Zenon DEF Init, FlagTypes
<1>2. NumberTypes
  <2>1. 0 \in Columns /\ 0 \in 0 .. FrameBytes /\ 0 \in 0 .. FifoBytes /\ 0 \in 0 .. MaxContent
    BY PanelBusAssumption DEF Columns
  <2>2. 0 \in 0 .. 0
    OBVIOUS
  <2> QED
    BY <2>1, <2>2, Zenon DEF Init, NumberTypes
<1>3. LinkTypes
  BY PanelBusAssumption DEF Init, LinkTypes
<1>4. FrameInStep
  <2>1. /\ pc = "idle" /\ Quiet /\ to_pic = <<>> /\ to_cpu = <<>> /\ cs = FALSE
    BY DEF Init, Quiet
  <2>2. All(<<>>, "deselect")
    BY DEF All
  <2>3. Settled("deselect")
    BY <2>1, <2>2 DEF Settled, At
  <2> QED
    BY <2>1, <2>3 DEF FrameInStep
<1> QED
  BY <1>1, <1>2, <1>3, <1>4, TypeParts DEF PInv, GuardIsHeld, Init

LEMMA StepPInv == PInv /\ [Next]_vars => PInv'
<1> SUFFICES ASSUME PInv, [Next]_vars PROVE PInv'
  OBVIOUS
<1>1. TypeOK' /\ GuardIsHeld'
  BY TypeStep, GuardStep DEF PInv
<1>2. ASSUME ~dropped' PROVE FrameInStep'
  <2>1. ~DropFrame
    BY <1>2 DEF DropFrame
  <2>2. ~dropped
    <3>1. dropped' = dropped
      BY <2>1 DEF Next, OledTask, WaitRedraw, LockBus, ClearSelected, SendSelect,
        SendDeselect, SendCommand, StartTransfer, TransferEnds, ClearDeselected,
        ReleaseBus, EchoTimeout, Notify, cv_set, DmaFeeds, ShiftOut, PicObeys, Receive,
        LoseByte, vars
    <3> QED
      BY <1>2, <3>1
  <2> QED
    BY <2>1, <2>2, QuietLink, TaskStep, StreamStep, OthersStep DEF Next, PInv
<1> QED
  BY <1>1, <1>2 DEF PInv

(* Every variable keeps its type.                                          *)
THEOREM BusTypes == Spec => []TypeOK
<1>1. PInv => TypeOK
  BY DEF PInv
<1> QED
  BY <1>1, InitPInv, StepPInv, PTL DEF Spec

(* Whatever the link loses, delays or sends again: while the bus is free   *)
(* the OLED is deselected, no select is under way and no DMA runs, so that *)
(* the DAC's words and the switches of frame width pass it by.             *)
THEOREM FreeBus == Spec => []FreeBusIsDeselected
<1>1. PInv => FreeBusIsDeselected
  <2> SUFFICES ASSUME PInv, ~locked, ~dropped PROVE NothingUnderWay
    BY DEF FreeBusIsDeselected
  <2>1. Settled("deselect") /\ Quiet
    BY DEF PInv, GuardIsHeld, FrameInStep
  <2> QED
    BY <2>1 DEF Settled, At, All, Quiet, NothingUnderWay
<1> QED
  BY <1>1, InitPInv, StepPInv, PTL DEF Spec

(* As long as the DMA feeds the panel it is selected and stays so: no late *)
(* echo ever ended the wait for the select.                                *)
THEOREM FrameReaches == Spec => []FrameReachesThePanel
<1>1. PInv => FrameReachesThePanel
  <2> SUFFICES ASSUME PInv, ~dropped, dma > 0 \/ fifo > 0
               PROVE  /\ cs /\ mode = 8
                      /\ \A i \in DOMAIN to_pic : to_pic[i] # "deselect"
    BY DEF FrameReachesThePanel
  <2>1. pc = "transfer"
    <3>1. ~Quiet
      BY DEF Quiet
    <3> QED
      BY <3>1 DEF PInv, FrameInStep, TypeOK, Awaits
  <2>2. Settled("select") /\ mode = 8
    BY <2>1 DEF PInv, FrameInStep
  <2> QED
    BY <2>2 DEF Settled, At, All
<1> QED
  BY <1>1, InitPInv, StepPInv, PTL DEF Spec

(* The panel takes whole frames: its pointer is at the anchor whenever the *)
(* bus is free, for any length of frame.                                   *)
THEOREM PanelAnchored == Spec => []PanelStaysAnchored
<1>1. PInv => PanelStaysAnchored
  BY DEF PInv, GuardIsHeld, FrameInStep, Quiet, PanelStaysAnchored
<1> QED
  BY <1>1, InitPInv, StepPInv, PTL DEF Spec
====
