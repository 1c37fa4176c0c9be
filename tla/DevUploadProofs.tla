---- MODULE DevUploadProofs ----
(***************************************************************************)
(* What TLAPS proves of DevUpload, for every set of uploads a host may     *)
(* send.                                                                   *)
(***************************************************************************)
EXTENDS DevUpload, TLAPS

Listening == {"sync", "header", "front", "rest", "rejected", "handoff"}

(* Which screen has which USB session, and where the listener lives.       *)
SessionsByScreen ==
  /\ screen = "menu" => sessions = IF dev_mode THEN {"cdc"} ELSE {}
  /\ screen = "data" => sessions \subseteq {"msc"}
  /\ screen \notin {"menu", "data"} => sessions = {}
  /\ receiver \in Listening => screen = "menu" /\ dev_mode
  /\ receiver = "launched" => screen = "app"

(* What the frame being received has put into the RAM.                     *)
RoutedAsSummed ==
  /\ receiver \in {"front", "rest", "handoff"} =>
       \E f \in Frames : header = {Piece(f, 1)} /\ f.kind # "bad header"
  /\ receiver \in {"rest", "handoff"} =>
       /\ Len(sum) > 0 /\ sum[1].frame.kind # "bad layout"
       /\ \A i \in 1 .. Len(sum) : ram[i + 1] = {sum[i]}
  /\ receiver = "handoff" =>
       sum = Body(Announced) /\ Announced.kind # "bad crc"

LaunchIsOver == launched = "usb" => receiver = "launched"

(* A press that counts began while this menu was up.                       *)
PressIsFresh ==
  screen = "menu" => /\ press_at => fresh
                     /\ armed /\ down => fresh

UInv ==
  /\ TypeOK
  /\ SessionsByScreen
  /\ RoutedAsSummed
  /\ LaunchIsOver
  /\ LaunchedImageIsWhole
  /\ PressIsFresh

-----------------------------------------------------------------------------
(* Frames and their pieces.                                                *)

LEMMA FrameFacts ==
  ASSUME NEW f \in Frames
  PROVE  /\ f.rest \in Nat /\ f.kind \in Kinds
         /\ Last(f) \in Nat /\ Last(f) >= 2
         /\ \A n \in 0 .. Last(f) : Piece(f, n) \in Pieces
         /\ \A n \in 2 .. Last(f) : n \in Addresses
<1>1. f.rest \in Nat /\ f.kind \in Kinds
  BY FramesAssumption DEF Frame
<1> QED
  BY <1>1 DEF Last, Pieces, Addresses

LEMMA PieceFacts ==
  ASSUME NEW p \in Pieces
  PROVE  /\ p.frame \in Frames
         /\ p.part \in 0 .. Last(p.frame)
         /\ p = Piece(p.frame, p.part)
<1>1. PICK f \in Frames : \E n \in 0 .. Last(f) : p = Piece(f, n)
  BY DEF Pieces
<1> QED
  BY <1>1 DEF Piece

LEMMA AnnouncedIs ==
  ASSUME NEW f, header = {Piece(f, 1)}
  PROVE  Announced = f
<1>1. (CHOOSE p \in header : TRUE) = Piece(f, 1)
  OBVIOUS
<1> QED
  BY <1>1 DEF Announced, Piece

-----------------------------------------------------------------------------
LEMMA TypeInit == Init => TypeOK
<1> SUFFICES ASSUME Init PROVE TypeOK
  OBVIOUS
<1>1. ram \in [Addresses -> {{}} \cup {{p} : p \in Pieces}]
  BY DEF Init
<1>2. sum \in Seq(Pieces)
  BY DEF Init
<1> QED
  BY <1>1, <1>2 DEF Init, TypeOK

(* The type invariant in three parts: booleans, places and traffic.        *)
Flags ==
  /\ down \in BOOLEAN /\ fresh \in BOOLEAN /\ dev_mode \in BOOLEAN
  /\ armed \in BOOLEAN /\ press_at \in BOOLEAN /\ UPLOAD_ACTIVE \in BOOLEAN
  /\ given_up \in BOOLEAN

Places ==
  /\ screen \in {"pass", "menu", "settings", "store", "data", "launch", "app"}
  /\ turn \in {"top", "drawn"}
  /\ sessions \subseteq {"cdc", "msc"}
  /\ receiver \in {"none", "sync", "header", "front", "rest", "rejected",
                   "handoff", "launched"}
  /\ launched \in {"nothing", "menu", "usb"}

Traffic ==
  /\ header \in {{}} \cup {{p} : p \in Pieces}
  /\ sum \in Seq(Pieces) /\ \A p \in header : Len(sum) <= p.frame.rest + 1
  /\ ram \in [Addresses -> {{}} \cup {{p} : p \in Pieces}]
  /\ wire \in {{}} \cup {{p} : p \in Pieces}
  /\ \A h \in host : h.frame \in Frames /\ h.next \in 0 .. Last(h.frame)

LEMMA TypeParts == TypeOK <=> Flags /\ Places /\ Traffic
BY Zenon DEF TypeOK, Flags, Places, Traffic

LEMMA FlagsStep == Flags /\ [Next]_vars => Flags'
<1> SUFFICES ASSUME Flags, [Next]_vars PROVE Flags'
  OBVIOUS
<1> USE DEF Flags, button, selector, upload, usb
<1>1. CASE Press \/ Release
  BY <1>1, Zenon DEF Press, Release
<1>2. CASE BeginPass \/ Draw \/ Poll
  BY <1>2, Zenon DEF BeginPass, Draw, Poll
<1>3. CASE Confirm
  BY <1>3, Zenon DEF Confirm, Select, DropListener
<1>4. CASE LeaveSettings \/ LeaveStore \/ BeginTransfer \/ EndTransfer \/ Launch
  BY <1>4, Zenon DEF LeaveSettings, LeaveStore, BeginTransfer, EndTransfer, Launch
<1>5. CASE Host
  BY <1>5, Zenon DEF Host, Send, GiveUp, Open
<1>6. CASE SyncToMagic \/ ReadHeader \/ ReadFront \/ ReadRest
  BY <1>6, ZenonT(60) DEF SyncToMagic, ReadHeader, ReadFront, ReadRest, Take
<1>7. CASE CheckCrc \/ ListenAgain \/ Handoff
  BY <1>7, Zenon DEF CheckCrc, ListenAgain, Handoff
<1>8. CASE UNCHANGED vars
  BY <1>8, Zenon DEF vars
<1> QED
  BY <1>1, <1>2, <1>3, <1>4, <1>5, <1>6, <1>7, <1>8 DEF Next, Menu, Receive

LEMMA PlacesStep == Places /\ [Next]_vars => Places'
<1> SUFFICES ASSUME Places, [Next]_vars PROVE Places'
  OBVIOUS
<1> USE DEF Places, selector, upload
<1>1. CASE Press \/ Release
  BY <1>1 DEF Press, Release
<1>2. CASE BeginPass \/ Draw \/ Poll
  BY <1>2 DEF BeginPass, Draw, Poll
<1>3. CASE Confirm
  <2>1. PICK next \in {"settings", "data", "launch", "store"} : Select(next)
    BY <1>3 DEF Confirm
  <2> QED
    BY <1>3, <2>1 DEF Confirm, Select, DropListener
<1>4. CASE LeaveSettings \/ LeaveStore \/ BeginTransfer \/ EndTransfer \/ Launch
  BY <1>4 DEF LeaveSettings, LeaveStore, BeginTransfer, EndTransfer, Launch
<1>5. CASE Host
  BY <1>5 DEF Host, Send, GiveUp, Open
<1>6. CASE SyncToMagic \/ ReadHeader
  BY <1>6 DEF SyncToMagic, ReadHeader
<1>7. CASE ReadFront \/ ReadRest
  BY <1>7 DEF ReadFront, ReadRest
<1>8. CASE CheckCrc \/ ListenAgain \/ Handoff
  BY <1>8 DEF CheckCrc, ListenAgain, Handoff
<1>9. CASE UNCHANGED vars
  BY <1>9 DEF vars
<1> QED
  BY <1>1, <1>2, <1>3, <1>4, <1>5, <1>6, <1>7, <1>8, <1>9 DEF Next, Menu, Receive

LEMMA TakeTypes ==
  ASSUME Traffic, NEW p \in wire, Take(p)
  PROVE  p \in Pieces /\ wire' = {} /\ UNCHANGED <<host, given_up>>
BY DEF Traffic, Take

LEMMA TrafficSame ==
  ASSUME Traffic, UNCHANGED <<header, sum, ram, wire, host>> PROVE Traffic'
BY DEF Traffic

LEMMA TrafficReceive == ASSUME Traffic, RoutedAsSummed, Receive PROVE Traffic'
<1> USE DEF Traffic
<1>1. CASE SyncToMagic
  <2>1. wire' = {} /\ UNCHANGED <<header, sum, ram, host>>
    BY <1>1, TakeTypes DEF SyncToMagic
  <2> QED
    BY <2>1
<1>2. CASE ReadHeader
  <2>1. PICK p \in wire :
          /\ Take(p)
          /\ header' = {p} \/ header' = header
    BY <1>2 DEF ReadHeader
  <2>2. p \in Pieces /\ wire' = {} /\ UNCHANGED <<host, ram>>
    BY <1>2, <2>1, TakeTypes DEF ReadHeader
  <2>3. header' \in {{}} \cup {{q} : q \in Pieces}
    BY <2>1, <2>2
  <2>4. sum' = <<>>
    BY <1>2 DEF ReadHeader
  <2>5. sum' \in Seq(Pieces) /\ Len(sum') = 0
    BY <2>4
  <2>6. \A q \in header' : Len(sum') <= q.frame.rest + 1
    <3>1. \A q \in header' : q.frame.rest \in Nat
      BY <2>3, PieceFacts, FrameFacts
    <3> QED
      BY <2>5, <3>1
  <2> QED
    BY <2>2, <2>3, <2>5, <2>6
<1>3. CASE ReadFront
  <2>1. PICK p \in wire :
          /\ Take(p)
          /\ sum' = <<p>>
          /\ ram' = [ram EXCEPT ![2] = {p}] \/ ram' = ram
    BY <1>3 DEF ReadFront
  <2>2. p \in Pieces /\ wire' = {} /\ UNCHANGED <<host, header>>
    BY <1>3, <2>1, TakeTypes DEF ReadFront
  <2>3. sum' \in Seq(Pieces) /\ Len(sum') = 1
    <3>1. <<p>> \in Seq(Pieces) /\ Len(<<p>>) = 1
      BY <2>2
    <3> QED
      BY <2>1, <3>1
  <2>4. \A q \in header' : Len(sum') <= q.frame.rest + 1
    <3>1. \A q \in header' : q.frame.rest \in Nat
      BY <2>2, PieceFacts, FrameFacts
    <3> QED
      BY <2>3, <3>1
  <2>5. ram' \in [Addresses -> {{}} \cup {{q} : q \in Pieces}]
    BY <2>1, <2>2
  <2> QED
    BY <2>2, <2>3, <2>4, <2>5
<1>4. CASE ReadRest
  <2>1. PICK p \in wire : /\ Take(p)
                          /\ sum' = Append(sum, p)
                          /\ ram' = [ram EXCEPT ![2 + Len(sum)] = {p}]
    BY <1>4 DEF ReadRest
  <2>2. p \in Pieces /\ wire' = {} /\ UNCHANGED <<host, header>>
    BY <1>4, <2>1, TakeTypes DEF ReadRest, upload
  <2>3. PICK f \in Frames : header = {Piece(f, 1)}
    BY <1>4 DEF ReadRest, RoutedAsSummed
  <2>4. Len(sum) \in Nat /\ f.rest \in Nat /\ Len(sum) < f.rest + 1
    BY <1>4, <2>3, AnnouncedIs, FrameFacts DEF ReadRest, Remaining
  <2>5. sum' \in Seq(Pieces) /\ Len(sum') = Len(sum) + 1
    BY <2>1, <2>2
  <2>6. \A q \in header' : Len(sum') <= q.frame.rest + 1
    BY <2>2, <2>3, <2>4, <2>5 DEF Piece
  <2>7. ram' \in [Addresses -> {{}} \cup {{q} : q \in Pieces}]
    BY <2>1, <2>2
  <2> QED
    BY <2>2, <2>5, <2>6, <2>7
<1>5. CASE CheckCrc
  BY <1>5, TrafficSame DEF CheckCrc, usb
<1>6. CASE ListenAgain
  <2>1. sum' = <<>> /\ header' = {} /\ UNCHANGED <<ram, wire, host>>
    BY <1>6 DEF ListenAgain, usb
  <2>2. sum' \in Seq(Pieces)
    BY <2>1
  <2> QED
    BY <2>1, <2>2
<1>7. CASE Handoff
  <2>1. wire' = {} /\ host' = {} /\ UNCHANGED <<header, sum, ram>>
    BY <1>7 DEF Handoff
  <2> QED
    BY <2>1
<1> QED
  BY <1>1, <1>2, <1>3, <1>4, <1>5, <1>6, <1>7 DEF Receive

LEMMA TrafficStep == Traffic /\ RoutedAsSummed /\ [Next]_vars => Traffic'
<1> SUFFICES ASSUME Traffic, RoutedAsSummed, [Next]_vars PROVE Traffic'
  OBVIOUS
<1>1. CASE Press \/ Release \/ BeginPass \/ Draw \/ Poll \/ LeaveSettings \/ LeaveStore
           \/ BeginTransfer \/ EndTransfer \/ Launch \/ UNCHANGED vars
  <2>1. UNCHANGED <<header, sum, ram, wire, host>>
    BY <1>1 DEF Press, Release, BeginPass, Draw, Poll, LeaveSettings, LeaveStore,
      BeginTransfer, EndTransfer, Launch, vars, upload, usb
  <2> QED
    BY <2>1, TrafficSame
<1>2. CASE Confirm
  <2>1. /\ header' = {} /\ sum' = <<>> /\ wire' = {} /\ host' = {}
        /\ UNCHANGED ram
    BY <1>2 DEF Confirm, Select, DropListener
  <2>2. sum' \in Seq(Pieces)
    BY <2>1
  <2> QED
    BY <2>1, <2>2 DEF Traffic
<1>3. CASE Send
  <2>1. PICK h \in host :
          /\ wire' = {Piece(h.frame, h.next)}
          /\ host' = IF h.next = Last(h.frame) THEN {} ELSE {[h EXCEPT !.next = @ + 1]}
    BY <1>3 DEF Send
  <2>2. h.frame \in Frames /\ h.next \in 0 .. Last(h.frame) /\ Last(h.frame) \in Nat
    BY FrameFacts DEF Traffic
  <2>3. wire' \in {{}} \cup {{p} : p \in Pieces}
    BY <2>1, <2>2, FrameFacts
  <2>4. \A g \in host' : g.frame \in Frames /\ g.next \in 0 .. Last(g.frame)
    <3>1. CASE h.next = Last(h.frame)
      BY <2>1, <3>1
    <3>2. CASE h.next # Last(h.frame)
      <4> DEFINE g == [h EXCEPT !.next = @ + 1]
      <4>1. host' = {g}
        BY <2>1, <3>2
      <4>2. g.frame = h.frame
        OBVIOUS
      <4>3. g.next = h.next + 1
        BY <2>2
      <4>4. g.next \in 0 .. Last(g.frame)
        BY <2>2, <3>2, <4>2, <4>3
      <4> HIDE DEF g
      <4> QED
        BY <2>2, <4>1, <4>2, <4>4
    <3> QED
      BY <3>1, <3>2
  <2>5. UNCHANGED <<header, sum, ram>>
    BY <1>3 DEF Send, upload
  <2> QED
    BY <2>3, <2>4, <2>5 DEF Traffic
<1>4. CASE GiveUp
  BY <1>4 DEF GiveUp, upload, Traffic
<1>5. ASSUME NEW f \in Frames, Open(f) PROVE Traffic'
  <2>1. \A h \in host' : h.frame \in Frames /\ h.next \in 0 .. Last(h.frame)
    BY <1>5, FrameFacts DEF Open
  <2>2. UNCHANGED <<header, sum, ram, wire>>
    BY <1>5 DEF Open, upload
  <2> QED
    BY <2>1, <2>2 DEF Traffic
<1> QED
  BY <1>1, <1>2, <1>3, <1>4, <1>5, TrafficReceive DEF Next, Menu, Host

LEMMA TypeStep == TypeOK /\ RoutedAsSummed /\ [Next]_vars => TypeOK'
<1>1. ASSUME Flags', Places', Traffic' PROVE TypeOK'
  BY <1>1, Zenon DEF TypeOK, Flags, Places, Traffic
<1> QED
  BY <1>1, TypeParts, FlagsStep, PlacesStep, TrafficStep

LEMMA RestFacts ==
  ASSUME RoutedAsSummed, receiver \in {"rest", "handoff"}
  PROVE  /\ Len(sum) > 0
         /\ sum[1].frame.kind # "bad layout"
         /\ \A i \in 1 .. Len(sum) : ram[i + 1] = {sum[i]}
BY Zenon DEF RoutedAsSummed

-----------------------------------------------------------------------------
LEMMA SessionsStep == TypeOK /\ SessionsByScreen /\ [Next]_vars => SessionsByScreen'
<1> SUFFICES ASSUME TypeOK, SessionsByScreen, [Next]_vars PROVE SessionsByScreen'
  OBVIOUS
<1> USE DEF SessionsByScreen, Listening
<1>1. CASE Press \/ Release \/ Draw \/ Poll \/ Host \/ UNCHANGED vars
  <2>1. UNCHANGED <<screen, sessions, receiver, dev_mode>>
    BY <1>1 DEF Press, Release, Draw, Poll, Host, Open, Send, GiveUp, vars, upload
  <2> QED
    BY <2>1
<1>2. CASE BeginPass
  BY <1>2 DEF BeginPass, TypeOK
<1>3. CASE Confirm
  <2>1. PICK next \in {"settings", "data", "launch", "store"} : Select(next)
    BY <1>3 DEF Confirm
  <2>2. sessions' = {} /\ receiver' = "none" /\ screen' = next
    BY <1>3, <2>1 DEF Confirm, Select, DropListener
  <2> QED
    BY <2>2
<1>4. CASE LeaveSettings \/ LeaveStore \/ Launch
  <2>1. /\ UNCHANGED <<sessions, receiver>> /\ screen' \in {"pass", "app"}
        /\ screen \in {"settings", "store", "launch"}
    BY <1>4 DEF LeaveSettings, LeaveStore, Launch, upload
  <2> QED
    BY <2>1
<1>5. CASE BeginTransfer \/ EndTransfer
  BY <1>5 DEF BeginTransfer, EndTransfer, upload
<1>6. CASE SyncToMagic \/ ReadHeader \/ ReadFront \/ ReadRest \/ CheckCrc \/ ListenAgain
  <2>1. UNCHANGED <<screen, sessions, dev_mode>> /\ receiver \in Listening
        /\ receiver' \in Listening
    BY <1>6 DEF SyncToMagic, ReadHeader, ReadFront, ReadRest, CheckCrc, ListenAgain
  <2> QED
    BY <2>1
<1>7. CASE Handoff
  BY <1>7 DEF Handoff
<1> QED
  BY <1>1, <1>2, <1>3, <1>4, <1>5, <1>6, <1>7 DEF Next, Menu, Receive

(* A frame is routed to where it is summed, from its front matter on.      *)
LEMMA RoutedSame ==
  ASSUME RoutedAsSummed,
         \/ receiver' \notin {"front", "rest", "handoff"}
         \/ UNCHANGED <<receiver, header, sum, ram>>
  PROVE  RoutedAsSummed'
BY DEF RoutedAsSummed, Announced

LEMMA RoutedStep ==
  TypeOK /\ TypeOK' /\ SessionsByScreen /\ RoutedAsSummed /\ [Next]_vars
    => RoutedAsSummed'
<1> SUFFICES ASSUME TypeOK, TypeOK', SessionsByScreen, RoutedAsSummed, [Next]_vars
             PROVE  RoutedAsSummed'
  OBVIOUS
<1>1. CASE Press \/ Release \/ Draw \/ Poll \/ Host \/ UNCHANGED vars
  <2>1. UNCHANGED <<receiver, header, sum, ram>>
    BY <1>1 DEF Press, Release, Draw, Poll, Host, Open, Send, GiveUp, vars, upload
  <2> QED
    BY <2>1, RoutedSame
<1>2. CASE BeginPass \/ Confirm
  <2>1. receiver' \notin {"front", "rest", "handoff"}
    BY <1>2 DEF BeginPass, Confirm, Select, DropListener
  <2> QED
    BY <2>1, RoutedSame
<1>3. CASE LeaveSettings \/ LeaveStore \/ Launch \/ BeginTransfer \/ EndTransfer
  <2>1. UNCHANGED <<receiver, header, sum, ram>>
    BY <1>3 DEF LeaveSettings, LeaveStore, Launch, BeginTransfer, EndTransfer, upload
  <2> QED
    BY <2>1, RoutedSame
<1>4. CASE SyncToMagic \/ ListenAgain \/ Handoff
  <2>1. receiver' \notin {"front", "rest", "handoff"}
    BY <1>4 DEF SyncToMagic, ListenAgain, Handoff
  <2> QED
    BY <2>1, RoutedSame
<1>5. CASE ReadHeader
  <2>1. PICK p \in wire :
          IF p.part = 1 /\ p.frame.kind # "bad header"
            THEN receiver' = "front" /\ header' = {p}
            ELSE receiver' = "sync"
    BY <1>5 DEF ReadHeader
  <2>2. p \in Pieces
    BY DEF TypeOK
  <2>3. CASE receiver' = "sync"
    BY <2>3, RoutedSame
  <2>4. CASE receiver' = "front"
    <3>1. /\ header' = {Piece(p.frame, 1)} /\ p.frame \in Frames
          /\ p.frame.kind # "bad header"
      BY <2>1, <2>2, <2>4, PieceFacts
    <3> QED
      BY <2>4, <3>1 DEF RoutedAsSummed
  <2> QED
    BY <2>1, <2>3, <2>4
<1>6. CASE ReadFront
  <2>1. PICK p \in wire :
          /\ sum' = <<p>>
          /\ IF p.part = 2 /\ p.frame.kind # "bad layout"
               THEN receiver' = "rest" /\ ram' = [ram EXCEPT ![2] = {p}]
               ELSE receiver' = "rejected"
    BY <1>6 DEF ReadFront
  <2>2. CASE receiver' = "rejected"
    BY <2>2, RoutedSame
  <2>3. CASE receiver' = "rest"
    <3>0. p \in Pieces
      BY DEF TypeOK
    <3>1. p.part = 2 /\ p.frame.kind # "bad layout" /\ ram' = [ram EXCEPT ![2] = {p}]
      BY <2>1, <2>3, Zenon
    <3>2. 2 \in Addresses
      <4>1. p.frame \in Frames
        BY <3>0, PieceFacts
      <4>2. 2 \in 2 .. Last(p.frame)
        BY <4>1, FrameFacts
      <4> QED
        BY <4>1, <4>2, FrameFacts
    <3>3. ram'[2] = {p}
      BY <3>1, <3>2 DEF TypeOK
    <3>4. Len(sum') = 1 /\ sum'[1] = p
      BY <2>1
    <3>5. /\ Len(sum') > 0 /\ sum'[1].frame.kind # "bad layout"
          /\ \A i \in 1 .. Len(sum') : ram'[i + 1] = {sum'[i]}
      <4>0. sum'[1].frame.kind # "bad layout"
        BY <3>1, <3>4, Zenon
      <4>1. Len(sum') > 0
        BY <3>4
      <4>2. \A i \in 1 .. Len(sum') : i = 1
        BY <3>4
      <4> QED
        <5>1. \A i \in 1 .. Len(sum') : ram'[i + 1] = {sum'[i]}
          BY <3>3, <3>4, <4>2
        <5> QED
          BY <4>0, <4>1, <5>1, Zenon
    <3>6. \E f \in Frames : header' = {Piece(f, 1)} /\ f.kind # "bad header"
      BY <1>6 DEF ReadFront, RoutedAsSummed
    <3> QED
      BY <2>3, <3>5, <3>6 DEF RoutedAsSummed
  <2> QED
    BY <2>1, <2>2, <2>3
<1>7. CASE ReadRest
  <2>1. PICK p \in wire : /\ sum' = Append(sum, p)
                          /\ ram' = [ram EXCEPT ![2 + Len(sum)] = {p}]
    BY <1>7 DEF ReadRest
  <2>2. /\ receiver = "rest" /\ receiver' = "rest" /\ header' = header
        /\ p \in Pieces /\ sum \in Seq(Pieces) /\ Len(sum) \in Nat
    BY <1>7 DEF ReadRest, TypeOK
  <2>3. PICK f \in Frames : header = {Piece(f, 1)} /\ f.kind # "bad header"
    BY <2>2 DEF RoutedAsSummed
  <2>4. f.rest \in Nat /\ Len(sum) < f.rest + 1 /\ Len(sum) > 0
    <3>0. Announced = f /\ f.rest \in Nat
      BY <2>3, AnnouncedIs, FrameFacts
    <3>1. f.rest \in Nat /\ Len(sum) < f.rest + 1
      BY <1>7, <2>2, <3>0 DEF ReadRest, Remaining
    <3> QED
      BY <3>1, <2>2, RestFacts
  <2>5. 2 + Len(sum) \in Addresses
    <3>1. 2 + Len(sum) \in 2 .. Last(f)
      BY <2>2, <2>4 DEF Last
    <3> QED
      BY <3>1, FrameFacts
  <2>6. /\ Len(sum') = Len(sum) + 1
        /\ sum'[Len(sum) + 1] = p
        /\ \A i \in 1 .. Len(sum) : sum'[i] = sum[i]
    BY <2>1, <2>2
  <2>7. ASSUME NEW i \in 1 .. Len(sum') PROVE ram'[i + 1] = {sum'[i]}
    <3>1. CASE i = Len(sum) + 1
      <4>1. i + 1 = 2 + Len(sum)
        BY <3>1, <2>2
      <4> QED
        BY <3>1, <4>1, <2>1, <2>5, <2>6 DEF TypeOK
    <3>2. CASE i # Len(sum) + 1
      <4>1. i \in 1 .. Len(sum) /\ i + 1 # 2 + Len(sum)
        BY <3>2, <2>2, <2>6
      <4>2. ram'[i + 1] = ram[i + 1]
        <5>1. ram = [a \in Addresses |-> ram[a]]
          BY DEF TypeOK
        <5>2. i + 1 \in Addresses
          <6>1. i + 1 \in 2 .. Last(f)
            BY <4>1, <2>2, <2>4 DEF Last
          <6> QED
            BY <6>1, FrameFacts
        <5> QED
          BY <2>1, <4>1, <5>1, <5>2
      <4>3. ram[i + 1] = {sum[i]}
        BY <4>1, <2>2 DEF RoutedAsSummed
      <4> QED
        BY <4>1, <4>2, <4>3, <2>6
    <3> QED
      BY <3>1, <3>2
  <2>8. Len(sum') > 0 /\ sum'[1].frame.kind # "bad layout"
    <3>1. 1 \in 1 .. Len(sum) /\ Len(sum') > 0
      BY <2>2, <2>4, <2>6
    <3>2. sum'[1] = sum[1]
      BY <3>1, <2>6
    <3>3. sum[1].frame.kind # "bad layout"
      BY <2>2, RestFacts
    <3> QED
      BY <3>1, <3>2, <3>3
  <2> QED
    BY <2>2, <2>3, <2>7, <2>8 DEF RoutedAsSummed
<1>8. CASE CheckCrc
  <2>1. /\ receiver = "rest" /\ UNCHANGED <<header, sum, ram>>
        /\ receiver' = IF sum = Body(Announced) /\ Announced.kind # "bad crc"
                         THEN "handoff" ELSE "rejected"
    BY <1>8 DEF CheckCrc
  <2>2. CASE receiver' = "rejected"
    BY <2>2, RoutedSame
  <2>3. CASE receiver' = "handoff"
    BY <2>1, <2>3 DEF RoutedAsSummed, Announced
  <2> QED
    BY <2>1, <2>2, <2>3
<1> QED
  BY <1>1, <1>2, <1>3, <1>4, <1>5, <1>6, <1>7, <1>8 DEF Next, Menu, Receive

-----------------------------------------------------------------------------
(* What has been handed off is a whole frame.                              *)
LEMMA HandoffIsWhole ==
  ASSUME TypeOK, RoutedAsSummed, receiver = "handoff"
  PROVE  \E f \in Frames : /\ f.kind = "good"
                           /\ \A n \in 2 .. Last(f) : ram[n] = {Piece(f, n)}
<1>1. PICK f \in Frames : header = {Piece(f, 1)} /\ f.kind # "bad header"
  BY DEF RoutedAsSummed
<1>2. sum = Body(f) /\ f.kind # "bad crc"
  BY <1>1, AnnouncedIs DEF RoutedAsSummed
<1>3. /\ f.rest \in Nat /\ Len(sum) = f.rest + 1
      /\ \A i \in 1 .. f.rest + 1 : sum[i] = Piece(f, i + 1)
  <2>1. f.rest \in Nat
    BY FrameFacts
  <2>2. DOMAIN sum = 1 .. f.rest + 1 /\ \A i \in 1 .. f.rest + 1 : sum[i] = Piece(f, i + 1)
    BY <1>2 DEF Body
  <2>3. Len(sum) \in Nat /\ DOMAIN sum = 1 .. Len(sum)
    BY DEF TypeOK
  <2> QED
    BY <2>1, <2>2, <2>3
<1>4. f.kind # "bad layout"
  <2>1. sum[1] = Piece(f, 2)
    BY <1>3
  <2>2. sum[1].frame.kind # "bad layout"
    BY RestFacts
  <2>3. sum[1].frame = f
    BY <2>1 DEF Piece
  <2> QED
    BY <2>2, <2>3, Zenon
<1>5. f.kind = "good"
  BY <1>1, <1>2, <1>4, FrameFacts DEF Kinds
<1>6. ASSUME NEW n \in 2 .. Last(f) PROVE ram[n] = {Piece(f, n)}
  <2>1. n - 1 \in 1 .. f.rest + 1 /\ (n - 1) + 1 = n
    BY <1>3 DEF Last
  <2> QED
    BY <2>1, <1>3 DEF RoutedAsSummed
<1> QED
  BY <1>5, <1>6

LEMMA LaunchStep ==
  ASSUME TypeOK, SessionsByScreen, RoutedAsSummed, LaunchIsOver, LaunchedImageIsWhole,
         [Next]_vars
  PROVE  LaunchIsOver' /\ LaunchedImageIsWhole'
<1>1. CASE Handoff
  <2>1. receiver' = "launched" /\ ram' = ram
    BY <1>1 DEF Handoff
  <2>2. \E f \in Frames : /\ f.kind = "good"
                          /\ \A n \in 2 .. Last(f) : ram[n] = {Piece(f, n)}
    BY <1>1, HandoffIsWhole DEF Handoff
  <2> QED
    BY <2>1, <2>2 DEF LaunchIsOver, LaunchedImageIsWhole
<1>2. CASE launched = "usb"
  <2>1. receiver = "launched" /\ screen = "app"
    BY <1>2 DEF LaunchIsOver, SessionsByScreen
  <2>2. UNCHANGED <<receiver, ram, launched>>
    BY <2>1 DEF Next, vars, Press, Release, Menu, BeginPass, Draw, Poll, Confirm,
      LeaveSettings, LeaveStore, BeginTransfer, EndTransfer, Launch, Host, Open, Send,
      GiveUp, Receive, SyncToMagic, ReadHeader, ReadFront, ReadRest, CheckCrc,
      ListenAgain, Handoff, upload
  <2> QED
    BY <2>1, <2>2 DEF LaunchIsOver, LaunchedImageIsWhole
<1>3. CASE launched # "usb" /\ ~Handoff
  <2>1. launched' # "usb"
    BY <1>3 DEF Next, vars, Press, Release, Menu, BeginPass, Draw, Poll, Confirm,
      LeaveSettings, LeaveStore, BeginTransfer, EndTransfer, Launch, Host, Open, Send,
      GiveUp, Receive, SyncToMagic, ReadHeader, ReadFront, ReadRest, CheckCrc,
      ListenAgain
  <2> QED
    BY <2>1 DEF LaunchIsOver, LaunchedImageIsWhole
<1> QED
  BY <1>1, <1>2, <1>3

LEMMA PressStep == TypeOK /\ PressIsFresh /\ [Next]_vars => PressIsFresh'
<1> SUFFICES ASSUME TypeOK, PressIsFresh, [Next]_vars PROVE PressIsFresh'
  OBVIOUS
<1>b. /\ down \in BOOLEAN /\ fresh \in BOOLEAN /\ armed \in BOOLEAN
      /\ press_at \in BOOLEAN
  BY DEF TypeOK
<1>1. CASE Press
  BY <1>1, Zenon DEF Press, PressIsFresh, selector
<1>2. CASE Release
  BY <1>2, Zenon DEF Release, PressIsFresh, selector
<1>3. CASE BeginPass
  BY <1>3, Zenon DEF BeginPass, PressIsFresh
<1>4. CASE Poll
  BY <1>4, <1>b, Zenon DEF Poll, PressIsFresh, button
<1>5. CASE Draw
  BY <1>5, Zenon DEF Draw, PressIsFresh, button
<1>6. CASE Confirm \/ LeaveSettings \/ LeaveStore \/ Launch \/ BeginTransfer
           \/ EndTransfer \/ Handoff
  <2>1. screen' # "menu"
    BY <1>6 DEF Confirm, Select, LeaveSettings, LeaveStore, Launch, BeginTransfer,
      EndTransfer, Handoff
  <2> QED
    BY <2>1 DEF PressIsFresh
<1>7. CASE Host \/ SyncToMagic \/ ReadHeader \/ ReadFront \/ ReadRest \/ CheckCrc
           \/ ListenAgain \/ UNCHANGED vars
  <2>1. UNCHANGED <<screen, down, fresh, armed, press_at>>
    BY <1>7 DEF Host, Open, Send, GiveUp, SyncToMagic, ReadHeader, ReadFront, ReadRest,
      CheckCrc, ListenAgain, vars, button, selector
  <2> QED
    BY <2>1, Zenon DEF PressIsFresh
<1> QED
  BY <1>1, <1>2, <1>3, <1>4, <1>5, <1>6, <1>7 DEF Next, Menu, Receive

-----------------------------------------------------------------------------
LEMMA InitUInv == Init => UInv
<1> SUFFICES ASSUME Init PROVE UInv
  OBVIOUS
<1>1. TypeOK
  BY TypeInit
<1>2. SessionsByScreen /\ RoutedAsSummed /\ LaunchIsOver /\ LaunchedImageIsWhole
  BY DEF Init, SessionsByScreen, RoutedAsSummed, LaunchIsOver, LaunchedImageIsWhole,
    Listening
<1>3. PressIsFresh
  BY DEF Init, PressIsFresh
<1> QED
  BY <1>1, <1>2, <1>3 DEF UInv

LEMMA StepUInv == UInv /\ [Next]_vars => UInv'
<1> SUFFICES ASSUME UInv, [Next]_vars PROVE UInv'
  OBVIOUS
<1>1. TypeOK'
  BY TypeStep DEF UInv
<1>2. SessionsByScreen' /\ RoutedAsSummed' /\ PressIsFresh'
  BY <1>1, SessionsStep, RoutedStep, PressStep DEF UInv
<1>3. LaunchIsOver' /\ LaunchedImageIsWhole'
  BY LaunchStep DEF UInv
<1> QED
  BY <1>1, <1>2, <1>3 DEF UInv

(* Every variable keeps its type, and no byte beyond the announced length  *)
(* is summed or routed, whatever a host sends.                             *)
THEOREM UploadTypes == Spec => []TypeOK
<1>1. UInv => TypeOK
  BY DEF UInv
<1> QED
  BY <1>1, InitUInv, StepUInv, PTL DEF Spec

(* What is launched from USB is one good frame, whole and in place, for    *)
(* any number of uploads of any length, cut, rejected or spliced.          *)
THEOREM LaunchedWhole == Spec => []LaunchedImageIsWhole
<1>1. UInv => LaunchedImageIsWhole
  BY DEF UInv
<1> QED
  BY <1>1, InitUInv, StepUInv, PTL DEF Spec

(* USB0 has one user at a time, and none when an app starts.               *)
THEOREM OneSession == Spec => []OneUsbSession
<1>1. UInv => OneUsbSession
  <2> SUFFICES ASSUME UInv PROVE OneUsbSession
    OBVIOUS
  <2>1. "cdc" \notin sessions \/ "msc" \notin sessions
    BY DEF UInv, SessionsByScreen
  <2>2. screen = "app" => sessions = {}
    BY DEF UInv, SessionsByScreen
  <2> QED
    BY <2>1, <2>2 DEF OneUsbSession
<1> QED
  BY <1>1, InitUInv, StepUInv, PTL DEF Spec

(* Only a press that began while the menu was up selects from it.          *)
THEOREM FreshSelection == Spec => SelectionIsAFreshPress
<1>1. ASSUME UInv, [Next]_vars
      PROVE  [screen = "menu" /\ screen' \notin {"menu", "app"} => fresh]_vars
  <2> SUFFICES ASSUME Next, screen = "menu", screen' \notin {"menu", "app"} PROVE fresh
    BY <1>1 DEF vars
  <2>1. Confirm
    BY DEF Next, Press, Release, Menu, BeginPass, Draw, Poll, LeaveSettings, LeaveStore,
      BeginTransfer, EndTransfer, Launch, Host, Open, Send, GiveUp, Receive,
      SyncToMagic, ReadHeader, ReadFront, ReadRest, CheckCrc, ListenAgain, Handoff
  <2> QED
    BY <1>1, <2>1, Zenon DEF UInv, PressIsFresh, Confirm
<1> QED
  BY <1>1, InitUInv, StepUInv, PTL DEF Spec, SelectionIsAFreshPress
====
