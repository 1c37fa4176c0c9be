---- MODULE DevUpload ----
(***************************************************************************)
(* Dev mode's menu (app-loader main.rs `boot_task`, ui.rs `run_selector`,  *)
(* devupload.rs): the selector and the USB upload listener run as one      *)
(* task's two futures, and the first to finish drops the other.  They      *)
(* share the display through UPLOAD_ACTIVE.                                *)
(*                                                                         *)
(* A frame on the wire is cut into the pieces `receive` reads: 0 the       *)
(* magic, 1 the rest of the header, 2 the ELF's front matter, and 3 on the *)
(* bytes after it.  The CRC-32 is taken to tell any two uploads apart.     *)
(***************************************************************************)
EXTENDS Integers, Sequences

CONSTANT Frames  (* the uploads a host may send                            *)

Kinds == {"good", "bad header", "bad layout", "bad crc"}
Frame == [id : Nat, kind : Kinds, rest : Nat]

ASSUME FramesAssumption == Frames \subseteq Frame

VARIABLES
  down,           (* SELECT_DOWN                                           *)
  dev_mode,       (* the setting on the flash                              *)
  screen,         (* what boot_task is in                                  *)
  turn,           (* run_selector: at the "top" of its loop, or "drawn"    *)
  armed,          (* run_selector: a press held from before is over        *)
  press_at,       (* run_selector: is a press being timed?                 *)
  UPLOAD_ACTIVE,
  sessions,       (* the USB sessions that are up                          *)
  receiver,       (* where `receive` is                                    *)
  header,         (* the header of this frame, {} when none                *)
  sum,            (* what the running CRC has seen of this frame           *)
  ram,            (* the RAM the router writes to, by piece                *)
  wire,           (* the piece sent and not read, {} when none             *)
  host,           (* the frame being sent and its next piece, {} when none *)
  launched,       (* which way an app was launched                         *)
  fresh,          (* history: did the last press begin on this menu?       *)
  given_up        (* history: did the host give up its last frame?         *)

button == <<down, fresh>>
selector == <<turn, armed, press_at>>
upload == <<receiver, header, sum>>
usb == <<wire, host, given_up>>
vars == <<button, dev_mode, screen, selector, UPLOAD_ACTIVE, sessions, upload,
          ram, usb, launched>>

Last(f) == 2 + f.rest
Piece(f, n) == [frame |-> f, part |-> n]
Pieces == UNION {{Piece(f, n) : n \in 0 .. Last(f)} : f \in Frames}
Addresses == UNION {2 .. Last(f) : f \in Frames}

(* What the CRC of a frame is the CRC of.                                  *)
Body(f) == [n \in 1 .. f.rest + 1 |-> Piece(f, n + 1)]

-----------------------------------------------------------------------------
(* The SELECT button, as pic_rx_task tracks it.                            *)

Press ==
  /\ ~down
  /\ down' = TRUE
  /\ fresh' = (screen = "menu")
  /\ UNCHANGED <<dev_mode, screen, selector, UPLOAD_ACTIVE, sessions, upload,
                 ram, usb, launched>>

Release ==
  /\ down
  /\ down' = FALSE
  /\ UNCHANGED <<fresh, dev_mode, screen, selector, UPLOAD_ACTIVE, sessions,
                 upload, ram, usb, launched>>

-----------------------------------------------------------------------------
(* boot_task: a pass brings the listener up before the selector draws.     *)

(* Seeded bug: a press held from before counts.                            *)
BeginPassArmed ==
  /\ screen = "pass"
  /\ screen' = "menu"
  /\ turn' = "top" /\ armed' = TRUE /\ press_at' = FALSE /\ fresh' = FALSE
  /\ sessions' = sessions \cup (IF dev_mode THEN {"cdc"} ELSE {})
  /\ receiver' = (IF dev_mode THEN "sync" ELSE "none")
  /\ UNCHANGED <<down, dev_mode, UPLOAD_ACTIVE, header, sum, ram, usb, launched>>

BeginPass ==
  /\ screen = "pass"
  /\ screen' = "menu"
  /\ turn' = "top" /\ armed' = ~down /\ press_at' = FALSE /\ fresh' = FALSE
  /\ sessions' = sessions \cup (IF dev_mode THEN {"cdc"} ELSE {})
  /\ receiver' = (IF dev_mode THEN "sync" ELSE "none")
  /\ UNCHANGED <<down, dev_mode, UPLOAD_ACTIVE, header, sum, ram, usb, launched>>

(* The listener is dropped where it stands, and the host unplugged.        *)
DropListener ==
  /\ receiver' = "none" /\ header' = {} /\ sum' = <<>>
  /\ wire' = {} /\ host' = {} /\ given_up' = (given_up \/ host # {})

(* Seeded bug: the session is left up.                                     *)
SelectConnected(next) ==
  /\ screen' = next
  /\ DropListener
  /\ UNCHANGED sessions

Select(next) ==
  /\ screen' = next
  /\ DropListener
  /\ sessions' = IF dev_mode THEN sessions \ {"cdc"} ELSE sessions

(* The top of the loop: stand down while an upload has the display.        *)
Draw ==
  /\ screen = "menu" /\ turn = "top"
  /\ ~UPLOAD_ACTIVE
  /\ turn' = "drawn"
  /\ UNCHANGED <<button, dev_mode, screen, armed, press_at, UPLOAD_ACTIVE,
                 sessions, upload, ram, usb, launched>>

(* After the frame and the 16 ms: the button.                              *)
Poll ==
  /\ screen = "menu" /\ turn = "drawn"
  /\ turn' = "top"
  /\ \/ ~armed /\ armed' = ~down /\ UNCHANGED press_at
     \/ armed /\ ~press_at /\ press_at' = down /\ UNCHANGED armed
     \/ armed /\ press_at /\ down /\ UNCHANGED <<armed, press_at>>
  /\ UNCHANGED <<button, dev_mode, screen, UPLOAD_ACTIVE, sessions, upload, ram,
                 usb, launched>>

Confirm ==
  /\ screen = "menu" /\ turn = "drawn"
  /\ armed /\ press_at
  /\ \E next \in {"settings", "data", "launch"} \cup (IF down THEN {"store"} ELSE {}) :
       Select(next)
  /\ UNCHANGED <<button, dev_mode, selector, UPLOAD_ACTIVE, ram, launched>>

(* The screens that come back to the menu.                                 *)
LeaveSettings ==
  /\ screen = "settings"
  /\ dev_mode' \in BOOLEAN
  /\ screen' = "pass"
  /\ UNCHANGED <<button, selector, UPLOAD_ACTIVE, sessions, upload, ram, usb, launched>>

LeaveStore ==
  /\ screen = "store"
  /\ screen' = "pass"
  /\ UNCHANGED <<button, dev_mode, selector, UPLOAD_ACTIVE, sessions, upload,
                 ram, usb, launched>>

BeginTransfer ==
  /\ screen = "data" /\ "msc" \notin sessions
  /\ sessions' = sessions \cup {"msc"}
  /\ UNCHANGED <<button, dev_mode, screen, selector, UPLOAD_ACTIVE, upload, ram,
                 usb, launched>>

EndTransfer ==
  /\ screen = "data" /\ "msc" \in sessions
  /\ sessions' = sessions \ {"msc"}
  /\ screen' = "pass"
  /\ UNCHANGED <<button, dev_mode, selector, UPLOAD_ACTIVE, upload, ram, usb, launched>>

(* A chosen app starts, or the card does not yield it.                     *)
Launch ==
  /\ screen = "launch"
  /\ \/ screen' = "app" /\ launched' = "menu"
     \/ screen' = "pass" /\ UNCHANGED launched
  /\ UNCHANGED <<button, dev_mode, selector, UPLOAD_ACTIVE, sessions, upload,
                 ram, usb>>

-----------------------------------------------------------------------------
(* The host: it opens the port, sends frames, and may give one up.         *)

Open(f) ==
  /\ "cdc" \in sessions /\ screen = "menu"
  /\ host = {}
  /\ host' = {[frame |-> f, next |-> 0]} /\ given_up' = FALSE
  /\ UNCHANGED <<button, dev_mode, screen, selector, UPLOAD_ACTIVE, sessions,
                 upload, ram, wire, launched>>

Send ==
  /\ wire = {}
  /\ \E h \in host :
       /\ wire' = {Piece(h.frame, h.next)}
       /\ host' = IF h.next = Last(h.frame) THEN {} ELSE {[h EXCEPT !.next = @ + 1]}
  /\ UNCHANGED <<button, dev_mode, screen, selector, UPLOAD_ACTIVE, sessions,
                 upload, ram, given_up, launched>>

GiveUp ==
  /\ host # {}
  /\ host' = {} /\ given_up' = TRUE
  /\ UNCHANGED <<button, dev_mode, screen, selector, UPLOAD_ACTIVE, sessions,
                 upload, ram, wire, launched>>

-----------------------------------------------------------------------------
(* receive.                                                                *)

(* The next piece, awaited; wait_connection across a disconnect shows in   *)
(* no other way.                                                           *)
Take(p) == p \in wire /\ wire' = {} /\ UNCHANGED <<host, given_up>>

SyncToMagic ==
  /\ receiver = "sync"
  /\ \E p \in wire :
       /\ Take(p)
       /\ receiver' = IF p.part = 0 THEN "header" ELSE "sync"
  /\ UNCHANGED <<button, dev_mode, screen, selector, UPLOAD_ACTIVE, sessions,
                 header, sum, ram, launched>>

ReadHeader ==
  /\ receiver = "header"
  /\ \E p \in wire :
       /\ Take(p)
       /\ IF p.part = 1 /\ p.frame.kind # "bad header"
            THEN receiver' = "front" /\ UPLOAD_ACTIVE' = TRUE /\ header' = {p}
            ELSE receiver' = "sync" /\ UNCHANGED <<UPLOAD_ACTIVE, header>>
  /\ sum' = <<>>
  /\ UNCHANGED <<button, dev_mode, screen, selector, sessions, ram, launched>>

(* Seeded bug: the front matter is not replayed through the router.        *)
ReadFrontUnrouted ==
  /\ receiver = "front"
  /\ \E p \in wire :
       /\ Take(p)
       /\ sum' = <<p>>
       /\ receiver' = IF p.part = 2 /\ p.frame.kind # "bad layout" THEN "rest" ELSE "rejected"
  /\ UNCHANGED <<button, dev_mode, screen, selector, UPLOAD_ACTIVE, sessions,
                 header, ram, launched>>

(* The route plan is made of the front matter, then the front matter is    *)
(* routed like the rest.                                                   *)
ReadFront ==
  /\ receiver = "front"
  /\ \E p \in wire :
       /\ Take(p)
       /\ sum' = <<p>>
       /\ IF p.part = 2 /\ p.frame.kind # "bad layout"
            THEN receiver' = "rest" /\ ram' = [ram EXCEPT ![2] = {p}]
            ELSE receiver' = "rejected" /\ UNCHANGED ram
  /\ UNCHANGED <<button, dev_mode, screen, selector, UPLOAD_ACTIVE, sessions,
                 header, launched>>

Announced == (CHOOSE p \in header : TRUE).frame
(* Seeded bug: one piece too many.                                         *)
RemainingOneMore == Announced.rest + 2 - Len(sum)

Remaining == Announced.rest + 1 - Len(sum)

ReadRest ==
  /\ receiver = "rest" /\ Remaining > 0
  /\ \E p \in wire :
       /\ Take(p)
       /\ sum' = Append(sum, p)
       /\ ram' = [ram EXCEPT ![2 + Len(sum)] = {p}]
  /\ UNCHANGED <<button, dev_mode, screen, selector, UPLOAD_ACTIVE, sessions,
                 receiver, header, launched>>

CheckCrc ==
  /\ receiver = "rest" /\ Remaining = 0
  /\ receiver' = IF sum = Body(Announced) /\ Announced.kind # "bad crc"
                   THEN "handoff" ELSE "rejected"
  /\ UNCHANGED <<button, dev_mode, screen, selector, UPLOAD_ACTIVE, sessions,
                 header, sum, ram, usb, launched>>

(* Seeded bug: the display stays claimed.                                  *)
ListenAgainActive ==
  /\ receiver = "rejected"
  /\ receiver' = "sync" /\ header' = {} /\ sum' = <<>>
  /\ UNCHANGED <<button, dev_mode, screen, selector, UPLOAD_ACTIVE, sessions,
                 ram, usb, launched>>

(* Two seconds of UPLOAD ERROR, then the next frame.                       *)
ListenAgain ==
  /\ receiver = "rejected"
  /\ receiver' = "sync" /\ header' = {} /\ sum' = <<>>
  /\ UPLOAD_ACTIVE' = FALSE
  /\ UNCHANGED <<button, dev_mode, screen, selector, sessions, ram, usb, launched>>

Handoff ==
  /\ receiver = "handoff"
  /\ receiver' = "launched"
  /\ screen' = "app" /\ launched' = "usb"
  /\ sessions' = sessions \ {"cdc"}
  /\ wire' = {} /\ host' = {} /\ UNCHANGED given_up
  /\ UNCHANGED <<button, dev_mode, selector, UPLOAD_ACTIVE, header, sum, ram>>

-----------------------------------------------------------------------------
Init ==
  /\ down \in BOOLEAN /\ fresh = FALSE
  /\ dev_mode \in BOOLEAN
  /\ screen = "pass"
  /\ turn = "top" /\ armed = FALSE /\ press_at = FALSE
  /\ UPLOAD_ACTIVE = FALSE
  /\ sessions = {}
  /\ receiver = "none" /\ header = {} /\ sum = <<>>
  /\ ram = [a \in Addresses |-> {}]
  /\ wire = {} /\ host = {} /\ given_up = FALSE
  /\ launched = "nothing"

Receive ==
  \/ SyncToMagic \/ ReadHeader \/ ReadFront \/ ReadRest \/ CheckCrc
  \/ ListenAgain \/ Handoff

Menu ==
  \/ BeginPass \/ Draw \/ Poll \/ Confirm
  \/ LeaveSettings \/ LeaveStore \/ BeginTransfer \/ EndTransfer \/ Launch

Host == Send \/ GiveUp \/ \E f \in Frames : Open(f)

Next == Press \/ Release \/ Menu \/ Host \/ Receive

Spec == Init /\ [][Next]_vars

(* Both futures are polled whenever what they wait for is there; a host    *)
(* that does not give up sends on.                                         *)
FairSpec == Spec /\ WF_vars(Receive) /\ WF_vars(Send)

-----------------------------------------------------------------------------
(* Every variable holds a value of its kind, and no byte beyond the         *)
(* announced length is taken into the sum or routed.                       *)
TypeOK ==
  /\ down \in BOOLEAN /\ fresh \in BOOLEAN /\ dev_mode \in BOOLEAN
  /\ screen \in {"pass", "menu", "settings", "store", "data", "launch", "app"}
  /\ turn \in {"top", "drawn"} /\ armed \in BOOLEAN /\ press_at \in BOOLEAN
  /\ UPLOAD_ACTIVE \in BOOLEAN
  /\ sessions \subseteq {"cdc", "msc"}
  /\ receiver \in {"none", "sync", "header", "front", "rest", "rejected",
                   "handoff", "launched"}
  /\ header \in {{}} \cup {{p} : p \in Pieces}
  /\ sum \in Seq(Pieces) /\ \A p \in header : Len(sum) <= p.frame.rest + 1
  /\ ram \in [Addresses -> {{}} \cup {{p} : p \in Pieces}]
  /\ wire \in {{}} \cup {{p} : p \in Pieces}
  /\ \A h \in host : h.frame \in Frames /\ h.next \in 0 .. Last(h.frame)
  /\ given_up \in BOOLEAN
  /\ launched \in {"nothing", "menu", "usb"}

(* What is launched from USB is one frame a host sent, whole and in place, *)
(* however many were given up, rejected or spliced together before it.     *)
LaunchedImageIsWhole ==
  launched = "usb" =>
    \E f \in Frames :
      /\ f.kind = "good"
      /\ \A n \in 2 .. Last(f) : ram[n] = {Piece(f, n)}

(* USB0 has one user at a time, and none when an app starts.               *)
OneUsbSession ==
  /\ sessions # {"cdc", "msc"}
  /\ screen = "app" => sessions = {}

(* The selector only acts on a press that began while it was up: not on    *)
(* the one that closed the screen before it.                               *)
SelectionIsAFreshPress ==
  [][screen = "menu" /\ screen' \notin {"menu", "app"} => fresh]_vars

(* A rejected upload gives the display back.                               *)
RejectedGivesTheMenuBack == receiver = "rejected" ~> ~UPLOAD_ACTIVE \/ screen # "menu"

(* A good frame sent to a listener that waits for one is launched, unless  *)
(* the host gives it up or the user leaves the menu.                       *)
GoodUploadLaunches ==
  (/\ receiver = "sync" /\ wire = {}
   /\ \E h \in host : h.frame.kind = "good" /\ h.next = 0)
    ~> launched = "usb" \/ given_up \/ screen # "menu"

(* ui.rs: UPLOAD_ACTIVE is "Set by [`crate::devupload`] once an upload     *)
(* header has arrived", "Cleared again only if the upload is rejected": so *)
(* the menu stands down for an upload that has begun and is not over.      *)
OnlyAnUploadStandsTheMenuDown ==
  UPLOAD_ACTIVE => receiver \in {"front", "rest", "rejected", "handoff", "launched"}
====
