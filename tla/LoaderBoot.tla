---- MODULE LoaderBoot ----
(***************************************************************************)
(* The app-loader from power-on to the launch of an app (app-loader        *)
(* main.rs `boot_task`, built with flash-protect), over the flash it keeps *)
(* its state in: the app slot, its own settings record, the Deluge app's   *)
(* settings, and the boot region's protection.                             *)
(*                                                                         *)
(* The power may be cut between any two steps and in the middle of every   *)
(* erase and program.  The chip of a unit that is not `sound` may ignore   *)
(* any erase, program or status-register write without saying so.          *)
(***************************************************************************)
EXTENDS AppImage, LoaderSettings

CONSTANTS
  Elfs,          (* the images the /APPS files of the card flatten into    *)
  AutoBoots      (* the AUTO-BOOT settings the user can dial               *)

ASSUME ElfsAssumption == Elfs \subseteq Image
ASSUME AutoBootsAssumption == AutoBoots \subseteq AutoBoot

VARIABLES
  sound,         (* does this unit's chip do every write it is sent?       *)
  slot,          (* the app slot: chunk 0, with the metadata, and the rest *)
  record,        (* the loader's settings record, {} when there is none    *)
  app_settings,  (* the Deluge app's record at its new offset              *)
  prot,          (* is the boot region protected, is the lock-down armed?  *)
  line,          (* the slot's metadata in the CPU caches, {} when absent  *)
  pc,            (* where boot_task is                                     *)
  load_seen,     (* LOAD_SEEN                                              *)
  recovery,      (* ... as it was when boot_task sampled it                *)
  auto_boot_allowed,
  cfg,           (* the settings of this pass                              *)
  flash_img,     (* what probe found, {} when nothing                      *)
  sd_listed,     (* is there an app on the card?                           *)
  mode,          (* the boot mode of this pass                             *)
  at,            (* the chunk an erase or program is at                    *)
  staged,        (* the image being stored, {} when none                   *)
  pending,       (* the settings being written                             *)
  launch,        (* what is being launched, and on whose word              *)
  touched,       (* history: has the user used the menu since power-on?    *)
  trusted,       (* history: did the last store run to its verified end?   *)
  stale,         (* history: did a probe of this boot hit an outdated line?*)
  asked          (* history: did the user ever save dev mode?              *)

flash == <<sound, slot, record, app_settings, prot>>
gesture == <<load_seen, recovery>>
menu == <<cfg, flash_img, sd_listed, mode>>
work == <<at, staged, pending>>
history == <<touched, trusted, stale, asked>>
vars == <<flash, line, pc, gesture, auto_boot_allowed, menu, work, launch, history>>

Chunks == {0, 1}
Open == [region |-> FALSE, lock |-> FALSE]
Locked == [region |-> TRUE, lock |-> TRUE]
Nothing == [what |-> "nothing", by |-> "nobody"]

Goto(next) == pc' = next

(* What a write leaves that an unsound chip may ignore.                    *)
Or(done, ignored) == {done} \cup (IF sound THEN {} ELSE {ignored})

(* settings::read: the default when there is no record of a known version. *)
settings_in(rec) ==
  IF \E r \in rec : Decodable(r) THEN decode(CHOOSE r \in rec : TRUE)
                                ELSE DefaultSettings
read == settings_in(record)

-----------------------------------------------------------------------------
(* From power-on to the first pass.                                        *)

PowerUp ==
  /\ pc = "off"
  /\ load_seen' \in BOOLEAN
  /\ Goto("start")
  /\ UNCHANGED <<flash, line, recovery, auto_boot_allowed, menu, work, launch, history>>

(* LOAD may be pressed at any time until the boot decision.                *)
PressLoad ==
  /\ pc \in {"start", "migrate", "migrating", "ssb", "pass", "probe", "decide"}
  /\ ~load_seen /\ ~touched
  /\ load_seen' = TRUE
  /\ UNCHANGED <<flash, line, pc, recovery, auto_boot_allowed, menu, work, launch, history>>

SampleRecovery ==
  /\ pc = "start"
  /\ recovery' = load_seen
  /\ auto_boot_allowed' = TRUE
  /\ Goto("migrate")
  /\ UNCHANGED <<flash, line, load_seen, menu, work, launch, history>>

(* Seeded bug: the legacy record is always brought forward.                *)
always_migrate == TRUE

(* Every unit here has a legacy record, "old".  The head of the record at  *)
(* the new offset tells whether that one is blank.                         *)
deluge_settings_need_migration == app_settings = "blank"

Migrate ==
  /\ pc = "migrate"
  /\ Goto(IF deluge_settings_need_migration THEN "migrating" ELSE "ssb")
  /\ UNCHANGED <<flash, line, gesture, auto_boot_allowed, menu, work, launch, history>>

CopySettings ==
  /\ pc = "migrating"
  /\ app_settings' \in Or("old", app_settings)
  /\ Goto("ssb")
  /\ UNCHANGED <<sound, slot, record, prot, line, gesture, auto_boot_allowed,
                 menu, work, launch, history>>

(* ssb_update_pass: unlock, clear the toggle, park.                        *)
SsbUpdatePass ==
  /\ pc = "ssb"
  /\ Goto(IF read.ssb_write_enable THEN "unprotect" ELSE "pass")
  /\ UNCHANGED <<flash, line, gesture, auto_boot_allowed, menu, work, launch, history>>

Unprotect ==
  /\ pc = "unprotect"
  /\ prot' \in Or(Open, prot)
  /\ pending' = [read EXCEPT !.ssb_write_enable = FALSE]
  /\ Goto("ssb_erase")
  /\ UNCHANGED <<sound, slot, record, app_settings, line, gesture,
                 auto_boot_allowed, menu, at, staged, launch, history>>

-----------------------------------------------------------------------------
(* settings::write: for the one-shot toggle, after which boot_task parks,  *)
(* and for the settings screen, after which it begins a pass.              *)

EraseSettings(here, next) ==
  /\ pc = here
  /\ record' \in Or({}, record)
  /\ Goto(next)
  /\ UNCHANGED <<sound, slot, app_settings, prot, line, gesture,
                 auto_boot_allowed, menu, work, launch, history>>

(* Programmed over a record that was not erased, no record decodes.        *)
ProgramSettings(here, next) ==
  /\ pc = here
  /\ record' \in Or(IF record \in {{}, {encode(pending)}} THEN {encode(pending)} ELSE {},
                    record)
  /\ pending' = DefaultSettings
  /\ Goto(next)
  /\ UNCHANGED <<sound, slot, app_settings, prot, line, gesture,
                 auto_boot_allowed, menu, at, staged, launch, history>>

-----------------------------------------------------------------------------
(* One pass of the boot menu loop.                                         *)

BeginPass ==
  /\ pc = "pass"
  /\ cfg' = read
  /\ Goto("probe")
  /\ UNCHANGED <<flash, line, gesture, auto_boot_allowed, flash_img, sd_listed,
                 mode, work, launch, history>>

(* probe reads the metadata through the cached window.                     *)
Probe ==
  /\ pc = "probe"
  /\ line' = IF line = {} THEN {slot[0]} ELSE line
  /\ flash_img' = {i \in line' : Bootable(i)}
  /\ stale' = (stale \/ line' # {slot[0]})
  /\ Goto("decide")
  /\ UNCHANGED <<flash, gesture, auto_boot_allowed, cfg, sd_listed, mode, work,
                 launch, touched, trusted, asked>>

(* Other traffic may push the line out at any time.                        *)
Evict ==
  /\ line # {}
  /\ line' = {}
  /\ UNCHANGED <<flash, pc, gesture, auto_boot_allowed, menu, work, launch, history>>

(* Index 0 of the menu: the flash image, else the card's first app.        *)
default_entry == IF flash_img # {} THEN "flash" ELSE "sd"

Dialled == IF cfg.auto_boot.kind = "Instant" THEN "Instant"
           ELSE IF cfg.auto_boot.kind = "Secs" THEN "Countdown" ELSE "Wait"

(* Seeded bugs: recovery, or whether this is the first pass, is not asked. *)
boot_mode_auto(boot_total) ==
  IF cfg.dev_mode \/ boot_total = 0 \/ ~auto_boot_allowed
    THEN "Wait" ELSE Dialled
boot_mode_every_pass(boot_total) ==
  IF recovery \/ cfg.dev_mode \/ boot_total = 0
    THEN "Wait" ELSE Dialled

boot_mode(boot_total) ==
  IF recovery \/ cfg.dev_mode \/ boot_total = 0 \/ ~auto_boot_allowed
    THEN "Wait" ELSE Dialled

Select(what, by) ==
  /\ launch' = [what |-> what, by |-> by]
  /\ Goto(IF what = "sd" THEN "load" ELSE "lock")

(* The card is listed or not; then the boot mode is decided, once a boot.  *)
Decide ==
  /\ pc = "decide"
  /\ sd_listed' \in BOOLEAN
  /\ mode' = boot_mode(IF flash_img # {} \/ sd_listed' THEN 1 ELSE 0)
  /\ auto_boot_allowed' = FALSE
  /\ \/ mode' = "Instant" /\ Select(default_entry, "loader")
     \/ mode' # "Instant" /\ Goto("menu") /\ UNCHANGED launch
  /\ UNCHANGED <<flash, line, gesture, cfg, flash_img, work, history>>

-----------------------------------------------------------------------------
(* The menu: run_selector, raced in dev mode against the USB listener.     *)

Expire ==
  /\ pc = "menu" /\ mode = "Countdown"
  /\ Select(default_entry, "loader")
  /\ UNCHANGED <<flash, line, gesture, auto_boot_allowed, menu, work, history>>

(* A pass that does not launch is done with its locals.                    *)
Forget ==
  cfg' = DefaultSettings /\ flash_img' = {} /\ sd_listed' = FALSE /\ mode' = "Wait"

Touch == touched' = TRUE /\ UNCHANGED <<trusted, stale>>

(* Any turn or press ends the countdown.                                   *)
Turn ==
  /\ pc = "menu" /\ mode = "Countdown"
  /\ mode' = "Wait"
  /\ Touch /\ UNCHANGED asked
  /\ UNCHANGED <<flash, line, pc, gesture, auto_boot_allowed, cfg, flash_img,
                 sd_listed, work, launch>>

ChooseEntry(what) ==
  /\ pc = "menu"
  /\ what = "flash" => flash_img # {}
  /\ what = "sd" => sd_listed
  /\ Select(what, "user")
  /\ Touch /\ UNCHANGED asked
  /\ UNCHANGED <<flash, line, gesture, auto_boot_allowed, menu, work>>

Upload ==
  /\ pc = "menu" /\ cfg.dev_mode
  /\ Select("usb", "host")
  /\ UNCHANGED <<flash, line, gesture, auto_boot_allowed, menu, work, history>>

(* A long press on an app of the card, then YES.                           *)
ConfirmStore(image) ==
  /\ pc = "menu" /\ sd_listed
  /\ staged' = {image}
  /\ Goto("store")
  /\ Forget
  /\ Touch /\ UNCHANGED asked
  /\ UNCHANGED <<flash, line, gesture, auto_boot_allowed, at, pending, launch>>

(* The settings screen edits a copy and writes it when it differs.         *)
ChangeSettings(new) ==
  /\ pc = "menu"
  /\ IF new = cfg THEN Goto("pass") /\ UNCHANGED pending
                  ELSE Goto("set_erase") /\ pending' = new
  /\ asked' = (asked \/ new.dev_mode)
  /\ Forget
  /\ Touch
  /\ UNCHANGED <<flash, line, gesture, auto_boot_allowed, at, staged, launch>>

(* DATA TRANSFER, or NO to a store: nothing here changes.                  *)
BackToMenu ==
  /\ pc = "menu"
  /\ Goto("pass")
  /\ Forget
  /\ Touch /\ UNCHANGED asked
  /\ UNCHANGED <<flash, line, gesture, auto_boot_allowed, work, launch>>

-----------------------------------------------------------------------------
(* write_app_to_flash.                                                     *)

TheImage == CHOOSE i \in staged : TRUE

Storing(next) ==
  IF at = 0 THEN at' = 1 /\ UNCHANGED pc ELSE at' = 0 /\ Goto(next)

(* The file may not open or read; an image not storable is refused.        *)
CheckImage ==
  /\ pc = "store"
  /\ \/ Goto("pass") /\ staged' = {}
     \/ Storable(TheImage) /\ Goto("erase") /\ UNCHANGED staged
  /\ UNCHANGED <<flash, line, gesture, auto_boot_allowed, menu, at, pending,
                 launch, history>>

EraseChunk ==
  /\ pc = "erase"
  /\ \E left \in Or(Erased, slot[at]) : slot' = [slot EXCEPT ![at] = left]
  /\ trusted' = FALSE
  /\ Storing("program")
  /\ UNCHANGED <<sound, record, app_settings, prot, line, gesture,
                 auto_boot_allowed, menu, staged, pending, launch, touched,
                 stale, asked>>

Programmed(old) == IF old \in {Erased, TheImage} THEN TheImage ELSE Garbage

ProgramChunk ==
  /\ pc = "program"
  /\ \E left \in Or(Programmed(slot[at]), slot[at]) : slot' = [slot EXCEPT ![at] = left]
  /\ Storing("verify")
  /\ UNCHANGED <<sound, record, app_settings, prot, line, gesture,
                 auto_boot_allowed, menu, staged, pending, launch, history>>

(* Seeded bug: only the chunk with the metadata is read back.              *)
VerifyMetadata ==
  /\ pc = "verify"
  /\ trusted' = (slot[0] = TheImage)
  /\ staged' = {}
  /\ Goto("pass")
  /\ UNCHANGED <<flash, line, gesture, auto_boot_allowed, menu, at, pending,
                 launch, touched, stale, asked>>

(* Read back through the uncached mirror, all of it.                       *)
VerifyImage ==
  /\ pc = "verify"
  /\ trusted' = (\A c \in Chunks : slot[c] = TheImage)
  /\ staged' = {}
  /\ Goto("pass")
  /\ UNCHANGED <<flash, line, gesture, auto_boot_allowed, menu, at, pending,
                 launch, touched, stale, asked>>

-----------------------------------------------------------------------------
(* Launching.                                                              *)

(* load_from_sd: the app is in RAM, or the menu comes back.                *)
LoadFromSd ==
  /\ pc = "load"
  /\ \/ Goto("lock") /\ UNCHANGED <<launch, menu>>
     \/ Goto("pass") /\ launch' = Nothing /\ Forget
  /\ UNCHANGED <<flash, line, gesture, auto_boot_allowed, work, history>>

(* Seeded bug: only an app of the user's own choice is locked out.         *)
LockChosen ==
  /\ pc = "lock"
  /\ prot' \in Or(IF launch.by = "user" THEN Locked ELSE prot, prot)
  /\ Goto("app")
  /\ UNCHANGED <<sound, slot, record, app_settings, line, gesture,
                 auto_boot_allowed, menu, work, launch, history>>

(* quiesce_for_handoff: lock_for_handoff, whose refusals do not stop it.   *)
LockAndLaunch ==
  /\ pc = "lock"
  /\ prot' \in Or(Locked, prot)
  /\ Goto("app")
  /\ UNCHANGED <<sound, slot, record, app_settings, line, gesture,
                 auto_boot_allowed, menu, work, launch, history>>

(* The Deluge app saves its own settings.                                  *)
AppSaves ==
  /\ pc = "app"
  /\ app_settings' = "new"
  /\ UNCHANGED <<sound, slot, record, prot, line, pc, gesture,
                 auto_boot_allowed, menu, work, launch, history>>

-----------------------------------------------------------------------------
(* The power is cut: the RAM and the lock-down go; what was being erased   *)
(* or programmed is as it was, or neither one thing nor the other.         *)
PowerCut ==
  /\ pc # "off"
  /\ Goto("off")
  /\ slot' \in {slot} \cup
       (IF pc \in {"erase", "program"} THEN {[slot EXCEPT ![at] = Garbage]} ELSE {})
  /\ record' \in {record} \cup
       (IF pc \in {"set_erase", "set_program", "ssb_erase", "ssb_program"} THEN {{}} ELSE {})
  /\ app_settings' \in {app_settings} \cup
       (IF pc = "migrating" THEN {"torn"} ELSE {})
  /\ prot' \in {[region |-> r, lock |-> FALSE] :
                 r \in {prot.region} \cup (IF pc = "lock" THEN {TRUE}
                                          ELSE IF pc = "unprotect" THEN {FALSE} ELSE {})}
  /\ trusted' = (trusted /\ pc # "erase")
  /\ line' = {} /\ load_seen' = FALSE /\ recovery' = FALSE
  /\ auto_boot_allowed' = FALSE
  /\ Forget
  /\ at' = 0 /\ staged' = {} /\ pending' = DefaultSettings
  /\ launch' = Nothing
  /\ touched' = FALSE /\ stale' = FALSE
  /\ UNCHANGED <<sound, asked>>

-----------------------------------------------------------------------------
(* What a version 1 loader wrote on a unit whose dev mode is off, and a    *)
(* record that waits for the user.                                         *)
NeverRecord == encode([DefaultSettings EXCEPT !.auto_boot = Never])
V1Record == [version |-> VERSION_V1, flags |-> {}, auto_boot |-> 0]

Init ==
  /\ sound \in BOOLEAN
  /\ \E i \in {Erased} \cup {e \in Elfs : Storable(e) /\ Bootable(e)} :
       slot = [c \in Chunks |-> i] /\ trusted = (i # Erased)
  /\ record \in {{}, {V1Record}, {NeverRecord}} /\ asked = FALSE
  /\ app_settings = "blank"
  /\ prot = Open
  /\ line = {} /\ pc = "off"
  /\ load_seen = FALSE /\ recovery = FALSE /\ auto_boot_allowed = FALSE
  /\ cfg = DefaultSettings /\ flash_img = {} /\ sd_listed = FALSE /\ mode = "Wait"
  /\ at = 0 /\ staged = {} /\ pending = DefaultSettings
  /\ launch = Nothing
  /\ touched = FALSE /\ stale = FALSE

(* What boot_task does on its own.                                         *)
Loader ==
  \/ PowerUp \/ SampleRecovery \/ Migrate \/ CopySettings \/ SsbUpdatePass \/ Unprotect
  \/ EraseSettings("ssb_erase", "ssb_program") \/ ProgramSettings("ssb_program", "parked")
  \/ EraseSettings("set_erase", "set_program") \/ ProgramSettings("set_program", "pass")
  \/ BeginPass \/ Probe \/ Decide \/ Expire
  \/ CheckImage \/ EraseChunk \/ ProgramChunk \/ VerifyImage
  \/ LoadFromSd \/ LockAndLaunch

User ==
  \/ PressLoad \/ Turn \/ BackToMenu
  \/ \E what \in {"flash", "sd"} : ChooseEntry(what)
  \/ \E image \in Elfs : ConfirmStore(image)
  \/ \E new \in {n \in Settings : n.auto_boot \in AutoBoots} : ChangeSettings(new)

Next == Loader \/ User \/ Upload \/ Evict \/ AppSaves \/ PowerCut

Spec == Init /\ [][Next]_vars

(* boot_task runs on: nothing else holds the executor for good.            *)
FairSpec == Spec /\ WF_vars(Loader)

-----------------------------------------------------------------------------
Pcs == {"off", "start", "migrate", "migrating", "ssb", "unprotect", "ssb_erase",
        "ssb_program", "parked", "pass", "probe", "decide", "menu", "set_erase",
        "set_program", "store", "erase", "program", "verify", "load", "lock", "app"}
SlotContents == Elfs \cup {Erased, Garbage}

(* Every variable holds a value of its kind.                               *)
TypeOK ==
  /\ sound \in BOOLEAN
  /\ slot \in [Chunks -> SlotContents]
  /\ \E s \in Settings : record \in {{}, {V1Record}, {encode(s)}}
  /\ app_settings \in {"blank", "old", "torn", "new"}
  /\ prot \in [region : BOOLEAN, lock : BOOLEAN]
  /\ \E i \in SlotContents : line \in {{}, {i}}
  /\ pc \in Pcs
  /\ load_seen \in BOOLEAN /\ recovery \in BOOLEAN /\ auto_boot_allowed \in BOOLEAN
  /\ cfg \in Settings
  /\ flash_img \in {{}} \cup {{i} : i \in Elfs}
  /\ sd_listed \in BOOLEAN
  /\ mode \in {"Wait", "Countdown", "Instant"}
  /\ at \in Chunks
  /\ staged \in {{}} \cup {{i} : i \in Elfs}
  /\ pending \in Settings
  /\ launch \in [what : {"nothing", "flash", "sd", "usb"},
                 by : {"nobody", "loader", "user", "host"}]
  /\ touched \in BOOLEAN /\ trusted \in BOOLEAN /\ stale \in BOOLEAN
  /\ asked \in BOOLEAN

(* The loader launches on its own word only before the user has touched    *)
(* the menu, never under the recovery gesture, and never against what the  *)
(* record says at that moment.                                             *)
AutoBootIsLicensed ==
  launch.by = "loader" =>
    ~touched /\ ~recovery /\ ~read.dev_mode /\ read.auto_boot.kind # "Never"

(* Nothing comes in over USB on a unit whose owner never saved dev mode,   *)
(* whatever the power did to the settings sector.                          *)
UploadsWereAsked == launch.what = "usb" => asked

(* Whoever launches what was allowed to, by the record as it was when the  *)
(* launch was decided.                                                     *)
LaunchesAreLicensed == AutoBootIsLicensed /\ UploadsWereAsked

(* Every app of a sound unit starts with the boot region protected and the *)
(* protection locked; a loader that opened the region launches nothing.    *)
NoAppOnOpenFlash == pc = "app" /\ sound => prot = Locked

(* A sound unit that asks for a power cycle to update the SSB has opened   *)
(* the boot region and will not park again.                                *)
ParkedIsOpenOnce == pc = "parked" /\ sound => prot = Open /\ ~read.ssb_write_enable

(* On a sound unit the boot region is open or locked as the place where    *)
(* the loader stops wants it.                                              *)
ProtectionFitsThePlace == NoAppOnOpenFlash /\ ParkedIsOpenOnce

Probed == pc \in {"decide", "menu", "load", "lock", "app"}

(* The image the menu offers, and the bytes a launch copies, are those of  *)
(* the last store that verified, if probe was not served an old line.      *)
OffersTheStoredImage ==
  Probed /\ trusted /\ ~stale =>
    \A c \in Chunks : flash_img = {i \in {slot[c]} : Bootable(i)}

(* A flash launch copies no byte from beyond the slot or to outside SRAM,  *)
(* also when what it launches is torn or described by an old line.         *)
CopyStaysInside ==
  launch.what = "flash" =>
    \E i \in flash_img :
      /\ desc(i).filesz \in 1 .. SLOT_LEN
      /\ desc(i).dst >= SRAM_LOAD_ORIGIN
      /\ desc(i).dst + desc(i).filesz <= SRAM_END

(* What a flash launch copies is the image that was stored, and lands      *)
(* where an app may lie.                                                   *)
LaunchIsTheStoredImage == OffersTheStoredImage /\ CopyStaysInside

(* A record the Deluge app saved at the new offset is never overwritten    *)
(* with the legacy one.                                                    *)
NewerSettingsStay == [][app_settings = "new" => app_settings' = "new"]_vars

(* Held at power-on, LOAD always leads to a menu that waits, unless the    *)
(* power goes or the SSB update was armed.                                 *)
RecoveryReachesTheMenu ==
  (pc = "start" /\ load_seen /\ ~read.ssb_write_enable)
    ~> (pc = "menu" /\ mode = "Wait") \/ pc = "off"

-----------------------------------------------------------------------------
(* What comments of the source say.                                        *)

(* flashboot.rs: "an image the boot path would reject is refused without   *)
(* touching the slot".                                                     *)
RejectedImagesLeaveTheSlot ==
  [][slot' # slot => \A i \in staged : Bootable(i)]_vars
====
