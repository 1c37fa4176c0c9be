---- MODULE LoaderBootProofs ----
(***************************************************************************)
(* What TLAPS proves of LoaderBoot, for every set of images, every dial    *)
(* and every memory layout.                                                *)
(***************************************************************************)
EXTENDS LoaderBoot, TLAPS

-----------------------------------------------------------------------------
(* Facts about the settings.                                               *)

LEMMA DialRoundTrip ==
  ASSUME NEW a \in AutoBoot
  PROVE  to_byte(a) \in Bytes /\ from_byte(to_byte(a)) = a
BY CountdownAssumption DEF AutoBoot, Instant, Secs, Never, to_byte, from_byte, Bytes,
     NEVER_BYTE

(* A settings record reads back as the settings it was written from.       *)
LEMMA SettingsRoundTrip ==
  ASSUME NEW s \in Settings
  PROVE  settings_in({encode(s)}) = s
<1>1. Decodable(encode(s)) /\ encode(s).version # VERSION_V1
  BY DEF Decodable, encode, VERSION, VERSION_V1
<1>2. decode(encode(s)) = s
  <2>1. from_byte(to_byte(s.auto_boot)) = s.auto_boot
    BY DialRoundTrip DEF Settings
  <2>2. s = [dev_mode |-> s.dev_mode, auto_boot |-> s.auto_boot,
             ssb_write_enable |-> s.ssb_write_enable]
    BY DEF Settings
  <2>3. /\ FLAG_DEV_MODE \in encode(s).flags <=> s.dev_mode
        /\ FLAG_SSB_WRITE_ENABLE \in encode(s).flags <=> s.ssb_write_enable
    BY DEF encode, FLAG_DEV_MODE, FLAG_SSB_WRITE_ENABLE
  <2>4. encode(s).auto_boot = to_byte(s.auto_boot)
    BY DEF encode
  <2>5. s.dev_mode \in BOOLEAN /\ s.ssb_write_enable \in BOOLEAN
    BY DEF Settings
  <2> QED
    BY <1>1, <2>1, <2>2, <2>3, <2>4, <2>5 DEF decode
<1>3. (CHOOSE r \in {encode(s)} : TRUE) = encode(s)
  OBVIOUS
<1> QED
  BY <1>1, <1>2, <1>3 DEF settings_in

LEMMA OtherRecords ==
  /\ settings_in({}) = DefaultSettings
  /\ settings_in({V1Record}) = DefaultSettings
  /\ DefaultSettings \in Settings
<1>1. settings_in({}) = DefaultSettings
  BY DEF settings_in
<1>2. (CHOOSE r \in {V1Record} : TRUE) = V1Record
  OBVIOUS
<1>3. settings_in({V1Record}) = DefaultSettings
  <2>1. Decodable(V1Record)
    BY DEF V1Record, Decodable
  <2>2. \A x : (x \in {}) = FALSE
    OBVIOUS
  <2>3. V1Record.flags = {} /\ V1Record.version = VERSION_V1
    BY DEF V1Record
  <2>4. decode(V1Record) = DefaultSettings
    BY Zenon, <2>2, <2>3 DEF decode, DefaultSettings
  <2> QED
    BY <1>2, <2>1, <2>4 DEF settings_in
<1>4. DefaultSettings \in Settings
  BY CountdownAssumption DEF DefaultSettings, Settings, AutoBoot
<1> QED
  BY <1>1, <1>3, <1>4

-----------------------------------------------------------------------------
(* Every variable holds a value of its kind, whatever the constants.       *)

(* There is an image to store while one is being stored.                   *)
Staging == pc \in {"store", "erase", "program", "verify"} => staged # {}

TypeInv == TypeOK /\ Staging

LEMMA ReadType ==
  ASSUME TypeOK
  PROVE  read \in Settings
<1>1. PICK s \in Settings : record \in {{}, {V1Record}, {encode(s)}}
  BY DEF TypeOK
<1> QED
  BY <1>1, SettingsRoundTrip, OtherRecords DEF read

LEMMA TypeInit == Init => TypeInv
<1> SUFFICES ASSUME Init PROVE TypeInv
  OBVIOUS
<1>1. \E s \in Settings : record \in {{}, {V1Record}, {encode(s)}}
  <2>1. [DefaultSettings EXCEPT !.auto_boot = Never] \in Settings
    BY OtherRecords DEF Settings, AutoBoot
  <2> QED
    BY <2>1, OtherRecords DEF Init, NeverRecord
<1>2. slot \in [Chunks -> SlotContents] /\ trusted \in BOOLEAN
  BY DEF Init, SlotContents
<1> QED
  BY <1>1, <1>2, OtherRecords DEF Init, TypeInv, TypeOK, Staging, Open, Chunks,
    Nothing, Pcs

LEMMA TypeStep == TypeInv /\ [Next]_vars => TypeInv'
<1> SUFFICES ASSUME TypeInv, [Next]_vars PROVE TypeInv'
  OBVIOUS
<1> USE OtherRecords DEF TypeInv, TypeOK, Staging, vars, flash, gesture, menu, work,
      history, Goto, Pcs, Touch, Select
<1>f. Forget => /\ cfg' \in Settings /\ flash_img' = {} /\ sd_listed' \in BOOLEAN
                /\ mode' \in {"Wait", "Countdown", "Instant"}
  BY DEF Forget
<1>n. Nothing \in [what : {"nothing", "flash", "sd", "usb"},
                  by : {"nobody", "loader", "user", "host"}]
  BY DEF Nothing
<1>r. read \in Settings
  BY ReadType
<1>p. \A a, b \in BOOLEAN : [region |-> a, lock |-> b] \in [region : BOOLEAN, lock : BOOLEAN]
  OBVIOUS
<1>0. CASE UNCHANGED vars
  BY <1>0
<1>1. CASE PowerUp \/ PressLoad \/ SampleRecovery
  <2>1. CASE PowerUp
    BY <2>1 DEF PowerUp
  <2>2. CASE PressLoad
    BY <2>2 DEF PressLoad
  <2>3. CASE SampleRecovery
    BY <2>3 DEF SampleRecovery
  <2> QED
    BY <1>1, <2>1, <2>2, <2>3
<1>2. CASE Migrate \/ SsbUpdatePass
  BY <1>2 DEF Migrate, SsbUpdatePass
<1>3. CASE CopySettings
  BY <1>3 DEF CopySettings, Or
<1>4. CASE Unprotect
  <2>1. prot' \in [region : BOOLEAN, lock : BOOLEAN]
    BY <1>4, <1>p DEF Unprotect, Or, Open
  <2>2. pending' \in Settings
    BY <1>4, <1>r DEF Unprotect, Settings
  <2> QED
    BY <1>4, <2>1, <2>2 DEF Unprotect
<1>5. CASE \/ EraseSettings("ssb_erase", "ssb_program")
           \/ EraseSettings("set_erase", "set_program")
  BY <1>5 DEF EraseSettings, Or
<1>6. CASE \/ ProgramSettings("ssb_program", "parked")
           \/ ProgramSettings("set_program", "pass")
  <2>1. record' \in {record, {}, {encode(pending)}} /\ pending \in Settings
    BY <1>6 DEF ProgramSettings, Or
  <2>2. \E s \in Settings : record' \in {{}, {V1Record}, {encode(s)}}
    BY <2>1
  <2> QED
    BY <1>6, <2>2 DEF ProgramSettings
<1>7. CASE BeginPass
  BY <1>7, <1>r DEF BeginPass
<1>8. CASE Probe
  <2>1. PICK i \in SlotContents : line' = {i}
    BY <1>8 DEF Probe, Chunks
  <2>2. ~Bootable(Erased) /\ ~Bootable(Garbage)
    BY DEF Bootable, Erased, Garbage, Unsigned
  <2>3. flash_img' \in {{}} \cup {{e} : e \in Elfs}
    <3>1. flash_img' = {e \in {i} : Bootable(e)}
      BY <1>8, <2>1 DEF Probe
    <3>2. CASE Bootable(i)
      BY <2>1, <2>2, <3>1, <3>2 DEF SlotContents
    <3>3. CASE ~Bootable(i)
      BY <3>1, <3>3
    <3> QED
      BY <3>2, <3>3
  <2> QED
    BY <1>8, <2>1, <2>3 DEF Probe
<1>9. CASE Evict
  BY <1>9 DEF Evict
<1>10. CASE Decide
  <2>1. mode' \in {"Wait", "Countdown", "Instant"}
    BY <1>10 DEF Decide, boot_mode, Dialled
  <2>2. launch' \in [what : {"nothing", "flash", "sd", "usb"},
                    by : {"nobody", "loader", "user", "host"}]
    BY <1>10 DEF Decide, default_entry
  <2>3. sd_listed' \in BOOLEAN /\ auto_boot_allowed' \in BOOLEAN
    BY <1>10 DEF Decide
  <2>4. pc' \in {"load", "lock", "menu"}
    BY <1>10 DEF Decide
  <2> QED
    BY <1>10, <2>1, <2>2, <2>3, <2>4 DEF Decide
<1>11. CASE Expire
  BY <1>11 DEF Expire, default_entry
<1>12. CASE Turn \/ Upload \/ BackToMenu
  <2>1. CASE Turn
    BY <2>1 DEF Turn
  <2>2. CASE Upload
    BY <2>2 DEF Upload
  <2>3. CASE BackToMenu
    BY <2>3, <1>f DEF BackToMenu
  <2> QED
    BY <1>12, <2>1, <2>2, <2>3
<1>13. ASSUME NEW what \in {"flash", "sd"}, ChooseEntry(what) PROVE TypeInv'
  BY <1>13 DEF ChooseEntry
<1>14. ASSUME NEW image \in Elfs, ConfirmStore(image) PROVE TypeInv'
  BY <1>14, <1>f DEF ConfirmStore
<1>15. ASSUME NEW new \in Settings, ChangeSettings(new) PROVE TypeInv'
  <2>1. asked' \in BOOLEAN /\ touched' \in BOOLEAN
    BY <1>15 DEF ChangeSettings, Settings
  <2>2. pending' \in Settings /\ pc' \in {"pass", "set_erase"}
    BY <1>15 DEF ChangeSettings
  <2> QED
    BY <1>15, <1>f, <2>1, <2>2 DEF ChangeSettings
<1>16. CASE CheckImage
  BY <1>16 DEF CheckImage
<1>17. CASE EraseChunk
  <2>1. slot' \in [Chunks -> SlotContents]
    BY <1>17 DEF EraseChunk, Or, SlotContents
  <2>2. at' \in Chunks /\ pc' \in Pcs /\ staged' = staged /\ pc = "erase"
    BY <1>17 DEF EraseChunk, Storing, Chunks
  <2>3. trusted' \in BOOLEAN
    BY <1>17 DEF EraseChunk
  <2> QED
    BY <1>17, <2>1, <2>2, <2>3 DEF EraseChunk
<1>18. CASE ProgramChunk
  <2>1. TheImage \in SlotContents
    BY <1>18 DEF ProgramChunk, TheImage, SlotContents
  <2>2. slot' \in [Chunks -> SlotContents]
    BY <1>18, <2>1 DEF ProgramChunk, Programmed, Or, SlotContents
  <2> QED
    BY <1>18, <2>2 DEF ProgramChunk, Storing, Chunks
<1>19. CASE VerifyImage
  BY <1>19 DEF VerifyImage
<1>20. CASE LoadFromSd
  <2>1. CASE UNCHANGED <<launch, menu>>
    BY <1>20, <2>1 DEF LoadFromSd
  <2>2. CASE launch' = Nothing /\ Forget
    BY <1>20, <2>2, <1>f, <1>n DEF LoadFromSd
  <2> QED
    BY <1>20, <2>1, <2>2 DEF LoadFromSd
<1>21. CASE LockAndLaunch
  <2>1. prot' \in [region : BOOLEAN, lock : BOOLEAN]
    BY <1>21, <1>p DEF LockAndLaunch, Or, Locked
  <2> QED
    BY <1>21, <2>1 DEF LockAndLaunch
<1>22. CASE AppSaves
  BY <1>22 DEF AppSaves
<1>23. CASE PowerCut
  <2>1. slot' \in [Chunks -> SlotContents]
    BY <1>23 DEF PowerCut, SlotContents
  <2>2. prot' \in [region : BOOLEAN, lock : BOOLEAN]
    <3>1. prot.region \in BOOLEAN
      OBVIOUS
    <3>2. \E r \in BOOLEAN : prot' = [region |-> r, lock |-> FALSE]
      BY <1>23, <3>1 DEF PowerCut
    <3> QED
      BY <3>2, <1>p
  <2>3. \E s \in Settings : record' \in {{}, {V1Record}, {encode(s)}}
    BY <1>23 DEF PowerCut
  <2>4. app_settings' \in {"blank", "old", "torn", "new"}
    BY <1>23 DEF PowerCut
  <2>5. trusted' \in BOOLEAN
    BY <1>23 DEF PowerCut
  <2> QED
    BY <1>23, <1>f, <1>n, <2>1, <2>2, <2>3, <2>4, <2>5 DEF PowerCut, Chunks
<1> QED
  BY <1>0, <1>1, <1>2, <1>3, <1>4, <1>5, <1>6, <1>7, <1>8, <1>9, <1>10, <1>11, <1>12,
     <1>13, <1>14, <1>15, <1>16, <1>17, <1>18, <1>19, <1>20, <1>21, <1>22, <1>23
     DEF Next, Loader, User

(* Types are kept, for every set of images, dial and layout.               *)
THEOREM TypeCorrect == Spec => []TypeOK
<1>1. TypeInv => TypeOK
  BY DEF TypeInv
<1> QED
  BY <1>1, TypeInit, TypeStep, PTL DEF Spec

-----------------------------------------------------------------------------
(* The strengthening.                                                      *)

Pass == {"probe", "decide", "menu", "load", "lock", "app"}

(* Within a pass the settings in RAM are those in the flash.               *)
CfgIsCurrent == pc \in Pass => cfg = read

LaunchIsUnderWay ==
  /\ launch # Nothing => pc \in {"load", "lock", "app"}
  /\ launch.what = "flash" => flash_img # {}

Licensed == ~touched /\ ~recovery /\ ~read.dev_mode /\ read.auto_boot.kind # "Never"

(* A boot is decided once, before the user is heard.                       *)
DecidedOnce ==
  /\ pc \in {"off", "start"} => ~touched
  /\ touched \/ pc = "menu" => ~auto_boot_allowed
  /\ pc = "menu" /\ mode # "Wait" => Licensed
  /\ launch.by = "loader" => Licensed

(* Dev mode, wherever it is on, was saved by the user.                     *)
DevModeWasAsked ==
  read.dev_mode \/ pending.dev_mode \/ cfg.dev_mode \/ launch.what = "usb" => asked

(* What is offered can be booted, and is what the slot holds.              *)
Offered ==
  /\ \A i \in flash_img : Bootable(i)
  /\ Probed /\ ~stale => flash_img = {i \in {slot[0]} : Bootable(i)}
  /\ trusted => pc # "program" /\ slot[1] = slot[0]

(* The way of an armed toggle to the parked loader.                        *)
Parking ==
  /\ pc \in {"ssb_erase", "ssb_program", "parked"} /\ sound => prot = Open
  /\ pc \in {"ssb_erase", "ssb_program"} => ~pending.ssb_write_enable
  /\ pc = "ssb_program" /\ sound => record = {}
  /\ pc = "parked" /\ sound => ~read.ssb_write_enable

Inv ==
  /\ TypeInv
  /\ CfgIsCurrent
  /\ LaunchIsUnderWay
  /\ DecidedOnce
  /\ DevModeWasAsked
  /\ Offered
  /\ NoAppOnOpenFlash
  /\ Parking
  /\ pc = "migrating" => app_settings # "new"

LEMMA CfgStep == Inv /\ [Next]_vars => CfgIsCurrent'
<1> SUFFICES ASSUME Inv, [Next]_vars PROVE CfgIsCurrent'
  OBVIOUS
<1> USE DEF Inv, vars, flash, gesture, menu, work, history, Goto, Touch, Select, CfgIsCurrent, Pass, read
<1>0. CASE UNCHANGED vars
  BY <1>0
<1>1. CASE PowerUp \/ PressLoad \/ SampleRecovery
  BY <1>1 DEF PowerUp, PressLoad, SampleRecovery
<1>2. CASE Migrate \/ CopySettings \/ SsbUpdatePass \/ Unprotect
  BY <1>2 DEF Migrate, CopySettings, SsbUpdatePass, Unprotect
<1>3. CASE \/ EraseSettings("ssb_erase", "ssb_program")
           \/ EraseSettings("set_erase", "set_program")
  BY <1>3 DEF EraseSettings
<1>4. CASE \/ ProgramSettings("ssb_program", "parked")
           \/ ProgramSettings("set_program", "pass")
  BY <1>4 DEF ProgramSettings
<1>5. CASE BeginPass \/ Probe \/ Evict
  BY <1>5 DEF BeginPass, Probe, Evict
<1>6. CASE Decide \/ Expire
  BY <1>6 DEF Decide, Expire
<1>7. CASE Turn \/ Upload \/ BackToMenu
  BY <1>7 DEF Turn, Upload, BackToMenu
<1>8. ASSUME NEW what \in {"flash", "sd"}, ChooseEntry(what) PROVE CfgIsCurrent'
  BY <1>8 DEF ChooseEntry
<1>9. ASSUME NEW image \in Elfs, ConfirmStore(image) PROVE CfgIsCurrent'
  BY <1>9 DEF ConfirmStore
<1>10. ASSUME NEW new \in Settings, ChangeSettings(new) PROVE CfgIsCurrent'
  BY <1>10 DEF ChangeSettings
<1>11. CASE CheckImage \/ EraseChunk \/ ProgramChunk \/ VerifyImage
  BY <1>11 DEF CheckImage, EraseChunk, ProgramChunk, VerifyImage, Storing
<1>12. CASE LoadFromSd \/ LockAndLaunch \/ AppSaves
  BY <1>12 DEF LoadFromSd, LockAndLaunch, AppSaves
<1>13. CASE PowerCut
  BY <1>13 DEF PowerCut
<1> QED
  BY <1>0, <1>1, <1>2, <1>3, <1>4, <1>5, <1>6, <1>7, <1>8, <1>9, <1>10, <1>11, <1>12, <1>13
     DEF Next, Loader, User

LEMMA LaunchStep == Inv /\ [Next]_vars => LaunchIsUnderWay'
<1> SUFFICES ASSUME Inv, [Next]_vars PROVE LaunchIsUnderWay'
  OBVIOUS
<1> USE DEF Inv, vars, flash, gesture, menu, work, history, Goto, Touch, Select, LaunchIsUnderWay, Nothing
<1>0. CASE UNCHANGED vars
  BY <1>0
<1>1. CASE PowerUp \/ PressLoad \/ SampleRecovery
  BY <1>1 DEF PowerUp, PressLoad, SampleRecovery
<1>2. CASE Migrate \/ CopySettings \/ SsbUpdatePass \/ Unprotect
  BY <1>2 DEF Migrate, CopySettings, SsbUpdatePass, Unprotect
<1>3. CASE \/ EraseSettings("ssb_erase", "ssb_program")
           \/ EraseSettings("set_erase", "set_program")
  BY <1>3 DEF EraseSettings
<1>4. CASE \/ ProgramSettings("ssb_program", "parked")
           \/ ProgramSettings("set_program", "pass")
  BY <1>4 DEF ProgramSettings
<1>5. CASE BeginPass \/ Probe \/ Evict
  BY <1>5 DEF BeginPass, Probe, Evict
<1>6. CASE Decide \/ Expire
  BY <1>6 DEF Decide, Expire, default_entry
<1>7. CASE Turn \/ Upload \/ BackToMenu
  BY <1>7 DEF Turn, Upload, BackToMenu
<1>8. ASSUME NEW what \in {"flash", "sd"}, ChooseEntry(what) PROVE LaunchIsUnderWay'
  BY <1>8 DEF ChooseEntry
<1>9. ASSUME NEW image \in Elfs, ConfirmStore(image) PROVE LaunchIsUnderWay'
  BY <1>9 DEF ConfirmStore
<1>10. ASSUME NEW new \in Settings, ChangeSettings(new) PROVE LaunchIsUnderWay'
  BY <1>10 DEF ChangeSettings
<1>11. CASE CheckImage \/ EraseChunk \/ ProgramChunk \/ VerifyImage
  BY <1>11 DEF CheckImage, EraseChunk, ProgramChunk, VerifyImage, Storing
<1>12. CASE LoadFromSd \/ LockAndLaunch \/ AppSaves
  BY <1>12 DEF LoadFromSd, LockAndLaunch, AppSaves
<1>13. CASE PowerCut
  BY <1>13 DEF PowerCut
<1> QED
  BY <1>0, <1>1, <1>2, <1>3, <1>4, <1>5, <1>6, <1>7, <1>8, <1>9, <1>10, <1>11, <1>12, <1>13
     DEF Next, Loader, User

LEMMA DecisionStep == Inv /\ [Next]_vars => DecidedOnce'
<1> SUFFICES ASSUME Inv, [Next]_vars PROVE DecidedOnce'
  OBVIOUS
<1> USE DEF Inv, vars, flash, gesture, menu, work, history, Goto, Touch, Select, DecidedOnce, CfgIsCurrent, LaunchIsUnderWay, Licensed, Pass, read, Nothing, Forget
<1>0. CASE UNCHANGED vars
  BY <1>0
<1>1. CASE PowerUp \/ PressLoad \/ SampleRecovery
  BY <1>1 DEF PowerUp, PressLoad, SampleRecovery
<1>2. CASE Migrate \/ CopySettings \/ SsbUpdatePass \/ Unprotect
  BY <1>2 DEF Migrate, CopySettings, SsbUpdatePass, Unprotect
<1>3. CASE \/ EraseSettings("ssb_erase", "ssb_program")
           \/ EraseSettings("set_erase", "set_program")
  BY <1>3 DEF EraseSettings
<1>4. CASE \/ ProgramSettings("ssb_program", "parked")
           \/ ProgramSettings("set_program", "pass")
  BY <1>4 DEF ProgramSettings
<1>5. CASE BeginPass \/ Probe \/ Evict
  BY <1>5 DEF BeginPass, Probe, Evict
<1>6. CASE Decide \/ Expire
  BY <1>6 DEF Decide, Expire, boot_mode, Dialled
<1>7. CASE Turn \/ Upload \/ BackToMenu
  BY <1>7 DEF Turn, Upload, BackToMenu
<1>8. ASSUME NEW what \in {"flash", "sd"}, ChooseEntry(what) PROVE DecidedOnce'
  BY <1>8 DEF ChooseEntry
<1>9. ASSUME NEW image \in Elfs, ConfirmStore(image) PROVE DecidedOnce'
  BY <1>9 DEF ConfirmStore
<1>10. ASSUME NEW new \in Settings, ChangeSettings(new) PROVE DecidedOnce'
  BY <1>10 DEF ChangeSettings
<1>11. CASE CheckImage
  BY <1>11 DEF CheckImage
<1>12. CASE EraseChunk
  BY <1>12 DEF EraseChunk, Storing
<1>13. CASE ProgramChunk
  BY <1>13 DEF ProgramChunk, Storing
<1>14. CASE VerifyImage
  BY <1>14 DEF VerifyImage
<1>15. CASE LoadFromSd \/ LockAndLaunch \/ AppSaves
  BY <1>15 DEF LoadFromSd, LockAndLaunch, AppSaves
<1>16. CASE PowerCut
  BY <1>16 DEF PowerCut
<1> QED
  BY <1>0, <1>1, <1>2, <1>3, <1>4, <1>5, <1>6, <1>7, <1>8, <1>9, <1>10, <1>11, <1>12, <1>13, <1>14, <1>15, <1>16
     DEF Next, Loader, User

LEMMA AskedStep == Inv /\ [Next]_vars => DevModeWasAsked'
<1> SUFFICES ASSUME Inv, [Next]_vars PROVE DevModeWasAsked'
  OBVIOUS
<1> USE DEF Inv, vars, flash, gesture, menu, work, history, Goto, Touch, Select, DevModeWasAsked, CfgIsCurrent, Pass, Nothing, Forget, DefaultSettings, read
<1>0. CASE UNCHANGED vars
  BY <1>0
<1>1. CASE PowerUp \/ PressLoad \/ SampleRecovery
  BY <1>1 DEF PowerUp, PressLoad, SampleRecovery
<1>2. CASE Migrate
  BY <1>2 DEF Migrate
<1>3. CASE CopySettings
  BY <1>3 DEF CopySettings
<1>4. CASE SsbUpdatePass
  BY <1>4 DEF SsbUpdatePass
<1>5. CASE Unprotect
  BY <1>5 DEF Unprotect
<1>6. CASE \/ EraseSettings("ssb_erase", "ssb_program")
           \/ EraseSettings("set_erase", "set_program")
  <2>1. read' = read \/ read' = DefaultSettings
    BY <1>6, OtherRecords DEF EraseSettings, Or
  <2> QED
    BY <1>6, <2>1 DEF EraseSettings
<1>7. CASE \/ ProgramSettings("ssb_program", "parked")
           \/ ProgramSettings("set_program", "pass")
  <2>1. record' \in {record, {}, {encode(pending)}} /\ pending \in Settings
    BY <1>7 DEF ProgramSettings, Or, TypeInv, TypeOK
  <2>2. read' = read \/ read' = DefaultSettings \/ read' = pending
    BY <2>1, OtherRecords, SettingsRoundTrip
  <2> QED
    BY <1>7, <2>2 DEF ProgramSettings
<1>8. CASE BeginPass \/ Probe \/ Evict
  BY <1>8 DEF BeginPass, Probe, Evict
<1>9. CASE Decide \/ Expire
  BY <1>9 DEF Decide, Expire, default_entry
<1>10. CASE Turn \/ Upload \/ BackToMenu
  BY <1>10 DEF Turn, Upload, BackToMenu
<1>11. ASSUME NEW what \in {"flash", "sd"}, ChooseEntry(what) PROVE DevModeWasAsked'
  BY <1>11 DEF ChooseEntry
<1>12. ASSUME NEW image \in Elfs, ConfirmStore(image) PROVE DevModeWasAsked'
  BY <1>12 DEF ConfirmStore
<1>13. ASSUME NEW new \in Settings, ChangeSettings(new) PROVE DevModeWasAsked'
  BY <1>13 DEF ChangeSettings
<1>14. CASE CheckImage \/ EraseChunk \/ ProgramChunk \/ VerifyImage
  BY <1>14 DEF CheckImage, EraseChunk, ProgramChunk, VerifyImage, Storing
<1>15. CASE LoadFromSd \/ LockAndLaunch \/ AppSaves
  BY <1>15 DEF LoadFromSd, LockAndLaunch, AppSaves
<1>16. CASE PowerCut
  <2>1. read' = read \/ read' = DefaultSettings
    BY <1>16, OtherRecords DEF PowerCut
  <2> QED
    BY <1>16, <2>1 DEF PowerCut
<1> QED
  BY <1>0, <1>1, <1>2, <1>3, <1>4, <1>5, <1>6, <1>7, <1>8, <1>9, <1>10, <1>11, <1>12, <1>13, <1>14, <1>15, <1>16
     DEF Next, Loader, User

LEMMA OfferStep == Inv /\ [Next]_vars => Offered'
<1> SUFFICES ASSUME Inv, [Next]_vars PROVE Offered'
  OBVIOUS
<1> USE DEF Inv, vars, flash, gesture, menu, work, history, Goto, Touch, Select, Offered, TypeInv, TypeOK, Probed, Forget
<1>0. CASE UNCHANGED vars
  BY <1>0
<1>1. CASE PowerUp \/ PressLoad \/ SampleRecovery
  BY <1>1 DEF PowerUp, PressLoad, SampleRecovery
<1>2. CASE Migrate \/ CopySettings \/ SsbUpdatePass \/ Unprotect
  BY <1>2 DEF Migrate, CopySettings, SsbUpdatePass, Unprotect
<1>3. CASE \/ EraseSettings("ssb_erase", "ssb_program")
           \/ EraseSettings("set_erase", "set_program")
  BY <1>3 DEF EraseSettings
<1>4. CASE \/ ProgramSettings("ssb_program", "parked")
           \/ ProgramSettings("set_program", "pass")
  BY <1>4 DEF ProgramSettings
<1>5. CASE BeginPass
  BY <1>5 DEF BeginPass
<1>6. CASE Probe
  BY <1>6 DEF Probe
<1>7. CASE Evict
  BY <1>7 DEF Evict
<1>8. CASE Decide \/ Expire
  BY <1>8 DEF Decide, Expire
<1>9. CASE Turn \/ Upload \/ BackToMenu
  BY <1>9 DEF Turn, Upload, BackToMenu
<1>10. ASSUME NEW what \in {"flash", "sd"}, ChooseEntry(what) PROVE Offered'
  BY <1>10 DEF ChooseEntry
<1>11. ASSUME NEW image \in Elfs, ConfirmStore(image) PROVE Offered'
  BY <1>11 DEF ConfirmStore
<1>12. ASSUME NEW new \in Settings, ChangeSettings(new) PROVE Offered'
  BY <1>12 DEF ChangeSettings
<1>13. CASE CheckImage \/ EraseChunk \/ ProgramChunk
  BY <1>13 DEF CheckImage, EraseChunk, ProgramChunk, Storing
<1>14. CASE VerifyImage
  <2>1. trusted' => slot[1] = slot[0]
    BY <1>14 DEF VerifyImage, Chunks
  <2> QED
    BY <1>14, <2>1 DEF VerifyImage
<1>15. CASE LoadFromSd \/ LockAndLaunch \/ AppSaves
  BY <1>15 DEF LoadFromSd, LockAndLaunch, AppSaves
<1>16. CASE PowerCut
  BY <1>16 DEF PowerCut
<1> QED
  BY <1>0, <1>1, <1>2, <1>3, <1>4, <1>5, <1>6, <1>7, <1>8, <1>9, <1>10, <1>11, <1>12, <1>13, <1>14, <1>15, <1>16
     DEF Next, Loader, User

LEMMA LockStep == Inv /\ [Next]_vars => NoAppOnOpenFlash'
<1> SUFFICES ASSUME Inv, [Next]_vars PROVE NoAppOnOpenFlash'
  OBVIOUS
<1> USE DEF Inv, vars, flash, gesture, menu, work, history, Goto, Touch, Select, NoAppOnOpenFlash, Locked, LaunchIsUnderWay, Nothing, Or
<1>0. CASE UNCHANGED vars
  BY <1>0
<1>1. CASE PowerUp \/ PressLoad \/ SampleRecovery
  BY <1>1 DEF PowerUp, PressLoad, SampleRecovery
<1>2. CASE Migrate \/ CopySettings \/ SsbUpdatePass \/ Unprotect
  BY <1>2 DEF Migrate, CopySettings, SsbUpdatePass, Unprotect
<1>3. CASE \/ EraseSettings("ssb_erase", "ssb_program")
           \/ EraseSettings("set_erase", "set_program")
  BY <1>3 DEF EraseSettings
<1>4. CASE \/ ProgramSettings("ssb_program", "parked")
           \/ ProgramSettings("set_program", "pass")
  BY <1>4 DEF ProgramSettings
<1>5. CASE BeginPass \/ Probe \/ Evict
  BY <1>5 DEF BeginPass, Probe, Evict
<1>6. CASE Decide \/ Expire
  BY <1>6 DEF Decide, Expire
<1>7. CASE Turn \/ Upload \/ BackToMenu
  BY <1>7 DEF Turn, Upload, BackToMenu
<1>8. ASSUME NEW what \in {"flash", "sd"}, ChooseEntry(what) PROVE NoAppOnOpenFlash'
  BY <1>8 DEF ChooseEntry
<1>9. ASSUME NEW image \in Elfs, ConfirmStore(image) PROVE NoAppOnOpenFlash'
  BY <1>9 DEF ConfirmStore
<1>10. ASSUME NEW new \in Settings, ChangeSettings(new) PROVE NoAppOnOpenFlash'
  BY <1>10 DEF ChangeSettings
<1>11. CASE CheckImage \/ EraseChunk \/ ProgramChunk \/ VerifyImage
  BY <1>11 DEF CheckImage, EraseChunk, ProgramChunk, VerifyImage, Storing
<1>12. CASE LoadFromSd \/ LockAndLaunch \/ AppSaves
  BY <1>12 DEF LoadFromSd, LockAndLaunch, AppSaves
<1>13. CASE PowerCut
  BY <1>13 DEF PowerCut
<1> QED
  BY <1>0, <1>1, <1>2, <1>3, <1>4, <1>5, <1>6, <1>7, <1>8, <1>9, <1>10, <1>11, <1>12, <1>13
     DEF Next, Loader, User

LEMMA ParkStep == Inv /\ [Next]_vars => Parking'
<1> SUFFICES ASSUME Inv, [Next]_vars PROVE Parking'
  OBVIOUS
<1> USE DEF Inv, vars, flash, gesture, menu, work, history, Goto, Touch, Select, Parking, Open, Or, read
<1>0. CASE UNCHANGED vars
  BY <1>0
<1>1. CASE PowerUp \/ PressLoad \/ SampleRecovery
  BY <1>1 DEF PowerUp, PressLoad, SampleRecovery
<1>2. CASE Migrate
  BY <1>2 DEF Migrate
<1>3. CASE CopySettings
  BY <1>3 DEF CopySettings
<1>4. CASE SsbUpdatePass
  BY <1>4 DEF SsbUpdatePass
<1>5. CASE Unprotect
  BY <1>5 DEF Unprotect
<1>6. CASE \/ EraseSettings("ssb_erase", "ssb_program")
           \/ EraseSettings("set_erase", "set_program")
  BY <1>6 DEF EraseSettings
<1>7. CASE \/ ProgramSettings("ssb_program", "parked")
           \/ ProgramSettings("set_program", "pass")
  <2>1. pending \in Settings
    BY DEF TypeInv, TypeOK
  <2>2. CASE ProgramSettings("set_program", "pass")
    BY <2>2 DEF ProgramSettings
  <2>3. CASE ProgramSettings("ssb_program", "parked") /\ ~sound
    BY <2>3 DEF ProgramSettings
  <2>4. CASE ProgramSettings("ssb_program", "parked") /\ sound
    <3>1. record' = {encode(pending)} /\ ~pending.ssb_write_enable
      BY <2>4 DEF ProgramSettings
    <3>2. read' = pending
      BY <2>1, <3>1, SettingsRoundTrip
    <3> QED
      BY <2>4, <3>1, <3>2 DEF ProgramSettings
  <2> QED
    BY <1>7, <2>2, <2>3, <2>4
<1>8. CASE BeginPass \/ Probe \/ Evict
  BY <1>8 DEF BeginPass, Probe, Evict
<1>9. CASE Decide \/ Expire
  BY <1>9 DEF Decide, Expire
<1>10. CASE Turn \/ Upload \/ BackToMenu
  BY <1>10 DEF Turn, Upload, BackToMenu
<1>11. ASSUME NEW what \in {"flash", "sd"}, ChooseEntry(what) PROVE Parking'
  BY <1>11 DEF ChooseEntry
<1>12. ASSUME NEW image \in Elfs, ConfirmStore(image) PROVE Parking'
  BY <1>12 DEF ConfirmStore
<1>13. ASSUME NEW new \in Settings, ChangeSettings(new) PROVE Parking'
  BY <1>13 DEF ChangeSettings
<1>14. CASE CheckImage \/ EraseChunk \/ ProgramChunk \/ VerifyImage
  BY <1>14 DEF CheckImage, EraseChunk, ProgramChunk, VerifyImage, Storing
<1>15. CASE LoadFromSd \/ LockAndLaunch \/ AppSaves
  BY <1>15 DEF LoadFromSd, LockAndLaunch, AppSaves
<1>16. CASE PowerCut
  BY <1>16 DEF PowerCut
<1> QED
  BY <1>0, <1>1, <1>2, <1>3, <1>4, <1>5, <1>6, <1>7, <1>8, <1>9, <1>10, <1>11, <1>12, <1>13, <1>14, <1>15, <1>16
     DEF Next, Loader, User

LEMMA InitInv == Init => Inv
<1> SUFFICES ASSUME Init PROVE Inv
  OBVIOUS
<1>1. ~read.dev_mode
  <2>1. PICK s \in Settings : record \in {{}, {V1Record}, {encode(s)}} /\ ~s.dev_mode
    <3>1. [DefaultSettings EXCEPT !.auto_boot = Never] \in Settings
      BY OtherRecords DEF Settings, AutoBoot
    <3> QED
      BY <3>1, OtherRecords DEF Init, NeverRecord, DefaultSettings
  <2> QED
    BY <2>1, OtherRecords, SettingsRoundTrip DEF read, DefaultSettings
<1>2. slot[1] = slot[0]
  BY DEF Init, Chunks
<1> QED
  BY <1>1, <1>2, TypeInit DEF Init, Inv, CfgIsCurrent, LaunchIsUnderWay, DecidedOnce,
    DevModeWasAsked, Offered, NoAppOnOpenFlash, Parking, Pass, Probed, Nothing,
    DefaultSettings

LEMMA StepInv == Inv /\ [Next]_vars => Inv'
<1> SUFFICES ASSUME Inv, [Next]_vars PROVE Inv'
  OBVIOUS
<1>1. (pc = "migrating" => app_settings # "new")'
  <2>1. CASE PowerCut
    BY <2>1 DEF PowerCut, Goto
  <2>2. CASE ~PowerCut
    BY <2>2 DEF Inv, Next, Loader, User, vars, flash, Goto, Select, Storing, Migrate,
      deluge_settings_need_migration, PowerUp, PressLoad, SampleRecovery, CopySettings,
      SsbUpdatePass, Unprotect, EraseSettings, ProgramSettings, BeginPass, Probe, Evict,
      Decide, Expire, Turn, Upload, BackToMenu, ChooseEntry, ConfirmStore,
      ChangeSettings, CheckImage, EraseChunk, ProgramChunk, VerifyImage, LoadFromSd,
      LockAndLaunch, AppSaves
  <2> QED
    BY <2>1, <2>2
<1>2. TypeInv'
  BY TypeStep DEF Inv
<1> QED
  BY <1>1, <1>2, CfgStep, LaunchStep, DecisionStep, AskedStep, OfferStep, LockStep, ParkStep
    DEF Inv

-----------------------------------------------------------------------------
(* The loader boots on its own word only where the user's settings license *)
(* it, before the user touched the menu, never under the recovery gesture. *)
THEOREM AutoBootLicensed == Spec => []AutoBootIsLicensed
<1>1. Inv => AutoBootIsLicensed
  BY DEF Inv, DecidedOnce, Licensed, AutoBootIsLicensed
<1> QED
  BY <1>1, InitInv, StepInv, PTL DEF Spec

(* No upload without a user who once saved dev mode, whatever became of    *)
(* the settings sector since.                                              *)
THEOREM UploadsAsked == Spec => []UploadsWereAsked
<1>1. Inv => UploadsWereAsked
  BY DEF Inv, DevModeWasAsked, UploadsWereAsked
<1> QED
  BY <1>1, InitInv, StepInv, PTL DEF Spec

(* Every app of a sound unit starts behind the lock-down.                  *)
THEOREM AppsAreLockedOut == Spec => []NoAppOnOpenFlash
<1>1. Inv => NoAppOnOpenFlash
  BY DEF Inv
<1> QED
  BY <1>1, InitInv, StepInv, PTL DEF Spec

(* A parked loader of a sound unit has opened the boot region, and will    *)
(* not park again.                                                         *)
THEOREM ParkedOnce == Spec => []ParkedIsOpenOnce
<1>1. Inv => ParkedIsOpenOnce
  BY DEF Inv, Parking, ParkedIsOpenOnce
<1> QED
  BY <1>1, InitInv, StepInv, PTL DEF Spec

(* What a pass offers, with no line left over from before the store, is    *)
(* the image of the last verified store.                                   *)
THEOREM OffersStored == Spec => []OffersTheStoredImage
<1>1. Inv => OffersTheStoredImage
  BY DEF Inv, Offered, OffersTheStoredImage, Chunks
<1> QED
  BY <1>1, InitInv, StepInv, PTL DEF Spec

(* A flash launch copies bytes of the slot to SRAM and to nowhere else, in *)
(* every memory layout and whatever the slot holds.                        *)
THEOREM CopyInside == Spec => []CopyStaysInside
<1>1. ASSUME Inv PROVE CopyStaysInside
  <2> SUFFICES ASSUME launch.what = "flash"
               PROVE  \E i \in flash_img :
                        /\ desc(i).filesz \in 1 .. SLOT_LEN
                        /\ desc(i).dst >= SRAM_LOAD_ORIGIN
                        /\ desc(i).dst + desc(i).filesz <= SRAM_END
    BY DEF CopyStaysInside
  <2>1. PICK i \in flash_img : Bootable(i)
    BY <1>1 DEF Inv, LaunchIsUnderWay, Offered
  <2>2. i \in Image
    BY <1>1, ElfsAssumption DEF Inv, TypeInv, TypeOK
  <2>3. /\ i.code_start \in Nat /\ i.code_end \in Nat
    BY <2>2 DEF Image
  <2> QED
    BY <2>1, <2>3, LayoutAssumption DEF Bootable, desc, Span
<1> QED
  BY <1>1, InitInv, StepInv, PTL DEF Spec

(* Every launch was allowed: by the record, or by the owner who saved dev  *)
(* mode.                                                                   *)
THEOREM LaunchesLicensed == Spec => []LaunchesAreLicensed
BY AutoBootLicensed, UploadsAsked, PTL DEF LaunchesAreLicensed

(* On a sound unit an app finds the boot region locked, a parked loader    *)
(* leaves it open.                                                         *)
THEOREM ProtectionFits == Spec => []ProtectionFitsThePlace
BY AppsAreLockedOut, ParkedOnce, PTL DEF ProtectionFitsThePlace

(* What a flash launch copies is what was stored, and stays inside.        *)
THEOREM LaunchIsStored == Spec => []LaunchIsTheStoredImage
BY OffersStored, CopyInside, PTL DEF LaunchIsTheStoredImage

(* The migration never overwrites what the Deluge app saved.               *)
THEOREM NewerStay == Spec => NewerSettingsStay
<1>1. Inv /\ [Next]_vars => [app_settings = "new" => app_settings' = "new"]_vars
  <2> SUFFICES ASSUME Inv, Next, app_settings = "new" PROVE app_settings' = "new"
    OBVIOUS
  <2>1. ~CopySettings /\ pc # "migrating"
    BY DEF Inv, CopySettings
  <2>2. CASE PowerCut
    BY <2>1, <2>2 DEF PowerCut
  <2>3. CASE ~PowerCut
    BY <2>1, <2>3 DEF Next, Loader, User, flash, Migrate, PowerUp, PressLoad, SampleRecovery,
      SsbUpdatePass, Unprotect, EraseSettings, ProgramSettings, BeginPass, Probe, Evict,
      Decide, Expire, Turn, Upload, BackToMenu, ChooseEntry, ConfirmStore,
      ChangeSettings, CheckImage, EraseChunk, ProgramChunk, VerifyImage, LoadFromSd,
      LockAndLaunch, AppSaves
  <2> QED
    BY <2>2, <2>3
<1> QED
  BY <1>1, InitInv, StepInv, PTL DEF Spec, NewerSettingsStay
====
