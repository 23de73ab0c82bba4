-------------------------- MODULE BootChainProofs --------------------------
(***************************************************************************)
(* BootChain for every set of titles, devices, games and slots, with and   *)
(* without crashes and failing writes.                                     *)
(***************************************************************************)
EXTENDS BootChain, TLAPS

USE TitleAssumption, DataAssumption, FaultAssumption

LEMMA ZeroTypes ==
    /\ NoPath \in Path
    /\ ZeroInfo \in BootInfo
    /\ EmptyBootBin \in BootFile
    /\ ZeroConfig \in Config
    /\ EmptyConfig \in ConfigFile
  BY DEF NoPath, Path, ZeroInfo, BootInfo, EmptyBootBin, BootFile, ZeroConfig,
         Config, EmptyConfig, ConfigFile

LEMMA LocationType == \A dev : Location(dev) \in MsDevice
  BY DEF Location

LEMMA ReadConfigType == \A f \in ConfigFile : ReadConfig(f) \in Config
  BY ZeroTypes DEF ReadConfig, ConfigFile

LEMMA ReadBootInfoType == \A f \in BootFile : ReadBootInfo(f) \in BootInfo
  <1> SUFFICES ASSUME NEW f \in BootFile PROVE ReadBootInfo(f) \in BootInfo
    OBVIOUS
  <1>1. f.layout \in {"absent", "empty", "legacy", "current"} /\ f.info \in BootInfo
    BY DEF BootFile
  <1>2. CASE f.layout = "current"
    BY <1>1, <1>2 DEF ReadBootInfo
  <1>3. CASE f.layout = "legacy"
    <2>1. [f.info EXCEPT !.path = NoPath] \in BootInfo
      BY <1>1, ZeroTypes DEF BootInfo
    <2>2. QED BY <1>3, <2>1 DEF ReadBootInfo
  <1>4. CASE f.layout \in {"absent", "empty"}
    BY <1>4, ZeroTypes DEF ReadBootInfo
  <1>5. QED BY <1>1, <1>2, <1>3, <1>4

LEMMA MagicType ==
    \A f \in BootFile, old \in BOOLEAN : MagicAfterRead(f, old) \in BOOLEAN
  BY DEF MagicAfterRead, BootFile, BootInfo

-----------------------------------------------------------------------------
(* Type correctness *)

LEMMA InitType == Init => TypeOK
  <1> SUFFICES ASSUME Init PROVE TypeOK OBVIOUS
  <1>1. InitialBootFile \subseteq BootFile
    BY ZeroTypes DEF InitialBootFile, BootFile, InstalledInfo
  <1>2. InitialConfigFile \subseteq ConfigFile
    BY ZeroTypes DEF InitialConfigFile, ConfigFile
  <1>3. QED
    BY <1>1, <1>2, ZeroTypes DEF Init, TypeOK, Boot, Running

LEMMA NextType == TypeOK /\ [Next]_vars => TypeOK'
  <1> SUFFICES ASSUME TypeOK, [Next]_vars PROVE TypeOK'
    OBVIOUS
  <1> USE DEF TypeOK, Boot, Running, disk, memory, process
  <1>gone. ASSUME Gone, UNCHANGED disk, smagic' \in BOOLEAN, kmagic' \in BOOLEAN
           PROVE TypeOK'
    BY <1>gone, ZeroTypes DEF Gone
  <1>exit. ExitProcess => TypeOK'
    BY <1>gone DEF ExitProcess
  <1>1. ASSUME NEW t \in Title, ShellGetType(t) PROVE TypeOK'
    BY <1>1, MagicType DEF ShellGetType
  <1>2. ASSUME NEW t \in Title, Launch(t) PROVE TypeOK'
    BY <1>2, MagicType DEF Launch, ShellType, LooksLikeBubble
  <1>3. CASE KernelRead
    BY <1>3, MagicType DEF KernelRead, Step
  <1>4. CASE BootconvExit
    BY <1>4, <1>exit DEF BootconvExit
  <1>5. CASE BootconvSkip
    BY <1>5 DEF BootconvSkip, Step
  <1>6. CASE BootconvStart
    <2>1. ConvertedPath \in Path
      BY ReadConfigType DEF ConvertedPath, Config, Path
    <2>2. [ZeroInfo EXCEPT !.magic = TRUE, !.path = ConvertedPath] \in BootInfo
      BY <2>1, ZeroTypes DEF BootInfo
    <2>3. QED BY <1>6, <2>2 DEF BootconvStart, Step
  <1>7. CASE BootconvOpen
    BY <1>7, ZeroTypes DEF BootconvOpen, OpenBootBin, Step
  <1>write. [layout |-> "current", info |-> info] \in BootFile
    BY DEF BootFile
  <1>8. CASE BootconvWrite
    BY <1>8, <1>write DEF BootconvWrite, WriteBootBin, Step
  <1>9. CASE BootconvRemove
    BY <1>9, ZeroTypes DEF BootconvRemove, Step
  <1>10. CASE AbbExit
    BY <1>10, <1>exit DEF AbbExit
  <1>11. CASE AbbHost
    BY <1>11 DEF AbbHost, Step
  <1>info. bootBin[proc].info \in BootInfo
    BY DEF BootFile
  <1>12. CASE AbbRead
    BY <1>12, <1>info DEF AbbRead, Step
  <1>13. CASE AbbUpgrade
    BY <1>13, <1>info DEF AbbUpgrade, Step
  <1>14. CASE AbbUpgradeOpen
    BY <1>14, ZeroTypes DEF AbbUpgradeOpen, OpenBootBin, Step
  <1>15. CASE AbbUpgradeWrite
    BY <1>15, <1>write DEF AbbUpgradeWrite, WriteBootBin, Step
  <1>16. CASE AbbKeepLocation
    BY <1>16 DEF AbbKeepLocation, Step
  <1>17. CASE AbbSetLocation
    <2>1. SelectedConfig \in Config
      BY ReadConfigType DEF SelectedConfig, ConfigFile
    <2>2. [SelectedConfig EXCEPT !.loc = Location(info.path.dev)] \in Config
      BY <2>1, LocationType DEF Config
    <2>3. QED BY <1>17, <2>2 DEF AbbSetLocation, Step
  <1>18. CASE AbbNoContent
    BY <1>18, <1>exit DEF AbbNoContent
  <1>put. ASSUME NEW f \in ConfigFile, NEW custom, PutConfig(custom, f)
          PROVE configBin' \in [Title -> ConfigFile] /\ adrBin' \in ConfigFile
    BY <1>put DEF PutConfig
  <1>full. [layout |-> "full", conf |-> cfg] \in ConfigFile
    BY DEF ConfigFile
  <1>19. CASE AbbOpenConfig
    BY <1>19, <1>put, ZeroTypes DEF AbbOpenConfig, Step
  <1>20. CASE AbbWriteConfig
    BY <1>20, <1>put, <1>full DEF AbbWriteConfig, Step
  <1>21. CASE AbbWriteFails
    BY <1>21, <1>exit DEF AbbWriteFails
  <1>22. CASE UserStart
    <2>1. info' \in BootInfo
      BY <1>22, ZeroTypes, ReadBootInfoType DEF UserStart
    <2>2. cfg' \in Config
      BY <1>22, ReadConfigType DEF UserStart
    <2>3. QED BY <1>22, <2>1, <2>2 DEF UserStart, Step
  <1>23. ASSUME NEW l \in BOOLEAN, NEW r \in BOOLEAN, NEW f \in BOOLEAN,
                WaitSpecialRequest(l, r, f)
         PROVE TypeOK'
    BY <1>23 DEF WaitSpecialRequest
  <1>24. CASE Booter
    <2>1. Exists(Ms0Path) => Ms0Path.file \in File
      BY DEF Exists
    <2>2. program' \in File \cup {NoFile}
      BY <1>24, <2>1 DEF Booter
    <2>3. QED BY <1>24, <2>2 DEF Booter
  <1>25. CASE AutoLoadState
    BY <1>25 DEF AutoLoadState
  <1>26. CASE RestartBooter
    BY <1>26 DEF RestartBooter
  <1>27. ASSUME NEW loc \in MsDevice, NEW rest \in Settings, NEW c \in {0, 1},
                NEW n \in Slot \cup {0}, MenuEdit(loc, rest, c, n)
         PROVE TypeOK'
    <2>1. cfg' \in Config
      BY <1>27 DEF MenuEdit, Config
    <2>2. info' \in BootInfo
      BY <1>27 DEF MenuEdit, BootInfo
    <2>3. QED BY <1>27, <2>1, <2>2 DEF MenuEdit, MenuReachable
  <1>28. CASE MenuResetUnsaved
    <2>1. cfg' \in Config
      BY <1>28, ZeroTypes DEF MenuResetUnsaved
    <2>2. info' \in BootInfo
      BY <1>28 DEF MenuResetUnsaved, BootInfo
    <2>3. QED BY <1>28, <2>1, <2>2 DEF MenuResetUnsaved
  <1>29. CASE SaveConfig
    <2>1. configBin' \in [Title -> ConfigFile] /\ adrBin' \in ConfigFile
      BY <1>29, <1>put, <1>full, ZeroTypes DEF SaveConfig
    <2>2. QED BY <1>29, <2>1 DEF SaveConfig, Saving
  <1>30. CASE SaveBootInfo
    <2>1. bootBin' \in [Title -> BootFile]
      BY <1>30, <1>write, ZeroTypes DEF SaveBootInfo
    <2>2. QED BY <1>30, <2>1 DEF SaveBootInfo, Saving
  <1>31. ASSUME NEW n \in Slot, SaveState(n) \/ DeleteState(n) PROVE TypeOK'
    BY <1>31 DEF SaveState, DeleteState, Config
  <1>32. CASE Kill
    BY <1>32, <1>gone DEF Kill
  <1>33. CASE PowerLoss
    BY <1>33, <1>gone DEF PowerLoss
  <1>34. CASE Quit
    BY <1>34, <1>exit DEF Quit
  <1>35. CASE UNCHANGED vars
    BY <1>35 DEF vars
  <1>36. QED
    BY <1>1, <1>2, <1>3, <1>4, <1>5, <1>6, <1>7, <1>8, <1>9, <1>10, <1>11,
       <1>12, <1>13, <1>14, <1>15, <1>16, <1>17, <1>18, <1>19, <1>20, <1>21,
       <1>22, <1>23, <1>24, <1>25, <1>26, <1>27, <1>28, <1>29, <1>30, <1>31,
       <1>32, <1>33, <1>34, <1>35
       DEF Next, BootStep, MenuStep

\* Every file and every module's copy of it keeps the shape the code gives it,
\* whatever is launched, edited, killed or fails.
THEOREM TypeCorrect == Spec => []TypeOK
  BY InitType, NextType, PTL DEF Spec

-----------------------------------------------------------------------------
(* The memory stick location *)

\* The state selected by record r exists on the device of its game.
StateSelected(r) == r.loadstate # 0 /\ <<Location(r.path.dev), r.loadstate>> \in states

\* The settings a record selects in adrenaline_user.
UserConfig(r) == ReadConfig(IF r.customized # 0 THEN configBin[proc] ELSE adrBin)

\* What adrbubblebooter has in memory is what the file will read as, unless a
\* write failed; then the file names no game.
CopyMatches ==
    pc \in {"settings", "locTrunc", "locWrite"} =>
        LET r == ReadBootInfo(bootBin[proc]) IN r = info \/ r.path.file = NoFile

\* A location is written only for a game that exists, and it is the game's.
LocationChosen ==
    pc \in {"locTrunc", "locWrite"} =>
        /\ proc # Adrenaline
        /\ cfg.loc = Location(info.path.dev)
        /\ Exists(info.path)

\* What adrenaline_user is about to read agrees with the record it will read.
LocationOnDisk ==
    (pc = "user" /\ proc # Adrenaline) =>
        LET r == ReadBootInfo(bootBin[proc])
        IN  r.path.file # NoFile /\ ~StateSelected(r)
              => UserConfig(r).loc = Location(r.path.dev) /\ Exists(r.path)

\* Only bubbles reach the part of adrbubblebooter that writes.
BubbleOnly == pc \in {"upTrunc", "upWrite", "settings"} => proc # Adrenaline

\* While a record is being upgraded, the file does not read as a current one.
UpgradePending ==
    /\ pc = "upTrunc" => bootBin[proc].layout \in {"legacy", "empty"}
    /\ pc = "upWrite" => bootBin[proc].layout = "empty"

LocationInv ==
    /\ TypeOK
    /\ CopyMatches
    /\ LocationChosen
    /\ LocationOnDisk
    /\ BubbleOnly
    /\ UpgradePending
    /\ LocationSetForGame

\* A file that holds no record, and a legacy one, read as no game.
LEMMA ReadsAsNoGame ==
    \A f \in BootFile : f.layout # "current" => ReadBootInfo(f).path.file = NoFile
  <1> SUFFICES ASSUME NEW f \in BootFile, f.layout # "current"
               PROVE ReadBootInfo(f).path.file = NoFile
    OBVIOUS
  <1>1. CASE f.layout = "legacy"
    <2>1. [f.info EXCEPT !.path = NoPath].path = NoPath
      BY DEF BootFile, BootInfo
    <2>2. ReadBootInfo(f) = [f.info EXCEPT !.path = NoPath]
      BY <1>1 DEF ReadBootInfo
    <2>3. NoPath.file = NoFile
      BY DEF NoPath
    <2>4. QED BY <2>1, <2>2, <2>3
  <1>2. CASE f.layout # "legacy"
    BY <1>2 DEF ReadBootInfo, ZeroInfo, NoPath
  <1>3. QED BY <1>1, <1>2

LEMMA ReadsAsWritten ==
    \A f : f.layout = "current" => ReadBootInfo(f) = f.info
  BY DEF ReadBootInfo

LEMMA LocationInit == Init => LocationInv
  BY InitType DEF Init, LocationInv, CopyMatches, LocationChosen, LocationOnDisk,
                  BubbleOnly, UpgradePending, LocationSetForGame

LEMMA LocationNext == LocationInv /\ [Next]_vars => LocationInv'
  <1> SUFFICES ASSUME LocationInv, [Next]_vars PROVE LocationInv'
    OBVIOUS
  <1> USE DEF disk, memory, process, LocationInv, CopyMatches, LocationChosen,
              LocationOnDisk, BubbleOnly, UpgradePending, LocationSetForGame
  <1>t. TypeOK /\ TypeOK'
    BY NextType
  \* Only the steps that enter the writing part of adrbubblebooter or the user
  \* module concern the invariant.
  <1> DEFINE Stages == {"upTrunc", "upWrite", "settings", "locTrunc", "locWrite",
                        "user", "request"}
  <1>out. pc' \notin Stages => LocationInv'
    BY <1>t
  <1>same. UNCHANGED <<disk, process>> => LocationInv'
    BY <1>t DEF HasSelectedState, Exists, StateSelected, UserConfig
  <1>idle. pc' = "idle" => LocationInv'
    BY <1>out
  <1> HIDE DEF Stages
  <1>file. bootBin[proc] \in BootFile /\ proc \in Title /\ info \in BootInfo
    BY <1>t DEF TypeOK
  <1>1. ASSUME NEW t \in Title, ShellGetType(t) PROVE LocationInv'
    BY <1>1, <1>same DEF ShellGetType
  <1>2. ASSUME NEW t \in Title, Launch(t) PROVE LocationInv'
    BY <1>2, <1>out DEF Launch, Stages
  <1>3. CASE KernelRead
    BY <1>3, <1>out DEF KernelRead, Step, Stages
  <1>4. CASE BootconvExit \/ AbbExit \/ AbbNoContent \/ AbbWriteFails \/ Kill \/ PowerLoss \/ Quit
    BY <1>4, <1>idle DEF BootconvExit, AbbExit, AbbNoContent, AbbWriteFails, Kill, PowerLoss,
                         Quit, ExitProcess, Gone
  <1>5. CASE BootconvSkip \/ BootconvStart \/ BootconvRemove
    BY <1>5, <1>out DEF BootconvSkip, BootconvStart, BootconvRemove, Step, Stages
  <1>6. CASE BootconvOpen \/ BootconvWrite
    BY <1>6, <1>out DEF BootconvOpen, BootconvWrite, OpenBootBin, WriteBootBin, Step, Stages
  <1>7. CASE AbbHost
    BY <1>7, <1>t DEF AbbHost, Step
  <1>8. CASE AbbRead
    <2>1. ReadBootInfo(bootBin[proc]) = info' /\ proc' = proc /\ bootBin' = bootBin
      BY <1>8, ReadsAsWritten DEF AbbRead, Step
    <2>2. pc' = "settings" /\ proc # Adrenaline
      BY <1>8 DEF AbbRead, Step
    <2>3. QED BY <2>1, <2>2, <1>t
  <1>9. CASE AbbUpgrade
    BY <1>9, <1>t DEF AbbUpgrade, Step
  <1>10. CASE AbbUpgradeOpen
    <2>1. proc # Adrenaline /\ proc' = proc
      BY <1>10 DEF AbbUpgradeOpen, OpenBootBin, Step
    <2>2. CASE pc' = "upWrite"
      <3>1. bootBin'[proc].layout = "empty"
        BY <1>10, <2>2, <1>file, <1>t
           DEF AbbUpgradeOpen, OpenBootBin, Step, EmptyBootBin, TypeOK
      <3>2. QED BY <2>1, <2>2, <3>1, <1>t
    <2>3. CASE pc' = "settings"
      <3>1. bootBin' = bootBin /\ bootBin[proc].layout \in {"legacy", "empty"}
        BY <1>10, <2>3 DEF AbbUpgradeOpen, OpenBootBin, Step
      <3>2. ReadBootInfo(bootBin[proc]).path.file = NoFile
        BY <3>1, <1>file, ReadsAsNoGame
      <3>3. QED BY <2>1, <2>3, <3>1, <3>2, <1>t
    <2>4. QED
      BY <1>10, <2>2, <2>3 DEF AbbUpgradeOpen, OpenBootBin, Step
  <1>11. CASE AbbUpgradeWrite
    <2>1. proc # Adrenaline /\ proc' = proc /\ pc' = "settings" /\ info' = info
      BY <1>11 DEF AbbUpgradeWrite, WriteBootBin, Step
    <2>2. LET r == ReadBootInfo(bootBin'[proc]) IN r = info \/ r.path.file = NoFile
      <3>1. CASE bootBin' = [bootBin EXCEPT ![proc] = [layout |-> "current", info |-> info]]
        <4>1. bootBin'[proc] = [layout |-> "current", info |-> info]
          BY <3>1, <1>t, <1>file DEF TypeOK
        <4>2. QED BY <4>1, ReadsAsWritten
      <3>2. CASE bootBin' = bootBin
        <4>1. bootBin[proc].layout = "empty"
          BY <1>11 DEF AbbUpgradeWrite, WriteBootBin
        <4>2. QED BY <3>2, <4>1, <1>file, ReadsAsNoGame
      <3>3. QED BY <1>11, <3>1, <3>2 DEF AbbUpgradeWrite, WriteBootBin
    <2>3. QED BY <2>1, <2>2, <1>t
  <1>12. CASE AbbKeepLocation
    <2>1. pc = "settings" /\ pc' = "user" /\ UNCHANGED <<disk, proc, info>> /\ proc # Adrenaline
      BY <1>12 DEF AbbKeepLocation, Step
    <2>2. StateSelected(info)
      BY <1>12 DEF AbbKeepLocation, HasSelectedState, StateSelected
    <2>3. QED BY <2>1, <2>2, <1>t DEF StateSelected, UserConfig, Exists
  <1>13. CASE AbbSetLocation
    <2>1. pc' = "locTrunc" /\ UNCHANGED <<disk, proc, info>> /\ proc # Adrenaline
      BY <1>13 DEF AbbSetLocation, Step
    <2>2. cfg'.loc = Location(info.path.dev) /\ Exists(info.path)
      <3>1. SelectedConfig \in Config
        BY <1>t, ReadConfigType DEF SelectedConfig, ConfigFile, TypeOK
      <3>2. QED BY <1>13, <3>1 DEF AbbSetLocation, Config
    <2>3. QED BY <1>13, <2>1, <2>2, <1>t DEF Exists, AbbSetLocation
  <1>14. CASE AbbOpenConfig
    BY <1>14, <1>t DEF AbbOpenConfig, Step, Exists
  <1>15. CASE AbbWriteConfig
    <2>1. /\ pc = "locWrite" /\ pc' = "user"
          /\ UNCHANGED <<bootBin, content, states, proc, info, cfg>> /\ proc # Adrenaline
      BY <1>15 DEF AbbWriteConfig, Step
    <2>2. UserConfig(info)' = cfg
      <3>1. info.customized \in {0, 1}
        BY <1>file DEF BootInfo
      <3>2. PutConfig(info.customized = 1, [layout |-> "full", conf |-> cfg])
        BY <1>15 DEF AbbWriteConfig
      <3>3. CASE info.customized = 1
        <4>1. configBin'[proc] = [layout |-> "full", conf |-> cfg]
          BY <3>2, <3>3, <1>file, <1>t DEF PutConfig, TypeOK
        <4>2. QED BY <2>1, <3>3, <4>1 DEF UserConfig, ReadConfig
      <3>4. CASE info.customized = 0
        <4>1. adrBin' = [layout |-> "full", conf |-> cfg]
          BY <3>2, <3>4 DEF PutConfig
        <4>2. QED BY <2>1, <3>4, <4>1 DEF UserConfig, ReadConfig
      <3>5. QED BY <3>1, <3>3, <3>4
    <2>3. QED BY <2>1, <2>2, <1>t DEF StateSelected, UserConfig, Exists
  <1>16. CASE UserStart
    <2>1. pc = "user" /\ UNCHANGED <<disk, proc>> /\ pc' \in {"request", "native"}
      BY <1>16 DEF UserStart, Step
    <2>2. CASE proc = Adrenaline
      BY <2>1, <2>2, <1>t
    <2>3. CASE proc # Adrenaline
      <3>1. info' = ReadBootInfo(bootBin[proc]) /\ cfg' = UserConfig(info')
        BY <1>16, <2>3 DEF UserStart, UserConfig
      <3>2. QED BY <2>1, <2>3, <3>1, <1>t DEF HasSelectedState, StateSelected, Exists
    <2>4. QED BY <2>2, <2>3
  <1>17. ASSUME NEW l \in BOOLEAN, NEW r \in BOOLEAN, NEW f \in BOOLEAN,
                WaitSpecialRequest(l, r, f)
         PROVE LocationInv'
    BY <1>17, <1>out DEF WaitSpecialRequest, Stages
  <1>18. CASE Booter \/ AutoLoadState \/ RestartBooter
    BY <1>18, <1>out DEF Booter, AutoLoadState, RestartBooter, Step, Stages
  <1>19. CASE SaveConfig \/ SaveBootInfo
    <2>1. pc' = pc /\ pc \in Running
      BY <1>19, <1>t DEF SaveConfig, SaveBootInfo, Saving, TypeOK
    <2>2. QED BY <2>1, <1>out DEF Running, Stages
  <1>20. ASSUME NEW loc \in MsDevice, NEW rest \in Settings, NEW c \in {0, 1},
                NEW n \in Slot \cup {0}, MenuEdit(loc, rest, c, n)
         PROVE LocationInv'
    BY <1>20, <1>out DEF MenuEdit, MenuReachable, Stages
  <1>21. CASE MenuResetUnsaved
    BY <1>21, <1>out DEF MenuResetUnsaved, MenuReachable, Stages
  <1>22. ASSUME NEW n \in Slot, SaveState(n) \/ DeleteState(n) PROVE LocationInv'
    BY <1>22, <1>out DEF SaveState, DeleteState, MenuReachable, Stages
  <1>23. CASE UNCHANGED vars
    BY <1>23, <1>same DEF vars
  <1>24. QED
    BY <1>1, <1>2, <1>3, <1>4, <1>5, <1>6, <1>7, <1>8, <1>9, <1>10, <1>11,
       <1>12, <1>13, <1>14, <1>15, <1>16, <1>17, <1>18, <1>19, <1>20, <1>21,
       <1>22, <1>23
       DEF Next, BootStep, MenuStep

\* When adrenaline_user takes over in a bubble, the memory stick it selected is
\* the one of the game unless a state to load keeps adrbubblebooter from writing
\* it, also when any of the writes before failed or an earlier launch was cut.
THEOREM LocationCorrect == Spec => []LocationSetForGame
  <1>1. LocationInv => LocationSetForGame
    BY DEF LocationInv
  <1>2. QED BY <1>1, LocationInit, LocationNext, PTL DEF Spec

-----------------------------------------------------------------------------
(* The magic word *)

\* A file without a record holds none of its values.
NoRecordNoInfo ==
    \A t \in Title : bootBin[t].layout \in {"absent", "empty"} => bootBin[t].info = ZeroInfo

\* A left-over magic word gets a title past the kernel only when its boot.bin is
\* empty.
KernelTested ==
    (pc = "abb" /\ proc \notin PspemuNamed)
        => bootBin[proc].layout = "empty" \/ bootBin[proc].info.magic

\* Such a title has no game in adrbubblebooter.
RecordTested ==
    (pc \in {"upTrunc", "upWrite", "settings"} /\ proc \notin PspemuNamed)
        => info.magic \/ info.path.file = NoFile

MagicInv ==
    /\ TypeOK
    /\ NoRecordNoInfo
    /\ KernelTested
    /\ RecordTested
    /\ SettingsWrittenForBubbles

LEMMA MagicInit == Init => MagicInv
  <1> SUFFICES ASSUME Init PROVE MagicInv
    OBVIOUS
  <1>1. \A f \in InitialBootFile : f.layout \in {"absent", "empty"} => f.info = ZeroInfo
    BY DEF InitialBootFile
  <1>2. NoRecordNoInfo
    BY <1>1 DEF NoRecordNoInfo, Init
  <1>3. QED
    BY <1>2, InitType DEF Init, MagicInv, KernelTested, RecordTested, SettingsWrittenForBubbles

LEMMA MagicNext == MagicInv /\ [Next]_vars => MagicInv'
  <1> SUFFICES ASSUME MagicInv, [Next]_vars PROVE MagicInv'
    OBVIOUS
  <1> USE DEF disk, memory, process, MagicInv
  <1>t. TypeOK /\ TypeOK' /\ bootBin \in [Title -> BootFile] /\ proc \in Title
    BY NextType DEF TypeOK
  <1> DEFINE Stages == {"abb", "upTrunc", "upWrite", "settings", "locTrunc", "locWrite"}
  \* The steps that leave every boot.bin alone, or put a complete or an empty one.
  <1>keep. bootBin' = bootBin => NoRecordNoInfo'
    BY DEF NoRecordNoInfo
  <1>put. ASSUME NEW f, bootBin' = [bootBin EXCEPT ![proc] = f],
                 f = EmptyBootBin \/ f.layout = "current"
          PROVE NoRecordNoInfo'
    <2>1. SUFFICES ASSUME NEW t \in Title, bootBin'[t].layout \in {"absent", "empty"}
                   PROVE bootBin'[t].info = ZeroInfo
      BY DEF NoRecordNoInfo
    <2>2. CASE t = proc
      BY <1>put, <1>t, <2>1, <2>2 DEF EmptyBootBin
    <2>3. CASE t # proc
      BY <1>put, <1>t, <2>1, <2>3 DEF NoRecordNoInfo
    <2>4. QED BY <2>2, <2>3
  <1>out. pc' \notin Stages /\ NoRecordNoInfo' => MagicInv'
    BY <1>t DEF KernelTested, RecordTested, SettingsWrittenForBubbles
  <1>same. UNCHANGED <<disk, process>> => MagicInv'
    BY <1>t, <1>keep DEF KernelTested, RecordTested, SettingsWrittenForBubbles
  <1>1. ASSUME NEW t \in Title, ShellGetType(t) PROVE MagicInv'
    BY <1>1, <1>same DEF ShellGetType
  <1>2. ASSUME NEW t \in Title, Launch(t) PROVE MagicInv'
    BY <1>2, <1>out, <1>keep DEF Launch
  <1>3. CASE KernelRead
    <2>1. pc' = "abb" /\ proc \notin PspemuNamed
             => bootBin[proc].layout = "empty" \/ bootBin[proc].info.magic
      BY <1>3, <1>t DEF KernelRead, Step, LooksLikeBubble, MagicAfterRead, BootFile
    <2>2. bootBin' = bootBin /\ proc' = proc /\ pc' \in {"abb", "native"}
      BY <1>3 DEF KernelRead, Step
    <2>3. QED
      BY <2>1, <2>2, <1>keep, <1>t DEF KernelTested, RecordTested, SettingsWrittenForBubbles
  <1>4. CASE BootconvExit \/ AbbExit \/ AbbNoContent \/ AbbWriteFails \/ Kill \/ PowerLoss \/ Quit
    BY <1>4, <1>out, <1>keep DEF BootconvExit, AbbExit, AbbNoContent, AbbWriteFails, Kill,
                                 PowerLoss, Quit, ExitProcess, Gone
  <1>5. CASE BootconvSkip \/ BootconvStart \/ BootconvRemove
    BY <1>5, <1>out, <1>keep DEF BootconvSkip, BootconvStart, BootconvRemove, Step
  <1>6. CASE BootconvOpen \/ BootconvWrite
    <2>1. NoRecordNoInfo'
      BY <1>6, <1>keep, <1>put DEF BootconvOpen, BootconvWrite, OpenBootBin, WriteBootBin
    <2>2. pc' \in {"convWrite", "convRemove"}
      BY <1>6 DEF BootconvOpen, BootconvWrite, OpenBootBin, WriteBootBin, Step
    <2>3. QED BY <2>1, <2>2, <1>out
  <1>7. CASE AbbHost
    BY <1>7, <1>out, <1>keep DEF AbbHost, Step
  <1>8. CASE AbbRead \/ AbbUpgrade
    <2>1. /\ pc = "abb" /\ pc' \in {"settings", "upTrunc"}
          /\ bootBin' = bootBin /\ proc' = proc /\ info' = bootBin[proc].info
      BY <1>8 DEF AbbRead, AbbUpgrade, Step
    <2>2. bootBin[proc].layout = "empty" => bootBin[proc].info.path.file = NoFile
      BY <1>t DEF NoRecordNoInfo, ZeroInfo, NoPath
    <2>3. QED
      BY <2>1, <2>2, <1>keep, <1>t DEF KernelTested, RecordTested, SettingsWrittenForBubbles
  <1>9. CASE AbbUpgradeOpen \/ AbbUpgradeWrite
    <2>1. NoRecordNoInfo'
      BY <1>9, <1>keep, <1>put DEF AbbUpgradeOpen, AbbUpgradeWrite, OpenBootBin, WriteBootBin
    <2>2. /\ pc \in {"upTrunc", "upWrite"} /\ pc' \in {"upWrite", "settings"}
          /\ proc' = proc /\ info' = info
      BY <1>9 DEF AbbUpgradeOpen, AbbUpgradeWrite, OpenBootBin, WriteBootBin, Step
    <2>3. QED BY <2>1, <2>2, <1>t DEF KernelTested, RecordTested, SettingsWrittenForBubbles
  <1>10. CASE AbbKeepLocation
    BY <1>10, <1>out, <1>keep DEF AbbKeepLocation, Step
  <1>11. CASE AbbSetLocation
    <2>1. /\ pc = "settings" /\ pc' = "locTrunc"
          /\ bootBin' = bootBin /\ proc' = proc /\ info' = info
      BY <1>11 DEF AbbSetLocation, Step
    <2>2. info.path.file # NoFile
      BY <1>11, <1>t DEF AbbSetLocation, Exists, TypeOK
    <2>3. QED
      BY <2>1, <2>2, <1>keep, <1>t DEF KernelTested, RecordTested, SettingsWrittenForBubbles
  <1>12. CASE AbbOpenConfig
    BY <1>12, <1>keep, <1>t
       DEF AbbOpenConfig, Step, KernelTested, RecordTested, SettingsWrittenForBubbles
  <1>13. CASE AbbWriteConfig \/ UserStart
    BY <1>13, <1>out, <1>keep DEF AbbWriteConfig, UserStart, Step
  <1>14. ASSUME NEW l \in BOOLEAN, NEW r \in BOOLEAN, NEW f \in BOOLEAN,
                WaitSpecialRequest(l, r, f)
         PROVE MagicInv'
    BY <1>14, <1>out, <1>keep DEF WaitSpecialRequest
  <1>15. CASE Booter \/ AutoLoadState \/ RestartBooter
    BY <1>15, <1>out, <1>keep DEF Booter, AutoLoadState, RestartBooter, Step
  <1>16. ASSUME NEW loc \in MsDevice, NEW rest \in Settings, NEW c \in {0, 1},
                NEW n \in Slot \cup {0}, MenuEdit(loc, rest, c, n)
         PROVE MagicInv'
    BY <1>16, <1>out, <1>keep DEF MenuEdit, MenuReachable
  <1>17. CASE MenuResetUnsaved
    BY <1>17, <1>out, <1>keep DEF MenuResetUnsaved, MenuReachable
  <1>18. CASE SaveConfig \/ SaveBootInfo
    <2>1. pc' = pc /\ pc \in Running
      BY <1>18, <1>t DEF SaveConfig, SaveBootInfo, Saving, TypeOK
    <2>2. NoRecordNoInfo'
      BY <1>18, <1>keep, <1>put DEF SaveConfig, SaveBootInfo
    <2>3. QED BY <2>1, <2>2, <1>out DEF Running
  <1>19. ASSUME NEW n \in Slot, SaveState(n) \/ DeleteState(n) PROVE MagicInv'
    BY <1>19, <1>out, <1>keep DEF SaveState, DeleteState, MenuReachable
  <1>20. CASE UNCHANGED vars
    BY <1>20, <1>same DEF vars
  <1>21. QED
    BY <1>1, <1>2, <1>3, <1>4, <1>5, <1>6, <1>7, <1>8, <1>9, <1>10, <1>11,
       <1>12, <1>13, <1>14, <1>15, <1>16, <1>17, <1>18, <1>19, <1>20
       DEF Next, BootStep, MenuStep

\* Whatever the kernel and shell modules remember of other titles, and however
\* often the application is killed between truncating and writing boot.bin,
\* adrbubblebooter rewrites settings only for a title whose own record is ABB.
THEOREM MagicCorrect == Spec => []SettingsWrittenForBubbles
  <1>1. MagicInv => SettingsWrittenForBubbles
    BY DEF MagicInv
  <1>2. QED BY <1>1, MagicInit, MagicNext, PTL DEF Spec

-----------------------------------------------------------------------------
(* The removal of boot.inf *)

\* When every write succeeds, the record is complete when bootconv comes to the
\* removal, and is still being written before.
Converted == pc = "convRemove" => bootBin[proc].layout = "current"

\* With writes that succeed, no crash at any point makes bootconv remove the
\* boot.inf of a bubble that has no complete boot.bin.
THEOREM RemovalCorrect == ASSUME ~WriteFaults PROVE Spec => RemovedOnlyAfterWrite
  <1> USE DEF disk, memory, process
  <1>1. Init => Converted
    BY DEF Init, Converted
  <1>2. TypeOK /\ Converted /\ [Next]_vars => Converted'
    <2> SUFFICES ASSUME TypeOK, Converted, [Next]_vars PROVE Converted'
      OBVIOUS
    <2>1. CASE BootconvWrite
      BY <2>1 DEF BootconvWrite, WriteBootBin, Step, Converted, TypeOK
    <2>2. CASE pc' # "convRemove"
      BY <2>2 DEF Converted
    <2>3. CASE pc' = "convRemove" /\ UNCHANGED <<disk, process>>
      BY <2>3 DEF Converted
    <2>4. pc' = "convRemove" => BootconvWrite \/ UNCHANGED <<disk, process>>
      BY DEF Next, BootStep, MenuStep, vars, Step, TypeOK, Running, MenuReachable, Saving, Gone,
             ExitProcess, ShellGetType, Launch, KernelRead, BootconvExit, BootconvSkip,
             BootconvStart, BootconvOpen, OpenBootBin, WriteBootBin, BootconvRemove, AbbExit,
             AbbHost, AbbRead, AbbUpgrade, AbbUpgradeOpen, AbbUpgradeWrite, AbbKeepLocation,
             AbbSetLocation, AbbNoContent, AbbOpenConfig, AbbWriteConfig, AbbWriteFails,
             UserStart, WaitSpecialRequest, AutoLoadState, Booter, RestartBooter, MenuEdit,
             MenuResetUnsaved, SaveConfig, SaveBootInfo, SaveState, DeleteState, Kill,
             PowerLoss, Quit
    <2>5. QED BY <2>1, <2>2, <2>3, <2>4
  <1>3. TypeOK /\ Converted /\ [Next]_vars
          => [\A t \in Title : bootInf[t] # NoFile /\ bootInf'[t] = NoFile
                                   => bootBin[t].layout = "current"]_vars
    <2> SUFFICES ASSUME TypeOK, Converted, Next, NEW t \in Title,
                        bootInf[t] # NoFile, bootInf'[t] = NoFile
                 PROVE bootBin[t].layout = "current"
      OBVIOUS
    <2>1. BootconvRemove
      BY DEF Next, BootStep, MenuStep, Gone, ExitProcess, ShellGetType, Launch, KernelRead,
             BootconvExit, BootconvSkip, BootconvStart, BootconvOpen, BootconvWrite,
             OpenBootBin, WriteBootBin, AbbExit, AbbHost, AbbRead, AbbUpgrade, AbbUpgradeOpen,
             AbbUpgradeWrite, AbbKeepLocation, AbbSetLocation, AbbNoContent, AbbOpenConfig,
             AbbWriteConfig, AbbWriteFails, UserStart, WaitSpecialRequest, AutoLoadState,
             Booter, RestartBooter, MenuEdit, MenuResetUnsaved, SaveConfig, SaveBootInfo,
             SaveState, DeleteState, Kill, PowerLoss, Quit
    <2>2. t = proc /\ pc = "convRemove"
      BY <2>1 DEF BootconvRemove, TypeOK
    <2>3. QED BY <2>2 DEF Converted
  <1>4. QED
    BY <1>1, <1>2, <1>3, TypeCorrect, PTL DEF Spec, RemovedOnlyAfterWrite

-----------------------------------------------------------------------------
(* The settings *)

\* What adrbubblebooter is about to write holds the settings of the file that it
\* replaces, and an emptied per-bubble file waits for them.
SettingsCopied ==
    /\ pc = "locTrunc" => cfg.rest = SelectedConfig.rest
    /\ pc = "locWrite" /\ info.customized = 1 => configBin[proc].layout = "empty"

LEMMA SettingsStep ==
    ASSUME TypeOK, Next
    PROVE  \/ AbbSetLocation \/ AbbOpenConfig \/ AbbWriteConfig
           \/ UNCHANGED <<disk, process>>
           \/ pc \notin Boot
           \/ pc' = "idle"
           \/ UNCHANGED <<configBin, adrBin>> /\ pc # "locWrite" /\ pc' \notin {"locTrunc", "locWrite"}
  <1> DEFINE Reads ==
        UNCHANGED <<configBin, adrBin>> /\ pc # "locWrite" /\ pc' \notin {"locTrunc", "locWrite"}
  <1> USE DEF disk, process, Step
  <1>1. BootStep => AbbSetLocation \/ AbbOpenConfig \/ AbbWriteConfig \/ pc' = "idle" \/ Reads
    <2>1. CASE KernelRead \/ BootconvSkip \/ BootconvStart \/ BootconvRemove
      BY <2>1 DEF KernelRead, BootconvSkip, BootconvStart, BootconvRemove
    <2>2. CASE BootconvOpen \/ BootconvWrite \/ AbbUpgradeOpen \/ AbbUpgradeWrite
      BY <2>2 DEF BootconvOpen, BootconvWrite, AbbUpgradeOpen, AbbUpgradeWrite, OpenBootBin,
                  WriteBootBin
    <2>3. CASE BootconvExit \/ AbbExit \/ AbbNoContent \/ AbbWriteFails
      BY <2>3 DEF BootconvExit, AbbExit, AbbNoContent, AbbWriteFails, ExitProcess, Gone
    <2>4. CASE AbbHost \/ AbbRead \/ AbbUpgrade \/ AbbKeepLocation
      BY <2>4 DEF AbbHost, AbbRead, AbbUpgrade, AbbKeepLocation
    <2>5. CASE UserStart \/ Booter
      BY <2>5 DEF UserStart, Booter
    <2>6. ASSUME NEW l \in BOOLEAN, NEW r \in BOOLEAN, NEW f \in BOOLEAN,
                 WaitSpecialRequest(l, r, f)
          PROVE  Reads
      BY <2>6 DEF WaitSpecialRequest
    <2>7. QED BY <2>1, <2>2, <2>3, <2>4, <2>5, <2>6 DEF BootStep
  <1>2. MenuStep \/ AutoLoadState => pc \notin Boot
    BY DEF MenuStep, AutoLoadState, RestartBooter, MenuEdit, MenuResetUnsaved, SaveConfig,
           SaveBootInfo, SaveState, DeleteState, MenuReachable, TypeOK, Boot, Running
  <1>3. ASSUME NEW t \in Title, ShellGetType(t) \/ Launch(t)
        PROVE  UNCHANGED <<disk, process>> \/ pc \notin Boot
    BY <1>3 DEF ShellGetType, Launch, Boot
  <1>4. Kill \/ PowerLoss \/ Quit => pc' = "idle"
    BY DEF Kill, PowerLoss, Quit, ExitProcess, Gone
  <1>5. QED BY <1>1, <1>2, <1>3, <1>4 DEF Next

LEMMA OutsideBoot ==
    ASSUME TypeOK, Next, pc \notin Boot
    PROVE  pc' \notin {"locTrunc", "locWrite"}
  BY DEF Next, BootStep, MenuStep, Step, TypeOK, Boot, Running, MenuReachable, Saving, Gone,
         ExitProcess, ShellGetType, Launch, KernelRead, BootconvExit, BootconvSkip,
         BootconvStart, BootconvOpen, BootconvWrite, OpenBootBin, WriteBootBin, BootconvRemove,
         AbbExit, AbbHost, AbbRead, AbbUpgrade, AbbUpgradeOpen, AbbUpgradeWrite,
         AbbKeepLocation, AbbSetLocation, AbbNoContent, AbbOpenConfig, AbbWriteConfig,
         AbbWriteFails, UserStart, WaitSpecialRequest, AutoLoadState, Booter, RestartBooter,
         MenuEdit, MenuResetUnsaved, SaveConfig, SaveBootInfo, SaveState, DeleteState, Kill,
         PowerLoss, Quit, disk, process

\* The record in adrbubblebooter selects one of the two files to be rewritten.
LEMMA PutSelected ==
    ASSUME TypeOK, NEW f, PutConfig(info.customized = 1, f)
    PROVE  /\ info.customized = 1 =>
                configBin' = [configBin EXCEPT ![proc] = f] /\ adrBin' = adrBin
           /\ info.customized # 1 => adrBin' = f /\ configBin' = configBin
  BY DEF PutConfig

LEMMA SettingsNext == TypeOK /\ SettingsCopied /\ [Next]_vars => SettingsCopied'
  <1> SUFFICES ASSUME TypeOK, SettingsCopied, [Next]_vars PROVE SettingsCopied'
    OBVIOUS
  <1>1. CASE AbbSetLocation
    <2>1. /\ pc' = "locTrunc" /\ UNCHANGED <<configBin, adrBin, proc, info>>
          /\ cfg' = [SelectedConfig EXCEPT !.loc = Location(info.path.dev)]
      BY <1>1 DEF AbbSetLocation, Step, disk
    <2>2. SelectedConfig \in Config
      BY ReadConfigType DEF SelectedConfig, ConfigFile, TypeOK
    <2>3. cfg'.rest = SelectedConfig.rest
      BY <2>1, <2>2 DEF Config
    <2>4. SelectedConfig' = SelectedConfig
      BY <2>1 DEF SelectedConfig
    <2>5. QED BY <2>1, <2>3, <2>4 DEF SettingsCopied
  <1>2. CASE AbbOpenConfig
    <2>1. pc' = "locWrite" /\ info' = info /\ proc' = proc
      BY <1>2 DEF AbbOpenConfig, Step
    <2>2. info.customized = 1 => configBin' = [configBin EXCEPT ![proc] = EmptyConfig]
      BY <1>2, PutSelected DEF AbbOpenConfig
    <2>3. QED BY <2>1, <2>2 DEF SettingsCopied, TypeOK, EmptyConfig
  <1>3. CASE AbbWriteConfig
    BY <1>3 DEF AbbWriteConfig, Step, SettingsCopied
  <1>4. CASE UNCHANGED <<disk, process>>
    BY <1>4 DEF SettingsCopied, SelectedConfig, disk, process
  <1>5. CASE pc' \notin {"locTrunc", "locWrite"}
    BY <1>5 DEF SettingsCopied
  <1>6. CASE UNCHANGED vars
    BY <1>4, <1>6 DEF vars
  <1>7. QED BY <1>1, <1>2, <1>3, <1>4, <1>5, <1>6, SettingsStep, OutsideBoot

\* A launch changes nothing in the settings but the location, whichever of the
\* two files it rewrites and however many launches before it were cut: what it
\* writes was read from the file that it replaces.
THEOREM SettingsCorrect == Spec => SettingsKept
  <1> DEFINE Kept ==
        (pc \in Boot /\ pc' # "idle") =>
           /\ GlobalSettings' = GlobalSettings
           /\ \A t \in Title : HasOwnSettings(t) =>
                  HasOwnSettings(t)' /\ OwnSettings(t)' = OwnSettings(t)
  <1>1. Init => SettingsCopied
    BY DEF Init, SettingsCopied
  <1>2. TypeOK /\ SettingsCopied /\ [Next]_vars => [Kept]_vars
    <2> SUFFICES ASSUME TypeOK, SettingsCopied, Next, pc \in Boot, pc' # "idle"
                 PROVE  /\ GlobalSettings' = GlobalSettings
                        /\ \A t \in Title : HasOwnSettings(t) =>
                               HasOwnSettings(t)' /\ OwnSettings(t)' = OwnSettings(t)
      OBVIOUS
    <2> USE DEF GlobalSettings, HasOwnSettings, OwnSettings
    <2>1. CASE UNCHANGED <<configBin, adrBin>> /\ pc # "locWrite" /\ pc' # "locWrite"
      BY <2>1
    <2>2. CASE UNCHANGED <<disk, process>>
      BY <2>2 DEF disk, process
    <2>3. CASE AbbSetLocation
      BY <2>1, <2>3 DEF AbbSetLocation, Step, disk
    <2>4. CASE AbbOpenConfig
      <3>1. /\ pc = "locTrunc" /\ pc' = "locWrite" /\ UNCHANGED <<proc, info, cfg>>
            /\ PutConfig(info.customized = 1, EmptyConfig)
        BY <2>4 DEF AbbOpenConfig, Step
      <3>2. CASE info.customized = 1
        <4>1. configBin' = [configBin EXCEPT ![proc] = EmptyConfig] /\ adrBin' = adrBin
          BY <3>1, <3>2, PutSelected
        <4>2. configBin[proc].layout = "full" => cfg.rest = configBin[proc].conf.rest
          BY <3>1, <3>2 DEF SettingsCopied, SelectedConfig
        <4>3. \A t \in Title : t # proc => configBin'[t] = configBin[t]
          BY <4>1 DEF TypeOK
        <4>4. configBin'[proc].layout = "empty"
          BY <4>1 DEF TypeOK, EmptyConfig
        <4>5. GlobalSettings' = GlobalSettings
          BY <3>1, <3>2, <4>1
        <4>6. ASSUME NEW t \in Title, HasOwnSettings(t)
              PROVE  HasOwnSettings(t)' /\ OwnSettings(t)' = OwnSettings(t)
          <5>1. configBin[t].layout = "full"
            BY <3>1, <4>6
          <5>2. CASE t = proc
            BY <3>1, <3>2, <4>2, <4>4, <5>1, <5>2
          <5>3. CASE t # proc
            BY <4>3, <5>1, <5>3
          <5>4. QED BY <5>2, <5>3
        <4>7. QED BY <4>5, <4>6
      <3>3. CASE info.customized # 1
        <4>1. adrBin' = EmptyConfig /\ configBin' = configBin
          BY <3>1, <3>3, PutSelected
        <4>2. cfg.rest = ReadConfig(adrBin).rest
          BY <3>1, <3>3 DEF SettingsCopied, SelectedConfig
        <4>3. info.customized = 0
          BY <3>3 DEF TypeOK, BootInfo
        <4>4. QED BY <3>1, <4>1, <4>2, <4>3
      <3>4. QED BY <3>2, <3>3
    <2>5. CASE AbbWriteConfig
      <3> DEFINE f == [layout |-> "full", conf |-> cfg]
      <3>1. /\ pc = "locWrite" /\ pc' = "user" /\ UNCHANGED <<proc, info, cfg>>
            /\ PutConfig(info.customized = 1, f)
        BY <2>5 DEF AbbWriteConfig, Step
      <3>2. CASE info.customized = 1
        <4>1. configBin' = [configBin EXCEPT ![proc] = f] /\ adrBin' = adrBin
          BY <3>1, <3>2, PutSelected
        <4>2. configBin[proc].layout = "empty"
          BY <3>1, <3>2 DEF SettingsCopied
        <4>3. \A t \in Title : t # proc => configBin'[t] = configBin[t]
          BY <4>1 DEF TypeOK
        <4>4. configBin'[proc].layout = "full" /\ configBin'[proc].conf = cfg
          BY <4>1 DEF TypeOK
        <4>5. GlobalSettings' = GlobalSettings
          BY <3>1, <3>2, <4>1
        <4>6. ASSUME NEW t \in Title, HasOwnSettings(t)
              PROVE  HasOwnSettings(t)' /\ OwnSettings(t)' = OwnSettings(t)
          <5>1. CASE t = proc
            BY <3>1, <4>2, <4>4, <5>1
          <5>2. CASE t # proc
            BY <4>3, <4>6, <5>2
          <5>3. QED BY <5>1, <5>2
        <4>7. QED BY <4>5, <4>6
      <3>3. CASE info.customized # 1
        <4>1. adrBin' = f /\ configBin' = configBin
          BY <3>1, <3>3, PutSelected
        <4>2. ReadConfig(adrBin') = cfg
          BY <4>1 DEF ReadConfig
        <4>3. info.customized = 0
          BY <3>3 DEF TypeOK, BootInfo
        <4>4. GlobalSettings' = GlobalSettings
          BY <3>1, <4>2, <4>3
        <4>5. QED BY <3>1, <4>1, <4>3, <4>4
      <3>4. QED BY <3>2, <3>3
    <2>6. QED BY <2>1, <2>2, <2>3, <2>4, <2>5, SettingsStep
  <1>3. QED
    BY <1>1, <1>2, SettingsNext, TypeCorrect, PTL DEF Spec, SettingsKept

-----------------------------------------------------------------------------
(* The game of a bubble *)

\* boot.bin is empty only between the two halves of a write.
EmptyWhileWritten ==
    \A t \in Title : bootBin[t].layout = "empty"
        => t = proc /\ (pc \in {"convWrite", "upWrite"} \/ save = "bootWrite")

\* A title has one record, except while bootconv turns one into the other.
OneRecord ==
    \A t \in Title : bootInf[t] # NoFile /\ bootBin[t].layout # "absent"
        => t = proc /\ pc \in {"convWrite", "convRemove"}

\* A process holds no game of a title without a record, nor before it starts.
NoStrayGame ==
    /\ pc = "idle" => info = ZeroInfo
    /\ bootBin[proc].layout = "absent" /\ bootInf[proc] = NoFile => info.path.file = NoFile

\* bootconv holds the game of boot.inf until boot.bin names it.
GameConverted ==
    /\ pc \in {"bootconv", "convTrunc", "convWrite"} => bootInf[proc] # NoFile
    /\ pc \in {"convTrunc", "convWrite"} => info.path.file = bootInf[proc]
    /\ pc = "convTrunc" => bootBin[proc].layout = "absent"
    /\ pc = "convWrite" => bootBin[proc].layout = "empty"
    /\ pc = "convRemove" => bootBin[proc].layout = "current"

\* adrbubblebooter holds the game of the record that it upgrades.
GameUpgraded ==
    /\ pc = "upTrunc" => bootBin[proc].layout # "absent" /\ info = bootBin[proc].info
    /\ pc = "upWrite" => bootBin[proc].layout = "empty"
    /\ pc \in {"settings", "locTrunc", "locWrite"} => bootBin[proc].layout = "current"
    /\ pc = "user" /\ proc # Adrenaline => bootBin[proc].layout = "current"

\* adrenaline_user holds the game of the record that it saves.
GameSaved ==
    /\ pc \in {"request"} \cup Running /\ proc # Adrenaline
          => IF save = "bootWrite" THEN bootBin[proc].layout = "empty"
             ELSE bootBin[proc].layout = "current" /\ info.path = bootBin[proc].info.path
    /\ save \in {"bootTrunc", "bootWrite"} => proc # Adrenaline

GameInv ==
    /\ TypeOK
    /\ EmptyWhileWritten
    /\ OneRecord
    /\ NoStrayGame
    /\ GameConverted
    /\ GameUpgraded
    /\ GameSaved

LEMMA GameInit == Init => GameInv
  <1> SUFFICES ASSUME Init PROVE GameInv
    OBVIOUS
  <1>1. \A t \in Title : bootBin[t].layout # "empty"
    BY DEF Init, Installed
  <1>2. EmptyWhileWritten
    BY <1>1 DEF EmptyWhileWritten
  <1>3. OneRecord
    BY DEF Init, Installed, OneRecord
  <1>4. NoStrayGame
    BY DEF Init, NoStrayGame, ZeroInfo, NoPath
  <1>5. GameConverted /\ GameUpgraded /\ GameSaved
    BY DEF Init, GameConverted, GameUpgraded, GameSaved, Running
  <1>6. QED BY <1>2, <1>3, <1>4, <1>5, InitType DEF GameInv

\* A write to boot.bin of the process's title.
LEMMA PutBootBin ==
    ASSUME TypeOK, NEW f, bootBin' = [bootBin EXCEPT ![proc] = f]
    PROVE  bootBin'[proc] = f /\ \A t \in Title : t # proc => bootBin'[t] = bootBin[t]
  BY DEF TypeOK

LEMMA GameNext ==
    ASSUME ~Crashes, ~WriteFaults
    PROVE  GameInv /\ [Next]_vars => GameInv'
  <1> SUFFICES ASSUME GameInv, [Next]_vars PROVE GameInv'
    OBVIOUS
  <1>t. TypeOK /\ TypeOK'
    BY NextType DEF GameInv
  <1>z. ZeroInfo.path.file = NoFile /\ ZeroInfo.path = NoPath
    BY DEF ZeroInfo, NoPath
  <1>c. proc \in Title /\ pc \in {"idle", "native"} \cup Boot \cup Running
    BY <1>t DEF TypeOK
  <1>s. save # "none" => pc \in Running
    BY <1>t DEF TypeOK
  <1> USE DEF disk, memory, process, Step, EmptyWhileWritten, OneRecord, NoStrayGame,
              GameConverted, GameUpgraded, GameSaved, Boot, Running
  <1>i. EmptyWhileWritten /\ OneRecord /\ NoStrayGame /\ GameConverted /\ GameUpgraded /\ GameSaved
    BY DEF GameInv
  <1> SUFFICES EmptyWhileWritten' /\ OneRecord' /\ NoStrayGame' /\ GameConverted'
                 /\ GameUpgraded' /\ GameSaved'
    BY <1>t DEF GameInv
  <1>same. UNCHANGED <<disk, process>> =>
              EmptyWhileWritten' /\ OneRecord' /\ NoStrayGame' /\ GameConverted'
                 /\ GameUpgraded' /\ GameSaved'
    BY <1>i
  <1>1. ASSUME NEW t \in Title, ShellGetType(t)
        PROVE  EmptyWhileWritten' /\ OneRecord' /\ NoStrayGame' /\ GameConverted'
                 /\ GameUpgraded' /\ GameSaved'
    BY <1>1, <1>same DEF ShellGetType
  <1>2. ASSUME NEW t \in Title, Launch(t)
        PROVE  EmptyWhileWritten' /\ OneRecord' /\ NoStrayGame' /\ GameConverted'
                 /\ GameUpgraded' /\ GameSaved'
    BY <1>2, <1>i, <1>s, <1>z DEF Launch
  <1>3. CASE KernelRead
    BY <1>3, <1>i, <1>s DEF KernelRead
  <1>4. CASE BootconvExit \/ AbbExit \/ AbbNoContent
    BY <1>4, <1>i, <1>s, <1>z, <1>c DEF BootconvExit, AbbExit, AbbNoContent, ExitProcess, Gone
  <1>5. CASE Quit
    BY <1>5, <1>i, <1>s, <1>z, <1>c DEF Quit, ExitProcess, Gone
  <1>6. CASE BootconvSkip
    BY <1>6, <1>i, <1>s DEF BootconvSkip
  <1>7. CASE BootconvStart
    <2>1. info'.path.file = bootInf[proc]
      BY <1>7 DEF BootconvStart, ConvertedPath, ZeroInfo
    <2>2. QED BY <1>7, <2>1, <1>i, <1>s DEF BootconvStart
  <1>8. CASE BootconvOpen
    <2>1. bootBin' = [bootBin EXCEPT ![proc] = EmptyBootBin] /\ pc = "convTrunc"
             /\ pc' = "convWrite" /\ UNCHANGED <<bootInf, proc, info, save>>
      BY <1>8 DEF BootconvOpen, OpenBootBin
    <2>2. QED BY <2>1, <1>i, <1>s, <1>t, PutBootBin DEF EmptyBootBin
  <1>9. CASE BootconvWrite
    <2>1. bootBin' = [bootBin EXCEPT ![proc] = [layout |-> "current", info |-> info]]
             /\ pc = "convWrite" /\ pc' = "convRemove" /\ UNCHANGED <<bootInf, proc, info, save>>
      BY <1>9 DEF BootconvWrite, WriteBootBin
    <2>2. QED BY <2>1, <1>i, <1>s, <1>t, PutBootBin
  <1>10. CASE BootconvRemove
    <2>1. bootInf'[proc] = NoFile /\ \A t \in Title : t # proc => bootInf'[t] = bootInf[t]
      BY <1>10, <1>t DEF BootconvRemove, TypeOK
    <2>2. QED BY <1>10, <2>1, <1>i, <1>s, <1>z DEF BootconvRemove
  <1>11. CASE AbbHost
    BY <1>11, <1>i, <1>s DEF AbbHost
  <1>12. CASE AbbRead
    BY <1>12, <1>i, <1>s DEF AbbRead
  <1>13. CASE AbbUpgrade
    BY <1>13, <1>i, <1>s DEF AbbUpgrade
  <1>14. CASE AbbUpgradeOpen
    <2>1. bootBin' = [bootBin EXCEPT ![proc] = EmptyBootBin] /\ pc = "upTrunc"
             /\ pc' = "upWrite" /\ UNCHANGED <<bootInf, proc, info, save>>
      BY <1>14 DEF AbbUpgradeOpen, OpenBootBin
    <2>2. bootBin'[proc].layout = "empty" /\ \A t \in Title : t # proc => bootBin'[t] = bootBin[t]
      BY <2>1, <1>t, PutBootBin DEF EmptyBootBin
    <2>3. bootBin[proc].layout # "absent" /\ bootInf[proc] = NoFile /\ save = "none"
      BY <2>1, <1>i, <1>s, <1>c
    <2>4. EmptyWhileWritten'
      BY <2>1, <2>2, <2>3, <1>i
    <2>5. OneRecord'
      BY <2>1, <2>2, <2>3, <1>i
    <2>6. NoStrayGame' /\ GameConverted' /\ GameUpgraded' /\ GameSaved'
      BY <2>1, <2>2, <2>3, <1>i
    <2>7. QED BY <2>4, <2>5, <2>6
  <1>15. CASE AbbUpgradeWrite
    <2>1. bootBin' = [bootBin EXCEPT ![proc] = [layout |-> "current", info |-> info]]
             /\ pc = "upWrite" /\ pc' = "settings" /\ UNCHANGED <<bootInf, proc, info, save>>
      BY <1>15 DEF AbbUpgradeWrite, WriteBootBin
    <2>2. bootBin'[proc].layout = "current" /\ \A t \in Title : t # proc => bootBin'[t] = bootBin[t]
      BY <2>1, <1>t, PutBootBin
    <2>3. bootInf[proc] = NoFile /\ save = "none"
      BY <2>1, <1>i, <1>s, <1>c
    <2>4. EmptyWhileWritten'
      BY <2>1, <2>2, <2>3, <1>i
    <2>5. OneRecord'
      BY <2>1, <2>2, <2>3, <1>i
    <2>6. NoStrayGame' /\ GameConverted' /\ GameUpgraded' /\ GameSaved'
      BY <2>1, <2>2, <2>3, <1>i
    <2>7. QED BY <2>4, <2>5, <2>6
  <1>16. CASE AbbKeepLocation \/ AbbSetLocation
    BY <1>16, <1>i, <1>s DEF AbbKeepLocation, AbbSetLocation
  <1>17. CASE AbbOpenConfig \/ AbbWriteConfig
    BY <1>17, <1>i, <1>s DEF AbbOpenConfig, AbbWriteConfig
  <1>18. CASE UserStart
    <2>1. pc = "user" /\ pc' \in {"request", "native"} /\ UNCHANGED <<bootBin, bootInf, proc, save>>
      BY <1>18 DEF UserStart
    <2>2. proc = Adrenaline => info' = ZeroInfo
      BY <1>18 DEF UserStart
    <2>3. proc # Adrenaline => info' = bootBin[proc].info /\ bootBin[proc].layout = "current"
      BY <1>18, <1>i DEF UserStart, ReadBootInfo
    <2>4. QED BY <2>1, <2>2, <2>3, <1>i, <1>s, <1>z
  <1>19. ASSUME NEW l \in BOOLEAN, NEW r \in BOOLEAN, NEW f \in BOOLEAN,
                WaitSpecialRequest(l, r, f)
         PROVE  EmptyWhileWritten' /\ OneRecord' /\ NoStrayGame' /\ GameConverted'
                  /\ GameUpgraded' /\ GameSaved'
    <2>1. pc = "request" /\ pc' \in {"recovery", "booter", "vsh"} /\ UNCHANGED <<disk, proc, info, save>>
      BY <1>19 DEF WaitSpecialRequest
    <2>2. QED BY <2>1, <1>i
  <1>20. CASE Booter \/ AutoLoadState \/ RestartBooter
    <2>1. pc \in Running /\ pc' \in Running /\ UNCHANGED <<disk, proc, info, save>>
      BY <1>20 DEF Booter, AutoLoadState, RestartBooter
    <2>2. QED BY <2>1, <1>i
  <1>21. ASSUME NEW loc \in MsDevice, NEW rest \in Settings, NEW c \in {0, 1},
                NEW n \in Slot \cup {0}, MenuEdit(loc, rest, c, n)
         PROVE  EmptyWhileWritten' /\ OneRecord' /\ NoStrayGame' /\ GameConverted'
                  /\ GameUpgraded' /\ GameSaved'
    <2>1. /\ pc \in Running /\ save = "none" /\ save' = "cfgTrunc"
          /\ UNCHANGED <<disk, pc, proc>>
      BY <1>21 DEF MenuEdit, MenuReachable
    <2>2. info'.path = info.path
      BY <1>21, <1>t DEF MenuEdit, TypeOK, BootInfo
    <2>3. QED BY <2>1, <2>2, <1>i
  <1>22. CASE MenuResetUnsaved
    <2>1. pc \in Running /\ save = "none" /\ UNCHANGED <<disk, pc, proc, save>>
      BY <1>22 DEF MenuResetUnsaved, MenuReachable
    <2>2. info'.path = info.path
      BY <1>22, <1>t DEF MenuResetUnsaved, TypeOK, BootInfo
    <2>3. QED BY <2>1, <2>2, <1>i
  <1>23. CASE SaveConfig
    <2>1. /\ pc \in Running /\ save \in {"cfgTrunc", "cfgWrite"}
          /\ save' \in {"cfgWrite", "bootTrunc", "none"}
          /\ save' = "bootTrunc" => proc # Adrenaline
          /\ UNCHANGED <<bootInf, bootBin, pc, proc, info>>
      BY <1>23, <1>s DEF SaveConfig, Saving
    <2>2. QED BY <2>1, <1>i
  <1>24. CASE SaveBootInfo
    <2>1. pc \in Running /\ proc # Adrenaline /\ UNCHANGED <<bootInf, pc, proc, info>>
      BY <1>24, <1>s, <1>i DEF SaveBootInfo, Saving
    <2>2. CASE save = "bootTrunc"
      <3>1. bootBin' = [bootBin EXCEPT ![proc] = EmptyBootBin] /\ save' = "bootWrite"
        BY <1>24, <2>2 DEF SaveBootInfo, Saving
      <3>2. QED BY <2>1, <2>2, <3>1, <1>i, <1>t, <1>c, PutBootBin DEF EmptyBootBin
    <2>3. CASE save = "bootWrite"
      <3>1. bootBin' = [bootBin EXCEPT ![proc] = [layout |-> "current", info |-> info]]
               /\ save' = "none"
        BY <1>24, <2>3 DEF SaveBootInfo, Saving
      <3>2. QED BY <2>1, <2>3, <3>1, <1>i, <1>t, <1>c, PutBootBin
    <2>4. QED BY <1>24, <2>2, <2>3 DEF SaveBootInfo
  <1>25. ASSUME NEW n \in Slot, SaveState(n) \/ DeleteState(n)
         PROVE  EmptyWhileWritten' /\ OneRecord' /\ NoStrayGame' /\ GameConverted'
                  /\ GameUpgraded' /\ GameSaved'
    BY <1>25, <1>i DEF SaveState, DeleteState
  <1>26. CASE UNCHANGED vars
    BY <1>26, <1>same DEF vars
  <1>cut. ~Kill /\ ~AbbWriteFails
    BY DEF Kill, AbbWriteFails
  <1>cut2. ~PowerLoss
    BY DEF PowerLoss
  <1>27. QED
    BY <1>1, <1>2, <1>3, <1>4, <1>5, <1>6, <1>7, <1>8, <1>9, <1>10, <1>11, <1>12, <1>13,
       <1>14, <1>15, <1>16, <1>17, <1>18, <1>19, <1>20, <1>21, <1>22, <1>23, <1>24, <1>25,
       <1>26, <1>cut, <1>cut2
       DEF Next, BootStep, MenuStep

\* A step of a process that does not rewrite boot.bin may forget what it holds of
\* the game, and one that rewrites it may not.
LEMMA RecordsLeft ==
    ASSUME TypeOK, GameInv, NEW t \in Title, GameOf(t) # NoFile,
           bootBin' = bootBin, bootInf' = bootInf,
           \/ pc # "upWrite" /\ save # "bootWrite"
           \/ proc' = proc /\ info'.path.file = info.path.file
    PROVE  GameOf(t)' = GameOf(t)
  <1>i. EmptyWhileWritten /\ NoStrayGame /\ OneRecord /\ GameConverted
    BY DEF GameInv
  <1>1. CASE bootBin[t].layout \in {"legacy", "current"}
    BY <1>1 DEF GameOf
  <1>2. CASE bootBin[t].layout \notin {"legacy", "current"} /\ bootInf[t] # NoFile
    BY <1>2 DEF GameOf
  <1>3. CASE bootBin[t].layout \notin {"legacy", "current"} /\ bootInf[t] = NoFile
    <2>1. t = proc /\ info.path.file # NoFile /\ GameOf(t) = info.path.file
      BY <1>3 DEF GameOf
    <2>2. bootBin[t].layout = "empty"
      BY <1>3, <1>i, <2>1 DEF NoStrayGame, TypeOK, BootFile
    <2>3. pc = "upWrite" \/ save = "bootWrite"
      BY <1>3, <1>i, <2>1, <2>2 DEF EmptyWhileWritten, GameConverted
    <2>4. proc' = proc /\ info'.path.file = info.path.file
      BY <2>3
    <2>5. QED BY <1>3, <2>1, <2>4 DEF GameOf
  <1>4. QED BY <1>1, <1>2, <1>3

\* The record is put in place of one that names the game in memory.
LEMMA RecordPut ==
    ASSUME TypeOK, NEW t \in Title, NEW f, proc' = proc,
           bootBin' = [bootBin EXCEPT ![proc] = f],
           bootInf' = bootInf, GameOf(proc)' = GameOf(proc)
    PROVE  GameOf(t)' = GameOf(t)
  <1>1. CASE t = proc
    BY <1>1
  <1>2. CASE t # proc
    BY <1>2, PutBootBin DEF GameOf
  <1>3. QED BY <1>1, <1>2

LEMMA GameStep ==
    ASSUME ~Crashes, ~WriteFaults, GameInv, Next,
           NEW t \in Title, GameOf(t) # NoFile
    PROVE  GameOf(t)' = GameOf(t)
  <1>i. /\ TypeOK /\ EmptyWhileWritten /\ OneRecord /\ NoStrayGame /\ GameConverted
        /\ GameUpgraded /\ GameSaved
    BY DEF GameInv
  <1>s. save # "none" => pc \in Running
    BY <1>i DEF TypeOK
  <1>p. proc \in Title
    BY <1>i DEF TypeOK
  <1> USE DEF disk, memory, process, Step
  <1>1. CASE UNCHANGED <<disk, proc>> /\ info'.path.file = info.path.file
    BY <1>1, <1>i, RecordsLeft
  <1>2. CASE UNCHANGED disk /\ pc # "upWrite" /\ save # "bootWrite"
    BY <1>2, <1>i, RecordsLeft
  <1>3. ASSUME NEW u \in Title, ShellGetType(u) PROVE GameOf(t)' = GameOf(t)
    BY <1>1, <1>3 DEF ShellGetType
  <1>4. ASSUME NEW u \in Title, Launch(u) PROVE GameOf(t)' = GameOf(t)
    BY <1>2, <1>4, <1>s DEF Launch, Running
  <1>5. CASE KernelRead \/ BootconvSkip \/ BootconvStart \/ AbbHost \/ AbbRead \/ AbbUpgrade
               \/ AbbKeepLocation \/ AbbSetLocation \/ UserStart
    BY <1>2, <1>5, <1>s DEF KernelRead, BootconvSkip, BootconvStart, AbbHost, AbbRead,
         AbbUpgrade, AbbKeepLocation, AbbSetLocation, UserStart, Running
  <1>6. CASE BootconvExit \/ AbbExit \/ AbbNoContent \/ Quit
    BY <1>2, <1>6, <1>s DEF BootconvExit, AbbExit, AbbNoContent, Quit, ExitProcess, Gone, Running
  <1>7. CASE AbbOpenConfig \/ AbbWriteConfig
    BY <1>7, <1>i, RecordsLeft DEF AbbOpenConfig, AbbWriteConfig
  <1>8. ASSUME NEW l \in BOOLEAN, NEW r \in BOOLEAN, NEW f \in BOOLEAN,
               WaitSpecialRequest(l, r, f)
        PROVE  GameOf(t)' = GameOf(t)
    BY <1>1, <1>8 DEF WaitSpecialRequest
  <1>9. CASE Booter \/ AutoLoadState \/ RestartBooter
    BY <1>1, <1>9 DEF Booter, AutoLoadState, RestartBooter
  <1>10. ASSUME NEW loc \in MsDevice, NEW rest \in Settings, NEW c \in {0, 1},
                NEW n \in Slot \cup {0}, MenuEdit(loc, rest, c, n)
         PROVE  GameOf(t)' = GameOf(t)
    <2>1. info'.path.file = info.path.file
      BY <1>10, <1>i DEF MenuEdit, TypeOK, BootInfo
    <2>2. QED BY <1>1, <1>10, <2>1 DEF MenuEdit
  <1>11. CASE MenuResetUnsaved
    <2>1. info'.path.file = info.path.file
      BY <1>11, <1>i DEF MenuResetUnsaved, TypeOK, BootInfo
    <2>2. QED BY <1>1, <1>11, <2>1 DEF MenuResetUnsaved
  <1>12. CASE SaveConfig
    BY <1>12, <1>i, RecordsLeft DEF SaveConfig, Saving
  <1>13. ASSUME NEW n \in Slot, SaveState(n) \/ DeleteState(n) PROVE GameOf(t)' = GameOf(t)
    BY <1>13, <1>i, RecordsLeft DEF SaveState, DeleteState
  <1>14. CASE BootconvOpen
    <2>1. /\ bootBin' = [bootBin EXCEPT ![proc] = EmptyBootBin] /\ pc = "convTrunc"
          /\ UNCHANGED <<bootInf, proc, info>>
      BY <1>14 DEF BootconvOpen, OpenBootBin
    <2>2. bootBin'[proc].layout = "empty"
      BY <2>1, <1>i, PutBootBin DEF EmptyBootBin
    <2>3. GameOf(proc)' = GameOf(proc)
      BY <2>1, <2>2, <1>i DEF GameOf, GameConverted
    <2>4. QED BY <2>1, <2>3, <1>i, RecordPut
  <1>15. CASE BootconvWrite
    <2>1. /\ bootBin' = [bootBin EXCEPT ![proc] = [layout |-> "current", info |-> info]]
          /\ pc = "convWrite" /\ UNCHANGED <<bootInf, proc, info>>
      BY <1>15 DEF BootconvWrite, WriteBootBin
    <2>2. bootBin'[proc] = [layout |-> "current", info |-> info]
      BY <2>1, <1>i, PutBootBin
    <2>3. GameOf(proc)' = GameOf(proc)
      BY <2>1, <2>2, <1>i DEF GameOf, GameConverted
    <2>4. QED BY <2>1, <2>3, <1>i, RecordPut
  <1>16. CASE BootconvRemove
    <2>1. /\ pc = "convRemove" /\ UNCHANGED <<bootBin, proc>>
          /\ \A u \in Title : u # proc => bootInf'[u] = bootInf[u]
      BY <1>16, <1>i DEF BootconvRemove, TypeOK
    <2>2. CASE t = proc
      <3>1. bootBin[t].layout = "current" /\ bootBin'[t] = bootBin[t]
        BY <2>1, <2>2, <1>i DEF GameConverted
      <3>2. QED BY <3>1 DEF GameOf
    <2>3. CASE t # proc
      BY <2>1, <2>3 DEF GameOf
    <2>4. QED BY <2>2, <2>3
  <1>17. CASE AbbUpgradeOpen
    <2>1. /\ bootBin' = [bootBin EXCEPT ![proc] = EmptyBootBin] /\ pc = "upTrunc"
          /\ UNCHANGED <<bootInf, proc, info>>
      BY <1>17 DEF AbbUpgradeOpen, OpenBootBin
    <2>2. bootBin'[proc].layout = "empty"
      BY <2>1, <1>i, PutBootBin DEF EmptyBootBin
    <2>3. bootInf[proc] = NoFile /\ bootBin[proc].layout # "absent" /\ info = bootBin[proc].info
      BY <2>1, <1>i, <1>p DEF OneRecord, GameUpgraded
    <2>4. bootBin[proc].layout \in {"legacy", "current"}
      BY <2>1, <2>3, <1>i, <1>p, <1>s DEF EmptyWhileWritten, TypeOK, BootFile, Running
    <2>5. GameOf(proc)' = GameOf(proc)
      BY <2>1, <2>2, <2>3, <2>4 DEF GameOf
    <2>6. QED BY <2>1, <2>5, <1>i, RecordPut
  <1>18. CASE AbbUpgradeWrite
    <2>1. /\ bootBin' = [bootBin EXCEPT ![proc] = [layout |-> "current", info |-> info]]
          /\ pc = "upWrite" /\ UNCHANGED <<bootInf, proc, info>>
      BY <1>18 DEF AbbUpgradeWrite, WriteBootBin
    <2>2. bootBin'[proc] = [layout |-> "current", info |-> info]
      BY <2>1, <1>i, PutBootBin
    <2>3. bootInf[proc] = NoFile /\ bootBin[proc].layout = "empty"
      BY <2>1, <1>i, <1>p DEF OneRecord, GameUpgraded
    <2>4. GameOf(proc)' = GameOf(proc)
      BY <2>1, <2>2, <2>3 DEF GameOf
    <2>5. QED BY <2>1, <2>4, <1>i, RecordPut
  <1>19. CASE SaveBootInfo
    <2>1. pc \in Running /\ proc # Adrenaline /\ UNCHANGED <<bootInf, proc, info>>
      BY <1>19, <1>s, <1>i DEF SaveBootInfo, Saving, GameSaved
    <2>2. CASE save = "bootTrunc"
      <3>1. bootBin' = [bootBin EXCEPT ![proc] = EmptyBootBin]
        BY <1>19, <2>2 DEF SaveBootInfo, Saving
      <3>2. bootBin'[proc].layout = "empty"
        BY <3>1, <1>i, PutBootBin DEF EmptyBootBin
      <3>3. bootBin[proc].layout = "current" /\ info.path = bootBin[proc].info.path
        BY <2>1, <2>2, <1>i DEF GameSaved
      <3>4. bootInf[proc] = NoFile
        BY <2>1, <3>3, <1>i, <1>p DEF OneRecord, Running
      <3>5. GameOf(proc)' = GameOf(proc)
        BY <2>1, <3>2, <3>3, <3>4 DEF GameOf
      <3>6. QED BY <2>1, <3>1, <3>5, <1>i, RecordPut
    <2>3. CASE save = "bootWrite"
      <3>1. bootBin' = [bootBin EXCEPT ![proc] = [layout |-> "current", info |-> info]]
        BY <1>19, <2>3 DEF SaveBootInfo, Saving
      <3>2. bootBin'[proc] = [layout |-> "current", info |-> info]
        BY <3>1, <1>i, PutBootBin
      <3>3. bootBin[proc].layout = "empty"
        BY <2>1, <2>3, <1>i DEF GameSaved
      <3>4. bootInf[proc] = NoFile
        BY <2>1, <3>3, <1>i, <1>p DEF OneRecord, Running
      <3>5. GameOf(proc)' = GameOf(proc)
        BY <2>1, <3>2, <3>3, <3>4 DEF GameOf
      <3>6. QED BY <2>1, <3>1, <3>5, <1>i, RecordPut
    <2>4. QED BY <1>19, <2>2, <2>3 DEF SaveBootInfo
  <1>cut. ~Kill /\ ~PowerLoss /\ ~AbbWriteFails
    BY DEF Kill, PowerLoss, AbbWriteFails
  <1>20. QED
    BY <1>3, <1>4, <1>5, <1>6, <1>7, <1>8, <1>9, <1>10, <1>11, <1>12, <1>13, <1>14, <1>15,
       <1>16, <1>17, <1>18, <1>19, <1>cut
       DEF Next, BootStep, MenuStep

\* When no launch is cut and no write fails, converting, upgrading and saving a
\* record over any number of launches never loses nor changes the game that a
\* bubble was made for.  A cut between the two halves of a write does lose it:
\* without a copy on disk nothing weaker than these assumptions will do.
THEOREM GameCorrect == ASSUME ~Crashes, ~WriteFaults PROVE Spec => GameKept
  <1> DEFINE Kept == \A t \in Title : GameOf(t) # NoFile => GameOf(t)' = GameOf(t)
  <1>1. GameInv /\ [Next]_vars => [Kept]_vars
    BY GameStep
  <1>2. GameInv /\ [Next]_vars => GameInv'
    BY GameNext
  <1>3. QED
    BY <1>1, <1>2, GameInit, PTL DEF Spec, GameKept

-----------------------------------------------------------------------------
(* The launch as bubbles that play their games *)

\* Whatever the records of a title and its process name is one game.
OneGame == \A t \in Title : \A g, h \in Games(t) : g = h

\* A truncated boot.bin reads as zeros, and without a process there is no copy.
NothingLeft ==
    /\ \A t \in Title : bootBin[t].layout = "empty" => bootBin[t].info = ZeroInfo
    /\ pc = "idle" => info = ZeroInfo

RecordInv == TypeOK /\ OneGame /\ NothingLeft

LEMMA RecordInit == Init => RecordInv
  <1> SUFFICES ASSUME Init PROVE RecordInv
    OBVIOUS
  <1>1. info.path.file = NoFile
    BY DEF Init, ZeroInfo, NoPath
  <1>2. \A t \in Title : bootInf[t] = NoFile \/ Named(bootBin[t]) = {}
    BY DEF Init, Installed, Named
  <1>3. OneGame
    BY <1>1, <1>2 DEF OneGame, Games, Named
  <1>4. \A t \in Title : bootBin[t].layout # "empty"
    BY DEF Init, Installed
  <1>5. NothingLeft
    BY <1>4 DEF NothingLeft, Init
  <1>6. QED BY <1>3, <1>5, InitType DEF RecordInv

\* What a step of the process may do to the games: forget its own.
OwnGameOnly ==
    /\ \A t \in Title : Games(t)' \subseteq Games(t)
    /\ \A t \in Title : t # proc => Games(t)' = Games(t)

LEMMA GoneGames ==
    ASSUME Gone, UNCHANGED disk
    PROVE  OwnGameOnly
  <1>1. info'.path.file = NoFile /\ proc' = proc /\ bootInf' = bootInf /\ bootBin' = bootBin
    BY DEF Gone, disk, ZeroInfo, NoPath
  <1>2. QED BY <1>1 DEF Games, OwnGameOnly

\* A write to boot.bin of the title that runs.
LEMMA WriteGames ==
    ASSUME TypeOK, NEW f, bootBin' = [bootBin EXCEPT ![proc] = f],
           Named(f) \subseteq {info.path.file},
           UNCHANGED <<bootInf, proc, info>>
    PROVE  OwnGameOnly
  <1>1. bootBin'[proc] = f /\ \A t \in Title : t # proc => bootBin'[t] = bootBin[t]
    BY PutBootBin
  <1>2. ASSUME NEW t \in Title, t # proc PROVE Games(t)' = Games(t)
    BY <1>1, <1>2 DEF Games
  <1>3. Games(proc)' \subseteq Games(proc)
    BY <1>1 DEF Games
  <1>4. QED BY <1>2, <1>3 DEF OwnGameOnly

\* A new copy in the process, of what the records name or of nothing.
LEMMA ReadGames ==
    ASSUME UNCHANGED <<bootInf, bootBin, proc>>,
           info'.path.file \in Games(proc) \cup {NoFile}
    PROVE  OwnGameOnly
  <1>1. ASSUME NEW t \in Title, t # proc PROVE Games(t)' = Games(t)
    BY <1>1 DEF Games
  <1>2. Games(proc)' \subseteq Games(proc)
    BY DEF Games
  <1>3. QED BY <1>1, <1>2 DEF OwnGameOnly

LEMMA KeptGames ==
    ASSUME UNCHANGED <<bootInf, bootBin, proc>>, info'.path = info.path
    PROVE  \A t \in Title : Games(t)' = Games(t)
  BY DEF Games

LEMMA WrittenNames ==
    /\ Named(EmptyBootBin) = {}
    /\ Named([layout |-> "current", info |-> info]) = {info.path.file}
    /\ \A f : f.layout \in {"legacy", "current"} => f.info.path.file \in Named(f)
  BY DEF Named, EmptyBootBin

\* A step never gives a title another game, and takes one only from the title
\* that runs.
LEMMA GamesStep ==
    ASSUME RecordInv, Next
    PROVE  \/ \A t \in Title : Games(t)' = Games(t)
           \/ OwnGameOnly /\ pc # "idle" /\ proc' = proc
  <1> DEFINE Same == \A t \in Title : Games(t)' = Games(t)
             Own == OwnGameOnly /\ pc # "idle" /\ proc' = proc
  <1> SUFFICES Same \/ Own
    OBVIOUS
  <1>i. TypeOK /\ NothingLeft
    BY DEF RecordInv
  <1>s. save # "none" => pc \in Running
    BY <1>i DEF TypeOK
  <1>r. \A f \in BootFile : ReadBootInfo(f).path.file \in Named(f) \cup {NoFile}
    BY ReadsAsNoGame, ReadsAsWritten, WrittenNames
  <1>b. bootBin[proc] \in BootFile /\ proc \in Title
    BY <1>i DEF TypeOK
  <1>z. ZeroInfo.path.file = NoFile
    BY DEF ZeroInfo, NoPath
  <1>n. Named(bootBin[proc]) \subseteq Games(proc) \cup {NoFile} /\ bootInf[proc] \in Games(proc) \cup {NoFile}
    BY DEF Games
  <1> USE DEF disk, memory, process, Step
  <1>gone. ASSUME Gone, UNCHANGED disk, pc # "idle" PROVE Own
    BY <1>gone, GoneGames DEF Gone
  <1>1. ASSUME NEW u \in Title, ShellGetType(u) PROVE Same
    BY <1>1, KeptGames DEF ShellGetType
  <1>2. ASSUME NEW u \in Title, Launch(u) PROVE Same
    <2>1. info.path.file = NoFile /\ info' = info /\ bootInf' = bootInf /\ bootBin' = bootBin
      BY <1>2, <1>i, <1>z DEF Launch, NothingLeft
    <2>2. QED BY <2>1 DEF Games
  <1>3. CASE \/ KernelRead \/ BootconvSkip \/ AbbHost \/ AbbKeepLocation \/ AbbSetLocation
             \/ AbbOpenConfig \/ AbbWriteConfig \/ Booter \/ AutoLoadState \/ RestartBooter
    BY <1>3, KeptGames DEF KernelRead, BootconvSkip, AbbHost, AbbKeepLocation, AbbSetLocation,
         AbbOpenConfig, AbbWriteConfig, Booter, AutoLoadState, RestartBooter
  <1>4. CASE BootconvExit \/ AbbExit \/ AbbNoContent \/ AbbWriteFails \/ Quit \/ Kill
    BY <1>4, <1>gone DEF BootconvExit, AbbExit, AbbNoContent, AbbWriteFails, Quit, Kill, ExitProcess
  <1>5. CASE PowerLoss
    <2>1. CASE pc # "idle"
      BY <1>5, <2>1, <1>gone DEF PowerLoss
    <2>2. CASE pc = "idle"
      <3>1. info' = info /\ proc' = proc
        BY <1>5, <2>2, <1>i DEF PowerLoss, Gone, NothingLeft
      <3>2. QED BY <1>5, <3>1, KeptGames DEF PowerLoss
    <2>3. QED BY <2>1, <2>2
  <1>6. CASE BootconvStart
    <2>1. info'.path.file = bootInf[proc]
      BY <1>6 DEF BootconvStart, ConvertedPath, ZeroInfo
    <2>2. QED BY <1>6, <2>1, <1>n, ReadGames DEF BootconvStart
  <1>7. CASE AbbRead
    <2>1. info'.path.file \in Named(bootBin[proc])
      BY <1>7, WrittenNames DEF AbbRead
    <2>2. QED BY <1>7, <2>1, <1>n, ReadGames DEF AbbRead
  <1>8. CASE AbbUpgrade
    <2>1. info'.path.file \in Named(bootBin[proc]) \cup {NoFile}
      BY <1>8, <1>i, <1>b, <1>z, WrittenNames DEF AbbUpgrade, NothingLeft
    <2>2. QED BY <1>8, <2>1, <1>n, ReadGames DEF AbbUpgrade
  <1>9. CASE UserStart
    <2>1. info'.path.file \in Named(bootBin[proc]) \cup {NoFile}
      BY <1>9, <1>r, <1>b, <1>z DEF UserStart
    <2>2. pc = "user" /\ UNCHANGED <<bootInf, bootBin, proc>>
      BY <1>9 DEF UserStart
    <2>3. QED BY <2>1, <2>2, <1>n, ReadGames
  <1>10. ASSUME NEW at, NEW opened, NEW failed, at # "idle", OpenBootBin(at, opened, failed)
         PROVE  Same \/ Own
    BY <1>10, <1>i, WriteGames, KeptGames, WrittenNames DEF OpenBootBin
  <1>11. ASSUME NEW at, NEW next, at # "idle", WriteBootBin(at, next)
         PROVE  Same \/ Own
    BY <1>11, <1>i, WriteGames, KeptGames, WrittenNames DEF WriteBootBin
  <1>12. CASE BootconvOpen \/ AbbUpgradeOpen \/ BootconvWrite \/ AbbUpgradeWrite
    BY <1>12, <1>10, <1>11 DEF BootconvOpen, AbbUpgradeOpen, BootconvWrite, AbbUpgradeWrite
  <1>13. CASE BootconvRemove
    <2>1. /\ pc = "convRemove" /\ UNCHANGED <<bootBin, proc>> /\ info'.path.file = NoFile
          /\ bootInf'[proc] = NoFile /\ \A t \in Title : t # proc => bootInf'[t] = bootInf[t]
      BY <1>13, <1>i, <1>z DEF BootconvRemove, TypeOK
    <2>2. ASSUME NEW t \in Title, t # proc PROVE Games(t)' = Games(t)
      BY <2>1, <2>2 DEF Games
    <2>3. Games(proc)' \subseteq Games(proc)
      BY <2>1 DEF Games
    <2>4. QED BY <2>1, <2>2, <2>3 DEF OwnGameOnly
  <1>14. ASSUME NEW l \in BOOLEAN, NEW r \in BOOLEAN, NEW f \in BOOLEAN,
                WaitSpecialRequest(l, r, f)
         PROVE  Same
    BY <1>14, KeptGames DEF WaitSpecialRequest
  <1>15. ASSUME NEW loc \in MsDevice, NEW rest \in Settings, NEW c \in {0, 1},
                NEW n \in Slot \cup {0}, MenuEdit(loc, rest, c, n)
         PROVE  Same
    <2>1. info'.path = info.path
      BY <1>15, <1>i DEF MenuEdit, TypeOK, BootInfo
    <2>2. QED BY <1>15, <2>1, KeptGames DEF MenuEdit
  <1>16. CASE MenuResetUnsaved
    <2>1. info'.path = info.path
      BY <1>16, <1>i DEF MenuResetUnsaved, TypeOK, BootInfo
    <2>2. QED BY <1>16, <2>1, KeptGames DEF MenuResetUnsaved
  <1>17. CASE SaveConfig
    BY <1>17, KeptGames DEF SaveConfig, Saving
  <1>18. CASE SaveBootInfo
    <2>1. pc # "idle" /\ UNCHANGED <<bootInf, proc, info>>
      BY <1>18, <1>s DEF SaveBootInfo, Saving, Running
    <2>2. QED BY <1>18, <2>1, <1>i, WriteGames, KeptGames, WrittenNames DEF SaveBootInfo
  <1>19. ASSUME NEW n \in Slot, SaveState(n) \/ DeleteState(n) PROVE Same
    BY <1>19, KeptGames DEF SaveState, DeleteState
  <1>20. QED
    BY <1>1, <1>2, <1>3, <1>4, <1>5, <1>6, <1>7, <1>8, <1>9, <1>12, <1>13, <1>14, <1>15,
       <1>16, <1>17, <1>18, <1>19
       DEF Next, BootStep, MenuStep

LEMMA RecordNext == RecordInv /\ [Next]_vars => RecordInv'
  <1> SUFFICES ASSUME RecordInv, [Next]_vars PROVE RecordInv'
    OBVIOUS
  <1>i. TypeOK /\ TypeOK' /\ OneGame /\ NothingLeft
    BY NextType DEF RecordInv
  <1>1. CASE UNCHANGED vars
    BY <1>1, <1>i DEF RecordInv, OneGame, NothingLeft, Games, vars, disk, memory, process
  <1>2. CASE Next
    <2>1. OneGame'
      <3>1. \A t \in Title : Games(t)' \subseteq Games(t)
        BY <1>2, GamesStep DEF OwnGameOnly
      <3>2. QED BY <3>1, <1>i DEF OneGame
    <2>2. NothingLeft'
      <3> DEFINE P(b) == \A t \in Title : b[t].layout = "empty" => b[t].info = ZeroInfo
      <3>a. ASSUME NEW f, bootBin' = [bootBin EXCEPT ![proc] = f],
                   f.layout = "empty" => f.info = ZeroInfo
            PROVE  P(bootBin')
        BY <3>a, <1>i, PutBootBin DEF NothingLeft
      <3>b. EmptyBootBin.info = ZeroInfo
        BY DEF EmptyBootBin
      <3>c. P(bootBin) /\ (pc = "idle" => info = ZeroInfo)
        BY <1>i DEF NothingLeft
      <3>d. save # "none" => pc \in Running
        BY <1>i DEF TypeOK
      <3> SUFFICES P(bootBin') /\ (pc' = "idle" => info' = ZeroInfo)
        BY DEF NothingLeft
      <3> HIDE DEF P
      <3> USE DEF disk, memory, process, Step
      <3>gone. ASSUME Gone, UNCHANGED disk PROVE P(bootBin') /\ (pc' = "idle" => info' = ZeroInfo)
        BY <3>gone, <3>c DEF Gone
      <3> DEFINE Left == P(bootBin') /\ (pc' = "idle" => info' = ZeroInfo)
      <3>0. ASSUME NEW u \in Title, ShellGetType(u) \/ Launch(u) PROVE Left
        BY <3>0, <3>c DEF ShellGetType, Launch
      <3>1. CASE \/ KernelRead \/ BootconvSkip \/ BootconvStart \/ AbbHost \/ AbbRead \/ AbbUpgrade
                 \/ AbbKeepLocation \/ AbbSetLocation \/ AbbOpenConfig \/ AbbWriteConfig
                 \/ BootconvRemove
        BY <3>1, <3>c DEF KernelRead, BootconvSkip, BootconvStart, AbbHost, AbbRead, AbbUpgrade,
             AbbKeepLocation, AbbSetLocation, AbbOpenConfig, AbbWriteConfig, BootconvRemove
      <3>2. CASE UserStart \/ Booter \/ AutoLoadState \/ RestartBooter
        BY <3>2, <3>c DEF UserStart, Booter, AutoLoadState, RestartBooter
      <3>3. CASE BootconvExit \/ AbbExit \/ AbbNoContent \/ AbbWriteFails \/ Quit \/ Kill \/ PowerLoss
        BY <3>3, <3>gone DEF BootconvExit, AbbExit, AbbNoContent, AbbWriteFails, Quit, Kill,
             PowerLoss, ExitProcess
      <3>4. CASE BootconvOpen \/ AbbUpgradeOpen
        BY <3>4, <3>a, <3>b, <3>c DEF BootconvOpen, AbbUpgradeOpen, OpenBootBin
      <3>5. CASE BootconvWrite \/ AbbUpgradeWrite
        BY <3>5, <3>a, <3>c DEF BootconvWrite, AbbUpgradeWrite, WriteBootBin
      <3>6. ASSUME NEW l \in BOOLEAN, NEW r \in BOOLEAN, NEW f \in BOOLEAN,
                   WaitSpecialRequest(l, r, f)
            PROVE  Left
        BY <3>6, <3>c DEF WaitSpecialRequest
      <3>7. ASSUME NEW loc \in MsDevice, NEW rest \in Settings, NEW c \in {0, 1},
                   NEW n \in Slot \cup {0}, MenuEdit(loc, rest, c, n)
            PROVE  Left
        BY <3>7, <3>c DEF MenuEdit, MenuReachable
      <3>8. CASE MenuResetUnsaved \/ SaveConfig
        BY <3>8, <3>c, <3>d DEF MenuResetUnsaved, MenuReachable, SaveConfig, Saving, Running
      <3>9. CASE SaveBootInfo
        BY <3>9, <3>a, <3>b, <3>c, <3>d DEF SaveBootInfo, Saving, Running
      <3>10. ASSUME NEW n \in Slot, SaveState(n) \/ DeleteState(n) PROVE Left
        BY <3>10, <3>c DEF SaveState, DeleteState
      <3>11. QED
        BY <1>2, <3>0, <3>1, <3>2, <3>3, <3>4, <3>5, <3>6, <3>7, <3>8, <3>9, <3>10
           DEF Next, BootStep, MenuStep
    <2>3. QED BY <2>1, <2>2, <1>i DEF RecordInv
  <1>3. QED BY <1>1, <1>2

\* A game that anything names is in a complete record, or in the process that
\* is writing one.
Covered == \A t \in Title : Games(t) # {} => GameOf(t) # NoFile

LEMMA CoveredInit == Init => Covered
  <1> SUFFICES ASSUME Init, NEW t \in Title, Games(t) # {} PROVE GameOf(t) # NoFile
    BY DEF Covered
  <1>1. info.path.file = NoFile
    BY DEF Init, ZeroInfo, NoPath
  <1>2. CASE bootBin[t].layout \in {"legacy", "current"}
    <2>1. bootBin[t].info \in InstalledInfo
      BY <1>2 DEF Init, InitialBootFile
    <2>2. QED BY <1>2, <2>1 DEF GameOf, InstalledInfo
  <1>3. CASE bootBin[t].layout \notin {"legacy", "current"}
    BY <1>1, <1>3 DEF Games, Named, GameOf
  <1>4. QED BY <1>2, <1>3

LEMMA GameOfGames == \A t \in Title : GameOf(t) # NoFile => GameOf(t) \in Games(t)
  BY DEF GameOf, Games, Named

\* Without crashes and failing writes, no step changes the game of any title.
LEMMA GamesKept ==
    ASSUME ~Crashes, ~WriteFaults, RecordInv, GameInv, Covered, Next
    PROVE  Covered' /\ \A t \in Title : Games(t)' = Games(t)
  <1> SUFFICES ASSUME NEW t \in Title
               PROVE  (Games(t)' # {} => GameOf(t)' # NoFile) /\ Games(t)' = Games(t)
    BY DEF Covered
  <1>1. Games(t)' \subseteq Games(t)
    BY GamesStep DEF OwnGameOnly
  <1>2. CASE Games(t) = {}
    BY <1>1, <1>2
  <1>3. CASE Games(t) # {}
    <2>1. GameOf(t) # NoFile
      BY <1>3 DEF Covered
    <2>2. GameOf(t)' = GameOf(t)
      BY <2>1, GameStep
    <2>3. GameOf(t) \in Games(t) /\ GameOf(t) \in Games(t)'
      <3>1. GameOf(t)' # NoFile => GameOf(t)' \in Games(t)'
        BY DEF GameOf, Games, Named
      <3>2. QED BY <2>1, <2>2, <3>1, GameOfGames
    <2>4. \A g \in Games(t) : g = GameOf(t)
      BY <2>3 DEF RecordInv, OneGame
    <2>5. QED BY <1>1, <2>1, <2>2, <2>3, <2>4
  <1>4. QED BY <1>2, <1>3

BubbleInv == RecordInv /\ (~Crashes /\ ~WriteFaults => GameInv /\ Covered)

LEMMA BubbleNext == BubbleInv /\ [Next]_vars => BubbleInv'
  <1> SUFFICES ASSUME BubbleInv, [Next]_vars PROVE BubbleInv'
    OBVIOUS
  <1>1. RecordInv /\ RecordInv'
    BY RecordNext DEF BubbleInv
  <1>2. ASSUME ~Crashes, ~WriteFaults PROVE GameInv' /\ Covered'
    <2>1. GameInv /\ Covered
      BY <1>2 DEF BubbleInv
    <2>2. GameInv'
      BY <1>2, <2>1, GameNext
    <2>3. CASE UNCHANGED vars
      BY <2>1, <2>2, <2>3 DEF Covered, Games, GameOf, vars, disk, memory, process
    <2>4. QED BY <1>1, <1>2, <2>1, <2>2, <2>3, GamesKept
  <1>3. QED BY <1>1, <1>2 DEF BubbleInv

\* The step of a bubble that a step of the launch is.
LEMMA StepImplements ==
    BubbleInv /\ [Next]_vars => [User!Next]_User!vars
  <1> DEFINE Map == [t \in Title |-> Games(t)]
             Live == IF pc = "idle" THEN {} ELSE {proc}
             Lost == [Map EXCEPT ![proc] = {}]
  <1> SUFFICES ASSUME BubbleInv, [Next]_vars
               PROVE  User!Next \/ (Map' = Map /\ Live' = Live /\ ({program} \ {NoFile})' = {program} \ {NoFile})
    BY DEF User!vars
  <1>i. RecordInv /\ TypeOK /\ OneGame
    BY DEF BubbleInv, RecordInv
  <1>p. proc \in Title
    BY <1>i DEF TypeOK
  <1> USE DEF disk, memory, process
  <1>same. UNCHANGED <<bootInf, bootBin, proc>> /\ info'.path = info.path => Map' = Map
    BY KeptGames
  <1>1. CASE UNCHANGED vars
    BY <1>1, <1>same DEF vars
  <1>2. ASSUME Next
        PROVE  Map' = Map \/ ((Crashes \/ WriteFaults) /\ pc # "idle" /\ proc' = proc /\ Map' = Lost)
    <2>1. CASE \A t \in Title : Games(t)' = Games(t)
      BY <2>1
    <2>2. CASE ~Crashes /\ ~WriteFaults
      BY <2>1, <2>2, <1>2, <1>i, GamesKept DEF BubbleInv
    <2>3. CASE (Crashes \/ WriteFaults) /\ OwnGameOnly /\ pc # "idle" /\ proc' = proc
      <3>1. CASE Games(proc)' = {}
        <4>1. \A t \in Title : Games(t)' = Lost[t]
          BY <2>3, <3>1, <1>p DEF OwnGameOnly
        <4>2. QED BY <2>3, <4>1
      <3>2. CASE Games(proc)' # {}
        <4>1. PICK g : g \in Games(proc)'
          BY <3>2
        <4>2. Games(proc)' \subseteq Games(proc)
          BY <2>3, <1>p DEF OwnGameOnly
        <4>3. Games(proc)' = Games(proc)
          BY <4>1, <4>2, <1>i, <1>p DEF OneGame
        <4>4. QED BY <2>1, <2>3, <4>3 DEF OwnGameOnly
      <3>3. QED BY <3>1, <3>2
    <2>4. QED BY <1>2, <1>i, <2>1, <2>2, <2>3, GamesStep
  <1> HIDE DEF Map, Lost
  <1> DEFINE Playing == {program} \ {NoFile}
             Still == Map' = Map /\ Live' = Live /\ Playing' = Playing
  <1>leave. ASSUME Map' = Map, Live' = Live, program' = NoFile PROVE User!Next
    <2>1. User!Leave
      BY <1>leave DEF User!Leave, Map
    <2>2. QED BY <2>1 DEF User!Next
  <1>stop. ASSUME Next, Gone, pc # "idle" PROVE User!Next
    <2>1. Playing' = {} /\ Live' = {} /\ proc \in Live
      BY <1>stop DEF Gone
    <2>2. User!Stop(proc)
      BY <1>2, <1>stop, <2>1 DEF User!Stop, User!Loses, Map, Lost
    <2>3. QED BY <2>2, <1>p DEF User!Next
  <1>own. ASSUME Next, UNCHANGED <<proc, program>>, pc # "idle", pc' # "idle"
          PROVE  User!Next \/ Still
    <2>1. CASE Map' = Map
      BY <1>own, <2>1
    <2>2. CASE (Crashes \/ WriteFaults) /\ Map' = Lost
      <3>1. User!Lose(proc)
        BY <1>own, <2>2 DEF User!Lose, User!Loses, Map, Lost
      <3>2. QED BY <3>1, <1>p DEF User!Next
    <2>3. QED BY <1>own, <1>2, <2>1, <2>2
  <1>s. save # "none" => pc \in Running
    BY <1>i DEF TypeOK
  <1>3. ASSUME NEW t \in Title, ShellGetType(t) PROVE User!Next \/ Still
    BY <1>3, <1>same DEF ShellGetType
  <1>4. ASSUME Next, NEW t \in Title, Launch(t) PROVE User!Next
    <2>1. Live = {} /\ Live' = {t} /\ Playing' = Playing
      BY <1>4 DEF Launch
    <2>2. Map' = Map
      BY <1>2, <1>4 DEF Launch
    <2>3. User!Launch(t)
      BY <2>1, <2>2 DEF User!Launch, Map
    <2>4. QED BY <2>3 DEF User!Next
  <1>5. ASSUME Next, \/ KernelRead \/ BootconvSkip \/ BootconvStart \/ BootconvOpen \/ BootconvWrite
                     \/ BootconvRemove \/ AbbHost \/ AbbRead \/ AbbUpgrade \/ AbbUpgradeOpen
                     \/ AbbUpgradeWrite \/ AbbKeepLocation \/ AbbSetLocation \/ AbbOpenConfig
                     \/ AbbWriteConfig \/ UserStart
        PROVE  User!Next \/ Still
    <2>1. UNCHANGED <<proc, program>> /\ pc # "idle" /\ pc' # "idle"
      BY <1>5 DEF KernelRead, BootconvSkip, BootconvStart, BootconvOpen, BootconvWrite,
           BootconvRemove, AbbHost, AbbRead, AbbUpgrade, AbbUpgradeOpen, AbbUpgradeWrite,
           AbbKeepLocation, AbbSetLocation, AbbOpenConfig, AbbWriteConfig, UserStart,
           OpenBootBin, WriteBootBin, Step
    <2>2. QED BY <1>5, <1>own, <2>1
  <1>6. ASSUME Next, BootconvExit \/ AbbExit \/ AbbNoContent \/ AbbWriteFails \/ Quit \/ Kill
        PROVE  User!Next
    BY <1>6, <1>stop DEF BootconvExit, AbbExit, AbbNoContent, AbbWriteFails, Quit, Kill, ExitProcess
  <1>7. ASSUME Next, PowerLoss PROVE User!Next
    <2>1. CASE pc # "idle"
      BY <1>7, <2>1, <1>stop DEF PowerLoss
    <2>2. CASE pc = "idle"
      <3>1. Map' = Map /\ Live' = Live /\ program' = NoFile
        BY <1>7, <2>2, <1>2 DEF PowerLoss, Gone
      <3>2. QED BY <3>1, <1>leave
    <2>3. QED BY <2>1, <2>2
  <1>8. ASSUME Next, NEW l \in BOOLEAN, NEW r \in BOOLEAN, NEW f \in BOOLEAN,
               WaitSpecialRequest(l, r, f)
        PROVE  User!Next \/ Still
    <2>1. UNCHANGED <<proc, program>> /\ pc # "idle" /\ pc' # "idle"
      BY <1>8 DEF WaitSpecialRequest
    <2>2. QED BY <1>8, <1>own, <2>1
  <1>9. CASE AutoLoadState \/ RestartBooter
    <2>1. Map' = Map
      BY <1>9, <1>same DEF AutoLoadState, RestartBooter
    <2>2. pc # "idle" /\ pc' # "idle" /\ proc' = proc /\ program' = NoFile
      BY <1>9 DEF AutoLoadState, RestartBooter
    <2>3. QED BY <2>1, <2>2, <1>leave
  <1>10. CASE Booter
    <2>1. Map' = Map
      BY <1>10, <1>same DEF Booter
    <2>2. CASE pc' = "failed" /\ UNCHANGED program
      <3>1. pc # "idle" /\ pc' # "idle" /\ UNCHANGED <<proc, program>>
        BY <1>10, <2>2 DEF Booter
      <3>2. QED BY <2>1, <3>1
    <2>3. CASE Exists(Ms0Path) /\ pc' = "content" /\ program' = Ms0Path.file
      <3> DEFINE g == Ms0Path.file
      <3>1. g \in File /\ g = ReadBootInfo(bootBin[proc]).path.file
        BY <2>3, <1>i DEF Exists, TypeOK, Ms0Path
      <3>2. bootBin[proc].layout = "current" /\ bootBin[proc].info.path.file = g
        BY <3>1, <1>i, <1>p, ReadsAsNoGame, ReadsAsWritten DEF TypeOK
      <3>3. g \in Games(proc)
        BY <3>1, <3>2 DEF Games, Named
      <3>4. pc # "idle" /\ pc' # "idle" /\ proc' = proc /\ program' = g /\ g # NoFile
        BY <1>10, <2>3, <3>1 DEF Booter
      <3>5. Playing' = {g} /\ Live' = Live /\ proc \in Live /\ g \in Map[proc]
        BY <3>3, <3>4, <1>p DEF Map
      <3>6. User!Play(proc)
        BY <2>1, <3>5 DEF User!Play, Map
      <3>7. QED BY <3>6, <1>p DEF User!Next
    <2>4. QED BY <1>10, <2>2, <2>3 DEF Booter
  <1>11. ASSUME NEW loc \in MsDevice, NEW rest \in Settings, NEW c \in {0, 1},
                NEW n \in Slot \cup {0}, Next,
                MenuEdit(loc, rest, c, n)
         PROVE  User!Next \/ Still
    <2>1. UNCHANGED <<proc, program, pc>> /\ pc # "idle"
      BY <1>11 DEF MenuEdit, MenuReachable
    <2>2. QED BY <1>11, <1>own, <2>1
  <1>12. ASSUME Next, SaveConfig \/ SaveBootInfo PROVE User!Next \/ Still
    <2>1. UNCHANGED <<proc, program, pc>> /\ pc # "idle"
      BY <1>12, <1>s DEF SaveConfig, SaveBootInfo, Saving, Running
    <2>2. QED BY <1>12, <1>own, <2>1
  <1>13. ASSUME Next, MenuResetUnsaved PROVE User!Next \/ Still
    <2>1. UNCHANGED <<proc, program, pc>> /\ pc # "idle"
      BY <1>13 DEF MenuResetUnsaved, MenuReachable
    <2>2. QED BY <1>13, <1>own, <2>1
  <1>14. ASSUME Next, NEW n \in Slot, SaveState(n) \/ DeleteState(n) PROVE User!Next \/ Still
    <2>1. UNCHANGED <<proc, program, pc>> /\ pc # "idle"
      BY <1>14 DEF SaveState, DeleteState, MenuReachable
    <2>2. QED BY <1>14, <1>own, <2>1
  <1>15. ASSUME Next PROVE User!Next \/ Still
    BY <1>15, <1>3, <1>4, <1>5, <1>6, <1>7, <1>8, <1>9, <1>10, <1>11, <1>12, <1>13, <1>14
       DEF Next, BootStep, MenuStep
  <1>16. QED BY <1>1, <1>15

\* What the launch does, step for step, is what bubbles promise: it plays the
\* game of the bubble that was launched, and takes a game from no bubble but, when
\* it is cut off or a write fails, from the one that runs.
THEOREM Refinement == Spec => Implements
  <1>1. Init => User!Init
    <2> SUFFICES ASSUME Init PROVE User!Init
      OBVIOUS
    <2>1. \A t \in Title : Games(t) \subseteq File
      BY InitType DEF TypeOK, Games, Named, BootFile, BootInfo, Path
    <2>2. \A t \in Title : \A g, h \in Games(t) : g = h
      BY RecordInit DEF RecordInv, OneGame
    <2>3. pc = "idle" /\ program = NoFile
      BY DEF Init
    <2>4. QED BY <2>1, <2>2, <2>3 DEF User!Init
  <1>2. Init => BubbleInv
    BY RecordInit, GameInit, CoveredInit DEF BubbleInv
  <1>3. QED
    BY <1>1, <1>2, BubbleNext, StepImplements, PTL DEF Spec, Implements, User!Spec

=============================================================================
