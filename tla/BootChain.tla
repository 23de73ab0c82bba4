----------------------------- MODULE BootChain -----------------------------
(***************************************************************************)
(* The launch of a bubble, from the LiveArea to the PSP content:           *)
(*                                                                         *)
(*   shell hook -> kernel hook -> bootconv -> adrbubblebooter              *)
(*     -> adrenaline_user -> PSP boot configuration -> booter.prx          *)
(*                                                                         *)
(* What the stages share is a handful of files: data/boot.inf,             *)
(* data/boot.bin and data/config.bin of the bubble, and adrenaline.bin of  *)
(* the host.  Every file write is two steps, the open with O_TRUNC and the *)
(* write, so that the application can be killed, or the power can go,      *)
(* between any two of them; reads that nothing can change in between are   *)
(* grouped with the decision that uses them.                               *)
(***************************************************************************)
EXTENDS Naturals

CONSTANTS
    Title,          \* Vita title ids that are ever launched
    Adrenaline,     \* the host application, PSPEMUCFW
    PspemuNamed,    \* the titles whose first six characters are "PSPEMU"
    Device,         \* Vita devices a content path may name
    MsDevice,       \* the five devices that ms_location can select
    Ux0,            \* ms_location 0, and the answer for an unknown device
    File,           \* content paths below <device>:pspemu
    NoFile,         \* the empty path
    Slot,           \* one-based save state numbers
    Settings,       \* what a settings file holds besides ms_location
    ZeroSettings,   \* all-zero settings
    Crashes,        \* may the application be killed or the power go?
    WriteFaults     \* may sceIoOpen for writing or sceIoWrite fail?

ASSUME TitleAssumption ==
    /\ Adrenaline \in PspemuNamed
    /\ PspemuNamed \subseteq Title

ASSUME DataAssumption ==
    /\ Ux0 \in MsDevice
    /\ MsDevice \subseteq Device
    /\ NoFile \notin File
    /\ Slot \subseteq Nat \ {0}
    /\ ZeroSettings \in Settings

ASSUME FaultAssumption == Crashes \in BOOLEAN /\ WriteFaults \in BOOLEAN

VARIABLES
    bootInf,    \* bootInf[t]: PATH of data/boot.inf, NoFile when there is none
    bootBin,    \* bootBin[t]: data/boot.bin
    configBin,  \* configBin[t]: data/config.bin, the per-bubble settings
    adrBin,     \* ux0:app/PSPEMUCFW/adrenaline.bin, the global settings
    content,    \* the content paths that exist
    states,     \* the save states that exist, <<device, slot>>
    smagic,     \* boot_info.magic in the memory of the shell module
    kmagic,     \* boot_info.magic in the memory of the kernel module
    pc,         \* the next step of the process being launched
    proc,       \* its title id
    emu,        \* was it started as a PSP emulator process?
    info,       \* boot_info of the module that runs in it
    cfg,        \* config of the module that runs in it
    load_state, \* user module: a state was loaded, or must not be
    index,      \* bootfileindex handed to the PSP
    program,    \* the content that booter.prx started, NoFile when there is none
    save        \* the next step of saveConfigs, when the menu is saving

disk == <<bootInf, bootBin, configBin, adrBin, content, states>>
memory == <<smagic, kmagic>>
process == <<pc, proc, emu, info, cfg, load_state, index, program, save>>
vars == <<disk, memory, process>>

-----------------------------------------------------------------------------
(* Data *)

Path == [dev: Device, file: File \cup {NoFile}]
NoPath == [dev |-> Ux0, file |-> NoFile]

\* The fields of BootInfo that the launch looks at.
BootInfo == [magic: BOOLEAN, customized: {0, 1}, loadstate: Slot \cup {0}, path: Path]
ZeroInfo == [magic |-> FALSE, customized |-> 0, loadstate |-> 0, path |-> NoPath]

\* boot.bin: the 0x120-byte legacy or the 0x140-byte current layout, or a file
\* that was truncated and not written.
BootFile == [layout: {"absent", "empty", "legacy", "current"}, info: BootInfo]
EmptyBootBin == [layout |-> "empty", info |-> ZeroInfo]

Config == [loc: MsDevice, rest: Settings]
ZeroConfig == [loc |-> Ux0, rest |-> ZeroSettings]
ConfigFile == [layout: {"absent", "empty", "full"}, conf: Config]
EmptyConfig == [layout |-> "empty", conf |-> ZeroConfig]

\* get_ms_location, with its -1 for an unknown device clamped to ux0.
Location(dev) == IF dev \in MsDevice THEN dev ELSE Ux0

\* check_file on a content path.
Exists(path) == path \in content

\* memset, then a read of a settings file: nothing is read from a file that
\* is missing or empty.
ReadConfig(f) == IF f.layout = "full" THEN f.conf ELSE ZeroConfig

\* memset, then a read of boot.bin as a BootInfo.  The scalars of the legacy
\* layout are at the same offsets, its path is not.
ReadBootInfo(f) ==
    CASE f.layout = "current" -> f.info
      [] f.layout = "legacy"  -> [f.info EXCEPT !.path = NoPath]
      [] OTHER                -> ZeroInfo

\* The magic word after ReadFile(boot.bin, &boot_info) into a boot_info that
\* holds what the previous title left in it: a read of an empty file returns 0
\* and changes nothing.
MagicAfterRead(f, old) ==
    IF f.layout \in {"legacy", "current"} THEN f.info.magic ELSE old

\* (read >= 0) && (boot_info.magic == "ABB")
LooksLikeBubble(f, old) == f.layout # "absent" /\ MagicAfterRead(f, old)

-----------------------------------------------------------------------------
(* What the bubble manager installs, and the user's memory card *)

InstalledInfo == {i \in BootInfo : i.magic /\ i.path.file # NoFile}

\* A bubble has a boot.inf, or a boot.bin of either layout; any other title
\* and the host itself have neither.
Installed(t) ==
    \/ bootInf[t] = NoFile /\ bootBin[t].layout = "absent"
    \/ /\ t # Adrenaline
       /\ \/ bootInf[t] # NoFile /\ bootBin[t].layout = "absent"
          \/ bootInf[t] = NoFile /\ bootBin[t].layout \in {"legacy", "current"}

InitialBootFile ==
    {[layout |-> "absent", info |-> ZeroInfo]}
        \cup [layout: {"legacy", "current"}, info: InstalledInfo]

InitialConfigFile ==
    {[layout |-> "absent", conf |-> ZeroConfig]} \cup [layout: {"full"}, conf: Config]

Init ==
    /\ bootInf \in [Title -> File \cup {NoFile}]
    /\ bootBin \in [Title -> InitialBootFile]
    /\ \A t \in Title : Installed(t)
    /\ configBin \in [Title -> InitialConfigFile]
    /\ \A t \in Title : bootBin[t].layout = "absent" => configBin[t].layout = "absent"
    /\ adrBin \in InitialConfigFile
    /\ content \in SUBSET [dev: Device, file: File]
    /\ states \in SUBSET (MsDevice \X Slot)
    /\ smagic = FALSE /\ kmagic = FALSE
    /\ pc = "idle" /\ proc = Adrenaline /\ emu = FALSE
    /\ info = ZeroInfo /\ cfg = ZeroConfig
    /\ load_state = FALSE /\ index = 0 /\ program = NoFile /\ save = "none"

-----------------------------------------------------------------------------
(* Ends of a process *)

\* Mutant: the record of a module outlives its process.
GoneButRecord ==
    /\ pc' = "idle"
    /\ emu' = FALSE
    /\ cfg' = ZeroConfig
    /\ load_state' = FALSE
    /\ index' = 0
    /\ program' = NoFile
    /\ save' = "none"
    /\ UNCHANGED <<proc, info>>

\* The module memory of a process goes with it.
Gone ==
    /\ pc' = "idle"
    /\ emu' = FALSE
    /\ info' = ZeroInfo
    /\ cfg' = ZeroConfig
    /\ load_state' = FALSE
    /\ index' = 0
    /\ program' = NoFile
    /\ save' = "none"
    /\ UNCHANGED proc

\* sceKernelExitProcess.
ExitProcess == Gone /\ UNCHANGED <<disk, memory>>

\* The user closes the application, or the system kills it; the memory of the
\* kernel and of the shell stays.
Kill ==
    /\ Crashes
    /\ pc # "idle"
    /\ Gone
    /\ UNCHANGED <<disk, memory>>

PowerLoss ==
    /\ Crashes
    /\ Gone
    /\ smagic' = FALSE
    /\ kmagic' = FALSE
    /\ UNCHANGED disk

\* The application ends by itself.
Quit ==
    /\ pc \in {"native", "booter", "vsh", "recovery", "content", "state", "failed"}
    /\ save = "none"
    /\ ExitProcess

Step(next) == pc' = next /\ UNCHANGED <<proc, emu, load_state, index, program, save>>

-----------------------------------------------------------------------------
(* Shell and kernel *)

\* sceLsdbGetTypePatched: is the title of the PSP emulator's kind?
ShellType(t) ==
    \/ t \in PspemuNamed
    \/ LooksLikeBubble(bootBin[t], smagic)
    \/ bootInf[t] # NoFile

\* The shell asks for the type of a title whenever it draws its icon.
ShellGetType(t) ==
    /\ smagic' = MagicAfterRead(bootBin[t], smagic)
    /\ UNCHANGED <<disk, kmagic, process>>

\* The type decides whether the title is started as a PSP emulator process;
\* ksceKernelStartPreloadedModulesPatched then runs in it.
Launch(t) ==
    /\ pc = "idle"
    /\ proc' = t
    /\ smagic' = MagicAfterRead(bootBin[t], smagic)
    /\ emu' = ShellType(t)
    /\ pc' = IF bootInf[t] # NoFile THEN "bootconv" ELSE "kread"
    /\ UNCHANGED <<disk, kmagic, info, cfg, load_state, index, program, save>>

\* The kernel reads boot.bin after bootconv has had its chance to create it.
KernelRead ==
    /\ pc = "kread"
    /\ kmagic' = MagicAfterRead(bootBin[proc], kmagic)
    /\ Step(IF proc \in PspemuNamed \/ LooksLikeBubble(bootBin[proc], kmagic)
            THEN "abb" ELSE "native")
    /\ UNCHANGED <<disk, smagic, info, cfg>>

-----------------------------------------------------------------------------
(* bootconv *)

\* The path that boot.inf names, on the device the global settings select.
ConvertedPath == [dev |-> ReadConfig(adrBin).loc, file |-> bootInf[proc]]

BootconvExit ==
    /\ pc = "bootconv"
    /\ \/ ~emu
       \/ proc # Adrenaline /\ bootBin[proc].layout = "absent" /\ ~Exists(ConvertedPath)
    /\ ExitProcess

BootconvSkip ==
    /\ pc = "bootconv"
    /\ emu
    /\ proc = Adrenaline \/ bootBin[proc].layout # "absent"
    /\ Step("kread")
    /\ UNCHANGED <<disk, memory, info, cfg>>

BootconvStart ==
    /\ pc = "bootconv"
    /\ emu
    /\ proc # Adrenaline
    /\ bootBin[proc].layout = "absent"
    /\ Exists(ConvertedPath)
    /\ info' = [ZeroInfo EXCEPT !.magic = TRUE, !.path = ConvertedPath]
    /\ Step("convTrunc")
    /\ UNCHANGED <<disk, memory, cfg>>

\* write_file: the open with O_TRUNC, which may fail ...
OpenBootBin(at, opened, failed) ==
    /\ pc = at
    /\ \/ /\ bootBin' = [bootBin EXCEPT ![proc] = EmptyBootBin]
          /\ Step(opened)
       \/ /\ WriteFaults
          /\ UNCHANGED bootBin
          /\ Step(failed)
    /\ UNCHANGED <<bootInf, configBin, adrBin, content, states, memory, info, cfg>>

\* ... and the write.  Neither caller looks at the result.
WriteBootBin(at, next) ==
    /\ pc = at
    /\ \/ bootBin' = [bootBin EXCEPT ![proc] = [layout |-> "current", info |-> info]]
       \/ WriteFaults /\ UNCHANGED bootBin
    /\ Step(next)
    /\ UNCHANGED <<bootInf, configBin, adrBin, content, states, memory, info, cfg>>

BootconvOpen == OpenBootBin("convTrunc", "convWrite", "convRemove")
BootconvWrite == WriteBootBin("convWrite", "convRemove")

\* sceIoRemove(boot.inf), and the module returns: its boot_info goes.
BootconvRemove ==
    /\ pc = "convRemove"
    /\ bootInf' = [bootInf EXCEPT ![proc] = NoFile]
    /\ info' = ZeroInfo
    /\ Step("kread")
    /\ UNCHANGED <<bootBin, configBin, adrBin, content, states, memory, cfg>>

-----------------------------------------------------------------------------
(* adrbubblebooter *)

AbbExit ==
    /\ pc = "abb"
    /\ ~emu \/ (proc # Adrenaline /\ bootBin[proc].layout = "absent")
    /\ ExitProcess

\* Launched as the host itself.
AbbHost ==
    /\ pc = "abb"
    /\ emu
    /\ proc = Adrenaline
    /\ Step("user")
    /\ UNCHANGED <<disk, memory, info, cfg>>

AbbRead ==
    /\ pc = "abb"
    /\ emu
    /\ proc # Adrenaline
    /\ bootBin[proc].layout = "current"
    /\ info' = bootBin[proc].info
    /\ Step("settings")
    /\ UNCHANGED <<disk, memory, cfg>>

\* Mutant: a legacy record is read with the current layout.
AbbUpgradeAsCurrent ==
    /\ pc = "abb"
    /\ emu
    /\ proc # Adrenaline
    /\ bootBin[proc].layout \in {"legacy", "empty"}
    /\ info' = ReadBootInfo(bootBin[proc])
    /\ Step("upTrunc")
    /\ UNCHANGED <<disk, memory, cfg>>

\* Mutant: the fields of a legacy record are taken one word too far.
AbbUpgradeShifted ==
    /\ pc = "abb"
    /\ emu
    /\ proc # Adrenaline
    /\ bootBin[proc].layout \in {"legacy", "empty"}
    /\ info' = [bootBin[proc].info EXCEPT !.customized = bootBin[proc].info.loadstate]
    /\ Step("upTrunc")
    /\ UNCHANGED <<disk, memory, cfg>>

\* Any size but 0x140 is taken for the legacy layout; an empty file reads as
\* zeros.
AbbUpgrade ==
    /\ pc = "abb"
    /\ emu
    /\ proc # Adrenaline
    /\ bootBin[proc].layout \in {"legacy", "empty"}
    /\ info' = bootBin[proc].info
    /\ Step("upTrunc")
    /\ UNCHANGED <<disk, memory, cfg>>

AbbUpgradeOpen == OpenBootBin("upTrunc", "upWrite", "settings")
AbbUpgradeWrite == WriteBootBin("upWrite", "settings")

\* Mutant: the per-bubble settings are not read before they are written.
SelectedGlobalConfig == ReadConfig(adrBin)

\* The global settings, replaced by the per-bubble ones when the bubble is
\* customized and the file has any.
SelectedConfig ==
    IF info.customized = 1 /\ configBin[proc].layout = "full"
    THEN configBin[proc].conf
    ELSE ReadConfig(adrBin)

HasSelectedState == info.loadstate # 0 /\ <<Location(info.path.dev), info.loadstate>> \in states

\* The save state to be loaded exists: nothing is written.
AbbKeepLocation ==
    /\ pc = "settings"
    /\ HasSelectedState
    /\ Step("user")
    /\ UNCHANGED <<disk, memory, info, cfg>>

\* Mutant: the content is not looked for.
AbbSetLocationUnchecked ==
    /\ pc = "settings"
    /\ ~HasSelectedState
    /\ cfg' = [SelectedConfig EXCEPT !.loc = Location(info.path.dev)]
    /\ Step("locTrunc")
    /\ UNCHANGED <<disk, memory, info>>

AbbSetLocation ==
    /\ pc = "settings"
    /\ ~HasSelectedState
    /\ Exists(info.path)
    /\ cfg' = [SelectedConfig EXCEPT !.loc = Location(info.path.dev)]
    /\ Step("locTrunc")
    /\ UNCHANGED <<disk, memory, info>>

AbbNoContent ==
    /\ pc = "settings"
    /\ ~HasSelectedState
    /\ ~Exists(info.path)
    /\ ExitProcess

\* Mutant: the location always goes to the global settings.
PutGlobalConfig(custom, f) == adrBin' = f /\ UNCHANGED configBin

\* The settings file that goes with the record, replaced by f.
PutConfig(custom, f) ==
    IF custom
    THEN configBin' = [configBin EXCEPT ![proc] = f] /\ UNCHANGED adrBin
    ELSE adrBin' = f /\ UNCHANGED configBin

AbbOpenConfig ==
    /\ pc = "locTrunc"
    /\ PutConfig(info.customized = 1, EmptyConfig)
    /\ Step("locWrite")
    /\ UNCHANGED <<bootInf, bootBin, content, states, memory, info, cfg>>

AbbWriteConfig ==
    /\ pc = "locWrite"
    /\ PutConfig(info.customized = 1, [layout |-> "full", conf |-> cfg])
    /\ Step("user")
    /\ UNCHANGED <<bootInf, bootBin, content, states, memory, info, cfg>>

\* Mutant: a failed write is tried again.
AbbWriteRetries ==
    /\ WriteFaults
    /\ pc \in {"locTrunc", "locWrite"}
    /\ Step("locTrunc")
    /\ UNCHANGED <<disk, memory, info, cfg>>

\* A negative result of write_file ends the process.
AbbWriteFails ==
    /\ WriteFaults
    /\ pc \in {"locTrunc", "locWrite"}
    /\ ExitProcess

-----------------------------------------------------------------------------
(* adrenaline_user *)

\* module_start reads the record again, and the settings it selects; without
\* ScePspemu in the process nothing is hooked.
UserStart ==
    /\ pc = "user"
    /\ info' = IF proc = Adrenaline THEN ZeroInfo ELSE ReadBootInfo(bootBin[proc])
    /\ cfg' = ReadConfig(IF info'.customized # 0 THEN configBin[proc] ELSE adrBin)
    /\ Step(IF emu THEN "request" ELSE "native")
    /\ UNCHANGED <<disk, memory>>

StateExists(n) == <<cfg.loc, n>> \in states

\* sceCompatWaitSpecialRequestPatched with the trigger buttons held, and with
\* or without the flash0 folder.
WaitSpecialRequest(ltrigger, rtrigger, flash0) ==
    LET booter ==
            /\ proc # Adrenaline
            /\ info.loadstate = 0 \/ ~StateExists(info.loadstate) \/ ltrigger
    IN  /\ pc = "request"
        /\ load_state' = booter
        /\ index' = IF ~flash0 \/ (rtrigger /\ proc = Adrenaline) THEN 4
                    ELSE IF booter THEN 5 ELSE 0
        /\ pc' = CASE index' = 4 -> "recovery"
                   [] index' = 5 -> "booter"
                   [] OTHER      -> "vsh"
        /\ UNCHANGED <<disk, memory, proc, emu, info, cfg, program, save>>

\* A request of the PSP reaches AdrenalineCompat: the selected state is loaded
\* once, over whatever the PSP runs.
AutoLoadState ==
    /\ pc \in {"vsh", "recovery"}
    /\ info.loadstate >= 1
    /\ ~load_state
    /\ StateExists(info.loadstate)
    /\ load_state' = TRUE
    /\ pc' = "state"
    /\ program' = NoFile
    /\ UNCHANGED <<disk, memory, proc, emu, info, cfg, index, save>>

-----------------------------------------------------------------------------
(* booter.prx *)

\* booter_thread: the record is read through ms0:/__APPID__, and its path is
\* taken relative to ms0:, that is to the current memory stick location.
Ms0Path == [dev |-> cfg.loc, file |-> ReadBootInfo(bootBin[proc]).path.file]

\* The thread ends when nothing is there; what is there may also have no known
\* type, or not start.
Booter ==
    /\ pc = "booter"
    /\ \/ Exists(Ms0Path) /\ pc' = "content" /\ program' = Ms0Path.file
       \/ pc' = "failed" /\ UNCHANGED program
    /\ UNCHANGED <<disk, memory, proc, emu, info, cfg, load_state, index, save>>

\* "Restart Booter" of the menu.
RestartBooter ==
    /\ pc \in {"vsh", "recovery", "content", "state", "failed"}
    /\ proc # Adrenaline
    /\ save = "none"
    /\ load_state' = TRUE
    /\ pc' = "booter"
    /\ program' = NoFile
    /\ UNCHANGED <<disk, memory, proc, emu, info, cfg, index, save>>

-----------------------------------------------------------------------------
(* The menu *)

MenuReachable ==
    /\ pc \in {"booter", "vsh", "recovery", "content", "state", "failed"}
    /\ save = "none"

\* Options are changed and the menu is left: saveConfigs begins.
MenuEdit(loc, rest, customized, loadstate) ==
    /\ MenuReachable
    /\ cfg' = [loc |-> loc, rest |-> rest]
    /\ info' = IF proc = Adrenaline THEN info
               ELSE [info EXCEPT !.customized = customized, !.loadstate = loadstate]
    /\ save' = "cfgTrunc"
    /\ UNCHANGED <<disk, memory, pc, proc, emu, load_state, index, program>>

\* ResetAdrenalineSettings or ResetBooterSettings with no option touched since
\* the menu was opened: changed is 0, so saveConfigs writes nothing.
MenuResetUnsaved ==
    /\ MenuReachable
    /\ \/ cfg' = ZeroConfig /\ UNCHANGED info
       \/ /\ proc # Adrenaline
          /\ info' = [info EXCEPT !.customized = 0, !.loadstate = 0]
          /\ UNCHANGED cfg
    /\ UNCHANGED <<disk, memory, pc, proc, emu, load_state, index, program, save>>

Saving(next) == save' = next /\ UNCHANGED <<pc, proc, emu, info, cfg, load_state, index, program>>

\* WriteFile of the settings, then of the record of a bubble.
SaveConfig ==
    /\ \/ save = "cfgTrunc" /\ PutConfig(info.customized # 0, EmptyConfig)
          /\ Saving("cfgWrite")
       \/ save = "cfgWrite" /\ PutConfig(info.customized # 0, [layout |-> "full", conf |-> cfg])
          /\ Saving(IF proc = Adrenaline THEN "none" ELSE "bootTrunc")
       \/ WriteFaults /\ save \in {"cfgTrunc", "cfgWrite"} /\ UNCHANGED <<configBin, adrBin>>
          /\ Saving(IF proc = Adrenaline THEN "none" ELSE "bootTrunc")
    /\ UNCHANGED <<bootInf, bootBin, content, states, memory>>

SaveBootInfo ==
    /\ \/ save = "bootTrunc" /\ bootBin' = [bootBin EXCEPT ![proc] = EmptyBootBin]
          /\ Saving("bootWrite")
       \/ save = "bootWrite"
          /\ bootBin' = [bootBin EXCEPT ![proc] = [layout |-> "current", info |-> info]]
          /\ Saving("none")
       \/ WriteFaults /\ save \in {"bootTrunc", "bootWrite"} /\ UNCHANGED bootBin
          /\ Saving("none")
    /\ UNCHANGED <<bootInf, configBin, adrBin, content, states, memory>>

\* A state is saved to, or deleted from, the current memory stick location.
SaveState(n) ==
    /\ MenuReachable
    /\ states' = states \cup {<<cfg.loc, n>>}
    /\ UNCHANGED <<bootInf, bootBin, configBin, adrBin, content, memory, process>>

DeleteState(n) ==
    /\ MenuReachable
    /\ states' = states \ {<<cfg.loc, n>>}
    /\ UNCHANGED <<bootInf, bootBin, configBin, adrBin, content, memory, process>>

-----------------------------------------------------------------------------

\* The steps of a launch, which nothing but the end of the process stops.
BootStep ==
    \/ KernelRead
    \/ BootconvExit \/ BootconvSkip \/ BootconvStart
    \/ BootconvOpen \/ BootconvWrite \/ BootconvRemove
    \/ AbbExit \/ AbbHost \/ AbbRead
    \/ AbbUpgrade \/ AbbUpgradeOpen \/ AbbUpgradeWrite
    \/ AbbKeepLocation \/ AbbSetLocation \/ AbbNoContent
    \/ AbbOpenConfig \/ AbbWriteConfig \/ AbbWriteFails
    \/ UserStart
    \/ \E l, r, f \in BOOLEAN : WaitSpecialRequest(l, r, f)
    \/ Booter

MenuStep ==
    \/ RestartBooter
    \/ \E loc \in MsDevice, rest \in Settings, c \in {0, 1}, n \in Slot \cup {0} :
           MenuEdit(loc, rest, c, n)
    \/ MenuResetUnsaved
    \/ SaveConfig \/ SaveBootInfo
    \/ \E n \in Slot : SaveState(n) \/ DeleteState(n)

Next ==
    \/ \E t \in Title : ShellGetType(t) \/ Launch(t)
    \/ BootStep
    \/ AutoLoadState
    \/ MenuStep
    \/ Kill \/ PowerLoss \/ Quit

Spec == Init /\ [][Next]_vars

\* The threads of a live process keep running; a launch, the menu, and the end
\* of a process are the user's.
FairSpec == Spec /\ WF_vars(BootStep) /\ WF_vars(AutoLoadState)

-----------------------------------------------------------------------------
(* Properties *)

Boot == {"bootconv", "convTrunc", "convWrite", "convRemove", "kread", "abb",
         "upTrunc", "upWrite", "settings", "locTrunc", "locWrite", "user",
         "request"}
Running == {"booter", "vsh", "recovery", "content", "state", "failed"}

\* Every file and every module's copy of it has the shape the code gives it,
\* and the menu saves only in a running emulator process.
TypeOK ==
    /\ bootInf \in [Title -> File \cup {NoFile}]
    /\ bootBin \in [Title -> BootFile]
    /\ configBin \in [Title -> ConfigFile]
    /\ adrBin \in ConfigFile
    /\ content \subseteq [dev: Device, file: File]
    /\ states \subseteq MsDevice \X Slot
    /\ smagic \in BOOLEAN /\ kmagic \in BOOLEAN
    /\ pc \in {"idle", "native"} \cup Boot \cup Running
    /\ proc \in Title
    /\ emu \in BOOLEAN
    /\ info \in BootInfo
    /\ cfg \in Config
    /\ load_state \in BOOLEAN
    /\ index \in {0, 4, 5}
    /\ program \in File \cup {NoFile}
    /\ save \in {"none", "cfgTrunc", "cfgWrite", "bootTrunc", "bootWrite"}
    /\ save # "none" => pc \in Running

\* When adrenaline_user takes over in a bubble whose state to load does not
\* exist, the memory stick it selected is the one of the device that holds the
\* game, and the game is there: whichever settings file adrbubblebooter wrote is
\* the one the user module reads, and a failed write ends the process first.
LocationSetForGame ==
    (pc = "request" /\ proc # Adrenaline /\ info.path.file # NoFile /\ ~HasSelectedState)
        => cfg.loc = Location(info.path.dev) /\ Exists(info.path)

\* adrbubblebooter rewrites a settings file only on behalf of a title that is a
\* bubble by its own record, although the magic word the kernel module tested
\* may be left over from another title.
SettingsWrittenForBubbles ==
    (pc \in {"locTrunc", "locWrite"} /\ proc \notin PspemuNamed) => info.magic

\* bootconv, src/vita/bootconv/main.c: "Conversion is one-shot after boot.bin is
\* written."  The old record is removed only when the new one is complete.
RemovedOnlyAfterWrite ==
    [][\A t \in Title : bootInf[t] # NoFile /\ bootInf'[t] = NoFile
                            => bootBin[t].layout = "current"]_vars

\* The game of a bubble, from whichever of its records is complete; while
\* boot.bin is being rewritten that is the copy in the process that does it.
GameOf(t) ==
    IF bootBin[t].layout \in {"legacy", "current"} THEN bootBin[t].info.path.file
    ELSE IF bootInf[t] # NoFile THEN bootInf[t]
    ELSE IF t = proc THEN info.path.file
    ELSE NoFile

\* Converting, upgrading and saving a record, in any order and over any number
\* of launches, never loses the game a bubble was made for nor changes it.
GameKept ==
    [][\A t \in Title : GameOf(t) # NoFile => GameOf(t)' = GameOf(t)]_vars

\* The settings besides the location: those in the file, or the copy in the
\* process that is rewriting it.
GlobalSettings ==
    IF pc = "locWrite" /\ info.customized = 0 THEN cfg.rest ELSE ReadConfig(adrBin).rest

HasOwnSettings(t) ==
    configBin[t].layout = "full" \/ (pc = "locWrite" /\ info.customized = 1 /\ t = proc)

OwnSettings(t) ==
    IF configBin[t].layout = "full" THEN configBin[t].conf.rest ELSE cfg.rest

\* A launch changes nothing in the settings but the location: adrbubblebooter
\* reads both files and rewrites one of them from what it read.
SettingsKept ==
    [][(pc \in Boot /\ pc' # "idle") =>
           /\ GlobalSettings' = GlobalSettings
           /\ \A t \in Title : HasOwnSettings(t) =>
                  HasOwnSettings(t)' /\ OwnSettings(t)' = OwnSettings(t)]_vars

\* A launch comes to an end: the title runs, or its process is gone.
LaunchSettles == (pc \in Boot) ~> (pc \notin Boot)

\* The games that the records of a title name, on the disk and in its process.
Named(f) == IF f.layout \in {"legacy", "current"} THEN {f.info.path.file} ELSE {}
Games(t) ==
    ({bootInf[t]} \cup Named(bootBin[t]) \cup (IF t = proc THEN {info.path.file} ELSE {}))
        \ {NoFile}

\* What the files and the process are for the user: see Bubbles.
User == INSTANCE Bubbles WITH
    MayLose <- Crashes \/ WriteFaults,
    game <- [t \in Title |-> Games(t)],
    live <- IF pc = "idle" THEN {} ELSE {proc},
    playing <- {program} \ {NoFile}

\* The launch plays the game of the bubble that was launched, and takes it away
\* from none; a crash or a failed write takes it at most from the one that runs.
Implements == User!Spec

=============================================================================
