------------------------------- MODULE PspBoot -------------------------------
(* The PSP side across reboots: the boot loader patches (payloadex after a     *)
(* cold start, rebootex after a LoadExec), SystemControl's copy of the         *)
(* rebootex configuration, the module starts it hooks (settings, memory,       *)
(* plugins, idle work), and the booter that launches the bubble's content.     *)
(*                                                                             *)
(* rebootex is SystemControl's copy of RebootexConfig and shared the one at    *)
(* 0x88FB0000 that survives a reboot.  One action is one handler.  A module    *)
(* list holds the entries of pspbtcnf.txt whose start this code looks at.      *)
EXTENDS Integers, Sequences, FiniteSets, SequencesExt

CONSTANTS Stored,      \* settings as files may hold them: sets of options set
          MaxBoots,    \* bound: boots of one behaviour
          WordSize     \* values of a u32, in megabytes asked for

ASSUME MaxBootsAssumption == MaxBoots \in Nat \ {0}
ASSUME WordSizeAssumption == WordSize \in Nat /\ WordSize > 104

VARIABLES
  phase,      \* "off", "reboot", "btcnf", "config", "sysctl", "init", "program"
  shared,     \* RebootexConfig at 0x88FB0000
  rebootex,   \* SystemControl's rebootex_config
  boot,       \* the running boot: its mode, whether from disc0, its list index,
              \* and the loader whose patches are still to run
  table,      \* module entries of the boot configuration
  maxsearch,  \* how many of them the boot looks at
  pos,        \* how many entries have been passed
  files,      \* config.adrenaline and boot.bin, the options they set
  config,     \* config and config_booter, as read at this boot
  plugindone, idle,
  user,       \* size set for the user memory partition, in MB
  clock,      \* what fixed the clock: "default", "program" or "menu"
  (* history *)
  boots,      \* number of this boot
  runs,       \* how often this boot went through a plugin list
  asked,      \* boot in which rebootex.ram2 was last asked for
  granted,    \* boots that got memory by that request
  published,  \* the disc and list the booter last chose
  wanted      \* recovery has been asked for and not yet served

vars == <<phase, shared, rebootex, boot, table, maxsearch, pos, files, config,
          plugindone, idle, user, clock, boots, runs, asked, granted, published,
          wanted>>
history == <<boots, runs, asked, granted, published, wanted>>
machine == <<table, maxsearch, pos, config, plugindone, idle, user, clock>>

(* Sizes programs ask for, in MB: none, too much, and so much that the sum of   *)
(* the two wraps.  The high memory of the settings asks for what there is.     *)
Requests == {<<0, 8>>, <<52, 8>>, <<60, WordSize - 16>>}
Modes == {"V", "G", "P", "E"}    \* VSH, game, pops, UMD emulation
DiscLists == {"inferno", "march33", "np9660"}
Lists == DiscLists \cup {"normal", "recovery", "booter"}

RebootexConfig(i) == [index |-> i, umd |-> "none", ram2 |-> 0, ram11 |-> 0,
                      module_after |-> "none"]

KeyConfig(mode) ==
  CASE mode = "V" -> "VSH" [] mode = "P" -> "POPS" [] OTHER -> "GAME"

Entry(name, modes) == [name |-> name, modes |-> modes]

(* The order of the starts this code waits for: booter's list and recovery's;  *)
(* the other lists are not in the repository and taken as recovery's, with     *)
(* sceNp9660_driver replaced in the lists of the other two drivers.            *)
BootTable(i) ==
  << Entry("power", Modes),
     Entry("npdrm", IF i = "booter" THEN {"V", "P"} ELSE {"V", "P", "E"}),
     Entry(IF i \in {"inferno", "march33"} THEN "isodriver" ELSE "np9660",
           IF i = "booter" THEN {} ELSE {"E"}),
     Entry("mecodec", Modes), Entry("mediasync", Modes), Entry("program", Modes) >>

Names == {"power", "npdrm", "isodriver", "np9660", "mecodec", "mediasync",
          "program", "rtm"}

Init ==
  /\ phase = "off" /\ boots = 0
  /\ shared = RebootexConfig("normal") /\ rebootex = shared
  /\ boot = [mode |-> "V", disc |-> FALSE, index |-> "normal", loader |-> "none"]
  /\ files \in Stored
  /\ table = <<>> /\ maxsearch = 0 /\ pos = 0 /\ config = {}
  /\ plugindone = FALSE /\ idle = FALSE /\ user = 24 /\ clock = "default"
  /\ runs = 0 /\ asked = 0 /\ granted = {}
  /\ published = [index |-> "normal", umd |-> "none"] /\ wanted = FALSE

(* A reboot and the end of the process leave nothing of the running modules.   *)
Forget ==
  /\ table' = <<>> /\ maxsearch' = 0 /\ pos' = 0 /\ config' = {}
  /\ plugindone' = FALSE /\ idle' = FALSE /\ user' = 24 /\ clock' = "default"
  /\ runs' = 0

-----------------------------------------------------------------------------
(* Boot: cold start, the loader's two callbacks, SystemControl's module_start  *)

(* A cold start clears the shared configuration and sets its list: the booter  *)
(* of a bubble, or recovery on R or without the flash0 directory.              *)
ColdStart(i) ==
  /\ phase = "off" /\ boots < MaxBoots
  /\ i \in {"normal", "booter", "recovery"}
  /\ shared' = RebootexConfig(i)
  /\ boot' = [mode |-> "V", disc |-> FALSE, index |-> i, loader |-> "payloadex"]
  /\ phase' = "btcnf" /\ boots' = boots + 1
  /\ asked' = 0 /\ granted' = {} /\ wanted' = (i = "recovery")
  /\ UNCHANGED <<machine, rebootex, files, runs, published>>

\* Mutant: recovery is not reset to normal.
LoadBtcnfKeepsRecovery ==
  /\ phase = "btcnf"
  /\ boot' = [boot EXCEPT !.index = shared.index]
  /\ table' = BootTable(shared.index)
  /\ maxsearch' = Len(table') /\ pos' = 0
  /\ phase' = "config"
  /\ UNCHANGED <<shared, rebootex, files, config, plugindone, idle, user, clock, history>>

(* sceKernelBootLoadFilePatched names the configuration and leaves recovery.   *)
LoadBtcnf ==
  /\ phase = "btcnf"
  /\ boot' = [boot EXCEPT !.index = shared.index]
  /\ table' = BootTable(shared.index)
  /\ maxsearch' = Len(table') /\ pos' = 0
  /\ shared' = [shared EXCEPT !.index = IF @ = "recovery" THEN "normal" ELSE @]
  /\ phase' = "config"
  /\ UNCHANGED <<rebootex, files, config, plugindone, idle, user, clock, history>>

(* InsertModule: the entry goes just before module_after and every mode looks  *)
(* one entry further; without module_after in the table nothing changes.       *)
Position(name) == CHOOSE i \in 1..Len(table) : table[i].name = name

\* Mutant: maxsearch is not increased.
InsertModuleSameLimit(name) ==
  IF \E i \in 1..Len(table) : table[i].name = name
  THEN /\ table' = InsertAt(table, Position(name), Entry("rtm", Modes))
       /\ UNCHANGED maxsearch
  ELSE UNCHANGED <<table, maxsearch>>

InsertModule(name) ==
  IF \E i \in 1..Len(table) : table[i].name = name
  THEN /\ table' = InsertAt(table, Position(name), Entry("rtm", Modes))
       /\ maxsearch' = maxsearch + 1
  ELSE UNCHANGED <<table, maxsearch>>

CheckPspConfig ==
  /\ phase = "config"
  /\ IF shared.module_after # "none" THEN InsertModule(shared.module_after)
                                     ELSE UNCHANGED <<table, maxsearch>>
  /\ phase' = "sysctl"
  /\ boot' = [boot EXCEPT !.loader = "none"]
  /\ UNCHANGED <<shared, rebootex, pos, files, config, plugindone, idle, user, clock,
                 history>>

(* Both loaders have the two callbacks: payloadex patches the one that a cold  *)
(* start runs, rebootex the one of a LoadExec.                                 *)
Payloadex == boot.loader = "payloadex" /\ (LoadBtcnf \/ CheckPspConfig)
Rebootex == boot.loader = "rebootex" /\ (LoadBtcnf \/ CheckPspConfig)

(* A fresh SystemControl, its variables zero and 24 MB of user memory before   *)
(* partition 11, takes over the shared configuration.                          *)
SystemControlStart ==
  /\ phase = "sysctl"
  /\ rebootex' = shared /\ wanted' = FALSE
  /\ phase' = "init"
  /\ UNCHANGED <<machine, shared, boot, files, boots, runs, asked, granted, published>>

-----------------------------------------------------------------------------
(* The starts of the modules                                                   *)

Key == KeyConfig(boot.mode)

(* What sceKernelFindModuleByName finds once n entries have been loaded.        *)
Loaded(n) == {table[i].name : i \in {j \in 1..n : boot.mode \in table[j].modes}}

(* The test of both functions, on a sum of two u32.                            *)
MemorySum(ram) == (ram[1] + ram[2]) % WordSize
ValidMemory(ram) == ram[1] # 0 /\ MemorySum(ram) <= 52

\* Mutant: the sum of the partitions is not checked.
SetMemoryAny(config0, ram) ==
  IF ram[1] # 0 THEN [config0 EXCEPT !.ram2 = ram[1], !.ram11 = ram[2]]
                ELSE config0

(* sctrlHENSetMemory *)
SetMemory(config0, ram) ==
  IF ValidMemory(ram) THEN [config0 EXCEPT !.ram2 = ram[1], !.ram11 = ram[2]]
                      ELSE config0

(* ApplyMemory on the configuration c: the size the user partition then has.   *)
ApplyMemory(c) == IF ValidMemory(<<c.ram2, c.ram11>>) THEN c.ram2 ELSE user

(* What config.adrenaline holds of the options; boot.bin holds the others.     *)
AdrenalineOptions ==
  {"force", "notusexmbplugins", "notusegameplugins", "notusepopsplugins"}

(* scePower_Service: the two files are read, each as zero when it cannot be    *)
(* opened, and a game gets the high memory the settings ask for.               *)
HighMemory(c) ==
  Key = "GAME" /\ "high2" \notin c /\ ("high1" \in c \/ "force" \in c)

StartPower ==
  /\ config' \in {files, files \cap AdrenalineOptions, files \ AdrenalineOptions, {}}
  /\ IF HighMemory(config')
     THEN /\ rebootex' = SetMemory(rebootex, <<52, 0>>)
          /\ user' = ApplyMemory(rebootex')
          /\ asked' = boots /\ granted' = {boots}
     ELSE UNCHANGED <<rebootex, user, asked, granted>>

\* Mutant: the request is not used up.
GetIndexKeeps(memsize) ==
  IF rebootex.ram2 = 0
  THEN IF memsize
       THEN /\ rebootex' = SetMemory(rebootex, <<52, 0>>)
            /\ user' = ApplyMemory(rebootex')
            /\ asked' = boots /\ granted' = {boots}
       ELSE UNCHANGED <<rebootex, user, asked, granted>>
  ELSE /\ user' = ApplyMemory(rebootex)
       /\ granted' = granted \cup {boots}
       /\ UNCHANGED <<rebootex, asked>>

(* sceMediaSync: sceSystemFileGetIndexPatched on the program's PARAM.SFO.  A   *)
(* request is used up here; without one the SFO's MEMSIZE makes a new one.     *)
GetIndex(memsize) ==
  IF rebootex.ram2 = 0
  THEN IF memsize
       THEN /\ rebootex' = SetMemory(rebootex, <<52, 0>>)
            /\ user' = ApplyMemory(rebootex')
            /\ asked' = boots /\ granted' = {boots}
       ELSE UNCHANGED <<rebootex, user, asked, granted>>
  ELSE /\ user' = ApplyMemory(rebootex)
       /\ rebootex' = [rebootex EXCEPT !.ram2 = 0]
       /\ granted' = granted \cup {boots}
       /\ UNCHANGED asked

(* sceKernelStartModulePatched.  The plugins wait for the codec wrapper when   *)
(* the NP9660 driver is there and for sceMediaSync otherwise.                  *)
WaitModule(n) == IF "np9660" \in Loaded(n) THEN "mecodec" ELSE "mediasync"

PluginsDue(name, n) ==
  /\ ~(name = "program" /\ boot.mode = "V")    \* vsh_module is handled before
  /\ ~plugindone /\ WaitModule(n) \in Loaded(n)

NotUsed ==
  CASE Key = "VSH" -> "notusexmbplugins" [] Key = "GAME" -> "notusegameplugins"
    [] OTHER -> "notusepopsplugins"

HasPluginFile(n) ==
  /\ ~(Key = "VSH" /\ "npdrm" \notin Loaded(n))
  /\ NotUsed \notin config
  /\ ~(Key # "VSH" /\ "plugins2" \in config)

\* Mutant: plugindone is never set.
StartPluginsNotDone(name, n) ==
  IF PluginsDue(name, n)
  THEN /\ UNCHANGED plugindone
       /\ \E readable \in BOOLEAN :
            runs' = IF HasPluginFile(n) /\ readable THEN runs + 1 ELSE runs
  ELSE UNCHANGED <<plugindone, runs>>

(* The list may be missing after 16 tries, or its buffer; plugindone is set    *)
(* all the same.                                                               *)
StartPlugins(name, n) ==
  IF PluginsDue(name, n)
  THEN /\ plugindone' = TRUE
       /\ \E readable \in BOOLEAN :
            runs' = IF HasPluginFile(n) /\ readable THEN runs + 1 ELSE runs
  ELSE UNCHANGED <<plugindone, runs>>

\* Mutant: a clock that a program has set is kept.
SystemStatusIdleUnlessSet ==
  clock' = IF boot.disc /\ "speed" \in config /\ clock = "default" THEN "menu" ELSE clock

(* OnSystemStatusIdle: a disc gets the clock of the settings, and the clock    *)
(* functions programs call are then dummies (SetSpeed).                        *)
SystemStatusIdle ==
  clock' = IF boot.disc /\ "speed" \in config THEN "menu" ELSE clock

(* The idle work is done at the first start that finds the system status idle: *)
(* that of the program or one that the running program makes.                  *)
IdleCheck(name) ==
  \/ /\ ~idle /\ name \in {"program", "module"}
     /\ idle' = TRUE /\ SystemStatusIdle
  \/ UNCHANGED <<idle, clock>>

(* Init starts the next entry of the running mode; others it passes over.      *)
StartModule ==
  /\ phase = "init" /\ pos < maxsearch
  /\ pos' = pos + 1
  /\ LET entry == table[pos + 1] name == entry.name IN
     IF boot.mode \notin entry.modes
     THEN /\ UNCHANGED <<phase, rebootex, config, plugindone, idle, user, clock, history>>
     ELSE /\ StartPlugins(name, pos + 1)
          /\ IdleCheck(name)
          /\ phase' = IF name = "program" THEN "program" ELSE phase
          /\ \/ /\ name = "power" /\ StartPower
             \/ /\ name = "mediasync" /\ UNCHANGED config
                /\ \/ \E memsize \in BOOLEAN : GetIndex(memsize)
                   \/ boot.mode # "G" /\ UNCHANGED <<rebootex, user, asked, granted>>
             \/ /\ name \notin {"power", "mediasync"}
                /\ UNCHANGED <<config, rebootex, user, asked, granted>>
          /\ UNCHANGED <<boots, published, wanted>>
  /\ UNCHANGED <<shared, boot, table, maxsearch, files>>

-----------------------------------------------------------------------------
(* What programs do; in the last boot of a behaviour only what it shows itself *)
Running == phase = "program" /\ boots < MaxBoots

(* LoadExec reaches RunRebootPatched: unless the target is on disc0 the list   *)
(* goes back to normal, or stays recovery, and the disc is forgotten.          *)
RunReboot(c, disc) ==
  IF disc THEN c
  ELSE [c EXCEPT !.index = IF @ # "recovery" THEN "normal" ELSE @, !.umd = "none"]

LoadExec(c, mode) ==
  /\ rebootex' = RunReboot(c, mode = "E")
  /\ boot' = [boot EXCEPT !.mode = mode, !.disc = (mode = "E"), !.loader = "rebootex"]
  /\ phase' = "reboot" /\ boots' = boots + 1
  /\ Forget

(* DecodeKL4EPatched hands the configuration to rebootex. *)
DecodeKL4E ==
  /\ phase = "reboot"
  /\ shared' = rebootex
  /\ phase' = "btcnf"
  /\ UNCHANGED <<machine, rebootex, boot, files, history>>

(* A program starts itself again or leaves for the VSH; exit_callback is the   *)
(* second for pops.                                                            *)
ProgramLoadExec(mode) ==
  /\ Running
  /\ mode \in {boot.mode, "V"} \cup (IF boot.mode = "V" THEN {"G", "P"} ELSE {})
  /\ LoadExec(rebootex, mode)
  /\ UNCHANGED <<shared, files, asked, granted, published, wanted>>

(* booter.prx: the disc and its list are published before the LoadExec, which  *)
(* may fail.                                                                   *)
Published(content) ==
  CASE content = "npdrm" -> [index |-> "np9660", umd |-> "none"]
    [] content \in DiscLists -> [index |-> content, umd |-> "iso"]
    [] OTHER -> [index |-> rebootex.index, umd |-> rebootex.umd]

BooterMode(content) ==
  CASE content = "pbp" -> "G" [] content = "ps1" -> "P" [] OTHER -> "E"

\* Mutant: the booter does not set the list.
LaunchKeepsList(content) ==
  /\ Running
  /\ LET chosen == Published(content)
         c == [rebootex EXCEPT !.umd = chosen.umd] IN
     /\ published' = IF BooterMode(content) = "E" THEN chosen ELSE published
     /\ \/ LoadExec(c, BooterMode(content))
        \/ rebootex' = c /\ UNCHANGED <<boot, phase, boots, runs, machine>>
  /\ UNCHANGED <<shared, files, asked, granted, wanted>>

Launch(content) ==
  /\ Running
  /\ LET chosen == Published(content)
         c == [rebootex EXCEPT !.index = chosen.index, !.umd = chosen.umd] IN
     /\ published' = IF BooterMode(content) = "E" THEN chosen ELSE published
     /\ \/ LoadExec(c, BooterMode(content))
        \/ rebootex' = c /\ UNCHANGED <<boot, phase, boots, runs, machine>>
  /\ UNCHANGED <<shared, files, asked, granted, wanted>>

(* The VSH menu asks for recovery at the next boot. *)
AskRecovery ==
  /\ Running /\ boot.mode = "V"
  /\ rebootex' = [rebootex EXCEPT !.index = "recovery"]
  /\ wanted' = TRUE
  /\ UNCHANGED <<machine, phase, shared, boot, files, boots, runs, asked, granted,
                 published>>

(* A program calls sctrlHENSetMemory for the next boot. *)
ProgramSetMemory(ram) ==
  /\ Running
  /\ rebootex' = SetMemory(rebootex, ram)
  /\ IF ValidMemory(ram) THEN asked' = boots /\ granted' = {}
                         ELSE UNCHANGED <<asked, granted>>
  /\ UNCHANGED <<machine, phase, shared, boot, files, boots, runs, published, wanted>>

(* A program leaves a module for the next boot (sctrlHENLoadModuleOnReboot).   *)
ModuleOnReboot(name) ==
  /\ Running
  /\ rebootex' = [rebootex EXCEPT !.module_after = name]
  /\ UNCHANGED <<machine, phase, shared, boot, files, history>>

(* sctrlSESetConfigEx truncates config.adrenaline and writes it again; a short *)
(* write leaves nothing that reads back.                                       *)
SetConfig(options) ==
  /\ Running
  /\ files' \in {options, files \ AdrenalineOptions}
  /\ UNCHANGED <<machine, phase, shared, rebootex, boot, history>>

(* A program sets the clock, unless SetSpeed has replaced the functions.       *)
ProgramSetClock ==
  /\ phase = "program" /\ clock # "menu"
  /\ clock' = "program"
  /\ UNCHANGED <<phase, shared, rebootex, boot, table, maxsearch, pos, files, config,
                 plugindone, idle, user, history>>

(* A program starts a module of its own.                                       *)
ProgramModule ==
  /\ phase = "program"
  /\ StartPlugins("module", pos)
  /\ IdleCheck("module")
  /\ UNCHANGED <<phase, shared, rebootex, boot, table, maxsearch, pos, files, config,
                 user, boots, asked, granted, published, wanted>>

(* The application is closed, at any moment. *)
Kill ==
  /\ phase # "off"
  /\ phase' = "off"
  /\ Forget
  /\ boot' = [mode |-> "V", disc |-> FALSE, index |-> "normal", loader |-> "none"]
  /\ shared' = RebootexConfig("normal") /\ rebootex' = shared'
  /\ published' = [index |-> "normal", umd |-> "none"]
  /\ wanted' = FALSE /\ asked' = 0 /\ granted' = {}
  /\ UNCHANGED <<files, boots>>

BootStep == Payloadex \/ Rebootex \/ SystemControlStart \/ StartModule \/ DecodeKL4E

Next ==
  \/ \E i \in Lists : ColdStart(i)
  \/ BootStep
  \/ \E mode \in Modes : ProgramLoadExec(mode)
  \/ \E content \in DiscLists \cup {"npdrm", "pbp", "ps1"} : Launch(content)
  \/ AskRecovery
  \/ \E ram \in Requests : ProgramSetMemory(ram)
  \/ \E name \in {"npdrm", "missing"} : ModuleOnReboot(name)
  \/ \E options \in Stored : SetConfig(options)
  \/ ProgramSetClock
  \/ ProgramModule
  \/ Kill

Spec == Init /\ [][Next]_vars
FairSpec == Spec /\ WF_vars(BootStep)

-----------------------------------------------------------------------------
(* Properties                                                                  *)

(* The types of the variables; a request that is still kept passes the test of *)
(* sctrlHENSetMemory, which bounds the u32 sum and not the memory asked for.   *)
TypeOK ==
  /\ phase \in {"off", "reboot", "btcnf", "config", "sysctl", "init", "program"}
  /\ \A c \in {shared, rebootex} :
       /\ c.index \in Lists /\ c.umd \in {"none", "iso"}
       /\ c.ram2 \in 0..(WordSize - 1) /\ c.ram11 \in 0..(WordSize - 1)
       /\ c.ram2 # 0 => MemorySum(<<c.ram2, c.ram11>>) <= 52
       /\ c.module_after \in {"none", "npdrm", "missing"}
  /\ boot \in [mode : Modes, disc : BOOLEAN, index : Lists,
              loader : {"none", "payloadex", "rebootex"}]
  /\ \A i \in 1..Len(table) : table[i].name \in Names /\ table[i].modes \subseteq Modes
  /\ maxsearch <= Len(table) /\ pos \in 0..maxsearch
  /\ files \in SUBSET UNION Stored /\ config \subseteq UNION Stored
  /\ plugindone \in BOOLEAN /\ idle \in BOOLEAN /\ user \in 1..(WordSize - 1)
  /\ clock \in {"default", "program", "menu"}
  /\ boots \in 0..MaxBoots /\ asked \in 0..boots /\ granted \subseteq 1..boots

Booted == phase \in {"init", "program"}

(* The plugin list is gone through at most once in a boot, only when the       *)
(* settings read in this boot allow it, and never before the drivers plugins   *)
(* rely on: the codec wrapper, and npdrm in the VSH (sceKernelStartModulePatched). *)
PluginsOnce ==
  Booted /\ runs > 0 =>
    /\ runs = 1 /\ plugindone
    /\ boot.mode = "V" => "notusexmbplugins" \notin config
    /\ boot.mode \in {"G", "E"} => {"notusegameplugins", "plugins2"} \cap config = {}
    /\ boot.mode = "P" => {"notusepopsplugins", "plugins2"} \cap config = {}
    /\ Key = "VSH" => "npdrm" \in {table[i].name : i \in {j \in 1..pos : "V" \in table[j].modes}}
    /\ \E i \in 1..pos : table[i].name = "mecodec"

(* One request for memory changes the memory of at most one boot after the one *)
(* it was made in: sceSystemFileGetIndexPatched uses it up, across the copies   *)
(* that DecodeKL4EPatched and module_start make of it.                         *)
OneBootPerRequest == Cardinality(granted \ {asked}) <= 1

(* A disc program boots on the list and the disc the booter last published, and *)
(* any other program finds no disc of an earlier launch, also when a LoadExec   *)
(* in between has failed or a disc program has restarted itself.               *)
DiscMatchesList ==
  phase = "init" =>
    IF boot.disc THEN boot.index = published.index /\ shared.umd = published.umd
                 ELSE boot.index \notin DiscLists /\ shared.umd = "none"

(* Recovery is booted only when it has been asked for since the last boot: the *)
(* configuration a recovery boot leaves behind is the normal one.              *)
RecoveryAsked ==
  phase = "program" /\ rebootex.index = "recovery" => wanted

(* RebootexConfig.bootfileindex: every boot uses the list that was asked for.   *)
BootMatchesRequest == DiscMatchesList /\ RecoveryAsked

(* Once the idle work is done a disc runs at the clock of the settings that     *)
(* this boot read, at whichever start that was, whatever the program has set    *)
(* before and whatever it sets afterwards (OnModuleStart, SetSpeed).            *)
ClockFixed == idle /\ boot.disc /\ "speed" \in config => clock = "menu"

(* Every boot that has begun reaches its program, whatever is missing, unless  *)
(* the application is closed: also with a module inserted before another.      *)
BootCompletes == phase = "btcnf" ~> phase \in {"program", "off"}
=============================================================================
