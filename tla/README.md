# AdrBubbleBooter: TLA+ models, checks and proofs

AdrBubbleBooter starts a PSP game from an icon ("bubble") of its own on the PS
Vita, through Adrenaline, which runs a custom firmware inside Sony's PSP
emulator. This directory models the parts of the code that keep state across
steps, processes and processors, model-checks them with TLC on small instances
and proves their safety properties with TLAPS for all instances.

Run a check with `tlc -config BootChain.cfg BootChain` and the proofs of a
component with `tlapm BootChainProofs.tla` (likewise for the others). `PROJECT.json` lists the
components, the runs, the source lines behind each definition, the hazards, and
for each property a mutant of the code that breaks it.

In this text `overlay/` is `src/integration/adrenaline-v7/overlay/`.

## 1. The system

### 1.1 Components

`current/` is `src/integration/adrenaline-current/resolutions/`, the newer menu.

| Component | State it keeps | Operations | Model |
|---|---|---|---|
| shell module (`overlay/vsh`) | a global `boot_info`, stale between titles | answers the type of a title | BootChain |
| kernel module (`overlay/kernel`) | a global `boot_info`, stale between titles | starts bootconv, adrbubblebooter and adrenaline_user in a process; memory hooks | BootChain |
| bootconv (`src/src/vita/bootconv`) | none | converts `boot.inf` to `boot.bin` once | BootChain |
| adrbubblebooter (`src/src/vita/adrbubblebooter`) | none | upgrades `boot.bin`, sets the memory stick location | BootChain |
| adrenaline_user, start and settings | `boot_info`, `config`, `load_state`, `bootfileindex` | reads record and settings, answers the PSP's boot request, saves settings | BootChain |
| adrenaline_user, menu (`user/menu.c` of `current/` and `overlay/`) | `menu_open`, the cursor, `old_config`, `changed` | enter, leave, move, change, store, actions | Menu, PspCommands, BootChain |
| save states (`overlay/user/states.c`, `SaveState`/`LoadState` of `main.c`) | state files, `.tmp` files, the list, its window, `num` | save, load, delete, list | SaveStates, StateSlots, Menu |
| systemctrl, command side (`overlay/cef/systemctrl/adrenaline.c`, `threadctrl.c`) | the shared structure, a semaphore, the list of suspended threads | takes commands, suspends and resumes threads | PspCommands |
| memory stick server (`overlay/user/msfs.c`) | `descriptor_list`, the files on the card | all file requests of the PSP | Msfs |
| USB storage, power lock, PS1 pause, scaler (`overlay/user/usb.c`, `main.c`, `menu.c`) | a module id and one flag each | start, stop, lock, unlock, pause, resume | Devices |
| booter.prx (`src/src/psp/booter`) | none | finds out the content type and starts the content | BootChain, PspBoot |
| rebootex, payloadex (`overlay/cef`) | `RebootexConfig` at a fixed address | choose and extend the module list of a boot | PspBoot |
| systemctrl, boot side | its copy of `RebootexConfig`, `config`, `plugindone`, `idle` | memory, plugins, settings, clock at module starts; LoadExec | PspBoot |
| isofs driver (`overlay/cef/vshctrl/isofs_driver`) | handles over an ISO image, one sector buffer | search, open, read, seek, close, getstat | IsoFs |
| flash0 file system, ebooter, LZ4, build tools | see 7 | | not modelled |

### 1.2 How they interact

* **Files.** The stages of a launch are separate modules, loaded one after the
  other, that talk only through `data/boot.inf`, `data/boot.bin`,
  `data/config.bin` of the bubble and `adrenaline.bin` of the host. Each stage
  reads these again and decides for itself.
* **Left-over memory.** The shell and the kernel module read `boot.bin` into a
  global; a read of an empty file leaves what the title before left there. On the
  PSP, `RebootexConfig` outlives a LoadExec and is copied to SystemControl and
  back.
* **A mailbox.** Vita and PSP share a structure with one command word,
  `psp_cmd`, and one number, `num`. The Vita stores a command and raises an
  interrupt; the PSP's handler signals a semaphore of maximum 1 and
  `adrenaline_thread` switches on the word. Three Vita threads send:
  AdrenalineDraw (the menu), the shell callback `ScePspemuCustomSettingsHandler`,
  and AdrenalineCompat (automatic load of a state).
* **Requests.** The PSP's file requests are answered one at a time by one server
  thread, while the card may be remounted (USB), the location changed (menu),
  the whole PSP memory and the descriptor table replaced (load of a state), or
  the process killed. The PSP's other requests (states, USB, PS1 pause) are
  answered by AdrenalineCompat.
* **Flags.** `menu_open`, `lock_power`, `usbdevice_modid`, `base_pos` are written
  by several threads without a lock.

### 1.3 What is hard, and what has to be right

* A launch can be cut between truncating and writing any of its files, and any
  write can fail. It must still end; a bubble must not lose its game; a stale
  magic word must not make another title's settings be rewritten; the settings
  besides the location must survive a launch; the memory stick must be the
  game's.
* The command word holds one command. What one side stores can be overwritten,
  cleared or wiped before the other side reads it. No wake-up may be lost,
  suspended threads must be resumed, a state command must not run twice, and the
  shell must be released when the menu closes.
* Handles die when the card is remounted and are reopened behind the PSP's back.
  Table and PSP must agree on what is open, a reopened file must continue where
  it was, and the copy of a truncated file must not be lost or mixed with what
  was written.
* A state is written in parts under one name and renamed to another, for a number
  that the next request overwrites, while the menu may empty the file. What has
  the name of a state must be one moment of the PSP, and the old state must not
  be given up for less.
* What threads switch on with a flag must agree with the flag when calls fail and
  when threads interleave.
* What a program asks of the next boot must reach that boot and no later one.
* A directory is searched through a window over its sectors, and a read is made
  of three parts: neither may lose or invent bytes at a boundary.

The hazards of `PROJECT.json` list these at their lines, with the properties that
would catch each going wrong. Hazards of this code that no property covers:

* `adrenaline.bin` is truncated and written in place at every launch
  (`src/src/vita/adrbubblebooter/main.c:177`); a kill in between loses the
  settings of every bubble without its own. `boot_crash` runs through it; there
  is no recovery to state anything about. The size of that file, as it is found,
  is read into a buffer of a fixed size (line 107).
* A reopened file is opened with `O_TRUNC` again (`overlay/user/msfs.c:121`), so
  that a remount wipes what was written; the code does so on every path.
* `DoAction` decides after 300 ms whether the PSP took a command
  (`overlay/user/menu.c:376`); a late PSP still takes it.
* With 32 threads the entry past the list of `SuspendThreads` is past its array
  (`overlay/cef/systemctrl/threadctrl.c:30`).
* `setBooterTabEntries` copies five tabs over a table of four
  (`current/user/menu.c:400`); what lies behind the table is up to the linker.
* booter.prx passes MARCH33 = 1, NP9660 = 2, INFERNO = 3 where the enumeration of
  rebootex has INFERNO = 1, MARCH33 = 2, NP9660 = 3; the function in between is
  not in the repository (see 5).
* The list of plugins is leaked when its buffer cannot be created
  (`overlay/cef/systemctrl/init_patch.c:234`).
* In `flashfs.c` the index into the package never goes back (line 132): a name
  that is missing or out of order in `files[]` loses every later file.

## 2. Modules

Each component has a module, and its theorems are in a module of their own that
extends it: `BootChainProofs`, `MsfsProofs`, `PspCommandsProofs`,
`SaveStatesProofs`, `MenuProofs`, `DevicesProofs`, `IsoFsProofs` and
`PspBootProofs` (section 4).

`PspCommands`, `Msfs` and `SaveStates` look at the same states from three sides:
the command, the open files, the file of the state. They are kept apart because
their product is out of TLC's reach; each models what it needs of the other two
as nondeterministic.

### 2.1 `BootChain`: the launch

One process at a time goes from the LiveArea to the content:

    Launch -> (bootconv) -> KernelRead -> adrbubblebooter -> UserStart
           -> WaitSpecialRequest -> booter, the PSP's own shell, or recovery

| State | Code |
|---|---|
| `bootInf`, `bootBin`, `configBin`, `adrBin` | the four files; `boot.bin` is absent, empty (truncated, not written), in the 0x120-byte legacy or in the 0x140-byte current layout |
| `content`, `states` | which content paths and save states exist |
| `smagic`, `kmagic` | the magic word in the globals of the shell and kernel modules |
| `pc`, `proc`, `emu` | step and title of the process, and whether it was started as an emulator process |
| `info`, `cfg`, `load_state`, `index` | the running module's `boot_info`, `config`, `load_state`, `bootfileindex` |
| `program` | the content that booter.prx started |
| `save` | progress of `saveConfigs` |

A file write is two steps, the open with `O_TRUNC` and the write, so that a kill,
a power loss (`Crashes`) or a failure (`WriteFaults`) falls between any two. The
legacy layout has its scalars at the current offsets and its path elsewhere: read
as current it names no game (`ReadBootInfo`). `MenuStep` has the menu's edits,
resets, states and "Restart Booter". The bubble manager's work is `Init`: a title
has no record, a `boot.inf`, or a `boot.bin` with the ABB magic and a path.

`Bubbles` is what all this is for, without files and stages: each bubble has a
game, the one that runs plays that game or none, and no step changes a game or
takes it away, except that the bubble that runs may lose its own when launches
can be cut or writes fail (`MayLose`). `Implements` maps a bubble's game to
what its records and the process's copy of them name (`Games`), the bubble that
runs to `proc`, and what it plays to `program`. `Games` holds every name that
anything could still be started by, so that it has one member at most is part of
what is shown: a record that names one game beside a copy that names another is
no bubble.

### 2.2 `Msfs`: the memory stick server

| State | Code |
|---|---|
| `files`, `backup`, `dirs` | the card: files, their `__TRUNC__` copies, directories |
| `descriptor_list` | the table; `fd`, `at` and `pos` of an entry also stand for the Vita handle |
| `leaked` | handles open without a descriptor (the table was full) |
| `req` | the request being answered and its handler's stack |
| `held` | the PSP's view: descriptors it was given and has not closed |
| `saved` | a saved state: the table and the PSP's view |

A file is its contents at a few positions, each old, new, zero, junk (from an
uninitialised buffer) or past the end. Requests that take several steps on the
card (truncating open, close with `ScePspemuMsfsTruncateFix`, directory read) are
several steps here. `Env` switches on what happens around the server.

A file is opened with what the PSP passes, at the open and at every reopen: the
flags to create, to truncate and to append. `SCE_O_APPEND` lets each write go to the
end of the file, wherever the handle was (`WriteAt`), while the descriptor's own
offset counts on from where it was (`AfterWrite`); so `OffsetTracks`, which is about
what a reopen restores, is claimed only of files not opened to append. Programs are
taken not to append to a file that they truncate. The access mode and `SCE_O_EXCL`
are left out: a call that they make fail is a failing call.

`OffsetTracks` has two more exceptions, which are what the code does: after a
`ScePspemuMsfsTruncateFix` that failed the handle is where the copying stopped, and
a changed location is not looked at. In `SetFileDescriptors` the table of a loaded state
replaces the other in one step and with no request in hand: AdrenalineCompat does it
while the PSP is stopped, and a request that the server's thread should still hold at
that moment is left out. `CopyFound` is claimed as long as nothing around
the server fails or replaces what the server remembers (`Calm`): a failed copy back
removes the copy, a changed location looks for it elsewhere, and a remount or a loaded
state truncates the file again. `RequestAnswered` excepts one hang: a directory read
with a filter on a handle that fails repeats the failing call (`overlay/user/msfs.c:510`).

### 2.3 `PspCommands`: menu and PSP

| State | Code |
|---|---|
| `psp_cmd`, `sema`, `savestate_mode`, `pops_mode` | the shared structure and `adrenaline_semaid` |
| `ppc`, `pcmd` | where `adrenaline_thread` is: waiting, in the switch, clearing the word, running the command; or the PSP saves or loads a state, or restarts |
| `inited` | `initAdrenalineInfo` has run since the last restart |
| `live`, `status`, `threads`, `thread_count`, `suspended_count` | the PSP's threads and the statics of `threadctrl.c` |
| `state` | the PSP memory as it was when a state was saved, mailbox included |
| `todo` | for each sending thread, the rest of its handler as a sequence of steps |
| `menu_open`, `suspend`, `old_suspend`, `moved`, `load_state`, `settings`, `passed` | the menu |
| `unread`, `spoiled` | history variables, see below |

`SendAdrenalineRequest` is two steps, the store and the interrupt; the PSP's side
is a wait, a switch, a clear and the command. So a second command can land
between any two of them. `SuspendThreads` is translated with its second loop as
written, from `thread_count` down to 1: it reads one entry past the list and
never suspends the first thread. `Orders` lets the kernel list threads in any
order.

`unread` says that the word holds a command the PSP has not read. `spoiled`
records that the protocol left the range in which its promises hold: a command
was overwritten, cleared or wiped unread; a command was read by a PSP that
`initAdrenalineInfo` is still to reset; the PSP was replaced (restart, loaded
state) while a SUSPEND was pending; or the menu was entered before it had been
left. All of these happen in the code, and it does not notice them. Properties
that are conditional on `~spoiled` state what is right as long as none of them
does; `NoLostWakeup`, `CommandTaken` and `SettingsReleased` are unconditional,
and are checked without states: a state that was saved between a command and its
interrupt brings the command back without a wakeup (`WakeupKeptWithStates`).

### 2.4 `SaveStates` and `StateSlots`: the files of the states

`SaveStates` has the three parties that work on a state: AdrenalineDraw (`draw`:
what is left of saveState or loadState), the PSP (`pp`: running, stopped,
waiting, answered) and AdrenalineCompat (`compat`: the step of SaveState or
LoadState). `file` and `tmp` are the two names of each number, absent or the
parts that a load needs (magic word, first half with the descriptors, second
half), each with the moment it was taken from. Every open, write, read, removal and
rename of these files may fail, and none of the results but those of the two opens
of AdrenalineCompat is looked at: a write leaves what was there, a read leaves
something that the PSP never had in its memory. A file that is open cannot be
removed or renamed but can be emptied. The menu is entered from a round of
AdrenalineDraw or by the handler of the settings, at any time.

`torn` and `spoiled` are history variables. `torn` has the paths whose saving was
disturbed: emptied while SaveState was at work on them, written to with a failing
write, or saved from a spoiled memory. `spoiled` says that the PSP's memory is from
a torn state or from one that could not be read; the next load that succeeds, or a
new start, ends it. Nothing stops after a disturbance. For paths outside `torn`, and
for the memory while it is not spoiled, everything is promised. `MaxFaults` (failing
calls and kills) and `MaxRequests` (states that the user asks for) are bounds; the
proofs are for any.

`StateSlots` is the abstract specification: a slot is empty or holds one moment
of the PSP; storing puts the present moment there, restoring brings exactly that
one back, slots may be dropped, and only a torn slot may hold something else.
`SaveStates!Implements` is this specification under the mapping of a file to the
moment of its parts, and of the PSP's memory to the moment of its second half, or
to a damaged one while it is spoiled.

### 2.5 `Menu`: the menu as its user sees it

A round of AdrenalineDraw is hideEntries and drawMenu (`RoundBegins`), then the parts
of ctrlMenu of `current/user/menu.c`: the keys that leave the menu, the triggers, the
entry under the cursor or ctrlStates of `states.c`, and UP and DOWN; `at` says which part
is done and `hidden` what this round has hidden. A key that leaves the menu does not end
the round. In each part at most one key does something. The tables are numbers of
entries; of the options only those are kept that other code depends on (the aspect ratio
hides two entries, the selected state one and moves the window). Between the parts
AdrenalineCompat and the PSP run, and the settings handler enters the menu, open or not.
`crossed` and `slips` are history variables: the window was moved while options were
open; what is unsaved got past saveConfigs, because settings were reset with `changed`
still 0 (`reset`), because an option was changed in the frame that left the menu
(`late`), or because the menu was entered while it was open (`again`). `slips` is cleared
when saveConfigs writes. `jump` is the number that `base_pos` was last set to.

### 2.6 `Devices`: what several threads switch

| State | Code |
|---|---|
| `compat`, `draw`, `shell`, `resume` | where the four threads are |
| `usbdevice_modid`, `loaded`, `vstor`, `mtp`, `modid` | the noted module, the modules in the kernel, storage and MTP driver, the argument each thread read |
| `lock_power`, `suspend`, `old_suspend`, `menu_open`, `settings_sema` | the power lock and what decides about it |
| `pops_mode`, `paused`, `draw_psp_screen_in_pops`, `lastPops` | the PS1 emulator |
| `requested`, `active`, `scaler` | the kernel's scaler |
| `forgets`, `load_state` | whether the stop by AdrenalineCompat is that of STOP_USB, which forgets the module, or that of the automatic load, which does not |
| `given`, `leaked`, `crossed`, `left`, `held`, `late`, `kept` | history: which of the races the code does not notice has happened |

Every call on the USB storage and the scaler may fail, the restart of the MTP driver
in startUsb among them; pausing a PS1 game does not. Every read of a flag is a step of
its own where another thread may come in between.

The history variables are exceptions the properties make, for what the code does get
wrong. `UsbAsNoted` has three parts: after a stop by AdrenalineCompat nothing is left;
the card is the computer's or the Vita's as a whole after any stop, that of the menu and
of the automatic load too, unless a call that undoes something failed (`leaked`) or a
start came while AdrenalineDraw was stopping (`crossed`); what is noted runs, unless a
stop that leaves it noted has begun (`given`). `PowerFollows` makes one for leaving the
menu over the storage, until the storage locks the power again (`left`);
`GameFollowsMenu` for two races of pausing (`late`, `kept`). What those races do to the
devices is therefore not shown by this run.

Bound: whether the settings handler opens the menu (`shell_opens`) stays as it is in a
behaviour. When the option is changed while the menu is open, the handler can enter a
menu that is open; that is in `Menu` and `PspCommands`.

### 2.7 `IsoFs`: the isofs driver

A byte of the image is its position. A directory is a sequence of sectors, a
sector the lengths of its records, the rest zero; behind the directory are bytes
that look like records. `FindFileLBA` is translated as its loop: padding at the
end of a sector, the window that moves near its end and the count of remaining
sectors. `FindPathLBA` goes over the names of a path. `isofs_exit` frees the buffer
and leaves the table and the record, `isofs_reset` the other way round; searches and
reads come while there is a buffer (the callers are not in the repository).

`isofs_lseek` accepts every pointer, before the file too. `isofs_read` is its three
parts, each of which may fail or deliver less. Three things in it go wrong, are in the
model, and are what `ReadReturnsFile` exempts:

* of the last part only a negative result is an error (line 462): when nothing is read,
  what the buffer held is returned as the end of the file (`Unknowns`);
* the sum of pointer and length (line 412) may be more than an int: the read then
  goes beyond the file (`Remaining`, `Wrapped`);
* from a pointer before the file, the first part copies from before the buffer (`At`).

`SearchExact` is about paths of one name, and holds for directories whose sectors but
the last leave no more free than their last record is long (`Regular`): the code skips
the rest of a sector only then. What is behind the directory is found when it is larger
than the window and ends in a regular sector. Paths of several names are searched in
the model, and nothing is claimed of them. A short read of a directory is left out.

### 2.8 `PspBoot`: boots of the PSP

| State | Code |
|---|---|
| `shared`, `rebootex` | `RebootexConfig` at 0x88FB0000 and SystemControl's copy |
| `boot`, `table`, `maxsearch`, `pos` | the running boot, its list of modules, how far Init looks and is |
| `files`, `config` | the settings as stored and as read at this boot |
| `plugindone`, `idle`, `user`, `clock` | what SystemControl has done in this boot |
| `asked`, `granted`, `published`, `wanted`, `runs`, `boots` | history |

A boot is `ColdStart` or `DecodeKL4E`, the callbacks of payloadex or rebootex
(`LoadBtcnf`, `CheckPspConfig` with `InsertModule`), `SystemControlStart`, and a
start of each module of the list, at which SystemControl hooks in. Programs set
memory, clock, settings, recovery, a module for the next boot, start modules of
their own and each other; booter.prx chooses disc and list first (`Launch`). The
idle work may come as late as at such a module. Sizes of memory are u32:
sctrlHENSetMemory and ApplyMemory test a sum that wraps, so a request for more
memory than there is passes when the sum of its parts does, and nothing is
promised about the memory asked for, only that it is applied to one boot.

## 3. Runs

| Run | Instance | Shows |
|---|---|---|
| `boot_chain` | host and one bubble, two devices, one game, slot 2, two settings; no faults | `TypeOK`; the location is the game's (`LocationSetForGame`); no sequence of conversion, upgrade and saves loses or changes a bubble's game (`GameKept`); a launch changes nothing in the settings but the location (`SettingsKept`) |
| `boot_crash` | host and two bubbles, one device; kills, power losses, failed writes | settings are rewritten only for a title whose own record is ABB (`SettingsWrittenForBubbles`); every launch ends (`LaunchSettles`); no bubble plays or is given another's game, and a crash or a failed write costs at most the game of the bubble that runs (`Implements`) |
| `boot_removal` | host and one bubble, failed writes | **violated**: finding 1 |
| `psp_mailbox` | the host, one thread besides adrenaline_thread, both options, the menu left once or not | `ThreadsResumed`, `NoLostWakeup`, `CommandTaken`, `SettingsReleased` |
| `psp_states` | a bubble, states saved and loaded by menu and automatically, EXIT_VSH | `StateCommandOnce` |
| `msfs_server` | two slots, two devices, files of three positions, a directory; eight environments (below) | `SlotsHeld`; the offset is the handle's (`OffsetTracks`); an open file that was put aside has its copy until its own close (`CopyFound`); `RequestAnswered`; `ClosedAsOnPsp` for programs that write sequentially |
| `msfs_seek` | one file, seeks after the first write | **violated**: finding 2 |
| `save_states` | two numbers, one location, two moments, state 0 selected, two requests, one kill or failing call and what comes after it | a state is one moment in its file and in memory (`StatesWhole`); the old one is given up only for a complete new one (`OldKept`); the PSP goes on (`PspGoesOn`); `Implements` |
| `menu` | a bubble, three states, a window of two | `ListShown`, `CursorDrawn`, `OptionsStored` |
| `devices` | two loads of the module, one failing call, two changes of PS1 mode | `UsbAsNoted`, `PowerFollows`, `GameFollowsMenu`, `ScalerFollows` |
| `isofs` | every directory of up to five sectors of three bytes, a window of two, two file handles | `SearchExact`, `ReadReturnsFile`, `HandlesKept` |
| `psp_boot` | three boots, two sets of stored settings | `PluginsOnce`, `OneBootPerRequest`, `BootMatchesRequest`, `ClockFixed`, `BootCompletes` |

`TypeOK` is checked in one run of each module that has one, but for `IsoFs`, where
it is only proved.

### Bounds

* *Titles, devices, slots, settings.* One process runs at a time, so two
  bubbles besides the host are enough for one to inherit the other's magic word;
  two devices tell the game's location from another; two settings values tell
  kept from lost; slot 2 is distinct from 0, from 1 and from the boolean fields
  of a record. One game is enough for a bubble to play, or to be given,
  another's: a title that has none, or no longer, can end up with it. The theorems
  of section 4 do not depend on these.
* *Msfs.* Three positions distinguish data in front of, at and behind the first
  write; two slots distinguish lowest-free from any; a directory has one entry
  behind "." and "..". What happens around the server is chosen once per
  behaviour: remounts, failing calls, a shared file and a second slot; each two of
  remounts, states and directories, with seeks; remounts, kills, failing calls, a changing
  location and a shared file; kills, failing calls, a second slot and a second
  file with sequential data; remounts, failing calls and files opened to append; kills,
  seeks, a shared file and a second slot, which is what `CopyFound` is about. All of
  them at once is out of reach. One state is
  saved and loaded any number of times.
* *Threads.* `psp_mailbox` has one thread besides `adrenaline_thread`, so the
  thread that the suspend loop skips and the entry it reads past the list both
  occur. `TypeOK`, `ThreadsResumed` and `NoLostWakeup` were also checked, and
  hold, with two threads, with one thread and EXIT_VSH, and with the menu left
  twice in a frame (1.6 million states). `MaxLeaves` bounds how often one frame
  of `ctrlMenu` leaves the menu: one frame tests several buttons, each of which
  leaves it. `psp_states` keeps the last state saved.
* *SaveStates.* Two numbers are enough for one request to overwrite the other's;
  two moments tell a mixed file from a whole one. `MaxFaults` is 1; since a kill
  starts from any combination of files that saving can leave, a second one starts
  the same way. `MaxRequests` is 2: one that is disturbed, and one after it.
* *Menu.* Three states and a window of two let the window stand at the top, at
  the bottom and, set to the last number, reach one row behind the list. The
  loadable states are 0 (none) and the last, which moves the window furthest.
  `Bounded` keeps the run small: at most one state is found, which is enough for a row
  with a state beside rows without; one way past saveConfigs at a time, with no state
  found and the list at rest meanwhile, which saveConfigs does not touch; and games and automatic
  loads come between two rounds, while the handler enters at any moment. The theorems
  have none of these bounds.
* *Devices.* A behaviour is about one device (`focus`) together with menu, power
  lock and the rounds of AdrenalineDraw; devices share nothing else. Two loads of
  the module, one step with failing calls (`MaxFaults`) and two changes of PS1 mode let
  each race happen once. With the USB storage a PS1 game is started once, that being
  what the lock depends on, and the module is then loaded once (`Bounded`, which
  restricts the run and not `Spec`).
* *IsoFs.* Sectors of 3 bytes with records of 1 or 2, a window of 2 sectors
  instead of 8, and a margin of 2 bytes instead of 0x60 keep the proportions: a
  record fits into the margin, the margin into a sector. Five sectors make the
  window move twice. A behaviour either searches one of all these directories or
  opens files. A file of seven bytes has two whole sectors and a partial one. `Bounded`
  restricts the run, not `Spec`: a seek leads one byte out of the file at most
  (`MaxSeek`), and a file is read while the pointers of the others are at 0. `IntMax`
  is the smallest that makes a sum wrap behind the file.
* *PspBoot.* `MaxBoots` is 3: a request, the boot it is for and one it must not
  reach. `WordSize` is the number of values of a u32; 256 leaves room for a request
  that wraps. With the bound reached and the application closed nothing more can
  happen, so this run does not check deadlock; all others do, since elsewhere the
  user can always do something.

### Fairness

* `BootChain`: weak fairness of the launch's steps and of the automatic load. A
  live process's threads are scheduled; launching, the menu and ending a process
  are the user's and are not fair.
* `Msfs`: weak fairness of `RequestStep`. The server thread runs; the PSP need
  not send anything.
* `PspCommands`: weak fairness of each Vita thread's steps, of the PSP's steps
  and of its restart. Nothing makes the user leave the menu, so
  `SettingsReleased` starts from a closed menu.
* `SaveStates`: weak fairness of `Serve`, the steps of the PSP and of
  AdrenalineCompat after a command was taken. Choosing in the menu is not fair.
* `PspBoot`: weak fairness of `BootStep`, the steps of a boot that has begun.
* `Menu`, `Devices`, `IsoFs`: no fairness, safety only.

### Findings

1. **`bootconv` removes `boot.inf` after a failed write** (`boot_removal`).
   `src/src/vita/bootconv/main.c:108` ignores the result of `write_file`; line
   109 says "Conversion is one-shot after boot.bin is written." After a failed
   open or write the bubble has no complete record left. `RemovalCorrect` proves
   the comment for writes that succeed.
2. **Data is lost when a truncated file is closed after a seek** (`msfs_seek`).
   Only the first write's offset is remembered (`overlay/user/msfs.c:304`); the
   comment at line 248 says the data is copied back as on a PSP. After a seek
   back old data replaces new, and after a seek forward a gap stays zero.

Also seen, without a run of its own, because a property is conditional on it:

* `src/docs/how-adrbubblebooter-works.md:32` says that adrbubblebooter "keeps
  Adrenaline's memory-stick location consistent with the device containing the
  game"; when the selected save state exists it returns before it stores the
  location (`src/src/vita/adrbubblebooter/main.c:125`). `LocationSetForGame`
  excludes that case.
* A state being saved while the menu saves the same number again may end up
  damaged under the name of a state (`torn` in `SaveStates`); so may one with a
  failing write, since no result is looked at before the old one is removed.
* The window of the list can show rows behind it after an automatic load
  (`jump` in `Menu`), and options may act on another entry than they were opened
  for (`crossed`).
* Resetting all settings stores nothing when no option was touched since the menu
  was opened; an option changed by a key in the frame that leaves the menu is not
  stored; and entering the open menu forgets that something was changed. What is unsaved
  then is stored with the next change, or lost with the process (`slips`).
* After the menu or an automatic load stopped USB storage the module stays noted, and
  no new start is accepted (`given` in `Devices`); leaving the menu unlocks the power under
  active storage (`left`).
* A resume of a PS1 game that saw the menu closed may come after it was opened
  (`late`), and a resume may be left to a menu that has unpaused already
  (`kept`): the game then stays paused with the menu closed.
* A memory request that no program used up in its boot carries over to the next,
  whatever the settings then say; `OneBootPerRequest` bounds it to one boot.

## 4. Proofs

### 4.1 What is proved

Every theorem is about `Spec`, for all values of the constants that satisfy the
assumptions named in the module of the component. These only say what kind of
thing a constant is: sizes are natural numbers (`MaxPos`, `MaxLoads`,
`MAX_STATES`, ...), the tables have at least one entry, a sentinel is none of the
values it stands beside (`Absent`, `NoFile`, `NoState`, `None`), the host is a
title, there are fewer threads than `MAX_THREADS`. Those of `IsoFs` have bounds: a
record is shorter than a sector and no longer than `Record`, files are no longer than
an int can tell, `Record` is at most a
sector (in the code 129 bytes and 2048), the window has two sectors or more, and the
root that files are opened from is one of those that are searched. Of the crashes, the failing
calls and the actions of the user that a module has, nothing is assumed but where a
theorem says so; which calls do not fail in a module, section 2 says.

| Module | Theorem | Statement |
|---|---|---|
| `BootChainProofs` | `TypeCorrect` | `[]TypeOK` |
| | `LocationCorrect` | `[]LocationSetForGame` |
| | `MagicCorrect` | `[]SettingsWrittenForBubbles` |
| | `SettingsCorrect` | `SettingsKept` |
| | `GameCorrect` | `GameKept`, if `~Crashes` and `~WriteFaults` |
| | `RemovalCorrect` | `RemovedOnlyAfterWrite`, if `~WriteFaults` |
| | `Refinement` | `Implements`: the specification `Bubbles` |
| `SaveStatesProofs` | `StatesCorrect` | `[]StatesWhole` |
| | `OldStateKept` | `OldKept` |
| | `Refinement` | `Implements`: the specification `StateSlots` |
| `MsfsProofs` | `TypesKept` | `[]TypeOK` |
| | `SlotsCorrect` | `[]SlotsHeld` |
| | `OffsetsCorrect` | `[]OffsetTracks` |
| | `CopyCorrect` | `[]CopyFound` |
| | `SequenceCorrect` | `[](Sequential => SequenceInv)`: the contents of the files being written (4.2) |
| | `ClosedCorrect` | `ClosedAsOnPsp`, if no environment has data together with seeks, shared files, files appended to, remounts, a changing location or loaded states |
| `PspCommandsProofs` | `TypesKept` | `[]TypeOK` |
| | `WakeupKept` | `[]NoLostWakeup`, if `~WithStates` |
| | `WakeupKeptWithStates` | `[](NoLostWakeup \/ (spoiled /\ state # NoState))` |
| | `StatesAskedOnce` | `StateCommandOnce` |
| | `ThreadsCorrect` | `[]ThreadsResumed` |
| `DevicesProofs` | `CardFollows` | `[]UsbAsNoted` |
| | `PowerCorrect` | `[]PowerFollows` |
| | `GamePausedByMenu` | `[]GameFollowsMenu` |
| | `ScalerAsRequested` | `[]ScalerFollows` |
| `MenuProofs` | `TypesKept` | `[]TypeOK` |
| | `ListCorrect` | `[]ListShown` |
| | `StoredOnLeaving` | `[]OptionsStored` |
| | `CursorOnEntry` | `CursorDrawn` |
| `PspBootProofs` | `TypesKept` | `[]TypeOK` |
| | `PluginsCorrect` | `[]PluginsOnce` |
| | `MemoryOnce` | `[]OneBootPerRequest` |
| | `ListsCorrect` | `[]BootMatchesRequest` |
| | `ClockCorrect` | `[]ClockFixed` |
| `IsoFsProofs` | `TypesKept` | `[]TypeOK` |
| | `HandlesStay` | `HandlesKept` |
| | `ReadCorrect` | `[]ReadReturnsFile` |
| | `SearchCorrect` | `[]SearchExact` |

### 4.2 How

The invariants were checked with TLC on the instances of the runs before they
were proved. A proof has one step or lemma per action; what an operator returns is a
lemma of its own.

**The launch** (`BootChainProofs`).

* *Location.* The property speaks of the moment after the user module has read
  record and settings, so it is not inductive. `LocationInv` follows the
  location from the decision to the file: the copy in adrbubblebooter's memory is
  what `boot.bin` will read as, or the file names no game (`CopyMatches`, a write
  may have failed); a location about to be written is the game's, and the game
  exists (`LocationChosen`); between the write and the read the file selected by
  the record holds that location (`LocationOnDisk`, where writer and reader must
  select the same one); during an upgrade the file does not read as a current
  record (`UpgradePending`). A failed write ends the process before the user
  module starts, which is why the theorem needs no assumption on `WriteFaults`.
* *Magic.* A stale magic word in the kernel gets a title past the kernel's
  test only when its `boot.bin` is empty (`KernelTested`); an empty file carries
  no values (`NoRecordNoInfo`); so adrbubblebooter's copy has no game
  (`RecordTested`), and `check_file` fails before anything is written.
* *Settings.* `SettingsCopied`: what is about to be written has the settings of
  the file it replaces, and an emptied file of a bubble waits for them. This holds
  with crashes and failing writes, since each ends the process.
* *Game.* `GameInv` says where the game is while no complete record names it: in
  `boot.inf` during the conversion (`GameConverted`), in adrbubblebooter during an
  upgrade (`GameUpgraded`), in the user module while it saves (`GameSaved`). That
  a title has one record (`OneRecord`), and that `boot.bin` is empty only between
  the two halves of a write (`EmptyWhileWritten`), is what a crash or a failed
  write takes away, so the theorem assumes that there are none; finding 1 is what
  happens otherwise.
* *Removal.* `Converted`: at the removal `boot.bin` is complete.
* *Refinement.* With and without faults a step of the process can only forget
  names of the game of its own title (`OwnGameOnly`, `GamesStep`): what it reads
  was named by a record, what it writes was named by its copy. So the names stay
  one game (`OneGame`), and a step that forgets any forgets all: the abstract
  `Lose` or `Stop`. This needs that a truncated file reads as zeros and that no
  copy outlives its process (`NothingLeft`). Without faults `GameStep` says that a
  name remains (`Covered`), so that `Games` does not change at all (`GamesKept`).
  What booter.prx plays it reads from a record of the current layout, since the
  others read as no game.

**States** (`SaveStatesProofs`). `Written` relates the step of SaveState to the
parts of the `.tmp` file that are there already and are the PSP's memory; the PSP
waits meanwhile (`PspWaits`), so that they stay it. For loading, `RamWhole` says
that the memory is one moment, or spoiled, or the beginning of a whole state over
something; a state is saved undisturbed only from one moment.
`Refinement` maps a file to the moment of its parts, and shows that SaveState's
rename is the store, LoadState's second part the restore or the damage, the menu's
removal a drop, a write that fails and a file that is emptied a disturbance, and
every other step a stutter.

**Memory stick server** (`MsfsProofs`). The invariant adds to the three
properties what the request in hand refers to (`RequestPlace`, `RequestHere`,
`RequestSlot`, `RequestFix`), that an open file exists (`OpenExists`), and that a
saved state's table agrees with the PSP's view in it (`SavedHeld`). The runs
switch on a few parts of the environment at a time; these theorems hold for all of
them together.

`CopyCorrect` rests on `CopyInv`: in a calm environment a file has at most one
descriptor that it was put aside for, each such descriptor has its copy until it is
being closed, and a request that has put a file aside finds no such descriptor of it.
That a file is only put aside while there is no copy keeps the first; the second
needs that a handle stays valid, since a copy back that fails takes the copy along.

`ClosedAsOnPsp` is about what a program that writes a file in sequence finds in it
after closing it, and only that: after a seek back over the first write, through a
second handle or one that appends, or after a remount, which truncates the file once more, the copying
back may overwrite new data or leave zeros (finding 2 is such a seek), so the theorem says of the
environments that data comes without them. Crashes, failing calls, directories
and any number of descriptors are allowed. `SequenceInv` says that each file has
one handle (`OneHandle`), not opened to append (`NoAppend`), that a truncated file holds no new data before the first
write, new data from there to the handle and nothing behind (`InSequence`), and,
while it is copied back, that the positions behind the handle are filled and the
ones before it are not new (`CopiedBack`).

**Commands** (`PspCommandsProofs`). The wakeup of an unread command is in one
place: with a thread that has stored it and has still to raise the interrupt, or
in the semaphore (`ToldOnce`, `Woken`). For that, handlers must be known to be
commands each followed by its interrupt, which is shown of the sequences
themselves (`Handlers`, `Paired`). `ResumeInv`, on top of it, follows a SUSPEND to
its RESUME: what is suspended will be resumed by a command that is in the word, in
a handler, or will be sent by the menu that is open (`Suspension`, `MenuResumes`);
whom it suspended is in the list that ResumeThreads goes through (`InList`);
nothing suspended gets into a saved state (`SavedResumed`).

**Devices** (`DevicesProofs`). Invariants of the storage, the menu, the lock, the PS1
game and the scaler over the steps of the four threads. The storage's relates the
module noted by AdrenalineCompat to the one in the kernel at each step of start and
stop (`CompatDone`, `LoadedKnown`, `Running`, `Card`), with what AdrenalineDraw may do
to it meanwhile (`DrawStops`); `Whole` says which thread has still to do what keeps
module, storage and MTP driver from agreeing. The lock's rests on it.

**Menu** (`MenuProofs`). The loop of ctrlMenu that skips entries ends at once,
since in a table the neighbour of an entry that is not shown is shown; the
repetition is a recursive function, so this is proved of its first turns.
`OptionsStored` follows from `WillBeStored`: what is unsaved counts as a change in the
open menu, or is on record as having escaped.

**Boots** (`PspBootProofs`). `ListAsked` follows list and disc from a LoadExec
through both copies of the configuration to the program; `MemoryAsked` says that
a request that is still in a copy has changed no boot but the one it was made in.
For the plugins, the order of the starts is proved of every table, as
`InsertModule` leaves it (`Ordered`): the power module first, and the codec wrapper
in front of sceMediaSync. For the clock, the idle work comes after the start at
which the settings are read, and the settings of a boot do not change after it.

**Reads** (`IsoFsProofs`). From a pointer that is not before the file, each of the three
parts of `isofs_read` delivers one piece of the file (the last one, perhaps, with unknown
bytes behind it: `Pieces`) from where the part before ended (`Piece`), and one that does not end the
read leaves the rest at the beginning of a sector (`Aligned`); pieces that meet
join to one (`BytesJoin`). Division is taken out of the way by lemmas about
multiples of the sector size.

**Search** (`IsoFsProofs`). The theorem is about every directory of every length, for
any size of sectors, records and window. After k turns that found nothing, k records
have been tested and the pointer is behind the last of them (`Reached`, `Behind`).
`Covers` is what the window needs: as long as sectors remain to be read, its sectors
and theirs make up the rest of the directory, and a whole record area fits between the
pointer and its end; once none remain, it reaches the end of the directory. From this,
a turn tests the record that comes next, in this sector or behind the skipped rest
(`NextTested`); the window moves by its size, or by one less, exactly as `remaining` is
reduced (`AdvanceIs`); and the search stops behind the last record of a sector that is
not regular, and behind a directory that fits into the window (`Stops`). Sums of lengths
and turns of the loop are recursive functions, whose equations are proved here by
extending a function that satisfies them up to a number by one more
(`SumToIs`, `TurnsAre`), so that no theorem of the library with an operator for a
parameter is needed.

### 4.3 What is only model-checked

* `LaunchSettles`, `RequestAnswered`, `CommandTaken`, `SettingsReleased`,
  `PspGoesOn` and `BootCompletes` are liveness under fairness, out of the
  prover's reach.

Every safety property that a passing run checks is a theorem, some of them under an
assumption that the table names.

## 5. What the models assume of the outside

* `sceIoRename` fails when the target exists or the file is open; a removal
  fails on an open file; a handle answers ENODEV after a remount; a read of an
  empty file returns 0 and leaves the buffer alone; a file can be opened twice.
* A bubble manager installs records as `Init` of `BootChain` says.
* `MAX_DESCRIPTORS` comes from a header that is not in the repository and is the
  constant `MaxDescriptors`.
* In `PspCommands` PSP programs start after `OnSystemStatusIdle` (in `PspBoot`
  they may start before it). `adrenaline_thread` has a
  priority that lets no program run inside `SuspendThreads` or `ResumeThreads`,
  so each is one step. There are fewer threads than `MAX_THREADS`.
* The caches of the structure that Vita and PSP share are flushed where the code
  flushes them and are not modelled.
* The PSP is stopped from the moment it asks for a state until AdrenalineCompat
  answers: `VitaSyncPatched` jumps to a routine of its own that asks and waits.
* Of the module lists booter's (`src/src/psp/btcnf/pspbtcnf.txt`) and recovery's
  (`overlay/cef/btcnf/pspbtcnf_recovery/pspbtcnf.txt`) are in the repository. The
  others are taken to be like recovery's, with the NP9660 driver replaced in the
  lists of the other two drivers.
* `sctrlSESetBootConfFileIndex` is not in the repository and is taken to select
  the list of the driver that was named.
* The menu modelled in `Menu` and `Devices` is that of `current/`, which replaces
  the overlay's when the newer Adrenaline is built; `PspCommands` and `BootChain`
  use the overlay's, whose sending and storing are the same.

## 6. Left out of the modelled components

`Msfs`: the `__ADRENALINE__` and `__APPID__` paths, which name other places on
the same card; Getstat, Chstat, Devctl and Chdir, which change neither table nor
card contents. `SaveStates`: the screenshot, and stopUsb before a request, which
is in `Devices`. `Menu`: drawing, and values of options nothing depends on.
`Devices`: drawing, and the time between checks of the PS button. `IsoFs`: dates
and attributes that getstat fills in. `PspBoot`: decompression, decryption, the
instruction patches of the modules started. `BootChain`: installing and releasing
hooks; the kernel's memory hooks; sizes of files and buffers.

## 7. Not modelled

* flash0 file system: rearranges a table of embedded files once, at the start.
  The list of names and the package it walks are not in the repository, so there
  is nothing to state its loop against but itself.
* ebooter: loads the kernel module once or shows a message.
* LZ4: vendored.
* Build and validation tools: sequential scripts run at build time.
* Instruction patches of Sony modules at fixed addresses (the rest of
  systemctrl, `nodrm.c`, `kubridge.c`): the patched code is not in the
  repository, so there is nothing to state them against.

## 8. Plan

The parts of the system that keep state are modelled, and the safety properties
that the runs check are theorems (4.3). What could be proved beyond them is a
refinement of `Msfs` to an abstract file server, for the environments in which
`ClosedAsOnPsp` holds.
