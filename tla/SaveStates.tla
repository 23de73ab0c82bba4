----------------------------- MODULE SaveStates -----------------------------
(***************************************************************************)
(* The files of the save states.  Three parties work on them:              *)
(*                                                                         *)
(*   AdrenalineDraw    runs the menu: it lists, deletes, and asks for a    *)
(*                     state to be saved or loaded (user/states.c);        *)
(*   the PSP           takes the command and stops until it is answered;   *)
(*   AdrenalineCompat  writes or reads the file (SaveState and LoadState   *)
(*                     of user/main.c), and loads a state by itself.       *)
(*                                                                         *)
(* The menu creates STATEnn.BIN.tmp, AdrenalineCompat fills it and gives   *)
(* it the name STATEnn.BIN.  The number of the state goes from the menu to *)
(* AdrenalineCompat through a word of shared memory that the next request  *)
(* overwrites.  The application can be killed between any two steps.       *)
(*                                                                         *)
(* A file is the parts that a load needs, each with the moment it is from. *)
(***************************************************************************)
EXTENDS Naturals, FiniteSets

CONSTANTS
    Location, \* memory stick locations
    Num,      \* numbers of states
    Moment,   \* what the PSP's memory can be
    Absent,   \* no file of that name
    Hole,     \* a part of a file that was not written
    None,     \* an empty slot, no number
    Damaged,  \* a slot whose parts do not belong together
    Selected, \* the states that boot_info.loadstate may select, or None
    MaxFaults,  \* how often a call of the system fails or the application is killed
    MaxRequests \* how often the menu asks for a state to be saved or loaded

ASSUME SentinelAssumption ==
    /\ {Absent, Hole, None, Damaged} \cap Moment = {}
    /\ Hole # None /\ Hole # Damaged /\ None # Damaged
    /\ 0 \in Num /\ None \notin Num /\ Selected \subseteq Num \cup {None}
    /\ MaxFaults \in Nat /\ MaxRequests \in Nat

VARIABLES
    file,       \* file[<<l, n>>]: l/PSP/SAVESTATE/STATEnn.BIN
    tmp,        \* the same with .tmp after the name
    location,   \* config.ms_location
    num,        \* adrenaline->num
    psp_cmd,    \* adrenaline->psp_cmd, as long as adrenaline_semaid is signalled
    savestate_mode,
    pp,         \* the PSP: running, stopped, waiting for an answer, answered
    ram,        \* the two halves of the PSP's memory
    compat,     \* the request that AdrenalineCompat works on
    draw,       \* what AdrenalineDraw still has to do
    passed,     \* its round began before savestate_mode was set
    menu_open,
    listed,     \* states[n].num # -1
    load_state,
    loadstate,  \* boot_info.loadstate, less one
    faults,     \* how often a call failed or the application was killed
    requests,   \* how often the menu asked for a state
    torn,       \* paths whose saving was disturbed: emptied while SaveState was at
                \* work on them, written to with a failing write, or saved from a
                \* memory that is not one moment (history)
    spoiled     \* the PSP's memory is from a torn state, or from one that could not
                \* be read (history)

files == <<file, tmp>>
psp == <<psp_cmd, savestate_mode, pp, ram>>
menu == <<location, menu_open, listed, loadstate>>
vars == <<files, num, psp, compat, draw, passed, load_state, menu, torn, spoiled, faults, requests>>

-----------------------------------------------------------------------------

Path == Location \X Num
Part == Moment \cup {Hole}

\* AdrenalineStateHeader (its magic word), the descriptors with the first part
\* of the compressed RAM, and the second part.
Content == [magic: BOOLEAN, ram_part1: Part, ram_part2: Part]
Blank == [magic |-> FALSE, ram_part1 |-> Hole, ram_part2 |-> Hole]

ASSUME FileAssumption == Absent \notin Content

StateOf(m) == [magic |-> TRUE, ram_part1 |-> m, ram_part2 |-> m]
Whole(c) == \E m \in Moment : c = StateOf(m)

\* makeSaveStatePath, with the location that is selected now.
PathOf(n) == <<location, n>>

Somewhere == CHOOSE p \in Path : TRUE
\* Bound: a call of the system that fails, or a kill.
Fault == faults < MaxFaults /\ faults' = faults + 1
NoFault == UNCHANGED faults

\* Bound: a state that the menu asks for.
Request == requests < MaxRequests /\ requests' = requests + 1

IdleCompat == [at |-> "wait", p |-> Somewhere]
IdleDraw == [at |-> "round", p |-> Somewhere, cmd |-> "NONE"]

Stage == {"wait", "part1", "part2", "header", "close", "rename",
          "read1", "read2", "readd", "send"}

\* SaveState is at work on p; the menu has p's .tmp file open; LoadState has p
\* open.  A file that is open can be opened a second time, and emptied by that,
\* but not removed or renamed.
Saving(p) ==
    compat.p = p /\ compat.at \in {"part1", "part2", "header", "close", "rename"}
DrawHas(p) == draw.p = p /\ draw.at = "shot"
Reading(p) == compat.p = p /\ compat.at \in {"read1", "read2", "readd"}

Init ==
    /\ file \in [Path -> {Absent} \cup {StateOf(m) : m \in Moment}]
    /\ tmp = [p \in Path |-> Absent]
    /\ location \in Location
    /\ num = 0
    /\ psp_cmd = "NONE" /\ savestate_mode = "NONE" /\ pp = "run"
    /\ \E m \in Moment : ram = <<m, m>>
    /\ compat = IdleCompat
    /\ draw = IdleDraw
    /\ passed = FALSE
    /\ menu_open = FALSE
    /\ listed = {}
    /\ load_state = FALSE
    /\ loadstate \in Selected
    /\ torn = {} /\ spoiled = FALSE
    /\ faults = 0 /\ requests = 0

-----------------------------------------------------------------------------
(* AdrenalineDraw *)

\* A round of its loop begins only when no state is saved or loaded.
RoundBegins ==
    /\ draw.at = "round"
    /\ savestate_mode = "NONE" \/ passed
    /\ passed' = FALSE

\* EnterAdrenalineMenu and initStates: the files with the magic word are listed.
\* From a round, or from the handler of the settings, which does not ask whether
\* the menu is open nor what AdrenalineDraw does.
EnterMenu ==
    /\ menu_open' = TRUE
    /\ listed' = {n \in Num : file[PathOf(n)] # Absent /\ file[PathOf(n)].magic}
    /\ UNCHANGED <<files, num, psp, compat, draw, location, load_state, loadstate, torn, spoiled,
                   passed>>

\* ExitAdrenalineMenu and finishStates.
LeavesMenu == menu_open' = FALSE /\ listed' = {}

ExitMenu ==
    /\ RoundBegins
    /\ menu_open
    /\ LeavesMenu
    /\ UNCHANGED <<files, num, psp, compat, draw, location, load_state, loadstate, torn, spoiled>>

\* The options that matter here; the list is not read again.
ChangeOptions ==
    /\ RoundBegins
    /\ menu_open
    /\ location' \in Location
    /\ loadstate' \in Selected
    /\ UNCHANGED <<files, num, psp, compat, draw, menu_open, listed, load_state, torn, spoiled>>

\* "Save State" on an entry that is not listed, "Overwrite State" on one that is.
ChooseSave(n) ==
    /\ RoundBegins /\ Request
    /\ menu_open
    /\ LeavesMenu
    /\ draw' = [at |-> "create", p |-> PathOf(n), cmd |-> "SAVESTATE"]
    /\ UNCHANGED <<files, num, psp, compat, location, load_state, loadstate, torn, spoiled>>

ChooseLoad(n) ==
    /\ RoundBegins /\ Request
    /\ menu_open
    /\ n \in listed
    /\ LeavesMenu
    /\ draw' = [at |-> "num", p |-> PathOf(n), cmd |-> "LOADSTATE"]
    /\ UNCHANGED <<files, num, psp, compat, location, load_state, loadstate, torn, spoiled>>

\* LoadSelectedState, an entry that hideEntries shows when the state is listed.
LoadSelectedState ==
    /\ RoundBegins /\ Request
    /\ menu_open
    /\ loadstate \in listed
    /\ LeavesMenu
    /\ draw' = [at |-> "num", p |-> PathOf(loadstate), cmd |-> "SELECTED"]
    /\ UNCHANGED <<files, num, psp, compat, location, load_state, loadstate, torn, spoiled>>

\* deleteState: out of the list, also when the file cannot be removed.
ChooseDelete(n) ==
    /\ RoundBegins
    /\ menu_open
    /\ n \in listed
    /\ \/ Reading(PathOf(n)) /\ UNCHANGED file /\ NoFault
       \/ Fault /\ UNCHANGED file
       \/ ~Reading(PathOf(n)) /\ file' = [file EXCEPT ![PathOf(n)] = Absent] /\ NoFault
    /\ listed' = listed \ {n}
    /\ UNCHANGED <<tmp, num, psp, compat, draw, location, menu_open, load_state, loadstate, torn, spoiled>>

\* saveState: the .tmp file is created or emptied.  When it cannot be opened the
\* state is asked for all the same.
SaveStateCreate ==
    /\ draw.at = "create"
    /\ \/ /\ tmp' = [tmp EXCEPT ![draw.p] = Blank]
          /\ torn' = IF Saving(draw.p) THEN torn \cup {draw.p} ELSE torn
          /\ draw' = [draw EXCEPT !.at = "shot"]
          /\ NoFault
       \/ /\ Fault
          /\ draw' = [draw EXCEPT !.at = "num"]
          /\ UNCHANGED <<tmp, torn>>
    /\ UNCHANGED <<file, num, psp, compat, passed, load_state, menu, spoiled>>

\* An empty header, unless its write fails, the screenshot, and the close.
SaveStateShot ==
    /\ draw.at = "shot"
    /\ \/ Fault /\ UNCHANGED tmp
       \/ NoFault /\ tmp' = [tmp EXCEPT ![draw.p] = IF @ = Absent THEN @
                                                   ELSE [@ EXCEPT !.magic = FALSE]]
    /\ draw' = [draw EXCEPT !.at = "num"]
    /\ UNCHANGED <<file, num, psp, compat, passed, load_state, menu, torn, spoiled>>

\* The rest of saveState, and loadState: the number of the state ...
DrawNum ==
    /\ draw.at = "num"
    /\ num' = draw.p[2]
    /\ draw' = [draw EXCEPT !.at = "send"]
    /\ UNCHANGED <<files, psp, compat, passed, load_state, menu, torn, spoiled>>

\* SendAdrenalineRequest
Send(cmd) == psp_cmd' = cmd /\ UNCHANGED <<savestate_mode, pp, ram>>

\* ... and the command; a selected state is not loaded again by itself.
DrawSend ==
    /\ draw.at = "send"
    /\ Send(IF draw.cmd = "SELECTED" THEN "LOADSTATE" ELSE draw.cmd)
    /\ load_state' = (load_state \/ draw.cmd = "SELECTED")
    /\ draw' = IdleDraw
    /\ UNCHANGED <<files, num, compat, passed, menu, torn, spoiled>>

-----------------------------------------------------------------------------
(* The PSP *)

\* Mutant: the PSP goes on while its state is saved or loaded.
PspRunAlways ==
    /\ pp \in {"run", "request"}
    /\ \E m \in Moment : ram' = <<m, m>>
    /\ UNCHANGED <<files, num, psp_cmd, savestate_mode, pp, compat, draw, passed,
                   load_state, menu, torn, spoiled>>

\* A memory that is not one moment does not become one by running.
PspRun ==
    /\ pp = "run"
    /\ ram[1] = ram[2] /\ ram[1] # Hole
    /\ \E m \in Moment : ram' = <<m, m>>
    /\ UNCHANGED <<files, num, psp_cmd, savestate_mode, pp, compat, draw, passed,
                   load_state, menu, torn, spoiled>>

\* adrenaline_thread: the PSP is put to sleep.
PspTake ==
    /\ pp = "run" /\ psp_cmd # "NONE"
    /\ psp_cmd' = "NONE"
    /\ savestate_mode' = psp_cmd
    /\ pp' = "stop"
    /\ passed' \in IF draw.at = "round" THEN BOOLEAN ELSE {FALSE}
    /\ UNCHANGED <<files, num, ram, compat, draw, load_state, menu, torn, spoiled>>

\* VitaSyncPatched and SaveStateBinary: the request, and a loop for the answer.
PspRequest ==
    /\ pp = "stop"
    /\ pp' = "request"
    /\ UNCHANGED <<files, num, psp_cmd, savestate_mode, ram, compat, draw, passed,
                   load_state, menu, torn, spoiled>>

\* SysEventHandler: resume completed.
PspResume ==
    /\ pp = "answered"
    /\ pp' = "run"
    /\ savestate_mode' = "NONE"
    /\ passed' = FALSE
    /\ UNCHANGED <<files, num, psp_cmd, ram, compat, draw, load_state, menu, torn, spoiled>>

-----------------------------------------------------------------------------
(* AdrenalineCompat: SaveState *)

CompatUnchanged == UNCHANGED <<num, draw, passed, load_state, menu>>

Answer ==
    /\ pp' = "answered"
    /\ UNCHANGED <<psp_cmd, savestate_mode, ram>>

\* Answered also when there is no .tmp file, or none that can be opened.
SaveStateOpen ==
    /\ pp = "request" /\ compat.at = "wait"
    /\ savestate_mode = "SAVESTATE"
    /\ LET p == PathOf(num)
       IN  \/ tmp[p] = Absent /\ NoFault /\ Answer /\ UNCHANGED <<compat, torn>>
           \/ Fault /\ Answer /\ UNCHANGED <<compat, torn>>
           \/ /\ tmp[p] # Absent /\ NoFault
              /\ compat' = [at |-> "part1", p |-> p]
              /\ torn' = IF DrawHas(p) \/ spoiled THEN torn \cup {p} ELSE torn
              /\ UNCHANGED psp
    /\ UNCHANGED <<files, spoiled>>
    /\ CompatUnchanged

\* The parts one after the other, each with what the PSP has now.  A write that
\* fails leaves what was there; nobody looks at its result.
WritePart(at, part, value, next) ==
    /\ compat.at = at
    /\ \/ NoFault /\ tmp' = [tmp EXCEPT ![compat.p][part] = value] /\ UNCHANGED torn
       \/ Fault /\ torn' = torn \cup {compat.p} /\ UNCHANGED tmp
    /\ compat' = [compat EXCEPT !.at = next]
    /\ UNCHANGED <<file, psp, spoiled>>
    /\ CompatUnchanged

SaveRamPart1 == WritePart("part1", "ram_part1", ram[1], "part2")

\* Mutant: the second part is left out.
SecondPartSkipped == WritePart("part2", "magic", TRUE, "close")

SaveRamPart2 == WritePart("part2", "ram_part2", ram[2], "header")
SaveHeader == WritePart("header", "magic", TRUE, "close")

\* sceIoClose, and the old state is removed, if that does not fail.
SaveStateRemove ==
    /\ compat.at = "close"
    /\ \/ NoFault /\ file' = [file EXCEPT ![compat.p] = Absent]
       \/ Fault /\ UNCHANGED file
    /\ compat' = [compat EXCEPT !.at = "rename"]
    /\ UNCHANGED <<tmp, psp, torn, spoiled>>
    /\ CompatUnchanged

\* sceIoRename is refused while the menu has the .tmp file open or the old state is
\* still there.
CanRename(p) == file[p] = Absent /\ tmp[p] # Absent /\ ~DrawHas(p)

\* The new state gets its name, and the answer.
SaveStateRename ==
    /\ compat.at = "rename"
    /\ \/ Fault /\ UNCHANGED files
       \/ NoFault /\ ~CanRename(compat.p) /\ UNCHANGED files
       \/ /\ NoFault /\ CanRename(compat.p)
          /\ file' = [file EXCEPT ![compat.p] = tmp[compat.p]]
          /\ tmp' = [tmp EXCEPT ![compat.p] = Absent]
    /\ compat' = IdleCompat
    /\ Answer
    /\ UNCHANGED <<torn, spoiled>>
    /\ CompatUnchanged

-----------------------------------------------------------------------------
(* AdrenalineCompat: LoadState *)

\* Mutant: a state that cannot be opened is not answered.
LoadStateOpenSilent ==
    /\ pp = "request" /\ compat.at = "wait"
    /\ savestate_mode = "LOADSTATE"
    /\ file[PathOf(num)] # Absent /\ NoFault
    /\ compat' = [at |-> "read1", p |-> PathOf(num)]
    /\ UNCHANGED <<files, psp, torn, spoiled>>
    /\ CompatUnchanged

\* Answered also when there is no such state, or it cannot be opened.
LoadStateOpen ==
    /\ pp = "request" /\ compat.at = "wait"
    /\ savestate_mode = "LOADSTATE"
    /\ \/ file[PathOf(num)] = Absent /\ NoFault /\ Answer /\ UNCHANGED compat
       \/ Fault /\ Answer /\ UNCHANGED compat
       \/ /\ file[PathOf(num)] # Absent /\ NoFault
          /\ compat' = [at |-> "read1", p |-> PathOf(num)]
          /\ UNCHANGED psp
    /\ UNCHANGED <<files, torn, spoiled>>
    /\ CompatUnchanged

\* The halves one after the other.  What decompresses from a hole, or from a read
\* that failed, is nothing that the PSP had; nobody looks at the result.
ReadHalf(at, half, part, next) ==
    /\ compat.at = at
    /\ \/ NoFault /\ ram' = [ram EXCEPT ![half] = part]
       \/ Fault /\ ram' = [ram EXCEPT ![half] = Hole]
    /\ compat' = [compat EXCEPT !.at = next]
    /\ UNCHANGED <<files, psp_cmd, savestate_mode, pp, torn>>
    /\ CompatUnchanged

LoadRamPart1 ==
    ReadHalf("read1", 1, file[compat.p].ram_part1, "read2") /\ UNCHANGED spoiled

LoadRamPart2 ==
    /\ ReadHalf("read2", 2, file[compat.p].ram_part2, "readd")
    /\ spoiled' = (compat.p \in torn \/ Hole \in {ram'[1], ram'[2]})

\* The descriptors: ScePspemuMsfsSetFileDescriptors; and the answer.
LoadDescriptors ==
    /\ compat.at = "readd"
    /\ compat' = IdleCompat
    /\ Answer
    /\ UNCHANGED <<files, torn, spoiled>>
    /\ CompatUnchanged

-----------------------------------------------------------------------------
(* AdrenalineCompat: autoLoadState, after any other request of the PSP *)

AutoLoadState ==
    /\ pp = "run" /\ compat.at = "wait"
    /\ loadstate # None /\ ~load_state
    /\ file[PathOf(loadstate)] # Absent
    /\ load_state' = TRUE
    /\ num' = loadstate
    /\ compat' = [compat EXCEPT !.at = "send"]
    /\ UNCHANGED <<files, psp, draw, passed, menu, torn, spoiled>>

AutoLoadSend ==
    /\ compat.at = "send"
    /\ Send("LOADSTATE")
    /\ compat' = IdleCompat
    /\ UNCHANGED <<files, num, draw, passed, load_state, menu, torn, spoiled>>

-----------------------------------------------------------------------------

\* The application is killed and started again; initAdrenalineInfo clears num.
Kill ==
    /\ Fault
    /\ num' = 0
    /\ psp_cmd' = "NONE" /\ savestate_mode' = "NONE" /\ pp' = "run"
    /\ \E m \in Moment : ram' = <<m, m>>
    /\ compat' = IdleCompat
    /\ draw' = IdleDraw
    /\ passed' = FALSE
    /\ load_state' = FALSE
    /\ menu_open' = FALSE /\ listed' = {}
    /\ spoiled' = FALSE
    /\ UNCHANGED <<files, location, loadstate, torn>>

\* The steps of AdrenalineDraw: what the user asks for, and the rest.
Ask ==
    /\ LoadSelectedState \/ \E n \in Num : ChooseSave(n) \/ ChooseLoad(n)
    /\ NoFault

Draw ==
    \/ /\ EnterMenu \/ ExitMenu \/ ChangeOptions \/ DrawNum \/ DrawSend
       /\ NoFault
    \/ \E n \in Num : ChooseDelete(n)
    \/ SaveStateCreate \/ SaveStateShot

\* The PSP and AdrenalineCompat, once a command was taken.
Serve ==
    \/ /\ PspRequest \/ PspResume \/ LoadDescriptors \/ AutoLoadSend
       /\ NoFault
    \/ SaveStateOpen \/ SaveRamPart1 \/ SaveRamPart2 \/ SaveHeader
    \/ SaveStateRemove \/ SaveStateRename
    \/ LoadStateOpen \/ LoadRamPart1 \/ LoadRamPart2

\* The PSP by itself, and AdrenalineCompat by itself.
Run ==
    /\ PspRun \/ PspTake \/ AutoLoadState
    /\ NoFault

Next ==
    \/ Ask
    \/ (Draw \/ Serve \/ Run \/ Kill) /\ UNCHANGED requests

Spec == Init /\ [][Next]_vars

\* The PSP and the thread AdrenalineCompat run; nothing is assumed of the user.
FairSpec == Spec /\ WF_vars(Serve /\ UNCHANGED requests)

-----------------------------------------------------------------------------
(* Properties *)

\* A file with the name of a state is a whole state of one moment, also when the
\* application was killed while saving, when another number was written to num
\* in between, and when a .tmp file of an earlier save was left behind; unless a
\* write failed or the menu emptied the .tmp file while SaveState was at work.
FilesWhole == \A p \in Path : file[p] # Absent /\ p \notin torn => Whole(file[p])

\* When the PSP runs, both halves of its memory are from one moment, unless what it
\* loaded last was torn or could not be read.
OneMoment == pp = "run" /\ ~spoiled => ram[1] = ram[2] /\ ram[1] # Hole

\* SaveState and LoadState: a state is one moment, in its file and in the memory.
StatesWhole == FilesWhole /\ OneMoment

\* SaveState gives the old state up only when the new one is complete in the .tmp
\* file: a kill between the removal and the renaming loses neither.
OldKept ==
    [][\A p \in Path :
         (compat.p = p /\ compat.at = "close" /\ file[p] # Absent /\ file'[p] = Absent)
            => (p \in torn \/ (Whole(tmp[p]) /\ tmp'[p] = tmp[p]))]_vars

\* A request about a state ends and the PSP goes on, also when the file is missing.
PspGoesOn == pp # "run" ~> pp = "run"

\* What the files and the PSP's memory are for the user: see StateSlots.
Slots == INSTANCE StateSlots WITH
    slots <- [p \in Path |-> IF file[p] = Absent THEN None
                             ELSE IF Whole(file[p]) THEN file[p].ram_part1 ELSE Damaged],
    moment <- IF spoiled THEN Damaged ELSE ram[2]

\* The detailed specification implements the abstract one.
Implements == Slots!Spec

=============================================================================
