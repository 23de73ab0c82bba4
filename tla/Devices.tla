------------------------------ MODULE Devices ------------------------------
(***************************************************************************)
(* What several threads of adrenaline_user switch on and off: the USB      *)
(* storage, the power lock, the PS1 emulator and the kernel's scaler.      *)
(*                                                                         *)
(*   compat  AdrenalineCompat, on behalf of the PSP: starts and stops the  *)
(*           USB storage (user/usb.c), pauses and resumes the PS1 emulator *)
(*   draw    AdrenalineDraw: its rounds, and leaving the menu              *)
(*   shell   the settings handler, which opens the menu of the host and of *)
(*           bubbles that leave the PS button to the system                *)
(*   resume  the hook of sceCompatSuspendResume                            *)
(*                                                                         *)
(* Each of them reads and writes menu_open, lock_power and usbdevice_modid *)
(* without a lock.  A call of the system may fail.                         *)
(*                                                                         *)
(* Bound: a behaviour is about one device, its focus; the menu, the power  *)
(* lock and the rounds of AdrenalineDraw are part of every behaviour.      *)
(***************************************************************************)
EXTENDS Integers, FiniteSets

CONSTANTS
    MaxLoads,  \* how often usbdevice.skprx is loaded
    MaxFaults, \* calls that fail
    MaxGames   \* changes of pops_mode

ASSUME DevicesAssumption == MaxLoads \in Nat /\ MaxFaults \in Nat /\ MaxGames \in Nat

VARIABLES
    \* user/usb.c and the kernel
    usbdevice_modid, \* -1, or the module that AdrenalineCompat started
    loaded,          \* the usbdevice modules in the kernel
    loads,
    vstor, mtp,      \* the USB storage and the MTP driver run
    lock_power,
    \* the menu
    adr_id,          \* the host; rigid
    shell_opens,     \* the settings handler opens the menu; rigid
    suspend,         \* suspend_threads of the host, boot_info.suspend = 0 of a bubble
    old_suspend,     \* old_config.suspend_threads
    menu_open,
    settings_sema,
    \* the PS1 emulator
    pops_mode, games,
    paused,          \* ScePspemuPausePops
    draw_psp_screen_in_pops,
    lastPops,
    \* the scaler
    sharp,           \* the settings that ask for it
    requested, active, \* direct_sharp_scale_requested and _active
    scaler,          \* the kernel scales
    \* the threads
    compat, modid, draw, shell, resume,
    forgets,         \* AdrenalineCompat is stopping the storage for STOP_USB
    load_state,      \* the automatic load has been done
    faults,
    focus,           \* the device that is switched: "usb", "pops" or "scaler"; rigid
    \* history
    given,           \* a stop that leaves the module noted has begun
    leaked,          \* a call that undoes something failed
    crossed,         \* a start was begun while AdrenalineDraw was stopping
    left,            \* since the storage locked the power, the menu unlocked it, or
                     \* it was not unlocked, or the menu's, for another's sake
    held,            \* the menu was opened over a PS1 game that is still played
    late,            \* a resume that saw the menu closed comes after it was opened
    kept             \* the menu unpaused the game while it was still being opened,
                     \* or a resume was left to a menu that had unpaused already

usb == <<usbdevice_modid, loaded, loads, vstor, mtp, modid, forgets, load_state, faults, given, leaked, crossed>>
menu == <<focus, adr_id, shell_opens, suspend, old_suspend, menu_open, settings_sema>>
pops == <<pops_mode, games, paused, draw_psp_screen_in_pops, lastPops, held, late, kept>>
scale == <<sharp, requested, active, scaler>>
threads == <<compat, draw, shell, resume>>
vars == <<usb, lock_power, left, menu, pops, scale, threads>>

Init ==
    /\ focus \in {"usb", "pops", "scaler"}
    /\ usbdevice_modid = -1 /\ loaded = {} /\ loads = 0
    /\ vstor = FALSE /\ mtp = TRUE /\ lock_power = FALSE
    /\ adr_id \in BOOLEAN /\ shell_opens \in BOOLEAN /\ (adr_id => shell_opens)
    /\ suspend \in BOOLEAN /\ old_suspend = FALSE
    /\ menu_open = FALSE /\ settings_sema = 0
    /\ pops_mode = FALSE /\ games = 0
    /\ paused = FALSE /\ draw_psp_screen_in_pops = FALSE /\ lastPops = FALSE
    /\ sharp = FALSE /\ requested = -1 /\ active = FALSE /\ scaler = FALSE
    /\ compat = "wait" /\ draw = "top" /\ shell = "idle" /\ resume = "idle"
    /\ modid = [t \in {"compat", "draw"} |-> -1]
    /\ faults = 0
    /\ forgets = FALSE /\ load_state = FALSE
    /\ given = FALSE /\ leaked = FALSE /\ crossed = FALSE /\ left = FALSE
    /\ held = FALSE /\ late = FALSE /\ kept = FALSE

-----------------------------------------------------------------------------
(* startUsb, called by AdrenalineCompat *)

\* A call of the system succeeds, or fails.
Result(ok) ==
    IF ok THEN UNCHANGED faults ELSE faults < MaxFaults /\ faults' = faults + 1

StartUnchanged == UNCHANGED <<forgets, load_state, menu, pops, scale, draw, shell, resume>>

Stopping == {"stop_vstor", "stop_mtp", "stop_unload", "stop_unlock"}

\* START_USB: refused while a module is noted; the module is loaded.
StartLoad(ok) ==
    /\ focus = "usb"
    /\ compat = "wait"
    /\ usbdevice_modid < 0
    /\ loads < MaxLoads
    /\ Result(ok)
    /\ IF ok
       THEN /\ loads' = loads + 1
            /\ loaded' = loaded \cup {loads'}
            /\ modid' = [modid EXCEPT !["compat"] = loads']
            /\ compat' = "start_mtp"
       ELSE UNCHANGED <<loads, loaded, modid, compat>>
    /\ crossed' = (crossed \/ draw \in Stopping)
    /\ UNCHANGED <<usbdevice_modid, vstor, mtp, lock_power, left, given, leaked>>
    /\ StartUnchanged

\* ERROR_STOP_DRIVER: the module is unloaded again; the result is not looked at.
GiveUp(clean, unloaded) ==
    /\ loaded' = IF unloaded THEN loaded \ {modid["compat"]} ELSE loaded
    /\ leaked' = (leaked \/ ~clean)
    /\ modid' = [modid EXCEPT !["compat"] = -1]
    /\ compat' = "wait"

\* sceMtpIfStopDriver
StartMtp(ok, undone) ==
    /\ compat = "start_mtp"
    /\ Result(ok /\ undone)
    /\ IF ok
       THEN mtp' = FALSE /\ compat' = "start_vstor" /\ UNCHANGED <<modid, loaded, leaked>>
       ELSE GiveUp(undone, undone) /\ UNCHANGED mtp
    /\ UNCHANGED <<usbdevice_modid, loads, vstor, lock_power, left, given, crossed>>
    /\ StartUnchanged

\* Mutant: a storage that does not start is taken for one that does.
StartVstorBlind(ok, undone, restarted) ==
    /\ compat = "start_vstor"
    /\ Result(ok /\ undone /\ restarted)
    /\ vstor' = ok
    /\ compat' = "start_lock"
    /\ UNCHANGED <<usbdevice_modid, modid, loaded, loads, mtp, lock_power, left, given, leaked, crossed>>
    /\ StartUnchanged

\* The calls of sceUsbstorVStor; ERROR_USBSTOR_VSTOR starts the MTP driver again and
\* does not look at the result of that either.  Bound: what fails in one step counts
\* as one fault.
StartVstor(ok, undone, restarted) ==
    /\ compat = "start_vstor"
    /\ Result(ok /\ undone /\ restarted)
    /\ IF ok
       THEN vstor' = TRUE /\ compat' = "start_lock" /\ UNCHANGED <<modid, mtp, loaded, leaked>>
       ELSE GiveUp(undone /\ restarted, undone) /\ mtp' = restarted /\ UNCHANGED vstor
    /\ UNCHANGED <<usbdevice_modid, loads, lock_power, left, given, crossed>>
    /\ StartUnchanged

\* Mutant: the power is not locked.
StartLockNot ==
    /\ compat = "start_lock"
    /\ left' = FALSE
    /\ compat' = "start_note"
    /\ UNCHANGED <<usb, lock_power>>
    /\ StartUnchanged

\* lockPower
StartLock ==
    /\ compat = "start_lock"
    /\ lock_power' = TRUE
    /\ left' = FALSE
    /\ compat' = "start_note"
    /\ UNCHANGED usb
    /\ StartUnchanged

\* usbdevice_modid = startUsb(...)
StartNote ==
    /\ compat = "start_note"
    /\ usbdevice_modid' = modid["compat"]
    /\ modid' = [modid EXCEPT !["compat"] = -1]
    /\ compat' = "wait"
    /\ UNCHANGED <<loaded, loads, vstor, mtp, faults, given, leaked, crossed, lock_power, left>>
    /\ StartUnchanged

-----------------------------------------------------------------------------
(* stopUsb, called by AdrenalineCompat, for STOP_USB and for the automatic load, and
   by AdrenalineDraw *)

At(t) == IF t = "compat" THEN compat ELSE draw
Goes(t, at) ==
    /\ compat' = IF t = "compat" THEN at ELSE compat
    /\ draw' = IF t = "draw" THEN at ELSE draw

\* Where the caller goes on: AdrenalineDraw was about to launch LiveArea or to
\* send a command, or it still has the menu to leave.
Returns(t) ==
    /\ Goes(t, IF t = "compat" THEN "wait" ELSE IF menu_open THEN "exit_pops" ELSE "top")
    /\ modid' = [modid EXCEPT ![t] = -1]

Continues(t, at) == Goes(t, at) /\ UNCHANGED modid

StopUnchanged == UNCHANGED <<menu, load_state, pops, scale, shell, resume>>

\* The argument is read once.
StopBegins(t, forget) ==
    /\ IF usbdevice_modid < 0 THEN Returns(t)
       ELSE Goes(t, "stop_vstor") /\ modid' = [modid EXCEPT ![t] = usbdevice_modid]
    /\ forgets' = IF t = "compat" THEN forget ELSE forgets
    /\ given' = (given \/ (~forget /\ usbdevice_modid >= 0))
    /\ UNCHANGED <<usbdevice_modid, loaded, loads, vstor, mtp, faults, leaked, crossed>>

\* sceUsbstorVStorStop, which may refuse to stop what does not run.
StopVstor(t, ok) ==
    /\ At(t) = "stop_vstor"
    /\ Result(ok \/ ~vstor)
    /\ IF ok THEN vstor' = FALSE /\ Continues(t, "stop_mtp")
             ELSE Returns(t) /\ UNCHANGED vstor
    /\ UNCHANGED <<usbdevice_modid, loaded, loads, mtp, forgets, given, leaked, crossed, lock_power, left>>
    /\ StopUnchanged

\* sceMtpIfStartDriver
StopMtp(t, ok) ==
    /\ At(t) = "stop_mtp"
    /\ Result(ok)
    /\ IF ok THEN mtp' = TRUE /\ Continues(t, "stop_unload")
             ELSE Returns(t) /\ UNCHANGED mtp
    /\ leaked' = (leaked \/ ~ok)
    /\ UNCHANGED <<usbdevice_modid, loaded, loads, vstor, forgets, given, crossed, lock_power, left>>
    /\ StopUnchanged

\* taiStopUnloadKernelModule
StopUnload(t, ok) ==
    /\ At(t) = "stop_unload"
    /\ ok => modid[t] \in loaded
    /\ Result(ok \/ modid[t] \notin loaded)
    /\ IF ok THEN loaded' = loaded \ {modid[t]} /\ Continues(t, "stop_unlock")
             ELSE Returns(t) /\ UNCHANGED loaded
    /\ leaked' = (leaked \/ (~ok /\ modid[t] \in loaded))
    /\ UNCHANGED <<usbdevice_modid, loads, vstor, mtp, forgets, given, crossed, lock_power, left>>
    /\ StopUnchanged

\* unlockPower and the remounts.  AdrenalineCompat forgets the module for STOP_USB;
\* nobody else does.
StopUnlock(t) ==
    /\ At(t) = "stop_unlock"
    /\ lock_power' = FALSE
    /\ left' = (left \/ menu_open)
    /\ usbdevice_modid' = IF t = "compat" /\ forgets THEN -1 ELSE usbdevice_modid
    /\ Returns(t)
    /\ UNCHANGED <<loaded, loads, vstor, mtp, forgets, faults, given, leaked, crossed>>
    /\ StopUnchanged

\* Mutant: the module is forgotten before it is stopped, whatever comes of it.
StopUsbForget ==
    /\ focus = "usb" /\ compat = "wait"
    /\ IF usbdevice_modid < 0 THEN Returns("compat")
       ELSE Goes("compat", "stop_vstor") /\ modid' = [modid EXCEPT !["compat"] = usbdevice_modid]
    /\ usbdevice_modid' = -1
    /\ UNCHANGED <<loaded, loads, vstor, mtp, forgets, faults, given, leaked, crossed, lock_power, left>>
    /\ StopUnchanged

\* STOP_USB
StopUsb ==
    /\ focus = "usb" /\ compat = "wait"
    /\ StopBegins("compat", TRUE)
    /\ UNCHANGED <<lock_power, left>>
    /\ StopUnchanged

\* autoLoadState, at most once, after any request of the PSP: loadState stops the
\* storage and leaves the module noted.  (It stops nothing when it comes before
\* anything is started, and the loads of the menu set load_state as well: behaviours
\* without this step.)
AutoLoad ==
    /\ focus = "usb" /\ compat = "wait"
    /\ usbdevice_modid >= 0
    /\ ~load_state /\ load_state' = TRUE
    /\ StopBegins("compat", FALSE)
    /\ UNCHANGED <<lock_power, left, menu, pops, scale, shell, resume>>

-----------------------------------------------------------------------------
(* PAUSE_POPS, RESUME_POPS and the hook of sceCompatSuspendResume *)

PopsUnchanged == UNCHANGED <<usb, lock_power, left, menu, scale, draw, shell>>

PausePops ==
    /\ focus = "pops" /\ compat = "wait"
    /\ paused' = TRUE
    /\ draw_psp_screen_in_pops' = TRUE
    /\ UNCHANGED <<pops_mode, games, lastPops, held, late, kept, compat, resume>>
    /\ PopsUnchanged

\* Whether the menu is open is looked at first; its draw thread may be between
\* unpausing and closing it.
MenuLeaves == ~menu_open \/ draw \in {"exit_unlock", "exit_close"}

Looks(next, skip) ==
    /\ kept' = (kept \/ (menu_open /\ MenuLeaves))
    /\ next' = IF menu_open THEN skip ELSE "unpause"

\* Mutant: resumed whether or not the menu is open.
ResumePopsAlways ==
    /\ focus = "pops" /\ compat = "wait"
    /\ paused' = FALSE
    /\ compat' = "screen"
    /\ UNCHANGED <<pops_mode, games, draw_psp_screen_in_pops, lastPops, held, late, kept, resume>>
    /\ PopsUnchanged

ResumePops ==
    /\ focus = "pops" /\ compat = "wait"
    /\ Looks(compat, "screen")
    /\ UNCHANGED <<pops_mode, games, paused, draw_psp_screen_in_pops, lastPops, held, late, resume>>
    /\ PopsUnchanged

ResumeUnpause ==
    /\ compat = "unpause"
    /\ paused' = FALSE
    /\ late' = (late \/ menu_open)
    /\ compat' = "screen"
    /\ UNCHANGED <<pops_mode, games, draw_psp_screen_in_pops, lastPops, held, kept, resume>>
    /\ PopsUnchanged

ResumeScreen ==
    /\ compat = "screen"
    /\ draw_psp_screen_in_pops' = FALSE
    /\ compat' = "wait"
    /\ UNCHANGED <<pops_mode, games, paused, lastPops, held, late, kept, resume>>
    /\ PopsUnchanged

\* sceCompatSuspendResumePatched
SuspendResume ==
    /\ focus = "pops" /\ resume = "idle"
    /\ Looks(resume, "idle")
    /\ UNCHANGED <<pops_mode, games, paused, draw_psp_screen_in_pops, lastPops, held, late, compat>>
    /\ PopsUnchanged

SuspendResumeUnpause ==
    /\ resume = "unpause"
    /\ paused' = FALSE
    /\ late' = (late \/ menu_open)
    /\ resume' = "idle"
    /\ UNCHANGED <<pops_mode, games, draw_psp_screen_in_pops, lastPops, held, kept, compat>>
    /\ PopsUnchanged

\* The PSP starts a PS1 game, or leaves one.  Bound: AdrenalineDraw has a round in
\* between.
GameChanges ==
    /\ games < MaxGames /\ games' = games + 1
    /\ pops_mode \/ ~lastPops
    /\ pops_mode' = ~pops_mode
    /\ held' = FALSE
    /\ UNCHANGED <<paused, draw_psp_screen_in_pops, lastPops, late, kept, compat, resume>>
    /\ PopsUnchanged

-----------------------------------------------------------------------------
(* EnterAdrenalineMenu, by AdrenalineDraw or by the settings handler *)

Opener == IF shell_opens THEN shell ELSE draw
OpenerGoes(at) ==
    /\ shell' = IF shell_opens THEN at ELSE shell
    /\ draw' = IF shell_opens THEN draw ELSE at

EnterUnchanged == UNCHANGED <<usb, left, scale, compat, resume, focus, adr_id, shell_opens>>

\* The settings handler does not look whether the menu is open.
EnterBegins == IF shell_opens THEN shell = "idle" ELSE draw = "keys" /\ ~menu_open

\* lockPower, and old_config is taken.
EnterLock ==
    /\ EnterBegins
    /\ lock_power' = (lock_power \/ (suspend /\ ~pops_mode))
    /\ old_suspend' = suspend
    /\ OpenerGoes("enter_open")
    /\ UNCHANGED <<suspend, menu_open, settings_sema, pops>>
    /\ EnterUnchanged

EnterOpen ==
    /\ Opener = "enter_open"
    /\ menu_open' = TRUE
    /\ OpenerGoes("enter_pops")
    /\ UNCHANGED <<lock_power, suspend, old_suspend, settings_sema, pops>>
    /\ EnterUnchanged

\* ScePspemuPausePops(1); the handler then waits for the menu to be left.
EnterPops ==
    /\ Opener = "enter_pops"
    /\ paused' = (paused \/ pops_mode)
    /\ held' = (pops_mode /\ ~MenuLeaves)
    /\ kept' = (kept \/ MenuLeaves)
    /\ OpenerGoes(IF shell_opens THEN "sema" ELSE "top")
    /\ UNCHANGED <<lock_power, suspend, old_suspend, menu_open, settings_sema, pops_mode, games,
                   draw_psp_screen_in_pops, lastPops, late>>
    /\ EnterUnchanged

\* sceKernelWaitSema(settings_semaid)
ShellReturns ==
    /\ shell = "sema" /\ settings_sema = 1
    /\ settings_sema' = 0
    /\ shell' = "idle"
    /\ UNCHANGED <<lock_power, suspend, old_suspend, menu_open, draw, pops>>
    /\ EnterUnchanged

-----------------------------------------------------------------------------
(* ExitAdrenalineMenu, by AdrenalineDraw *)

ExitUnchanged == UNCHANGED <<usb, scale, compat, shell, resume, focus, adr_id, shell_opens, suspend, old_suspend>>

ExitPops ==
    /\ draw = "exit_pops"
    /\ paused' = (paused /\ ~pops_mode)
    /\ held' = FALSE
    /\ draw' = "exit_unlock"
    /\ UNCHANGED <<lock_power, left, menu_open, settings_sema, pops_mode, games,
                   draw_psp_screen_in_pops, lastPops, late, kept>>
    /\ ExitUnchanged

\* A bubble unlocks whenever no PS1 game is played, the host when it had locked.
Unlocks == ~pops_mode /\ (adr_id => old_suspend)

\* What is done about the lock is wrong for the storage, or, a PS1 game being played
\* now, for the menu that had locked.
LeavesLock(unlocks) == IF unlocks THEN vstor ELSE pops_mode /\ ~vstor

\* Mutant: the host goes by the option as it is now.
ExitUnlockNow ==
    /\ draw = "exit_unlock"
    /\ lock_power' = (lock_power /\ ~(~pops_mode /\ (adr_id => suspend)))
    /\ left' = (left \/ LeavesLock((~pops_mode /\ (adr_id => suspend))))
    /\ draw' = "exit_close"
    /\ UNCHANGED <<menu_open, settings_sema, pops>>
    /\ ExitUnchanged

ExitUnlock ==
    /\ draw = "exit_unlock"
    /\ lock_power' = (lock_power /\ ~Unlocks)
    /\ left' = (left \/ LeavesLock(Unlocks))
    /\ draw' = "exit_close"
    /\ UNCHANGED <<menu_open, settings_sema, pops>>
    /\ ExitUnchanged

ExitClose ==
    /\ draw = "exit_close"
    /\ menu_open' = FALSE
    /\ settings_sema' = 1
    /\ draw' = "top"
    /\ UNCHANGED <<lock_power, left, pops>>
    /\ ExitUnchanged

-----------------------------------------------------------------------------
(* A round of AdrenalineDraw *)

RoundUnchanged == UNCHANGED <<lock_power, left, menu, compat, shell, resume>>

\* Mutant: whether the kernel took the change is not looked at.
DrawScalerBlind(native, ok) ==
    /\ draw = "top"
    /\ LET request == IF sharp /\ ~pops_mode /\ ~native THEN 1 ELSE 0
       IN  IF request # requested
           THEN /\ Result(ok)
                /\ scaler' = IF ok THEN request = 1 ELSE scaler
                /\ requested' = request
                /\ active' = (request = 1)
           ELSE ok /\ UNCHANGED <<scaler, requested, active, faults>>
    /\ draw' = "pops"
    /\ UNCHANGED <<usbdevice_modid, loaded, loads, vstor, mtp, modid, forgets, load_state, given, leaked, crossed, sharp, pops>>
    /\ RoundUnchanged

\* kuSetPspemuDirectSharpScale, called on a change; no second try when it failed.
DrawScaler(native, ok) ==
    /\ draw = "top"
    /\ LET request == IF sharp /\ ~pops_mode /\ ~native THEN 1 ELSE 0
       IN  IF request # requested
           THEN /\ Result(ok)
                /\ scaler' = IF ok THEN request = 1 ELSE scaler
                /\ requested' = request
                /\ active' = (request = 1 /\ ok)
           ELSE ok /\ UNCHANGED <<scaler, requested, active, faults>>
    /\ draw' = "pops"
    /\ UNCHANGED <<usbdevice_modid, loaded, loads, vstor, mtp, modid, forgets, load_state, given, leaked, crossed, sharp, pops>>
    /\ RoundUnchanged

\* A PS1 game that has just been started is paused and unpaused once.
DrawPops ==
    /\ draw = "pops"
    /\ lastPops' = (lastPops /\ pops_mode)
    /\ paused' = (paused \/ (pops_mode /\ ~lastPops))
    /\ draw' = IF pops_mode /\ ~lastPops THEN "pops_unpause" ELSE "keys"
    /\ UNCHANGED <<usb, scale, pops_mode, games, draw_psp_screen_in_pops, held, late, kept>>
    /\ RoundUnchanged

\* Mutant: a new game is paused only.
DrawUnpauseNot ==
    /\ draw = "pops_unpause"
    /\ lastPops' = TRUE
    /\ draw' = "keys"
    /\ UNCHANGED <<usb, scale, pops_mode, games, paused, draw_psp_screen_in_pops, held, late, kept>>
    /\ RoundUnchanged

DrawUnpause ==
    /\ draw = "pops_unpause"
    /\ paused' = FALSE
    /\ lastPops' = TRUE
    /\ late' = (late \/ menu_open)
    /\ draw' = "keys"
    /\ UNCHANGED <<usb, scale, pops_mode, games, draw_psp_screen_in_pops, held, kept>>
    /\ RoundUnchanged

\* The PS button: LiveArea is launched, the storage is stopped before.
DrawLiveArea ==
    /\ draw = "keys"
    /\ ~menu_open
    /\ StopBegins("draw", FALSE)
    /\ UNCHANGED <<load_state, scale, pops>>
    /\ RoundUnchanged

\* The kernel presents the frame, or the thread draws it.
DrawShow ==
    /\ draw = "keys"
    /\ draw' = IF active /\ ~menu_open THEN "top" ELSE "ctrl"
    /\ UNCHANGED <<usb, scale, pops>>
    /\ RoundUnchanged

\* ctrlMenu: nothing, an option, or a way out of the menu; the entries that stop
\* the storage do so before they leave the menu, the states after.
DrawCtrl ==
    /\ draw = "ctrl"
    /\ \/ draw' = "top" /\ UNCHANGED <<suspend, sharp>>
       \/ /\ menu_open
          /\ draw' = "top"
          /\ suspend' \in IF focus = "usb" THEN BOOLEAN ELSE {suspend}
          /\ sharp' \in IF focus = "scaler" THEN BOOLEAN ELSE {FALSE}
       \/ menu_open /\ draw' = "exit_pops" /\ UNCHANGED <<suspend, sharp>>
    /\ UNCHANGED <<usb, lock_power, left, focus, adr_id, shell_opens, old_suspend, menu_open, settings_sema,
                   pops, requested, active, scaler, compat, shell, resume>>

DrawStop ==
    /\ draw = "ctrl"
    /\ menu_open
    /\ StopBegins("draw", FALSE)
    /\ UNCHANGED <<load_state, scale, pops>>
    /\ RoundUnchanged

-----------------------------------------------------------------------------

Threads ==
    \/ \E ok \in BOOLEAN : StartLoad(ok)
    \/ \E ok, undone \in BOOLEAN : StartMtp(ok, undone)
    \/ \E ok, undone, restarted \in BOOLEAN : StartVstor(ok, undone, restarted)
    \/ StartLock \/ StartNote
    \/ StopUsb \/ AutoLoad
    \/ \E t \in {"compat", "draw"} :
         \/ \E ok \in BOOLEAN : StopVstor(t, ok) \/ StopMtp(t, ok) \/ StopUnload(t, ok)
         \/ StopUnlock(t)
    \/ PausePops \/ ResumePops \/ ResumeUnpause \/ ResumeScreen
    \/ SuspendResume \/ SuspendResumeUnpause
    \/ EnterLock \/ EnterOpen \/ EnterPops \/ ShellReturns
    \/ ExitPops \/ ExitUnlock \/ ExitClose
    \/ \E native, ok \in BOOLEAN : DrawScaler(native, ok)
    \/ DrawPops \/ DrawUnpause \/ DrawLiveArea \/ DrawShow \/ DrawCtrl \/ DrawStop

Next == Threads \/ GameChanges

Spec == Init /\ [][Next]_vars

\* Bound of the run, not of Spec: with the USB storage a PS1 game is started once, and
\* then the module is loaded once.
Bounded == focus = "usb" => games' = 0 \/ (games' = 1 /\ loads' <= 1)

-----------------------------------------------------------------------------
(* Properties *)

UsbIdle == compat = "wait" /\ draw \notin Stopping

\* When no thread is at work on it, no module is noted and nothing failed to be
\* undone, the memory card is the Vita's again: no module, no storage, MTP runs.
CardReturned ==
    UsbIdle /\ usbdevice_modid = -1 /\ ~leaked => loaded = {} /\ ~vstor /\ mtp

\* Whoever stopped it, and whatever is noted of it then, the card is the computer's as
\* a whole or the Vita's as a whole, unless a stop by the menu had gone on into the
\* next start.
CardWhole ==
    UsbIdle /\ ~leaked /\ ~crossed =>
        IF vstor THEN loaded = {usbdevice_modid} /\ ~mtp ELSE loaded = {} /\ mtp

\* What is noted as started runs, unless a stop that leaves it noted has begun.
NotedRuns ==
    UsbIdle /\ usbdevice_modid # -1 /\ ~given /\ ~leaked
        => vstor /\ loaded = {usbdevice_modid}

\* startUsb and stopUsb, called by two threads without a lock: the module that is
\* noted, the one in the kernel, the storage and the MTP driver agree.
UsbAsNoted == CardReturned /\ CardWhole /\ NotedRuns

\* Once locked for the storage, the power stays locked while it runs, unless the menu
\* was left meanwhile.
PowerHeld == UsbIdle /\ vstor /\ ~left => lock_power

\* It is unlocked when the menu is closed and the storage does not run.
PowerFreed ==
    (UsbIdle /\ ~vstor /\ ~menu_open /\ Opener # "enter_open" /\ ~left /\ ~leaked
        /\ ~crossed)
        => ~lock_power

\* lockPower and unlockPower, one flag for the storage and for the menu.
PowerFollows == PowerHeld /\ PowerFreed

\* A PS1 game over which the menu was opened stays paused until it is left, unless
\* a thread had seen the menu closed and resumes it late.
MenuHoldsGame == held /\ ~late => paused

\* A PS1 game goes on when the menu is closed and the PSP has not paused it.
GameGoesOn ==
    (pops_mode /\ lastPops /\ ~menu_open /\ ~draw_psp_screen_in_pops /\ compat = "wait"
        /\ draw # "pops_unpause" /\ Opener \notin {"enter_open", "enter_pops"} /\ ~kept)
        => ~paused

\* ScePspemuPausePops is called by four threads; together they keep a game paused
\* as long as the menu is over it and no longer.
GameFollowsMenu == MenuHoldsGame /\ GameGoesOn

\* A frame is left to the kernel only when the kernel's scaler took the request;
\* and it scales what was not asked for only when it refused to be switched off.
ScalerFollows ==
    /\ active => scaler /\ requested = 1
    /\ scaler /\ faults = 0 => requested = 1

=============================================================================
