---------------------------- MODULE DevicesProofs ----------------------------
(***************************************************************************)
(* Devices for any number of modules loaded, of calls that fail and of     *)
(* games played: the USB storage and the memory card, the power lock, the  *)
(* PS1 emulator and the scaler.                                            *)
(***************************************************************************)
EXTENDS Devices, TLAPS

USE DevicesAssumption

-----------------------------------------------------------------------------
(* The inductive invariants *)

Starts == {"start_mtp", "start_vstor", "start_lock", "start_note"}
Stops == Stopping
Enters == {"enter_open", "enter_pops"}
Exits == {"exit_pops", "exit_unlock", "exit_close"}

Id == Nat \cup {-1}

Types ==
    /\ usbdevice_modid \in Id
    /\ modid \in [{"compat", "draw"} -> Id]
    /\ loads \in Nat
    /\ faults \in Nat

\* Module ids are given out in order: the one that is started now is new.
Ids ==
    /\ usbdevice_modid <= loads /\ modid["draw"] <= loads
    /\ \A m \in loaded : m \in 1 .. loads
    /\ compat \in Starts =>
           modid["compat"] = loads /\ loads > 0 /\ usbdevice_modid = -1 /\ modid["draw"] < loads
    /\ compat \in Stops => modid["compat"] = usbdevice_modid /\ usbdevice_modid # -1
    /\ draw \in Stops => modid["draw"] # -1

\* AdrenalineDraw stops what was noted, and for good: what it has stopped stays
\* noted, so that nothing is started again.
DrawStops ==
    /\ draw \in Stops /\ modid["draw"] \in loaded => usbdevice_modid = modid["draw"]
    /\ draw \in Stops \ {"stop_vstor"} /\ usbdevice_modid = modid["draw"] => ~vstor
    /\ draw = "stop_unlock" =>
           /\ usbdevice_modid = modid["draw"] /\ modid["draw"] \notin loaded /\ ~vstor
           /\ compat # "stop_unlock"

\* What AdrenalineCompat has done of a start or a stop.
CompatDone ==
    /\ compat \in {"start_mtp", "start_vstor"} => ~vstor
    /\ ~leaked /\ compat = "start_mtp" => mtp
    /\ compat \in {"stop_mtp", "stop_unload", "stop_unlock"} => ~vstor
    /\ compat \in {"stop_unload", "stop_unlock"} => mtp
    /\ compat = "stop_unlock" => usbdevice_modid \notin loaded

\* No module is loaded but the one that is noted or being started.
LoadedKnown ==
    ~leaked => loaded \subseteq {IF compat \in Starts THEN modid["compat"] ELSE usbdevice_modid}

\* Unless a stop that leaves it noted has begun, that one is loaded until it is unloaded, and the
\* storage runs until it is stopped.
Running ==
    ~given =>
        /\ draw \notin Stops
        /\ compat \in Stops => forgets
        /\ ~leaked =>
               /\ compat \in Starts => modid["compat"] \in loaded
               /\ usbdevice_modid # -1 /\ compat # "stop_unlock" => usbdevice_modid \in loaded
               /\ usbdevice_modid # -1 /\ compat \in {"wait", "unpause", "screen", "stop_vstor"} => vstor
               /\ compat \in {"start_lock", "start_note"} => vstor

Card ==
    compat \notin Starts /\ usbdevice_modid = -1 => ~vstor /\ (leaked \/ mtp)

\* Of the storage, the module and the MTP driver, what does not agree with the others
\* is what a thread that has begun a start or a stop has not come to yet.
Works(t) == At(t) \in {"stop_mtp", "stop_unload"} /\ modid[t] \in loaded

Whole ==
    ~leaked /\ ~crossed =>
        /\ draw \in Stops =>
               compat \notin Starts /\ usbdevice_modid \in {modid["draw"], -1}
        /\ vstor \/ compat \in Starts =>
               (IF compat \in Starts THEN modid["compat"] ELSE usbdevice_modid) \in loaded
        /\ vstor \/ compat = "start_vstor" => ~mtp
        /\ ~vstor /\ loaded # {} =>
               compat \in {"start_mtp", "start_vstor"} \/ Works("compat") \/ Works("draw")
        /\ ~vstor /\ ~mtp =>
               compat \in {"start_vstor", "stop_mtp"} \/ draw = "stop_mtp"

UsbInv == Ids /\ DrawStops /\ CompatDone /\ LoadedKnown /\ Running /\ Card /\ Whole

\* The menu is open while AdrenalineDraw leaves it, and closed until its opener has
\* opened it; the settings handler is idle only once the menu has been left.
MenuInv ==
    /\ draw \in Exits => menu_open
    /\ Opener = "enter_open" => ~menu_open
    /\ shell_opens => draw \notin Enters
    /\ IF shell_opens THEN shell \in {"idle", "sema"} \cup Enters ELSE shell = "idle"
    /\ shell_opens /\ shell = "idle" => ~menu_open
    /\ shell_opens /\ settings_sema # 0 => ~menu_open /\ shell \in {"enter_pops", "sema"}

\* The lock is the storage's.
UsbLocks ==
    \/ vstor
    \/ loaded # {} /\ compat \notin {"start_mtp", "start_vstor"}
    \/ compat = "stop_unlock" \/ draw = "stop_unlock"

\* The lock is not the menu's: it is closed and not being opened, or the host
\* opened it without locking, or it has been unlocked.
MenuFree ==
    \/ ~menu_open /\ Opener # "enter_open"
    \/ adr_id /\ ~old_suspend
    \/ draw = "exit_close"

PowerInv ==
    /\ vstor /\ ~left /\ compat # "start_lock" => lock_power
    /\ lock_power /\ ~left /\ ~leaked /\ ~crossed /\ MenuFree => UsbLocks

\* The menu holds the game from EnterPops to ExitPops; while it does nobody else
\* unpauses it, unless late.
HeldInv ==
    /\ held => menu_open /\ draw \notin {"exit_unlock", "exit_close"}
    /\ held /\ ~late => paused

\* A paused game was paused by the PSP, or by the menu that is still open.
PausedBy ==
    pops_mode /\ lastPops /\ ~kept /\ paused =>
        \/ draw_psp_screen_in_pops /\ compat # "screen"
        \/ menu_open /\ draw \notin {"exit_unlock", "exit_close"}

PopsInv == HeldInv /\ PausedBy

Inv == Types /\ UsbInv /\ MenuInv /\ PowerInv /\ PopsInv /\ ScalerFollows
-----------------------------------------------------------------------------
(* Types are kept *)

LEMMA InitInv == Init => Inv
  <1> SUFFICES ASSUME Init PROVE Inv
    OBVIOUS
  <1>1. Types
    BY DEF Init, Types, Id
  <1>2. UsbInv
    BY DEF Init, UsbInv, Ids, DrawStops, CompatDone, LoadedKnown, Running, Card, Whole, Works, At, Starts, Stops, Stopping
  <1>3. MenuInv /\ PowerInv /\ PopsInv /\ ScalerFollows
    BY DEF Init, MenuInv, PowerInv, UsbLocks, PopsInv, HeldInv, PausedBy, ScalerFollows,
       Opener, Starts, Exits, Enters
  <1>4. QED
    BY <1>1, <1>2, <1>3 DEF Inv

\* What the steps of AdrenalineCompat and AdrenalineDraw on the USB storage leave
\* to be looked at; all others leave the storage alone, but that the scaler's
\* calls may fail, and neither begin nor end a start or a stop.
UsbStep ==
    \/ \E ok \in BOOLEAN : StartLoad(ok)
    \/ \E ok, undone \in BOOLEAN : StartMtp(ok, undone)
    \/ \E ok, undone, restarted \in BOOLEAN : StartVstor(ok, undone, restarted)
    \/ StartLock \/ StartNote
    \/ StopUsb \/ AutoLoad
    \/ \E t \in {"compat", "draw"} :
         \/ \E ok \in BOOLEAN : StopVstor(t, ok) \/ StopMtp(t, ok) \/ StopUnload(t, ok)
         \/ StopUnlock(t)
    \/ DrawLiveArea \/ DrawStop

UsbElsewhere ==
    /\ UNCHANGED <<usbdevice_modid, loaded, loads, vstor, mtp, modid, forgets, load_state, given, leaked, crossed>>
    /\ faults \in Nat => faults' \in Nat
    /\ compat' = compat \/ {compat, compat'} \subseteq {"wait", "unpause", "screen"}
    /\ draw' = draw \/ (draw \notin Stops /\ draw' \notin Stops)

LEMMA NextParts == [Next]_vars => UsbStep \/ UsbElsewhere
  <1> SUFFICES ASSUME [Next]_vars, ~UsbStep PROVE UsbElsewhere
    OBVIOUS
  <1> USE DEF UsbElsewhere, Starts, Stops, Stopping, usb, menu, pops, scale
  <1>1. CASE UNCHANGED vars
    BY <1>1 DEF vars, threads
  <1>2. CASE PausePops \/ ResumePops \/ ResumeUnpause \/ ResumeScreen
    BY <1>2 DEF PausePops, ResumePops, ResumeUnpause, ResumeScreen, Looks, PopsUnchanged
  <1>3. CASE SuspendResume \/ SuspendResumeUnpause \/ GameChanges
    BY <1>3 DEF SuspendResume, SuspendResumeUnpause, GameChanges, Looks, PopsUnchanged
  <1>4. CASE EnterLock \/ EnterOpen \/ EnterPops \/ ShellReturns
    BY <1>4 DEF EnterLock, EnterBegins, EnterOpen, EnterPops, ShellReturns, Opener, OpenerGoes, EnterUnchanged
  <1>5. CASE ExitPops \/ ExitUnlock \/ ExitClose
    BY <1>5 DEF ExitPops, ExitUnlock, ExitClose, ExitUnchanged
  <1>6. CASE \E native, ok \in BOOLEAN : DrawScaler(native, ok)
    BY <1>6 DEF DrawScaler, Result, RoundUnchanged
  <1>7. CASE DrawPops \/ DrawUnpause \/ DrawShow
    BY <1>7 DEF DrawPops, DrawUnpause, DrawShow, RoundUnchanged
  <1>8. CASE DrawCtrl
    BY <1>8 DEF DrawCtrl
  <1>9. QED
    BY <1>1, <1>2, <1>3, <1>4, <1>5, <1>6, <1>7, <1>8 DEF Next, Threads, UsbStep

LEMMA TypesNext == Types /\ [Next]_vars => Types'
  <1> SUFFICES ASSUME Types, [Next]_vars PROVE Types'
    OBVIOUS
  <1> USE DEF Types, Id, usb
  <1>1. CASE UsbElsewhere
    BY <1>1 DEF UsbElsewhere
  <1>2. ASSUME NEW ok \in BOOLEAN, StartLoad(ok) PROVE Types'
    <2>1. CASE ok
      BY <1>2, <2>1 DEF StartLoad, Result
    <2>2. CASE ~ok
      BY <1>2, <2>2 DEF StartLoad, Result
    <2>3. QED
      BY <2>1, <2>2
  <1>3. ASSUME NEW ok \in BOOLEAN, NEW undone \in BOOLEAN, StartMtp(ok, undone) PROVE Types'
    <2>1. CASE ok
      BY <1>3, <2>1 DEF StartMtp, Result
    <2>2. CASE ~ok
      BY <1>3, <2>2 DEF StartMtp, Result, GiveUp
    <2>3. QED
      BY <2>1, <2>2
  <1>4. ASSUME NEW ok \in BOOLEAN, NEW undone \in BOOLEAN, NEW restarted \in BOOLEAN,
         StartVstor(ok, undone, restarted)
  PROVE  Types'
    <2>1. CASE ok
      BY <1>4, <2>1 DEF StartVstor, Result
    <2>2. CASE ~ok
      BY <1>4, <2>2 DEF StartVstor, Result, GiveUp
    <2>3. QED
      BY <2>1, <2>2
  <1>5. CASE StartLock \/ StartNote
    BY <1>5 DEF StartLock, StartNote
  <1>6. CASE StopUsb \/ AutoLoad \/ DrawLiveArea \/ DrawStop
    BY <1>6 DEF StopUsb, AutoLoad, DrawLiveArea, DrawStop, StopBegins, Returns, Goes
  <1>7. ASSUME NEW t \in {"compat", "draw"}, NEW ok \in BOOLEAN, StopVstor(t, ok) PROVE Types'
    BY <1>7 DEF StopVstor, Result, Returns, Continues
  <1>8. ASSUME NEW t \in {"compat", "draw"}, NEW ok \in BOOLEAN, StopMtp(t, ok) PROVE Types'
    BY <1>8 DEF StopMtp, Result, Returns, Continues
  <1>9. ASSUME NEW t \in {"compat", "draw"}, NEW ok \in BOOLEAN, StopUnload(t, ok) PROVE Types'
    <2>1. CASE ok
      BY <1>9, <2>1 DEF StopUnload, Result, Continues
    <2>2. CASE ~ok
      BY <1>9, <2>2 DEF StopUnload, Result, Returns
    <2>3. QED
      BY <2>1, <2>2
  <1>10. ASSUME NEW t \in {"compat", "draw"}, StopUnlock(t) PROVE Types'
    BY <1>10 DEF StopUnlock, Returns
  <1>11. QED
    BY <1>1, <1>2, <1>3, <1>4, <1>5, <1>6, <1>7, <1>8, <1>9, <1>10, NextParts DEF UsbStep

-----------------------------------------------------------------------------
(* The USB storage *)

LEMMA DrawStopBegins ==
    ASSUME Types, StopBegins("draw", FALSE), draw \notin Stops
    PROVE  /\ UNCHANGED <<usbdevice_modid, loaded, vstor, leaked, crossed, forgets, compat>>
           /\ modid'["compat"] = modid["compat"]
           /\ ~given' => ~given /\ draw' \notin Stops
  <1>1. UNCHANGED <<usbdevice_modid, loaded, vstor, leaked, crossed, forgets, compat>>
    BY DEF StopBegins, Returns, Goes
  <1>2. modid'["compat"] = modid["compat"]
    BY DEF StopBegins, Returns, Goes, Types
  <1>3. CASE usbdevice_modid < 0
    <2>1. draw' \notin Stops
      BY <1>3 DEF StopBegins, Returns, Goes, Stops, Stopping
    <2>2. ~given' => ~given
      BY DEF StopBegins
    <2>3. QED
      BY <1>1, <1>2, <2>1, <2>2
  <1>4. CASE ~(usbdevice_modid < 0)
    <2>1. usbdevice_modid >= 0
      BY <1>4 DEF Types, Id
    <2>2. given'
      BY <2>1 DEF StopBegins
    <2>3. QED
      BY <1>1, <1>2, <2>2
  <1>5. QED
    BY <1>3, <1>4

LEMMA UsbNext == Types /\ UsbInv /\ [Next]_vars => UsbInv'
  <1> SUFFICES ASSUME Types, UsbInv, [Next]_vars PROVE UsbInv'
    OBVIOUS
  <1> USE DEF Types, Id, Starts, Stops, Stopping, usb,
             UsbInv, Ids, DrawStops, CompatDone, LoadedKnown, Running, Card, Whole, Works, At
  <1>1. CASE UsbElsewhere
    <2>1. Ids'
      BY <1>1 DEF UsbElsewhere
    <2>2. DrawStops'
      BY <1>1 DEF UsbElsewhere
    <2>3. CompatDone'
      BY <1>1 DEF UsbElsewhere
    <2>4. LoadedKnown'
      BY <1>1 DEF UsbElsewhere
    <2>5. Running'
      BY <1>1 DEF UsbElsewhere
    <2>6. Card'
      BY <1>1 DEF UsbElsewhere
    <2>7. Whole'
      BY <1>1 DEF UsbElsewhere
    <2>8. QED
      BY <2>1, <2>2, <2>3, <2>4, <2>5, <2>6, <2>7
  <1>2. ASSUME NEW ok \in BOOLEAN, StartLoad(ok) PROVE UsbInv'
    <2>1. Ids'
      BY <1>2 DEF StartLoad, Result, StartUnchanged
    <2>2. DrawStops'
      BY <1>2 DEF StartLoad, Result, StartUnchanged
    <2>3. CompatDone'
      BY <1>2 DEF StartLoad, Result, StartUnchanged
    <2>4. LoadedKnown'
      BY <1>2 DEF StartLoad, Result, StartUnchanged
    <2>5. Running'
      BY <1>2 DEF StartLoad, Result, StartUnchanged
    <2>6. Card'
      BY <1>2 DEF StartLoad, Result, StartUnchanged
    <2>7. Whole'
      BY <1>2 DEF StartLoad, Result, StartUnchanged
    <2>8. QED
      BY <2>1, <2>2, <2>3, <2>4, <2>5, <2>6, <2>7
  <1>3. ASSUME NEW ok \in BOOLEAN, NEW undone \in BOOLEAN, StartMtp(ok, undone) PROVE UsbInv'
    <2>1. Ids'
      BY <1>3 DEF StartMtp, Result, GiveUp, StartUnchanged
    <2>2. DrawStops'
      <3>1. CASE ok
        BY <1>3, <3>1 DEF StartMtp, Result, GiveUp, StartUnchanged
      <3>2. CASE ~(ok)
        BY <1>3, <3>2 DEF StartMtp, Result, GiveUp, StartUnchanged
      <3>3. QED
        BY <3>1, <3>2
    <2>3. CompatDone'
      BY <1>3 DEF StartMtp, Result, GiveUp, StartUnchanged
    <2>4. LoadedKnown'
      BY <1>3 DEF StartMtp, Result, GiveUp, StartUnchanged
    <2>5. Running'
      <3>1. CASE ok
        BY <1>3, <3>1 DEF StartMtp, Result, GiveUp, StartUnchanged
      <3>2. CASE ~(ok)
        BY <1>3, <3>2 DEF StartMtp, Result, GiveUp, StartUnchanged
      <3>3. QED
        BY <3>1, <3>2
    <2>6. Card'
      BY <1>3 DEF StartMtp, Result, GiveUp, StartUnchanged
    <2>7. Whole'
      <3>1. CASE ok
        BY <1>3, <3>1 DEF StartMtp, StartUnchanged
      <3>2. CASE ~ok
        BY <1>3, <3>2 DEF StartMtp, GiveUp, StartUnchanged
      <3>3. QED
        BY <3>1, <3>2
    <2>8. QED
      BY <2>1, <2>2, <2>3, <2>4, <2>5, <2>6, <2>7
  <1>4. ASSUME NEW ok \in BOOLEAN, NEW undone \in BOOLEAN, NEW restarted \in BOOLEAN,
         StartVstor(ok, undone, restarted)
  PROVE  UsbInv'
    <2>1. Ids'
      BY <1>4 DEF StartVstor, Result, GiveUp, StartUnchanged
    <2>2. DrawStops'
      BY <1>4 DEF StartVstor, Result, GiveUp, StartUnchanged
    <2>3. CompatDone'
      BY <1>4 DEF StartVstor, Result, GiveUp, StartUnchanged
    <2>4. LoadedKnown'
      BY <1>4 DEF StartVstor, Result, GiveUp, StartUnchanged
    <2>5. Running'
      BY <1>4 DEF StartVstor, Result, GiveUp, StartUnchanged
    <2>6. Card'
      BY <1>4 DEF StartVstor, Result, GiveUp, StartUnchanged
    <2>7. Whole'
      <3>1. CASE ok
        BY <1>4, <3>1 DEF StartVstor, StartUnchanged
      <3>2. CASE ~ok
        BY <1>4, <3>2 DEF StartVstor, GiveUp, StartUnchanged
      <3>3. QED
        BY <3>1, <3>2
    <2>8. QED
      BY <2>1, <2>2, <2>3, <2>4, <2>5, <2>6, <2>7
  <1>5. CASE StartLock
    <2>1. Ids'
      BY <1>5 DEF StartLock, StartUnchanged
    <2>2. DrawStops'
      BY <1>5 DEF StartLock, StartUnchanged
    <2>3. CompatDone'
      BY <1>5 DEF StartLock, StartUnchanged
    <2>4. LoadedKnown'
      BY <1>5 DEF StartLock, StartUnchanged
    <2>5. Running'
      BY <1>5 DEF StartLock, StartUnchanged
    <2>6. Card'
      BY <1>5 DEF StartLock, StartUnchanged
    <2>7. Whole'
      BY <1>5 DEF StartLock, StartUnchanged
    <2>8. QED
      BY <2>1, <2>2, <2>3, <2>4, <2>5, <2>6, <2>7
  <1>6. CASE StartNote
    <2>1. Ids'
      BY <1>6 DEF StartNote, StartUnchanged
    <2>2. DrawStops'
      BY <1>6 DEF StartNote, StartUnchanged
    <2>3. CompatDone'
      BY <1>6 DEF StartNote, StartUnchanged
    <2>4. LoadedKnown'
      BY <1>6 DEF StartNote, StartUnchanged
    <2>5. Running'
      BY <1>6 DEF StartNote, StartUnchanged
    <2>6. Card'
      BY <1>6 DEF StartNote, StartUnchanged
    <2>7. Whole'
      BY <1>6 DEF StartNote, StartUnchanged
    <2>8. QED
      BY <2>1, <2>2, <2>3, <2>4, <2>5, <2>6, <2>7
  <1>7. ASSUME NEW forget \in BOOLEAN, compat = "wait", StopBegins("compat", forget) PROVE UsbInv'
    <2>1. Ids'
      BY <1>7 DEF StopBegins, Returns, Goes
    <2>2. DrawStops'
      BY <1>7 DEF StopBegins, Returns, Goes
    <2>3. CompatDone'
      BY <1>7 DEF StopBegins, Returns, Goes
    <2>4. LoadedKnown'
      BY <1>7 DEF StopBegins, Returns, Goes
    <2>5. Running'
      <3>1. CASE forget
        BY <1>7, <3>1 DEF StopBegins, Returns, Goes
      <3>2. CASE ~forget /\ usbdevice_modid < 0
        BY <1>7, <3>2 DEF StopBegins, Returns, Goes
      <3>3. CASE ~forget /\ usbdevice_modid >= 0
        BY <1>7, <3>3 DEF StopBegins
      <3>4. QED
        BY <3>1, <3>2, <3>3
    <2>6. Card'
      BY <1>7 DEF StopBegins, Returns, Goes
    <2>7. Whole'
      BY <1>7 DEF StopBegins, Returns, Goes
    <2>8. QED
      BY <2>1, <2>2, <2>3, <2>4, <2>5, <2>6, <2>7
  <1>8. CASE StopBegins("draw", FALSE) /\ draw \notin Stops
    <2>1. Ids'
      BY <1>8 DEF StopBegins, Returns, Goes
    <2>2. DrawStops'
      BY <1>8 DEF StopBegins, Returns, Goes
    <2>3. CompatDone'
      BY <1>8 DEF StopBegins, Returns, Goes
    <2>4. LoadedKnown'
      BY <1>8 DEF StopBegins, Returns, Goes
    <2>5. Running'
      BY <1>8, DrawStopBegins
    <2>6. Card'
      BY <1>8 DEF StopBegins, Returns, Goes
    <2>7. Whole'
      BY <1>8 DEF StopBegins, Returns, Goes
    <2>8. QED
      BY <2>1, <2>2, <2>3, <2>4, <2>5, <2>6, <2>7
  <1>9. ASSUME NEW ok \in BOOLEAN, StopVstor("compat", ok) PROVE UsbInv'
    <2>1. Ids'
      BY <1>9 DEF StopVstor, Result, Returns, Continues, Goes, At, StopUnchanged
    <2>2. DrawStops'
      BY <1>9 DEF StopVstor, Result, Returns, Continues, Goes, At, StopUnchanged
    <2>3. CompatDone'
      BY <1>9 DEF StopVstor, Result, Returns, Continues, Goes, At, StopUnchanged
    <2>4. LoadedKnown'
      BY <1>9 DEF StopVstor, Result, Returns, Continues, Goes, At, StopUnchanged
    <2>5. Running'
      BY <1>9 DEF StopVstor, Result, Returns, Continues, Goes, At, StopUnchanged
    <2>6. Card'
      BY <1>9 DEF StopVstor, Result, Returns, Continues, Goes, At, StopUnchanged
    <2>7. Whole'
      BY <1>9 DEF StopVstor, Result, Returns, Continues, Goes, At, StopUnchanged
    <2>8. QED
      BY <2>1, <2>2, <2>3, <2>4, <2>5, <2>6, <2>7
  <1>10. ASSUME NEW ok \in BOOLEAN, StopVstor("draw", ok) PROVE UsbInv'
    <2>1. Ids'
      BY <1>10 DEF StopVstor, Result, Returns, Continues, Goes, At, StopUnchanged
    <2>2. DrawStops'
      BY <1>10 DEF StopVstor, Result, Returns, Continues, Goes, At, StopUnchanged
    <2>3. CompatDone'
      BY <1>10 DEF StopVstor, Result, Returns, Continues, Goes, At, StopUnchanged
    <2>4. LoadedKnown'
      BY <1>10 DEF StopVstor, Result, Returns, Continues, Goes, At, StopUnchanged
    <2>5. Running'
      BY <1>10 DEF StopVstor, Result, Returns, Continues, Goes, At, StopUnchanged
    <2>6. Card'
      BY <1>10 DEF StopVstor, Result, Returns, Continues, Goes, At, StopUnchanged
    <2>7. Whole'
      BY <1>10 DEF StopVstor, Result, Returns, Continues, Goes, At, StopUnchanged
    <2>8. QED
      BY <2>1, <2>2, <2>3, <2>4, <2>5, <2>6, <2>7
  <1>11. ASSUME NEW ok \in BOOLEAN, StopMtp("compat", ok) PROVE UsbInv'
    <2>1. Ids'
      BY <1>11 DEF StopMtp, Result, Returns, Continues, Goes, At, StopUnchanged
    <2>2. DrawStops'
      BY <1>11 DEF StopMtp, Result, Returns, Continues, Goes, At, StopUnchanged
    <2>3. CompatDone'
      BY <1>11 DEF StopMtp, Result, Returns, Continues, Goes, At, StopUnchanged
    <2>4. LoadedKnown'
      BY <1>11 DEF StopMtp, Result, Returns, Continues, Goes, At, StopUnchanged
    <2>5. Running'
      BY <1>11 DEF StopMtp, Result, Returns, Continues, Goes, At, StopUnchanged
    <2>6. Card'
      BY <1>11 DEF StopMtp, Result, Returns, Continues, Goes, At, StopUnchanged
    <2>7. Whole'
      BY <1>11 DEF StopMtp, Result, Returns, Continues, Goes, At, StopUnchanged
    <2>8. QED
      BY <2>1, <2>2, <2>3, <2>4, <2>5, <2>6, <2>7
  <1>12. ASSUME NEW ok \in BOOLEAN, StopMtp("draw", ok) PROVE UsbInv'
    <2>1. Ids'
      BY <1>12 DEF StopMtp, Result, Returns, Continues, Goes, At, StopUnchanged
    <2>2. DrawStops'
      BY <1>12 DEF StopMtp, Result, Returns, Continues, Goes, At, StopUnchanged
    <2>3. CompatDone'
      BY <1>12 DEF StopMtp, Result, Returns, Continues, Goes, At, StopUnchanged
    <2>4. LoadedKnown'
      BY <1>12 DEF StopMtp, Result, Returns, Continues, Goes, At, StopUnchanged
    <2>5. Running'
      BY <1>12 DEF StopMtp, Result, Returns, Continues, Goes, At, StopUnchanged
    <2>6. Card'
      BY <1>12 DEF StopMtp, Result, Returns, Continues, Goes, At, StopUnchanged
    <2>7. Whole'
      BY <1>12 DEF StopMtp, Result, Returns, Continues, Goes, At, StopUnchanged
    <2>8. QED
      BY <2>1, <2>2, <2>3, <2>4, <2>5, <2>6, <2>7
  <1>13. ASSUME NEW ok \in BOOLEAN, StopUnload("compat", ok) PROVE UsbInv'
    <2>1. Ids'
      BY <1>13 DEF StopUnload, Result, Returns, Continues, Goes, At, StopUnchanged
    <2>2. DrawStops'
      BY <1>13 DEF StopUnload, Result, Returns, Continues, Goes, At, StopUnchanged
    <2>3. CompatDone'
      BY <1>13 DEF StopUnload, Result, Returns, Continues, Goes, At, StopUnchanged
    <2>4. LoadedKnown'
      BY <1>13 DEF StopUnload, Result, Returns, Continues, Goes, At, StopUnchanged
    <2>5. Running'
      BY <1>13 DEF StopUnload, Result, Returns, Continues, Goes, At, StopUnchanged
    <2>6. Card'
      BY <1>13 DEF StopUnload, Result, Returns, Continues, Goes, At, StopUnchanged
    <2>7. Whole'
      BY <1>13 DEF StopUnload, Result, Returns, Continues, Goes, At, StopUnchanged
    <2>8. QED
      BY <2>1, <2>2, <2>3, <2>4, <2>5, <2>6, <2>7
  <1>14. ASSUME NEW ok \in BOOLEAN, StopUnload("draw", ok) PROVE UsbInv'
    <2>1. Ids'
      BY <1>14 DEF StopUnload, Result, Returns, Continues, Goes, At, StopUnchanged
    <2>2. DrawStops'
      BY <1>14 DEF StopUnload, Result, Returns, Continues, Goes, At, StopUnchanged
    <2>3. CompatDone'
      BY <1>14 DEF StopUnload, Result, Returns, Continues, Goes, At, StopUnchanged
    <2>4. LoadedKnown'
      BY <1>14 DEF StopUnload, Result, Returns, Continues, Goes, At, StopUnchanged
    <2>5. Running'
      BY <1>14 DEF StopUnload, Result, Returns, Continues, Goes, At, StopUnchanged
    <2>6. Card'
      BY <1>14 DEF StopUnload, Result, Returns, Continues, Goes, At, StopUnchanged
    <2>7. Whole'
      BY <1>14 DEF StopUnload, Result, Returns, Continues, Goes, At, StopUnchanged
    <2>8. QED
      BY <2>1, <2>2, <2>3, <2>4, <2>5, <2>6, <2>7
  <1>15. CASE StopUnlock("compat")
    <2>1. Ids'
      BY <1>15 DEF StopUnlock, Returns, Goes, At, StopUnchanged
    <2>2. DrawStops'
      BY <1>15 DEF StopUnlock, Returns, Goes, At, StopUnchanged
    <2>3. CompatDone'
      BY <1>15 DEF StopUnlock, Returns, Goes, At, StopUnchanged
    <2>4. LoadedKnown'
      BY <1>15 DEF StopUnlock, Returns, Goes, At, StopUnchanged
    <2>5. Running'
      BY <1>15 DEF StopUnlock, Returns, Goes, At, StopUnchanged
    <2>6. Card'
      BY <1>15 DEF StopUnlock, Returns, Goes, At, StopUnchanged
    <2>7. Whole'
      BY <1>15 DEF StopUnlock, Returns, Goes, At, StopUnchanged
    <2>8. QED
      BY <2>1, <2>2, <2>3, <2>4, <2>5, <2>6, <2>7
  <1>16. CASE StopUnlock("draw")
    <2>1. Ids'
      BY <1>16 DEF StopUnlock, Returns, Goes, At, StopUnchanged
    <2>2. DrawStops'
      BY <1>16 DEF StopUnlock, Returns, Goes, At, StopUnchanged
    <2>3. CompatDone'
      BY <1>16 DEF StopUnlock, Returns, Goes, At, StopUnchanged
    <2>4. LoadedKnown'
      BY <1>16 DEF StopUnlock, Returns, Goes, At, StopUnchanged
    <2>5. Running'
      BY <1>16 DEF StopUnlock, Returns, Goes, At, StopUnchanged
    <2>6. Card'
      BY <1>16 DEF StopUnlock, Returns, Goes, At, StopUnchanged
    <2>7. Whole'
      BY <1>16 DEF StopUnlock, Returns, Goes, At, StopUnchanged
    <2>8. QED
      BY <2>1, <2>2, <2>3, <2>4, <2>5, <2>6, <2>7
  <1>17. QED
    BY <1>1, <1>2, <1>3, <1>4, <1>5, <1>6, <1>7, <1>8, <1>9, <1>10, <1>11, <1>12, <1>13, <1>14, <1>15, <1>16, NextParts DEF UsbStep, StopUsb, AutoLoad, DrawLiveArea, DrawStop

-----------------------------------------------------------------------------
(* The menu *)

LEMMA MenuNext == MenuInv /\ [Next]_vars => MenuInv'
  <1> SUFFICES ASSUME MenuInv, [Next]_vars PROVE MenuInv'
    OBVIOUS
  <1> USE DEF MenuInv, Opener, Exits, Enters, usb, menu, pops, scale
  <1>1. CASE UNCHANGED vars
    BY <1>1 DEF vars, threads
  <1>2. CASE \E ok \in BOOLEAN : StartLoad(ok)
    BY <1>2 DEF StartLoad, StartUnchanged
  <1>3. CASE \E ok, undone \in BOOLEAN : StartMtp(ok, undone)
    BY <1>3 DEF StartMtp, GiveUp, StartUnchanged
  <1>4. CASE \E ok, undone, restarted \in BOOLEAN : StartVstor(ok, undone, restarted)
    BY <1>4 DEF StartVstor, GiveUp, StartUnchanged
  <1>5. CASE StartLock \/ StartNote
    BY <1>5 DEF StartLock, StartNote, StartUnchanged
  <1>6. CASE StopUsb \/ AutoLoad
    <2>1. CASE StopUsb
      BY <2>1 DEF StopUsb, StopBegins, Returns, Goes, StopUnchanged
    <2>2. CASE AutoLoad
      BY <2>2 DEF AutoLoad, StopBegins, Returns, Goes
    <2>3. QED
      BY <1>6, <2>1, <2>2
  <1>7. ASSUME NEW t \in {"compat", "draw"}, NEW ok \in BOOLEAN, StopVstor(t, ok) PROVE MenuInv'
    BY <1>7 DEF StopVstor, Returns, Continues, Goes, At, StopUnchanged
  <1>8. ASSUME NEW t \in {"compat", "draw"}, NEW ok \in BOOLEAN, StopMtp(t, ok) PROVE MenuInv'
    BY <1>8 DEF StopMtp, Returns, Continues, Goes, At, StopUnchanged
  <1>9. ASSUME NEW t \in {"compat", "draw"}, NEW ok \in BOOLEAN, StopUnload(t, ok) PROVE MenuInv'
    BY <1>9 DEF StopUnload, Returns, Continues, Goes, At, StopUnchanged
  <1>10. ASSUME NEW t \in {"compat", "draw"}, StopUnlock(t) PROVE MenuInv'
    BY <1>10 DEF StopUnlock, Returns, Goes, At, StopUnchanged
  <1>11. CASE PausePops \/ ResumePops
    BY <1>11 DEF PausePops, ResumePops, Looks, MenuLeaves, PopsUnchanged
  <1>12. CASE ResumeUnpause \/ ResumeScreen
    BY <1>12 DEF ResumeUnpause, ResumeScreen, PopsUnchanged
  <1>13. CASE SuspendResume \/ SuspendResumeUnpause
    BY <1>13 DEF SuspendResume, SuspendResumeUnpause, Looks, MenuLeaves, PopsUnchanged
  <1>14. CASE GameChanges
    BY <1>14 DEF GameChanges, PopsUnchanged
  <1>15. CASE EnterLock
    BY <1>15 DEF EnterLock, EnterBegins, OpenerGoes, EnterUnchanged
  <1>16. CASE EnterOpen
    BY <1>16 DEF EnterOpen, OpenerGoes, EnterUnchanged
  <1>17. CASE EnterPops
    BY <1>17 DEF EnterPops, OpenerGoes, MenuLeaves, EnterUnchanged
  <1>18. CASE ShellReturns
    BY <1>18 DEF ShellReturns, EnterUnchanged
  <1>19. CASE ExitPops
    BY <1>19 DEF ExitPops, ExitUnchanged
  <1>20. CASE ExitUnlock
    BY <1>20 DEF ExitUnlock, Unlocks, LeavesLock, ExitUnchanged
  <1>21. CASE ExitClose
    BY <1>21 DEF ExitClose, ExitUnchanged
  <1>22. CASE \E native, ok \in BOOLEAN : DrawScaler(native, ok)
    BY <1>22 DEF DrawScaler, RoundUnchanged
  <1>23. CASE DrawPops
    BY <1>23 DEF DrawPops, RoundUnchanged
  <1>24. CASE DrawUnpause
    BY <1>24 DEF DrawUnpause, RoundUnchanged
  <1>25. CASE DrawLiveArea \/ DrawStop
    BY <1>25 DEF DrawLiveArea, DrawStop, StopBegins, Returns, Goes, RoundUnchanged
  <1>26. CASE DrawShow
    BY <1>26 DEF DrawShow, RoundUnchanged
  <1>27. CASE DrawCtrl
    BY <1>27 DEF DrawCtrl
  <1>28. QED
    BY <1>1, <1>2, <1>3, <1>4, <1>5, <1>6, <1>7, <1>8, <1>9, <1>10, <1>11, <1>12, <1>13, <1>14,
       <1>15, <1>16, <1>17, <1>18, <1>19, <1>20, <1>21, <1>22, <1>23, <1>24, <1>25, <1>26, <1>27
    DEF Next, Threads

-----------------------------------------------------------------------------
(* The power lock *)

LEMMA PowerNext == Types /\ UsbInv /\ MenuInv /\ PowerInv /\ [Next]_vars => PowerInv'
  <1> SUFFICES ASSUME Types, UsbInv, MenuInv, PowerInv, [Next]_vars PROVE PowerInv'
    OBVIOUS
  <1> USE DEF PowerInv, UsbLocks, MenuFree, Opener, Exits, Enters, Starts, Stops, Stopping, MenuInv, UsbInv, CompatDone, Running, Card, DrawStops, Types, Id, usb, menu, pops, scale
  <1>1. CASE UNCHANGED vars
    BY <1>1 DEF vars, threads
  <1>2. CASE \E ok \in BOOLEAN : StartLoad(ok)
    <2> SUFFICES ASSUME NEW ok \in BOOLEAN, StartLoad(ok) PROVE PowerInv'
      BY <1>2
    <2>1. CASE ok
      <3>1. loaded = {} \/ leaked
        BY DEF StartLoad, LoadedKnown, Ids
      <3>2. QED
        BY <2>1, <3>1 DEF StartLoad, StartUnchanged
    <2>2. CASE ~ok
      BY <2>2 DEF StartLoad, StartUnchanged
    <2>3. QED
      BY <2>1, <2>2
  <1>3. CASE \E ok, undone \in BOOLEAN : StartMtp(ok, undone)
    <2> SUFFICES ASSUME NEW ok \in BOOLEAN, NEW undone \in BOOLEAN, StartMtp(ok, undone) PROVE PowerInv'
      BY <1>3
    <2>1. CASE ok
      BY <2>1 DEF StartMtp, StartUnchanged
    <2>2. CASE ~ok
      BY <2>2 DEF StartMtp, GiveUp, StartUnchanged
    <2>3. QED
      BY <2>1, <2>2
  <1>4. CASE \E ok, undone, restarted \in BOOLEAN : StartVstor(ok, undone, restarted)
    <2> SUFFICES ASSUME NEW ok \in BOOLEAN, NEW undone \in BOOLEAN, NEW restarted \in BOOLEAN,
         StartVstor(ok, undone, restarted)
  PROVE  PowerInv'
      BY <1>4
    <2>1. CASE ok
      BY <2>1 DEF StartVstor, StartUnchanged
    <2>2. CASE ~ok
      BY <2>2 DEF StartVstor, GiveUp, StartUnchanged
    <2>3. QED
      BY <2>1, <2>2
  <1>5. CASE StartLock \/ StartNote
    <2>1. CASE StartLock
      <3>1. loaded # {} \/ leaked \/ crossed
        BY <2>1 DEF StartLock, Whole
      <3>2. QED
        BY <2>1, <3>1 DEF StartLock, StartUnchanged
    <2>2. CASE StartNote
      BY <2>2 DEF StartNote, StartUnchanged
    <2>3. QED
      BY <1>5, <2>1, <2>2
  <1>6. CASE StopUsb \/ AutoLoad
    <2>1. CASE StopUsb
      BY <2>1 DEF StopUsb, StopBegins, Returns, Goes, StopUnchanged
    <2>2. CASE AutoLoad
      BY <2>2 DEF AutoLoad, StopBegins, Returns, Goes
    <2>3. QED
      BY <1>6, <2>1, <2>2
  <1>7. ASSUME NEW t \in {"compat", "draw"}, NEW ok \in BOOLEAN, StopVstor(t, ok) PROVE PowerInv'
    <2>1. (loaded # {} /\ compat \notin Starts) \/ ~vstor \/ leaked \/ crossed
      BY <1>7 DEF StopVstor, At, Whole
    <2>2. CASE ok
      BY <1>7, <2>1, <2>2 DEF StopVstor, Continues, Goes, At, StopUnchanged
    <2>3. CASE ~ok
      BY <1>7, <2>3 DEF StopVstor, Returns, Goes, At, StopUnchanged
    <2>4. QED
      BY <2>2, <2>3
  <1>8. ASSUME NEW t \in {"compat", "draw"}, NEW ok \in BOOLEAN, StopMtp(t, ok) PROVE PowerInv'
    BY <1>8 DEF StopMtp, Returns, Continues, Goes, At, StopUnchanged
  <1>9. ASSUME NEW t \in {"compat", "draw"}, NEW ok \in BOOLEAN, StopUnload(t, ok) PROVE PowerInv'
    <2>1. CASE ok
      BY <1>9, <2>1 DEF StopUnload, Continues, Goes, At, StopUnchanged
    <2>2. CASE ~ok /\ t = "compat"
      BY <1>9, <2>2 DEF StopUnload, Ids, Returns, Goes, At, StopUnchanged
    <2>3. CASE ~ok /\ t = "draw"
      BY <1>9, <2>3 DEF StopUnload, Returns, Goes, At, StopUnchanged
    <2>4. QED
      BY <1>9, <2>1, <2>2, <2>3
  <1>10. ASSUME NEW t \in {"compat", "draw"}, StopUnlock(t) PROVE PowerInv'
    BY <1>10 DEF StopUnlock, Returns, Goes, At, StopUnchanged
  <1>11. CASE PausePops \/ ResumePops
    BY <1>11 DEF PausePops, ResumePops, Looks, MenuLeaves, PopsUnchanged
  <1>12. CASE ResumeUnpause \/ ResumeScreen
    BY <1>12 DEF ResumeUnpause, ResumeScreen, PopsUnchanged
  <1>13. CASE SuspendResume \/ SuspendResumeUnpause
    BY <1>13 DEF SuspendResume, SuspendResumeUnpause, Looks, MenuLeaves, PopsUnchanged
  <1>14. CASE GameChanges
    BY <1>14 DEF GameChanges, PopsUnchanged
  <1>15. CASE EnterLock
    BY <1>15 DEF EnterLock, EnterBegins, OpenerGoes, EnterUnchanged
  <1>16. CASE EnterOpen
    BY <1>16 DEF EnterOpen, OpenerGoes, EnterUnchanged
  <1>17. CASE EnterPops
    BY <1>17 DEF EnterPops, OpenerGoes, MenuLeaves, EnterUnchanged
  <1>18. CASE ShellReturns
    BY <1>18 DEF ShellReturns, EnterUnchanged
  <1>19. CASE ExitPops
    BY <1>19 DEF ExitPops, ExitUnchanged
  <1>20. CASE ExitUnlock
    BY <1>20 DEF ExitUnlock, Unlocks, LeavesLock, ExitUnchanged
  <1>21. CASE ExitClose
    BY <1>21 DEF ExitClose, ExitUnchanged
  <1>22. CASE \E native, ok \in BOOLEAN : DrawScaler(native, ok)
    BY <1>22 DEF DrawScaler, RoundUnchanged
  <1>23. CASE DrawPops
    BY <1>23 DEF DrawPops, RoundUnchanged
  <1>24. CASE DrawUnpause
    BY <1>24 DEF DrawUnpause, RoundUnchanged
  <1>25. CASE DrawLiveArea \/ DrawStop
    <2>1. draw \in {"keys", "ctrl"} /\ StopBegins("draw", FALSE) /\ UNCHANGED <<lock_power, left, menu, shell>>
      BY <1>25 DEF DrawLiveArea, DrawStop, RoundUnchanged
    <2>2. draw' \in {"top", "exit_pops", "stop_vstor"}
      BY <2>1 DEF StopBegins, Returns, Goes
    <2>3. UNCHANGED <<vstor, loaded, compat, leaked, crossed>>
      BY <2>1, DrawStopBegins
    <2>4. QED
      BY <2>1, <2>2, <2>3
  <1>26. CASE DrawShow
    BY <1>26 DEF DrawShow, RoundUnchanged
  <1>27. CASE DrawCtrl
    BY <1>27 DEF DrawCtrl
  <1>28. QED
    BY <1>1, <1>2, <1>3, <1>4, <1>5, <1>6, <1>7, <1>8, <1>9, <1>10, <1>11, <1>12, <1>13, <1>14,
       <1>15, <1>16, <1>17, <1>18, <1>19, <1>20, <1>21, <1>22, <1>23, <1>24, <1>25, <1>26, <1>27
    DEF Next, Threads

-----------------------------------------------------------------------------
(* The PS1 emulator *)

LEMMA PopsNext == MenuInv /\ PopsInv /\ [Next]_vars => PopsInv'
  <1> SUFFICES ASSUME MenuInv, PopsInv, [Next]_vars PROVE PopsInv'
    OBVIOUS
  <1> USE DEF MenuInv, PopsInv, HeldInv, PausedBy, Opener, Exits, Enters, usb, menu, pops, scale
  <1>1. CASE UNCHANGED vars
    BY <1>1 DEF vars, threads
  <1>2. CASE \E ok \in BOOLEAN : StartLoad(ok)
    BY <1>2 DEF StartLoad, StartUnchanged
  <1>3. CASE \E ok, undone \in BOOLEAN : StartMtp(ok, undone)
    BY <1>3 DEF StartMtp, GiveUp, StartUnchanged
  <1>4. CASE \E ok, undone, restarted \in BOOLEAN : StartVstor(ok, undone, restarted)
    BY <1>4 DEF StartVstor, GiveUp, StartUnchanged
  <1>5. CASE StartLock \/ StartNote
    BY <1>5 DEF StartLock, StartNote, StartUnchanged
  <1>6. CASE StopUsb \/ AutoLoad
    <2>1. CASE StopUsb
      BY <2>1 DEF StopUsb, StopBegins, Returns, Goes, StopUnchanged
    <2>2. CASE AutoLoad
      BY <2>2 DEF AutoLoad, StopBegins, Returns, Goes
    <2>3. QED
      BY <1>6, <2>1, <2>2
  <1>7. ASSUME NEW t \in {"compat", "draw"}, NEW ok \in BOOLEAN, StopVstor(t, ok) PROVE PopsInv'
    BY <1>7 DEF StopVstor, Returns, Continues, Goes, At, StopUnchanged
  <1>8. ASSUME NEW t \in {"compat", "draw"}, NEW ok \in BOOLEAN, StopMtp(t, ok) PROVE PopsInv'
    BY <1>8 DEF StopMtp, Returns, Continues, Goes, At, StopUnchanged
  <1>9. ASSUME NEW t \in {"compat", "draw"}, NEW ok \in BOOLEAN, StopUnload(t, ok) PROVE PopsInv'
    BY <1>9 DEF StopUnload, Returns, Continues, Goes, At, StopUnchanged
  <1>10. ASSUME NEW t \in {"compat", "draw"}, StopUnlock(t) PROVE PopsInv'
    BY <1>10 DEF StopUnlock, Returns, Goes, At, StopUnchanged
  <1>11. CASE PausePops \/ ResumePops
    <2>1. CASE PausePops
      BY <2>1 DEF PausePops, Looks, MenuLeaves, PopsUnchanged
    <2>2. CASE ResumePops
      BY <2>2 DEF ResumePops, Looks, MenuLeaves, PopsUnchanged
    <2>3. QED
      BY <1>11, <2>1, <2>2
  <1>12. CASE ResumeUnpause \/ ResumeScreen
    <2>1. CASE ResumeUnpause
      BY <2>1 DEF ResumeUnpause, PopsUnchanged
    <2>2. CASE ResumeScreen
      BY <2>2 DEF ResumeScreen, PopsUnchanged
    <2>3. QED
      BY <1>12, <2>1, <2>2
  <1>13. CASE SuspendResume \/ SuspendResumeUnpause
    <2>1. CASE SuspendResume
      BY <2>1 DEF SuspendResume, Looks, MenuLeaves, PopsUnchanged
    <2>2. CASE SuspendResumeUnpause
      BY <2>2 DEF SuspendResumeUnpause, Looks, MenuLeaves, PopsUnchanged
    <2>3. QED
      BY <1>13, <2>1, <2>2
  <1>14. CASE GameChanges
    BY <1>14 DEF GameChanges, PopsUnchanged
  <1>15. CASE EnterLock
    BY <1>15 DEF EnterLock, EnterBegins, OpenerGoes, EnterUnchanged
  <1>16. CASE EnterOpen
    BY <1>16 DEF EnterOpen, OpenerGoes, EnterUnchanged
  <1>17. CASE EnterPops
    BY <1>17 DEF EnterPops, OpenerGoes, MenuLeaves, EnterUnchanged
  <1>18. CASE ShellReturns
    BY <1>18 DEF ShellReturns, EnterUnchanged
  <1>19. CASE ExitPops
    BY <1>19 DEF ExitPops, ExitUnchanged
  <1>20. CASE ExitUnlock
    BY <1>20 DEF ExitUnlock, Unlocks, LeavesLock, ExitUnchanged
  <1>21. CASE ExitClose
    BY <1>21 DEF ExitClose, ExitUnchanged
  <1>22. CASE \E native, ok \in BOOLEAN : DrawScaler(native, ok)
    BY <1>22 DEF DrawScaler, RoundUnchanged
  <1>23. CASE DrawPops
    BY <1>23 DEF DrawPops, RoundUnchanged
  <1>24. CASE DrawUnpause
    BY <1>24 DEF DrawUnpause, RoundUnchanged
  <1>25. CASE DrawLiveArea \/ DrawStop
    BY <1>25 DEF DrawLiveArea, DrawStop, StopBegins, Returns, Goes, RoundUnchanged
  <1>26. CASE DrawShow
    BY <1>26 DEF DrawShow, RoundUnchanged
  <1>27. CASE DrawCtrl
    BY <1>27 DEF DrawCtrl
  <1>28. QED
    BY <1>1, <1>2, <1>3, <1>4, <1>5, <1>6, <1>7, <1>8, <1>9, <1>10, <1>11, <1>12, <1>13, <1>14,
       <1>15, <1>16, <1>17, <1>18, <1>19, <1>20, <1>21, <1>22, <1>23, <1>24, <1>25, <1>26, <1>27
    DEF Next, Threads

-----------------------------------------------------------------------------
(* The scaler *)

LEMMA ScalerNext == Types /\ ScalerFollows /\ [Next]_vars => ScalerFollows'
  <1> SUFFICES ASSUME Types, ScalerFollows, [Next]_vars PROVE ScalerFollows'
    OBVIOUS
  <1> USE DEF ScalerFollows, Result, usb, menu, pops, scale, Types
  <1>1. CASE UNCHANGED vars
    BY <1>1 DEF vars, threads
  <1>2. CASE \E ok \in BOOLEAN : StartLoad(ok)
    BY <1>2 DEF StartLoad, StartUnchanged
  <1>3. CASE \E ok, undone \in BOOLEAN : StartMtp(ok, undone)
    BY <1>3 DEF StartMtp, GiveUp, StartUnchanged
  <1>4. CASE \E ok, undone, restarted \in BOOLEAN : StartVstor(ok, undone, restarted)
    BY <1>4 DEF StartVstor, GiveUp, StartUnchanged
  <1>5. CASE StartLock \/ StartNote
    BY <1>5 DEF StartLock, StartNote, StartUnchanged
  <1>6. CASE StopUsb \/ AutoLoad
    <2>1. CASE StopUsb
      BY <2>1 DEF StopUsb, StopBegins, Returns, Goes, StopUnchanged
    <2>2. CASE AutoLoad
      BY <2>2 DEF AutoLoad, StopBegins, Returns, Goes
    <2>3. QED
      BY <1>6, <2>1, <2>2
  <1>7. ASSUME NEW t \in {"compat", "draw"}, NEW ok \in BOOLEAN, StopVstor(t, ok) PROVE ScalerFollows'
    BY <1>7 DEF StopVstor, Returns, Continues, Goes, At, StopUnchanged
  <1>8. ASSUME NEW t \in {"compat", "draw"}, NEW ok \in BOOLEAN, StopMtp(t, ok) PROVE ScalerFollows'
    BY <1>8 DEF StopMtp, Returns, Continues, Goes, At, StopUnchanged
  <1>9. ASSUME NEW t \in {"compat", "draw"}, NEW ok \in BOOLEAN, StopUnload(t, ok) PROVE ScalerFollows'
    BY <1>9 DEF StopUnload, Returns, Continues, Goes, At, StopUnchanged
  <1>10. ASSUME NEW t \in {"compat", "draw"}, StopUnlock(t) PROVE ScalerFollows'
    BY <1>10 DEF StopUnlock, Returns, Goes, At, StopUnchanged
  <1>11. CASE PausePops \/ ResumePops
    BY <1>11 DEF PausePops, ResumePops, Looks, MenuLeaves, PopsUnchanged
  <1>12. CASE ResumeUnpause \/ ResumeScreen
    BY <1>12 DEF ResumeUnpause, ResumeScreen, PopsUnchanged
  <1>13. CASE SuspendResume \/ SuspendResumeUnpause
    BY <1>13 DEF SuspendResume, SuspendResumeUnpause, Looks, MenuLeaves, PopsUnchanged
  <1>14. CASE GameChanges
    BY <1>14 DEF GameChanges, PopsUnchanged
  <1>15. CASE EnterLock
    BY <1>15 DEF EnterLock, EnterBegins, OpenerGoes, EnterUnchanged
  <1>16. CASE EnterOpen
    BY <1>16 DEF EnterOpen, OpenerGoes, EnterUnchanged
  <1>17. CASE EnterPops
    BY <1>17 DEF EnterPops, OpenerGoes, MenuLeaves, EnterUnchanged
  <1>18. CASE ShellReturns
    BY <1>18 DEF ShellReturns, EnterUnchanged
  <1>19. CASE ExitPops
    BY <1>19 DEF ExitPops, ExitUnchanged
  <1>20. CASE ExitUnlock
    BY <1>20 DEF ExitUnlock, Unlocks, LeavesLock, ExitUnchanged
  <1>21. CASE ExitClose
    BY <1>21 DEF ExitClose, ExitUnchanged
  <1>22. CASE \E native, ok \in BOOLEAN : DrawScaler(native, ok)
    <2> SUFFICES ASSUME NEW native \in BOOLEAN, NEW ok \in BOOLEAN, DrawScaler(native, ok)
                 PROVE  ScalerFollows'
      BY <1>22
    <2> DEFINE request == IF sharp /\ ~pops_mode /\ ~native THEN 1 ELSE 0
    <2>1. CASE request = requested
      BY <2>1 DEF DrawScaler
    <2>2. CASE request # requested /\ ok
      BY <2>2 DEF DrawScaler
    <2>3. CASE request # requested /\ ~ok
      BY <2>3 DEF DrawScaler
    <2>4. QED
      BY <2>1, <2>2, <2>3
  <1>23. CASE DrawPops
    BY <1>23 DEF DrawPops, RoundUnchanged
  <1>24. CASE DrawUnpause
    BY <1>24 DEF DrawUnpause, RoundUnchanged
  <1>25. CASE DrawLiveArea \/ DrawStop
    BY <1>25 DEF DrawLiveArea, DrawStop, StopBegins, Returns, Goes, RoundUnchanged
  <1>26. CASE DrawShow
    BY <1>26 DEF DrawShow, RoundUnchanged
  <1>27. CASE DrawCtrl
    BY <1>27 DEF DrawCtrl
  <1>28. QED
    BY <1>1, <1>2, <1>3, <1>4, <1>5, <1>6, <1>7, <1>8, <1>9, <1>10, <1>11, <1>12, <1>13, <1>14,
       <1>15, <1>16, <1>17, <1>18, <1>19, <1>20, <1>21, <1>22, <1>23, <1>24, <1>25, <1>26, <1>27
    DEF Next, Threads

-----------------------------------------------------------------------------
(* The theorems *)

\* The inductive invariant: the flags of the storage, the lock, the PS1 emulator and
\* the scaler agree with what the four threads have done (user/usb.c, user/main.c).
THEOREM Invariant == Spec => []Inv
  <1>1. Inv /\ [Next]_vars => Inv'
    BY TypesNext, UsbNext, MenuNext, PowerNext, PopsNext, ScalerNext DEF Inv
  <1>2. QED
    BY InitInv, <1>1, PTL DEF Spec

\* Between a start and a stop the memory card is the computer's as a whole (module,
\* storage, no MTP driver) or the Vita's as a whole, whichever thread stopped it and
\* whether or not it forgot the module, unless a call that undoes something failed or
\* a stop by the menu went on into the next start; and what is noted runs unless a stop
\* that leaves it noted has begun (startUsb, stopUsb).
THEOREM CardFollows == Spec => []UsbAsNoted
  <1>1. Inv => CardReturned /\ NotedRuns
    BY DEF Inv, Types, Id, UsbInv, Ids, LoadedKnown, Running, Card, Starts, Stops, Stopping,
       CardReturned, NotedRuns, UsbIdle
  <1>2. Inv => CardWhole
    BY DEF Inv, UsbInv, LoadedKnown, Whole, Works, At, Starts, Stops, Stopping, CardWhole, UsbIdle
  <1>3. QED
    BY Invariant, <1>1, <1>2, PTL DEF UsbAsNoted

\* The one flag for the storage and the menu: unless the menu was left since, the power
\* that startUsb locked stays locked while the storage runs; it is free when neither
\* the storage nor the menu needs it, unless one was left holding it for the other
\* (lockPower, unlockPower).
THEOREM PowerCorrect == Spec => []PowerFollows
  <1>1. Inv => PowerHeld
    BY DEF Inv, PowerInv, PowerHeld, UsbIdle
  <1>2. Inv => PowerFreed
    BY DEF Inv, UsbInv, Whole, Works, At, Starts, Stops, Stopping, PowerInv, UsbLocks, MenuFree,
       PowerFreed, UsbIdle
  <1>3. QED
    BY Invariant, <1>1, <1>2, PTL DEF PowerFollows

\* Four threads together keep a PS1 game paused as long as the menu is over it and
\* no longer (ScePspemuPausePops).
THEOREM GamePausedByMenu == Spec => []GameFollowsMenu
  <1>1. Inv => MenuHoldsGame
    BY DEF Inv, PopsInv, HeldInv, MenuHoldsGame
  <1>2. Inv => GameGoesOn
    BY DEF Inv, PopsInv, PausedBy, GameGoesOn
  <1>3. QED
    BY Invariant, <1>1, <1>2, PTL DEF GameFollowsMenu

\* A frame is left to the kernel only when the kernel took the request
\* (kuSetPspemuDirectSharpScale).
THEOREM ScalerAsRequested == Spec => []ScalerFollows
  <1>1. Inv => ScalerFollows
    BY DEF Inv
  <1>2. QED
    BY Invariant, <1>1, PTL


=============================================================================
