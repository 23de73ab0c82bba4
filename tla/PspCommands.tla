---------------------------- MODULE PspCommands ----------------------------
(***************************************************************************)
(* The commands that the menu gives to the PSP: one word in memory that    *)
(* both sides share (psp_cmd), an interrupt that signals a semaphore of    *)
(* maximum 1, and a PSP thread that waits for it.                          *)
(*                                                                         *)
(* Three Vita threads send: AdrenalineDraw, which runs the menu; the shell *)
(* callback that opens the menu of the host; and AdrenalineCompat, which   *)
(* loads a state by itself.  What a handler still has to do is a sequence  *)
(* of small steps, so that the other threads and the PSP run between any   *)
(* two of them.  The command word is in the memory that a saved state      *)
(* brings back, together with everything else of the PSP.                  *)
(***************************************************************************)
EXTENDS Integers, FiniteSets, Sequences

CONSTANTS
    Thread,         \* PSP threads other than adrenaline_thread
    Self,           \* adrenaline_thread
    NoThread,       \* the -1 that SuspendThreads leaves in its list
    MAX_THREADS,    \* length of that list
    Host,           \* adr_id: the host application, not a bubble
    PsButton,       \* boot_info.psbutton
    NoState,        \* no state has been saved
    Actions,        \* the commands that the user gives from the menu
    Options,        \* the options that the user changes in the menu
    WithStates,     \* does the user save and load states?
    MaxLeaves       \* how often one call of ctrlMenu may leave the menu

\* The word that SuspendThreads reads behind the ids is still in the list.
ASSUME ThreadAssumption ==
    /\ IsFiniteSet(Thread) /\ Self \notin Thread
    /\ NoThread \notin Thread \cup {Self}
    /\ MAX_THREADS \in Nat /\ Cardinality(Thread) + 1 < MAX_THREADS

ASSUME OptionAssumption ==
    /\ Options \subseteq {"suspend_threads", "ms_location"}
    /\ Actions \subseteq {"RESTART_BOOTER", "EXIT_VSH"}
    /\ Host \in BOOLEAN /\ WithStates \in BOOLEAN
    /\ PsButton \in 0..2 /\ MaxLeaves \in Nat

\* The commands that the PSP clears when it takes them, and the others.
Cleared == {"RESTART_BOOTER", "EXIT_VSH", "SUSPEND", "RESUME"}
Command == Cleared \cup {"REINSERT_MS", "SAVESTATE", "LOADSTATE"}

Sender == {"draw", "shell", "compat"}

\* What is left of a handler: a command to store, or another step of it.
Op == Command \cup {"interrupt", "open", "exit", "close", "signal",
                    "check", "loaded", "await"}

VARIABLES
    psp_cmd,         \* the command word
    unread,          \* it holds a command that the PSP has not read
    spoiled,         \* a command was lost, the PSP was replaced under one, or
                     \* the menu was entered before it had been left
    sema,            \* adrenaline_semaid
    ppc,             \* the next step of the PSP
    pcmd,            \* the command that adrenaline_thread carries out
    savestate_mode,
    inited,          \* initAdrenalineInfo has run since the PSP started
    pops_mode,
    live,            \* the threads that exist on the PSP
    status,          \* ready, or suspended by the program or by Adrenaline
    threads,         \* the list of SuspendThreads
    thread_count,
    suspended_count,
    state,           \* the PSP as it was when its state was saved
    todo,            \* todo[s]: the rest of the handler that s runs
    passed,          \* AdrenalineDraw looked at savestate_mode before it changed
    menu_open,
    suspend,         \* the option to suspend threads in the menu
    old_suspend,     \* old_config.suspend_threads
    moved,           \* old_config.ms_location # config.ms_location
    load_state,      \* a state was loaded, or none is to be loaded by itself
    settings         \* settings_semaid

pspMemory == <<pops_mode, inited, live, status, threads, thread_count, suspended_count>>
psp == <<psp_cmd, unread, spoiled, sema, ppc, pcmd, savestate_mode, pspMemory>>
menu == <<passed, menu_open, suspend, old_suspend, moved, load_state, settings>>
vars == <<psp, state, todo, menu>>

Status == {"ready", "program", "adrenaline"}
NoThreads == [i \in 0 .. MAX_THREADS - 1 |-> NoThread]

\* The memory of the PSP in a saved state; spoiled as it was then.
State ==
    [psp_cmd: Command \cup {"NONE"}, sema: {0, 1}, spoiled: BOOLEAN,
     pops_mode: BOOLEAN, inited: BOOLEAN,
     live: SUBSET Thread, status: [Thread -> Status],
     threads: [0 .. MAX_THREADS - 1 -> Thread \cup {NoThread}],
     thread_count: 0 .. MAX_THREADS - 1, suspended_count: 0 .. MAX_THREADS - 1]

ASSUME StateAssumption == NoState \notin State

Init ==
    /\ psp_cmd = "NONE" /\ unread = FALSE /\ spoiled = FALSE /\ sema = 0
    /\ ppc = "wait" /\ pcmd = "NONE" /\ savestate_mode = "NONE"
    /\ inited = TRUE /\ pops_mode \in BOOLEAN
    /\ live \in SUBSET Thread
    /\ status = [t \in Thread |-> "ready"]
    /\ threads = NoThreads /\ thread_count = 0 /\ suspended_count = 0
    /\ state = NoState
    /\ todo = [s \in Sender |-> <<>>]
    /\ passed = FALSE /\ menu_open = FALSE
    /\ suspend \in BOOLEAN /\ old_suspend = FALSE /\ moved = FALSE
    /\ load_state \in {TRUE, ~WithStates}
    /\ settings = 0

-----------------------------------------------------------------------------
(* The handlers of the Vita side *)

\* Mutant: the interrupt is raised before the command is stored.
SendInterruptFirst(cmd) == <<"interrupt", cmd>>

\* SendAdrenalineRequest.
Send(cmd) == <<cmd, "interrupt">>

When(cond, ops) == IF cond THEN ops ELSE <<>>

EnterAdrenalineMenu == When(suspend /\ ~pops_mode, Send("SUSPEND")) \o <<"open">>

\* Mutant: the option in force now decides, not the one at entry.
ResumesCurrentOption == (Host => suspend) /\ ~pops_mode

\* A bubble resumes always, the host when the option was set at entry.
Resumes == (Host => old_suspend) /\ ~pops_mode

\* Mutant: the settings handler is released only if the location changed.
ExitAdrenalineMenuSilent ==
    When(Resumes, Send("RESUME")) \o <<"close">> \o When(moved, <<"signal">>)

ExitAdrenalineMenu ==
    When(Resumes, Send("RESUME")) \o <<"close", "signal">>

DoAction(cmd) == Send(cmd) \o <<"check">>

\* What follows the ways of leaving that ctrlMenu looks at first: nothing, an
\* entry of a tab, or, while the list of states is still there, ctrlStates.
MenuChoice(leaves) ==
    {<<>>} \cup {DoAction(cmd) : cmd \in Actions}
        \cup (IF WithStates THEN {<<"exit">> \o Send("LOADSTATE") \o <<"loaded">>} ELSE {})
        \cup (IF WithStates /\ leaves = 0
              THEN {<<"exit">> \o Send("SAVESTATE"), <<"exit">> \o Send("LOADSTATE")}
              ELSE {})

Leaves(n) == [i \in 1..n |-> "exit"]

\* The handler is opened by the shell, or by the PS button in AdrenalineDraw.
ByShell == Host \/ PsButton # 0

-----------------------------------------------------------------------------
(* The Vita threads *)

\* What one round of the loop of AdrenalineDraw does.  A round begins only
\* when no state is being saved or loaded.
Round(ops) ==
    /\ todo["draw"] = <<>>
    /\ savestate_mode = "NONE" \/ passed
    /\ passed' = FALSE
    /\ todo' = [todo EXCEPT !["draw"] = ops]
    /\ UNCHANGED <<psp, state, menu_open, old_suspend, settings>>

PsButtonMenu ==
    /\ ~menu_open /\ ~ByShell
    /\ Round(EnterAdrenalineMenu)
    /\ UNCHANGED <<suspend, moved, load_state>>

\* ctrlMenu, an option being changed or reset.
MenuOption ==
    /\ menu_open
    /\ Round(<<>>)
    /\ suspend' \in IF "suspend_threads" \in Options THEN BOOLEAN ELSE {suspend}
    /\ moved' \in IF "ms_location" \in Options THEN BOOLEAN ELSE {moved}
    /\ UNCHANGED load_state

\* ctrlMenu, the menu being left and an entry chosen.
CtrlMenu ==
    /\ menu_open
    /\ \E n \in 0..MaxLeaves : \E choice \in MenuChoice(n) :
         /\ n > 0 \/ choice # <<>>
         /\ Round(Leaves(n) \o choice)
         /\ load_state' = (load_state \/ \E i \in DOMAIN choice : choice[i] = "check")
    /\ UNCHANGED <<suspend, moved>>

\* ScePspemuCustomSettingsHandler: opened (3), then waited for (1).
SettingsHandler ==
    /\ ByShell
    /\ todo["shell"] = <<>>
    /\ todo' = [todo EXCEPT !["shell"] = EnterAdrenalineMenu \o <<"await">>]
    /\ spoiled' = (spoiled \/ menu_open \/ todo["draw"] # <<>>)
    /\ UNCHANGED <<psp_cmd, unread, sema, ppc, pcmd, savestate_mode, pspMemory, state, menu>>

\* AdrenalineCompat, after a request of the PSP that is not about a state.
AutoLoadState ==
    /\ todo["compat"] = <<>>
    /\ ppc \notin {"down", "power"}
    /\ state # NoState /\ ~load_state
    /\ load_state' = TRUE
    /\ todo' = [todo EXCEPT !["compat"] = Send("LOADSTATE")]
    /\ UNCHANGED <<psp, state, passed, menu_open, suspend, old_suspend, moved, settings>>

SuspendPending == \E s \in Sender : \E i \in DOMAIN todo[s] : todo[s][i] = "SUSPEND"

\* s takes the step op and goes on with rest in front of its other steps.
Does(s, op, rest) ==
    /\ todo[s] # <<>>
    /\ Head(todo[s]) = op
    /\ todo' = [todo EXCEPT ![s] = rest \o Tail(@)]

StoreCommand(s) ==
    /\ \E cmd \in Command : Does(s, cmd, <<>>) /\ psp_cmd' = cmd
    /\ unread' = TRUE
    /\ spoiled' = (spoiled \/ unread)
    /\ UNCHANGED <<sema, ppc, pcmd, savestate_mode, pspMemory, state, menu>>

\* Mutant: the semaphore has no maximum.
InterruptCounts(s) ==
    /\ Does(s, "interrupt", <<>>)
    /\ sema' = IF ppc = "down" THEN 0 ELSE sema + 1
    /\ UNCHANGED <<psp_cmd, unread, spoiled, ppc, pcmd, savestate_mode, pspMemory, state, menu>>

\* sceCompatInterrupt and adrenaline_interrupt; nobody listens while the PSP
\* restarts.
Interrupt(s) ==
    /\ Does(s, "interrupt", <<>>)
    /\ sema' = IF ppc = "down" THEN 0 ELSE 1
    /\ UNCHANGED <<psp_cmd, unread, spoiled, ppc, pcmd, savestate_mode, pspMemory, state, menu>>

\* The end of EnterAdrenalineMenu: old_config is the current one.
Open(s) ==
    /\ Does(s, "open", <<>>)
    /\ menu_open' = TRUE
    /\ old_suspend' = suspend
    /\ moved' = FALSE
    /\ UNCHANGED <<psp, state, passed, suspend, load_state, settings>>

Exit(s) ==
    /\ Does(s, "exit", ExitAdrenalineMenu)
    /\ UNCHANGED <<psp, state, menu>>

Close(s) ==
    /\ Does(s, "close", When(moved, Send("REINSERT_MS")))
    /\ menu_open' = FALSE
    /\ UNCHANGED <<psp, state, passed, suspend, old_suspend, moved, load_state, settings>>

Signal(s) ==
    /\ Does(s, "signal", <<>>)
    /\ settings' = 1
    /\ UNCHANGED <<psp, state, passed, menu_open, suspend, old_suspend, moved, load_state>>

\* DoAction after its 300 ms.
Check(s) ==
    /\ Does(s, "check", When(psp_cmd = "NONE", <<"exit">>))
    /\ UNCHANGED <<psp, state, menu>>

Loaded(s) ==
    /\ Does(s, "loaded", <<>>)
    /\ load_state' = TRUE
    /\ UNCHANGED <<psp, state, passed, menu_open, suspend, old_suspend, moved, settings>>

Await(s) ==
    /\ settings = 1
    /\ Does(s, "await", <<>>)
    /\ settings' = 0
    /\ UNCHANGED <<psp, state, passed, menu_open, suspend, old_suspend, moved, load_state>>

-----------------------------------------------------------------------------
(* The PSP *)

PspWait ==
    /\ ppc = "wait"
    /\ sema = 1
    /\ sema' = 0
    /\ ppc' = "switch"
    /\ UNCHANGED <<psp_cmd, unread, spoiled, pcmd, savestate_mode, pspMemory, state, todo, menu>>

\* switch (adrenaline->psp_cmd)
PspSwitch ==
    /\ ppc = "switch"
    /\ psp_cmd \notin {"SAVESTATE", "LOADSTATE"}
    /\ IF psp_cmd \in Cleared
       THEN ppc' = "clear" /\ pcmd' = psp_cmd
       ELSE ppc' = "wait" /\ pcmd' = "NONE"
    /\ unread' = FALSE
    /\ spoiled' = (spoiled \/ (unread /\ ~inited))
    /\ UNCHANGED <<psp_cmd, sema, savestate_mode, pspMemory, state, todo, menu>>

\* The same for a command about states; AdrenalineDraw may be in the middle
\* of a round.
PspSuspendOperation ==
    /\ ppc = "switch"
    /\ psp_cmd \in {"SAVESTATE", "LOADSTATE"}
    /\ unread' = FALSE
    /\ spoiled' = (spoiled \/ (unread /\ ~inited))
    /\ savestate_mode' = psp_cmd
    /\ passed' \in BOOLEAN
    /\ ppc' = "power"
    /\ UNCHANGED <<psp_cmd, sema, pcmd, pspMemory, state, todo, menu_open, suspend, old_suspend,
                   moved, load_state, settings>>

PspClear ==
    /\ ppc = "clear"
    /\ psp_cmd' = "NONE"
    /\ ppc' = "run"
    /\ unread' = FALSE
    /\ spoiled' = (spoiled \/ unread)
    /\ UNCHANGED <<sema, pcmd, savestate_mode, pspMemory, state, todo, menu>>

\* The orders in which the kernel may list the threads in S.
Orders(S) ==
    {ids \in [1..Cardinality(S) -> S] : \A t \in S : \E i \in DOMAIN ids : ids[i] = t}

\* The list after the first loop of SuspendThreads, ids being what
\* sceKernelGetThreadmanIdList returned: -1 for the thread that runs, which is
\* adrenaline_thread, and for those that are suspended already.
Listed(ids) ==
    [i \in DOMAIN threads |->
        IF i >= Len(ids) THEN threads[i]
        ELSE IF ids[i + 1] # Self /\ status[ids[i + 1]] = "ready" THEN ids[i + 1]
        ELSE NoThread]

\* Its second loop, from thread_count down to 1.
Suspended(list, n) == {list[i] : i \in 1..n} \ {NoThread}

PspSuspend ==
    /\ ppc = "run" /\ pcmd = "SUSPEND"
    /\ \E ids \in Orders(live \cup {Self}) :
         /\ threads' = Listed(ids)
         /\ thread_count' = Len(ids)
         /\ suspended_count' = Len(ids)
         /\ status' = [t \in Thread |->
                         IF t \in live \cap Suspended(threads', Len(ids)) /\ status[t] = "ready"
                         THEN "adrenaline" ELSE status[t]]
    /\ ppc' = "wait" /\ pcmd' = "NONE"
    /\ UNCHANGED <<psp_cmd, unread, spoiled, sema, savestate_mode, pops_mode, inited,
                   live, state, todo, menu>>

ResumeThreads ==
    /\ status' = [t \in Thread |->
                    IF suspended_count > 0 /\ \E i \in 0 .. thread_count - 1 : threads[i] = t
                    THEN "ready" ELSE status[t]]
    /\ suspended_count' = 0
    /\ UNCHANGED <<threads, thread_count>>

PspResume ==
    /\ ppc = "run" /\ pcmd = "RESUME"
    /\ ResumeThreads
    /\ ppc' = "wait" /\ pcmd' = "NONE"
    /\ UNCHANGED <<psp_cmd, unread, spoiled, sema, savestate_mode, pops_mode, inited,
                   live, state, todo, menu>>

\* RESTART_BOOTER and EXIT_VSH end in a restart of the PSP.
PspAction ==
    /\ ppc = "run" /\ pcmd \in {"RESTART_BOOTER", "EXIT_VSH"}
    /\ ResumeThreads
    /\ ppc' = "down" /\ pcmd' = "NONE"
    /\ UNCHANGED <<psp_cmd, unread, spoiled, sema, savestate_mode, pops_mode, inited,
                   live, state, todo, menu>>

\* A program that runs ends, or starts another one.  Programs start after
\* OnSystemStatusIdle.
PspExit ==
    /\ inited
    /\ ppc \in {"wait", "switch", "clear", "run"}
    /\ \E t \in live : status[t] = "ready"
    /\ ppc' = "down" /\ pcmd' = "NONE"
    /\ UNCHANGED <<psp_cmd, unread, spoiled, sema, savestate_mode, pspMemory, state,
                   todo, menu>>

\* initAdrenaline in a new systemctrl; the command word is as it was.
InitAdrenaline ==
    /\ ppc = "down"
    /\ ppc' = "wait" /\ sema' = 0 /\ inited' = FALSE
    /\ live' \in SUBSET Thread
    /\ status' = [t \in Thread |-> "ready"]
    /\ threads' = NoThreads /\ thread_count' = 0 /\ suspended_count' = 0
    /\ UNCHANGED <<psp_cmd, unread, spoiled, pcmd, savestate_mode, pops_mode, state, todo, menu>>

\* OnSystemStatusIdle, which some other thread of the PSP reaches.
InitAdrenalineInfo ==
    /\ ~inited
    /\ ppc \notin {"down", "power"}
    /\ inited' = TRUE
    /\ psp_cmd' = "NONE" /\ savestate_mode' = "NONE"
    /\ pops_mode' \in BOOLEAN
    /\ unread' = FALSE
    /\ spoiled' = (spoiled \/ unread \/ SuspendPending)
    /\ UNCHANGED <<sema, ppc, pcmd, live, status, threads, thread_count, suspended_count,
                   state, todo, menu>>

\* A running thread creates, deletes, suspends or resumes another one.
PspProgram ==
    /\ inited /\ ppc = "wait" /\ sema = 0
    /\ \E u \in live, t \in Thread :
         /\ status[u] = "ready"
         /\ \/ t \notin live /\ live' = live \cup {t} /\ UNCHANGED status
            \/ t \in live /\ live' = live \ {t} /\ status' = [status EXCEPT ![t] = "ready"]
            \/ /\ t \in live \ {u}
               /\ status' = [status EXCEPT ![t] = IF @ = "ready" THEN "program" ELSE "ready"]
               /\ UNCHANGED live
    /\ UNCHANGED <<psp_cmd, unread, spoiled, sema, ppc, pcmd, savestate_mode, pops_mode, inited,
                   threads, thread_count, suspended_count, state, todo, menu>>

\* VitaSyncPatched asks AdrenalineCompat for the save; the PSP stands still.
SaveState ==
    /\ ppc = "power" /\ savestate_mode = "SAVESTATE"
    /\ todo["compat"] = <<>>
    /\ state' = [psp_cmd |-> psp_cmd, sema |-> sema, spoiled |-> spoiled \/ unread,
                 pops_mode |-> pops_mode, inited |-> inited, live |-> live,
                 status |-> status, threads |-> threads, thread_count |-> thread_count,
                 suspended_count |-> suspended_count]
    /\ ppc' = "resume"
    /\ UNCHANGED <<psp_cmd, unread, spoiled, sema, pcmd, savestate_mode, pspMemory, todo, menu>>

\* The whole memory is replaced, the command word with it; without a state
\* nothing is.
LoadState ==
    /\ ppc = "power" /\ savestate_mode = "LOADSTATE"
    /\ todo["compat"] = <<>>
    /\ IF state = NoState
       THEN UNCHANGED <<psp_cmd, unread, spoiled, sema, pspMemory>>
       ELSE /\ psp_cmd' = state.psp_cmd /\ sema' = state.sema
            /\ pops_mode' = state.pops_mode /\ inited' = state.inited
            /\ live' = state.live /\ status' = state.status
            /\ threads' = state.threads /\ thread_count' = state.thread_count
            /\ suspended_count' = state.suspended_count
            /\ unread' = FALSE
            /\ spoiled' = (spoiled \/ state.spoiled \/ unread \/ SuspendPending)
    /\ ppc' = "resume"
    /\ UNCHANGED <<pcmd, savestate_mode, state, todo, menu>>

\* SysEventHandler: resume completed.
ResumeCompleted ==
    /\ ppc = "resume"
    /\ savestate_mode' = "NONE"
    /\ ppc' = "wait"
    /\ UNCHANGED <<psp_cmd, unread, spoiled, sema, pcmd, pspMemory, state, todo, menu>>

-----------------------------------------------------------------------------
SenderStep(s) ==
    \/ StoreCommand(s) \/ Interrupt(s) \/ Open(s) \/ Exit(s) \/ Close(s)
    \/ Signal(s) \/ Check(s) \/ Loaded(s) \/ Await(s)

PspStep ==
    \/ PspWait \/ PspSwitch \/ PspSuspendOperation \/ PspClear \/ PspSuspend \/ PspResume \/ PspAction
    \/ SaveState \/ LoadState \/ ResumeCompleted

PspStart == InitAdrenaline \/ InitAdrenalineInfo

Next ==
    \/ PsButtonMenu \/ MenuOption \/ CtrlMenu
    \/ SettingsHandler \/ AutoLoadState
    \/ \E s \in Sender : SenderStep(s)
    \/ PspStep \/ PspStart \/ PspExit \/ PspProgram

Spec == Init /\ [][Next]_vars

\* The threads of a live process keep running on both sides, and a PSP that
\* restarts comes up.
FairSpec ==
    /\ Spec
    /\ \A s \in Sender : WF_vars(SenderStep(s))
    /\ WF_vars(PspStep)
    /\ WF_vars(PspStart)

-----------------------------------------------------------------------------
(* Properties *)

\* The word, the semaphores, the thread list and the handlers have the shapes the
\* code gives them; the semaphores never exceed their maximum of 1, and the list
\* of SuspendThreads never outgrows its array.
TypeOK ==
    /\ psp_cmd \in Command \cup {"NONE"} /\ pcmd \in Command \cup {"NONE"}
    /\ unread \in BOOLEAN /\ spoiled \in BOOLEAN /\ inited \in BOOLEAN /\ pops_mode \in BOOLEAN
    /\ sema \in {0, 1} /\ settings \in {0, 1}
    /\ ppc \in {"wait", "switch", "clear", "run", "power", "resume", "down"}
    /\ savestate_mode \in {"NONE", "SAVESTATE", "LOADSTATE"}
    /\ live \subseteq Thread /\ status \in [Thread -> Status]
    /\ threads \in [0 .. MAX_THREADS - 1 -> Thread \cup {NoThread}]
    /\ thread_count \in 0 .. MAX_THREADS - 1 /\ suspended_count \in 0 .. MAX_THREADS - 1
    /\ state \in State \cup {NoState}
    /\ todo \in [Sender -> Seq(Op)]
    /\ passed \in BOOLEAN /\ menu_open \in BOOLEAN /\ load_state \in BOOLEAN
    /\ suspend \in BOOLEAN /\ old_suspend \in BOOLEAN /\ moved \in BOOLEAN

\* Neither side has anything left to do.
Quiet ==
    /\ \A s \in Sender : todo[s] = <<>> \/ Head(todo[s]) = "await"
    /\ ppc = "wait" /\ sema = 0 /\ ~unread

\* When the menu has been left and both sides are quiet no thread of the PSP
\* is suspended by Adrenaline, whatever the options were changed to and
\* whatever threads came and went, unless a command was lost on the way or
\* the menu was entered while it was open (EnterAdrenalineMenu,
\* ExitAdrenalineMenu, SuspendThreads, ResumeThreads).
ThreadsResumed ==
    Quiet /\ ~menu_open /\ ~spoiled => \A t \in live : status[t] # "adrenaline"

\* A command that the PSP clears is never left in the word while the PSP
\* thread sleeps and no signal is on its way: the word is stored before the
\* interrupt is raised (SendAdrenalineRequest, adrenaline_thread).
NoLostWakeup ==
    psp_cmd \in Cleared /\ ppc = "wait" /\ inited =>
        \/ sema = 1
        \/ \E s \in Sender : todo[s] # <<>> /\ Head(todo[s]) = "interrupt"

\* SAVESTATE and LOADSTATE stay in the command word, and come back into it
\* with a loaded state; still the PSP begins to save or to load only for a
\* command that it has not read before, unless one was lost (adrenaline_thread).
StateCommandOnce ==
    [][savestate_mode = "NONE" /\ savestate_mode' # "NONE" => unread \/ spoiled]_vars

\* Commands that the PSP clears do not stay in the word for ever, although
\* one may follow the other (SendAdrenalineRequest, adrenaline_thread).
CommandTaken == psp_cmd \in Cleared ~> psp_cmd \notin Cleared

\* Once the menu is closed the shell's settings handler stops waiting
\* (ScePspemuCustomSettingsHandler, ExitAdrenalineMenu).
SettingsReleased ==
    todo["shell"] = <<"await">> /\ ~menu_open ~> todo["shell"] # <<"await">> \/ menu_open

=============================================================================
