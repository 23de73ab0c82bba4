-------------------------- MODULE PspCommandsProofs --------------------------
(***************************************************************************)
(* PspCommands for any threads, options and actions, with and without      *)
(* saved states: what the command word, the semaphore and the interrupts   *)
(* on their way can be together, so that no wakeup is lost, no command     *)
(* about states is carried out twice and every suspended thread is resumed *)
(* when the menu has been left.                                            *)
(***************************************************************************)
EXTENDS PspCommands, FiniteSetTheorems, SequenceTheorems, TLAPS

USE ThreadAssumption, OptionAssumption DEF Cleared, Command, Sender

-----------------------------------------------------------------------------
(* The inductive invariant *)

StateCommand == {"SAVESTATE", "LOADSTATE"}

\* The steps of the handlers, without those about states if the user has none.
Given == IF WithStates THEN Op ELSE Op \ StateCommand

\* What is left of a handler: every command is followed by its interrupt, and an
\* interrupt follows its command unless that has just been stored.
Paired(q) ==
    \A i \in 1 .. Len(q) :
        /\ q[i] \in Command => i < Len(q) /\ q[i + 1] = "interrupt"
        /\ q[i] = "interrupt" /\ i > 1 => q[i - 1] \in Command

Rest == {q \in Seq(Given) : Paired(q)}
Whole == {q \in Rest : q = <<>> \/ q[1] # "interrupt"}

Handlers == todo \in [Sender -> Rest]

\* s has stored a command and not raised the interrupt.
Raises(s) == todo[s] # <<>> /\ Head(todo[s]) = "interrupt"

\* The PSP is told of a command that it has not read, once: by a thread that still
\* has to raise the interrupt, by the semaphore, or it is about to read.
ToldOnce ==
    \/ spoiled
    \/ /\ \A s \in Sender : Raises(s) =>
            /\ unread /\ sema = 0 /\ ppc # "switch"
            /\ \A r \in Sender : Raises(r) => r = s
       /\ sema = 1 => unread /\ ppc # "switch"
       /\ ppc = "switch" => unread

\* A command that the PSP clears is new while it does something else.
Woken ==
    \/ spoiled /\ state # NoState
    \/ psp_cmd \in Cleared /\ inited /\ ppc \in {"wait", "run", "power", "resume"}
        => sema = 1 \/ \E s \in Sender : Raises(s)

\* What the PSP is told of when its state is saved is lost when that is loaded.
SavedToldOnce ==
    /\ ppc = "power" /\ psp_cmd \in Cleared => unread
    /\ state # NoState /\ (state.psp_cmd \in Cleared \/ state.sema = 1) => state.spoiled

\* Without states the PSP is never asked for one.
NoStates ==
    ~WithStates => /\ state = NoState /\ psp_cmd \notin StateCommand
                   /\ savestate_mode = "NONE"

\* TypeOK without the handlers.
WordTypes ==
    /\ psp_cmd \in Command \cup {"NONE"} /\ pcmd \in Command \cup {"NONE"}
    /\ unread \in BOOLEAN /\ spoiled \in BOOLEAN /\ inited \in BOOLEAN /\ pops_mode \in BOOLEAN
    /\ sema \in {0, 1} /\ settings \in {0, 1}
    /\ ppc \in {"wait", "switch", "clear", "run", "power", "resume", "down"}
    /\ savestate_mode \in {"NONE", "SAVESTATE", "LOADSTATE"}

ListTypes ==
    /\ live \subseteq Thread /\ status \in [Thread -> Status]
    /\ threads \in [0 .. MAX_THREADS - 1 -> Thread \cup {NoThread}]
    /\ thread_count \in 0 .. MAX_THREADS - 1 /\ suspended_count \in 0 .. MAX_THREADS - 1

MenuTypes ==
    /\ passed \in BOOLEAN /\ menu_open \in BOOLEAN /\ load_state \in BOOLEAN
    /\ suspend \in BOOLEAN /\ old_suspend \in BOOLEAN /\ moved \in BOOLEAN

StateType == state \in State \cup {NoState}

Types == WordTypes /\ ListTypes /\ MenuTypes /\ StateType

Inv == Types /\ Handlers /\ ToldOnce /\ Woken /\ SavedToldOnce /\ NoStates

-----------------------------------------------------------------------------
(* The handlers are sequences of commands, interrupts and other steps *)

LEMMA EmptyWhole == <<>> \in Whole
  BY DEF Whole, Rest, Paired

LEMMA StepWhole ==
    ASSUME NEW op \in Op \ (Command \cup {"interrupt"}) PROVE <<op>> \in Whole
  <1>1. op \in Given
    BY DEF Given, StateCommand
  <1>2. <<op>> \in Seq(Given) /\ Len(<<op>>) = 1 /\ <<op>>[1] = op
    BY <1>1
  <1>3. QED
    BY <1>2 DEF Whole, Rest, Paired

LEMMA SendWhole ==
    ASSUME NEW cmd \in Command, WithStates \/ cmd \notin StateCommand
    PROVE  Send(cmd) \in Whole
  <1> DEFINE q == <<cmd, "interrupt">>
  <1>1. cmd \in Given /\ "interrupt" \in Given
    BY DEF Given, StateCommand, Op
  <1>2. q \in Seq(Given) /\ Len(q) = 2 /\ q[1] = cmd /\ q[2] = "interrupt"
    BY <1>1
  <1>3. Paired(q)
    <2> SUFFICES ASSUME NEW i \in 1 .. 2
                 PROVE  /\ q[i] \in Command => i < 2 /\ q[i + 1] = "interrupt"
                        /\ q[i] = "interrupt" /\ i > 1 => q[i - 1] \in Command
      BY <1>2 DEF Paired
    <2>1. CASE i = 1
      BY <1>2, <2>1
    <2>2. CASE i = 2
      BY <1>2, <2>2
    <2>3. QED
      BY <2>1, <2>2
  <1>4. QED
    BY <1>2, <1>3 DEF Whole, Rest, Send

LEMMA WholeThen ==
    ASSUME NEW p \in Whole, NEW q \in Whole PROVE p \o q \in Whole
  <1>1. p \in Seq(Given) /\ q \in Seq(Given) /\ Paired(p) /\ Paired(q)
    BY DEF Whole, Rest
  <1>2. /\ p \o q \in Seq(Given) /\ Len(p \o q) = Len(p) + Len(q)
        /\ \A i \in 1 .. Len(p) + Len(q) :
               (p \o q)[i] = IF i <= Len(p) THEN p[i] ELSE q[i - Len(p)]
    BY <1>1, ConcatProperties
  <1>3. PICK n \in Nat : n = Len(p)
    BY <1>1, LenProperties
  <1>4. PICK m \in Nat : m = Len(q)
    BY <1>1, LenProperties
  <1>5. n > 0 => p[1] # "interrupt"
    BY <1>1, <1>3, EmptySeq DEF Whole
  <1>6. m > 0 => q[1] # "interrupt"
    BY <1>1, <1>4, EmptySeq DEF Whole
  <1> DEFINE r == p \o q
  <1>7. \A i \in 1 .. n : r[i] = p[i]
    BY <1>2, <1>3, <1>4
  <1>8. \A i \in 1 .. m : r[n + i] = q[i]
    <2> SUFFICES ASSUME NEW i \in 1 .. m PROVE r[n + i] = q[i]
      OBVIOUS
    <2>1. n + i \in 1 .. n + m /\ ~(n + i <= n) /\ n + i - n = i
      OBVIOUS
    <2>2. QED
      BY <1>2, <1>3, <1>4, <2>1
  <1>9. Len(r) = n + m
    BY <1>2, <1>3, <1>4
  <1> HIDE DEF r
  <1>10. Paired(r)
    <2> SUFFICES ASSUME NEW i \in 1 .. n + m
                 PROVE  /\ r[i] \in Command => i < n + m /\ r[i + 1] = "interrupt"
                        /\ r[i] = "interrupt" /\ i > 1 => r[i - 1] \in Command
      BY <1>9 DEF Paired
    <2>1. CASE i \in 1 .. n
      <3>1. r[i] = p[i] /\ (i > 1 => r[i - 1] = p[i - 1]) /\ (i < n => r[i + 1] = p[i + 1])
        BY <2>1, <1>7
      <3>2. /\ p[i] \in Command => i < n /\ p[i + 1] = "interrupt"
            /\ p[i] = "interrupt" /\ i > 1 => p[i - 1] \in Command
        BY <2>1, <1>1, <1>3 DEF Paired
      <3>3. QED
        BY <2>1, <3>1, <3>2
    <2>2. CASE i \notin 1 .. n
      <3>1. PICK j \in 1 .. m : i = n + j
        <4>1. i - n \in 1 .. m /\ i = n + (i - n)
          BY <2>2
        <4>2. QED
          BY <4>1
      <3>2. /\ q[j] \in Command => j < m /\ q[j + 1] = "interrupt"
            /\ q[j] = "interrupt" /\ j > 1 => q[j - 1] \in Command
        BY <1>1, <1>4 DEF Paired
      <3>3. r[i] = q[j]
        BY <3>1, <1>8
      <3>4. j < m => r[i + 1] = q[j + 1]
        <4> SUFFICES ASSUME j < m PROVE r[i + 1] = q[j + 1]
          OBVIOUS
        <4>1. j + 1 \in 1 .. m /\ i + 1 = n + (j + 1)
          BY <3>1
        <4>2. QED
          BY <4>1, <1>8
      <3>5. j > 1 => r[i - 1] = q[j - 1]
        <4> SUFFICES ASSUME j > 1 PROVE r[i - 1] = q[j - 1]
          OBVIOUS
        <4>1. j - 1 \in 1 .. m /\ i - 1 = n + (j - 1)
          BY <3>1
        <4>2. QED
          BY <4>1, <1>8
      <3>6. j = 1 => q[j] # "interrupt"
        BY <1>6
      <3>7. QED
        BY <3>1, <3>2, <3>3, <3>4, <3>5, <3>6
    <2>3. QED
      BY <2>1, <2>2
  <1>11. r = <<>> \/ r[1] # "interrupt"
    <2>1. CASE n > 0
      BY <2>1, <1>5, <1>7
    <2>2. CASE n = 0 /\ m > 0
      <3>1. r[n + 1] = q[1]
        BY <2>2, <1>8
      <3>2. QED
        BY <2>2, <3>1, <1>6
    <2>3. CASE n = 0 /\ m = 0
      <3>1. r \in Seq(Given) /\ Len(r) = 0
        BY <2>3, <1>2, <1>9 DEF r
      <3>2. QED
        BY <3>1, EmptySeq
    <2>4. QED
      BY <2>1, <2>2, <2>3
  <1>12. QED
    BY <1>2, <1>10, <1>11 DEF Whole, Rest, r

LEMMA TailRest ==
    ASSUME NEW q \in Rest, q # <<>>
    PROVE  /\ Tail(q) \in Rest
           /\ Head(q) \in Command => Tail(q) # <<>> /\ Head(Tail(q)) = "interrupt"
           /\ Head(q) \notin Command => Tail(q) \in Whole
  <1>1. q \in Seq(Given) /\ Paired(q)
    BY DEF Rest
  <1>2. /\ Tail(q) \in Seq(Given) /\ Head(q) = q[1] /\ Len(q) # 0
        /\ Len(Tail(q)) = Len(q) - 1
        /\ \A i \in 1 .. Len(q) - 1 : Tail(q)[i] = q[i + 1]
    BY <1>1, EmptySeq, HeadTailProperties
  <1>3. PICK n \in Nat : n + 1 = Len(q)
    <2>1. Len(q) \in Nat
      BY <1>1, LenProperties
    <2>2. Len(q) - 1 \in Nat /\ Len(q) - 1 + 1 = Len(q)
      BY <2>1, <1>2
    <2>3. QED
      BY <2>2
  <1> DEFINE t == Tail(q)
  <1>4. t \in Seq(Given) /\ Len(t) = n /\ \A i \in 1 .. n : t[i] = q[i + 1]
    <2>1. Len(q) - 1 = n
      BY <1>3
    <2>2. QED
      BY <1>2, <2>1
  <1> HIDE DEF t
  <1>5. \A i \in 1 .. n + 1 :
          /\ q[i] \in Command => i < n + 1 /\ q[i + 1] = "interrupt"
          /\ q[i] = "interrupt" /\ i > 1 => q[i - 1] \in Command
    BY <1>1, <1>3 DEF Paired
  <1>6. Paired(t)
    <2> SUFFICES ASSUME NEW i \in 1 .. n
                 PROVE  /\ t[i] \in Command => i < n /\ t[i + 1] = "interrupt"
                        /\ t[i] = "interrupt" /\ i > 1 => t[i - 1] \in Command
      BY <1>4 DEF Paired
    <2>1. t[i] = q[i + 1] /\ (i < n => t[i + 1] = q[i + 1 + 1]) /\ (i > 1 => t[i - 1] = q[i])
      BY <1>4
    <2>2. i + 1 \in 1 .. n + 1 /\ i + 1 - 1 = i /\ (i + 1 < n + 1 <=> i < n) /\ i + 1 > 1
      OBVIOUS
    <2>3. /\ q[i + 1] \in Command => i + 1 < n + 1 /\ q[i + 1 + 1] = "interrupt"
          /\ q[i + 1] = "interrupt" => q[i] \in Command
      BY <1>5, <2>2
    <2>4. QED
      BY <2>1, <2>2, <2>3
  <1>7. t \in Rest
    BY <1>4, <1>6 DEF Rest
  <1>8. n = 0 => t = <<>>
    BY <1>4, EmptySeq
  <1>9. n > 0 => t # <<>> /\ Head(t) = t[1] /\ t[1] = q[2] /\ 1 \in 1 .. n + 1 /\ 2 \in 1 .. n + 1
    BY <1>4
  <1>10. Head(q) \in Command => t # <<>> /\ Head(t) = "interrupt"
    <2> SUFFICES ASSUME Head(q) \in Command PROVE t # <<>> /\ Head(t) = "interrupt"
      OBVIOUS
    <2>1. 1 < n + 1 /\ q[2] = "interrupt"
      BY <1>5, <1>2
    <2>2. QED
      BY <2>1, <1>9
  <1>11. Head(q) \notin Command => t \in Whole
    BY <1>2, <1>5, <1>7, <1>8, <1>9 DEF Whole
  <1>12. QED
    BY <1>7, <1>10, <1>11 DEF t

LEMMA HandlersWhole ==
    ASSUME suspend \in BOOLEAN
    PROVE  /\ EnterAdrenalineMenu \in Whole
           /\ ExitAdrenalineMenu \in Whole
           /\ When(moved, Send("REINSERT_MS")) \in Whole
           /\ EnterAdrenalineMenu \o <<"await">> \in Whole
  <1>1. <<"open">> \in Whole /\ <<"await">> \in Whole
    BY StepWhole DEF Op
  <1>2. <<"close", "signal">> \in Whole
    <2> DEFINE q == <<"close", "signal">>
    <2> "close" \in Given /\ "signal" \in Given
      BY DEF Given, Op, StateCommand
    <2>1. q \in Seq(Given) /\ Len(q) = 2 /\ q[1] = "close" /\ q[2] = "signal"
      OBVIOUS
    <2>2. Paired(q)
      BY <2>1 DEF Paired
    <2>3. QED
      BY <2>1, <2>2 DEF Whole, Rest
  <1>3. \A c : When(c, Send("SUSPEND")) \in Whole /\ When(c, Send("RESUME")) \in Whole
               /\ When(c, Send("REINSERT_MS")) \in Whole
    BY SendWhole, EmptyWhole DEF When, StateCommand
  <1>4. EnterAdrenalineMenu \in Whole
    BY <1>1, <1>3, WholeThen DEF EnterAdrenalineMenu
  <1>5. ExitAdrenalineMenu \in Whole
    BY <1>2, <1>3, WholeThen DEF ExitAdrenalineMenu
  <1>6. QED
    BY <1>1, <1>3, <1>4, <1>5, WholeThen

LEMMA ChoiceWhole ==
    ASSUME NEW n \in Nat, NEW choice \in MenuChoice(n) PROVE choice \in Whole
  <1>1. <<"exit">> \in Whole /\ <<"loaded">> \in Whole /\ <<"check">> \in Whole
    BY StepWhole DEF Op
  <1>2. \A cmd \in Actions : DoAction(cmd) \in Whole
    BY <1>1, SendWhole, WholeThen DEF DoAction, StateCommand
  <1>3. WithStates => <<"exit">> \o Send("SAVESTATE") \in Whole
                      /\ <<"exit">> \o Send("LOADSTATE") \in Whole
    BY <1>1, SendWhole, WholeThen
  <1>4. WithStates => <<"exit">> \o Send("LOADSTATE") \o <<"loaded">> \in Whole
    BY <1>1, <1>3, WholeThen
  <1>5. QED
    BY <1>2, <1>3, <1>4, EmptyWhole DEF MenuChoice

LEMMA LeavesWhole == ASSUME NEW n \in Nat PROVE Leaves(n) \in Whole
  <1>1. Leaves(n) \in Seq(Given) /\ Len(Leaves(n)) = n /\ \A i \in 1 .. n : Leaves(n)[i] = "exit"
    <2>1. "exit" \in Given
      BY DEF Given, Op, StateCommand
    <2>2. QED
      BY <2>1 DEF Leaves
  <1>2. Paired(Leaves(n))
    BY <1>1 DEF Paired
  <1>3. Leaves(n) = <<>> \/ Leaves(n)[1] # "interrupt"
    BY <1>1, EmptySeq
  <1>4. QED
    BY <1>1, <1>2, <1>3 DEF Whole, Rest

\* A thread takes a step of its handler: what becomes of its interrupt.
LEMMA DoesRest ==
    ASSUME Handlers, NEW s \in Sender, NEW op, NEW rest \in Whole, Does(s, op, rest),
           op \in Command => rest = <<>>
    PROVE  /\ Handlers'
           /\ op \in Given
           /\ Raises(s) <=> op = "interrupt"
           /\ Raises(s)' <=> op \in Command
           /\ \A r \in Sender \ {s} : Raises(r)' <=> Raises(r)
  <1>1. PICK q \in Rest : q = todo[s]
    BY DEF Handlers
  <1>2. q # <<>> /\ Head(q) = op /\ todo' = [todo EXCEPT ![s] = rest \o Tail(q)]
    BY <1>1 DEF Does
  <1>3. q \in Seq(Given) /\ op \in Given
    <2>1. q \in Seq(Given)
      BY DEF Rest
    <2>2. QED
      BY <2>1, <1>2, HeadTailProperties
  <1>4. PICK t : t = rest \o Tail(q)
    OBVIOUS
  <1>5. t \in Rest /\ (t # <<>> /\ Head(t) = "interrupt" <=> op \in Command)
    <2>1. CASE op \in Command
      <3>1. Tail(q) \in Rest /\ Tail(q) # <<>> /\ Head(Tail(q)) = "interrupt"
        BY <1>2, <2>1, TailRest
      <3>2. rest = <<>> /\ Tail(q) \in Seq(Given)
        BY <2>1, <3>1 DEF Rest
      <3>3. t = Tail(q)
        BY <1>4, <3>2, ConcatEmptySeq
      <3>4. QED
        BY <2>1, <3>1, <3>3
    <2>2. CASE op \notin Command
      <3>1. t \in Whole
        BY <1>2, <1>4, <2>2, TailRest, WholeThen
      <3>2. t \in Rest /\ t \in Seq(Given) /\ (t = <<>> \/ t[1] # "interrupt")
        BY <3>1 DEF Whole, Rest
      <3>3. t # <<>> => Head(t) = t[1]
        OBVIOUS
      <3>4. QED
        BY <2>2, <3>2, <3>3
    <2>3. QED
      BY <2>1, <2>2
  <1>6. todo' = [todo EXCEPT ![s] = t] /\ todo \in [Sender -> Rest]
    BY <1>2, <1>4 DEF Handlers
  <1>7. Handlers'
    BY <1>5, <1>6 DEF Handlers
  <1>8. todo'[s] = t /\ \A r \in Sender \ {s} : todo'[r] = todo[r]
    BY <1>6
  <1>9. QED
    BY <1>1, <1>2, <1>3, <1>5, <1>7, <1>8 DEF Raises

\* The same for a new round of AdrenalineDraw, or another handler that begins.
LEMMA BeginsWhole ==
    ASSUME Handlers, NEW s \in Sender, NEW ops \in Whole, todo[s] = <<>>,
           todo' = [todo EXCEPT ![s] = ops]
    PROVE  Handlers' /\ \A r \in Sender : Raises(r)' <=> Raises(r)
  <1>1. ops \in Rest /\ ops \in Seq(Given) /\ (ops = <<>> \/ ops[1] # "interrupt")
    BY DEF Whole, Rest
  <1>2. Handlers'
    BY <1>1 DEF Handlers
  <1>3. todo'[s] = ops /\ \A r \in Sender \ {s} : todo'[r] = todo[r]
    BY DEF Handlers
  <1>4. ops # <<>> => Head(ops) = ops[1]
    OBVIOUS
  <1>5. QED
    BY <1>1, <1>2, <1>3, <1>4 DEF Raises

-----------------------------------------------------------------------------
(* The kinds of steps *)

\* A Vita thread goes on, but neither stores a command nor raises an interrupt.
VitaStep ==
    /\ UNCHANGED <<psp_cmd, unread, sema, ppc, pcmd, savestate_mode, pspMemory, state>>
    /\ spoiled => spoiled'
    /\ \A s \in Sender : Raises(s)' <=> Raises(s)

Stores(s) ==
    /\ StoreCommand(s) /\ ~Raises(s) /\ Raises(s)'
    /\ psp_cmd' \in Given
    /\ \A r \in Sender \ {s} : Raises(r)' <=> Raises(r)

Interrupts(s) ==
    /\ Interrupt(s) /\ Raises(s) /\ ~Raises(s)'
    /\ \A r \in Sender \ {s} : Raises(r)' <=> Raises(r)

PspSide == PspStep \/ PspStart \/ PspExit \/ PspProgram

StepKind ==
    /\ Handlers'
    /\ \/ VitaStep
       \/ \E s \in Sender : Stores(s) \/ Interrupts(s)
       \/ PspSide /\ UNCHANGED todo

LEMMA RoundKind ==
    ASSUME Handlers, NEW ops \in Whole, Round(ops)
    PROVE  StepKind
  <1>1. UNCHANGED <<psp, state>> /\ todo["draw"] = <<>> /\ todo' = [todo EXCEPT !["draw"] = ops]
    BY DEF Round
  <1>2. QED
    BY <1>1, BeginsWhole DEF StepKind, VitaStep, psp, pspMemory

LEMMA NextKind ==
    ASSUME Handlers, MenuTypes, NoStates, [Next]_vars
    PROVE  StepKind
  <1> USE DEF psp, pspMemory, menu
  <1>1. CASE UNCHANGED vars
    BY <1>1 DEF vars, StepKind, VitaStep, Handlers, Raises
  <1>2. CASE PsButtonMenu
    BY <1>2, RoundKind, HandlersWhole DEF PsButtonMenu, MenuTypes
  <1>3. CASE MenuOption
    BY <1>3, RoundKind, EmptyWhole DEF MenuOption
  <1>4. CASE CtrlMenu
    <2>0. PICK n \in 0 .. MaxLeaves : \E choice \in MenuChoice(n) : Round(Leaves(n) \o choice)
      BY <1>4 DEF CtrlMenu
    <2>1. PICK choice \in MenuChoice(n) : Round(Leaves(n) \o choice)
      BY <2>0
    <2>2. Leaves(n) \o choice \in Whole
      BY LeavesWhole, ChoiceWhole, WholeThen
    <2>3. QED
      BY <2>1, <2>2, RoundKind
  <1>5. CASE SettingsHandler
    <2>1. EnterAdrenalineMenu \o <<"await">> \in Whole
      BY HandlersWhole DEF MenuTypes
    <2>2. /\ UNCHANGED <<psp_cmd, unread, sema, ppc, pcmd, savestate_mode, pspMemory, state>>
          /\ todo["shell"] = <<>>
          /\ todo' = [todo EXCEPT !["shell"] = EnterAdrenalineMenu \o <<"await">>]
          /\ spoiled' = (spoiled \/ menu_open \/ todo["draw"] # <<>>)
      BY <1>5 DEF SettingsHandler
    <2>3. QED
      BY <2>1, <2>2, BeginsWhole DEF StepKind, VitaStep
  <1>6. CASE AutoLoadState
    <2>1. Send("LOADSTATE") \in Whole
      BY <1>6, SendWhole DEF AutoLoadState, NoStates
    <2>2. QED
      BY <1>6, <2>1, BeginsWhole DEF AutoLoadState, StepKind, VitaStep
  <1>7. ASSUME NEW s \in Sender, StoreCommand(s) PROVE StepKind
    <2>1. PICK cmd \in Command : Does(s, cmd, <<>>) /\ psp_cmd' = cmd
      BY <1>7 DEF StoreCommand
    <2>2. QED
      BY <1>7, <2>1, DoesRest, EmptyWhole DEF StepKind, Stores
  <1>8. ASSUME NEW s \in Sender, Interrupt(s) PROVE StepKind
    BY <1>8, DoesRest, EmptyWhole DEF Interrupt, StepKind, Interrupts
  <1>9. ASSUME NEW s \in Sender, Open(s) \/ Loaded(s) \/ Signal(s) \/ Await(s) PROVE StepKind
    <2>1. PICK op \in {"open", "loaded", "signal", "await"} : Does(s, op, <<>>)
      BY <1>9 DEF Open, Loaded, Signal, Await
    <2>2. UNCHANGED <<psp, state>>
      BY <1>9 DEF Open, Loaded, Signal, Await
    <2>3. QED
      BY <2>1, <2>2, DoesRest, EmptyWhole DEF StepKind, VitaStep
  <1>10. ASSUME NEW s \in Sender, Exit(s) PROVE StepKind
    BY <1>10, DoesRest, HandlersWhole DEF Exit, StepKind, VitaStep, MenuTypes
  <1>11. ASSUME NEW s \in Sender, Close(s) PROVE StepKind
    BY <1>11, DoesRest, HandlersWhole DEF Close, StepKind, VitaStep, MenuTypes
  <1>12. ASSUME NEW s \in Sender, Check(s) PROVE StepKind
    <2>1. When(psp_cmd = "NONE", <<"exit">>) \in Whole
      BY EmptyWhole, StepWhole DEF When, Op
    <2>2. QED
      BY <1>12, <2>1, DoesRest DEF Check, StepKind, VitaStep
  <1>13. CASE PspSide
    <2>1. UNCHANGED todo
      BY <1>13 DEF PspSide, PspStep, PspStart, PspWait, PspSwitch, PspSuspendOperation, PspClear,
         PspSuspend, PspResume, PspAction, SaveState, LoadState, ResumeCompleted, InitAdrenaline,
         InitAdrenalineInfo, PspExit, PspProgram
    <2>2. QED
      BY <1>13, <2>1 DEF StepKind, Handlers
  <1>14. QED
    BY <1>1, <1>2, <1>3, <1>4, <1>5, <1>6, <1>7, <1>8, <1>9, <1>10, <1>11, <1>12, <1>13
    DEF Next, SenderStep, PspSide

-----------------------------------------------------------------------------
(* The invariants are kept *)

LEMMA InitInv == Init => Inv
  <1> SUFFICES ASSUME Init PROVE Inv
    OBVIOUS
  <1>1. WordTypes /\ MenuTypes /\ StateType
    BY DEF Init, WordTypes, MenuTypes, StateType
  <1>2. ListTypes
    <2>1. Cardinality(Thread) \in Nat
      BY FS_CardinalityType
    <2>2. 0 \in 0 .. MAX_THREADS - 1
      BY <2>1
    <2>3. QED
      BY <2>2 DEF Init, ListTypes, NoThreads, Status
  <1>3. Handlers
    BY EmptyWhole DEF Init, Handlers, Whole
  <1>4. \A s \in Sender : ~Raises(s)
    BY DEF Init, Raises
  <1>5. ToldOnce /\ Woken /\ SavedToldOnce /\ NoStates
    BY <1>4 DEF Init, ToldOnce, Woken, SavedToldOnce, NoStates, StateCommand
  <1>6. QED
    BY <1>1, <1>2, <1>3, <1>5 DEF Inv, Types

LEMMA SavedState ==
    ASSUME WordTypes, ListTypes, SaveState PROVE state' \in State
  BY DEF WordTypes, ListTypes, SaveState, State

LEMMA ToldOnceNext ==
    ASSUME ToldOnce, SavedToldOnce, WordTypes, StateType, StepKind
    PROVE  ToldOnce'
  <1> USE DEF ToldOnce
  <1>1. CASE VitaStep
    BY <1>1 DEF VitaStep
  <1>2. ASSUME NEW s \in Sender, Stores(s) PROVE ToldOnce'
    <2>1. CASE spoiled \/ unread
      BY <1>2, <2>1 DEF Stores, StoreCommand
    <2>2. CASE ~spoiled /\ ~unread
      BY <1>2, <2>2 DEF Stores, StoreCommand, WordTypes
    <2>3. QED
      BY <2>1, <2>2
  <1>3. ASSUME NEW s \in Sender, Interrupts(s) PROVE ToldOnce'
    BY <1>3 DEF Interrupts, Interrupt
  <1>4. ASSUME PspSide, UNCHANGED todo PROVE ToldOnce'
    <2> USE DEF pspMemory
    <2>0. \A s \in Sender : Raises(s)' <=> Raises(s)
      BY <1>4 DEF Raises
    <2>1. CASE PspWait
      BY <2>0, <2>1 DEF PspWait
    <2>2. CASE PspSwitch
      BY <2>0, <2>2 DEF PspSwitch
    <2>3. CASE PspSuspendOperation
      BY <2>0, <2>3 DEF PspSuspendOperation
    <2>4. CASE PspClear
      BY <2>0, <2>4 DEF PspClear
    <2>5. CASE PspSuspend \/ PspResume \/ PspAction
      BY <2>0, <2>5 DEF PspSuspend, PspResume, PspAction
    <2>6. CASE SaveState \/ ResumeCompleted \/ PspExit \/ PspProgram
      BY <2>0, <2>6 DEF SaveState, ResumeCompleted, PspExit, PspProgram
    <2>7. CASE LoadState
      <3>1. CASE state = NoState
        BY <2>0, <2>7, <3>1 DEF LoadState
      <3>2. CASE state # NoState
        BY <2>0, <2>7, <3>2 DEF LoadState, SavedToldOnce
      <3>3. QED
        BY <3>1, <3>2
    <2>8. CASE InitAdrenaline
      BY <2>0, <2>8 DEF InitAdrenaline
    <2>9. CASE InitAdrenalineInfo
      BY <2>0, <2>9 DEF InitAdrenalineInfo
    <2>10. QED
      BY <1>4, <2>1, <2>2, <2>3, <2>4, <2>5, <2>6, <2>7, <2>8, <2>9 DEF PspSide, PspStep, PspStart
  <1>5. QED
    BY <1>1, <1>2, <1>3, <1>4 DEF StepKind

LEMMA WokenNext ==
    ASSUME Woken, SavedToldOnce, WordTypes, ListTypes, StateType, StepKind
    PROVE  Woken'
  <1> USE DEF Woken
  <1>1. CASE VitaStep
    BY <1>1 DEF VitaStep, pspMemory
  <1>2. ASSUME NEW s \in Sender, Stores(s) PROVE Woken'
    BY <1>2 DEF Stores
  <1>3. ASSUME NEW s \in Sender, Interrupts(s) PROVE Woken'
    BY <1>3 DEF Interrupts, Interrupt, pspMemory
  <1>4. ASSUME PspSide, UNCHANGED todo PROVE Woken'
    <2> USE DEF pspMemory
    <2>0. \A s \in Sender : Raises(s)' <=> Raises(s)
      BY <1>4 DEF Raises
    <2>1. CASE PspWait
      BY <2>0, <2>1 DEF PspWait
    <2>2. CASE PspSwitch
      BY <2>0, <2>2 DEF PspSwitch
    <2>3. CASE PspSuspendOperation
      BY <2>0, <2>3 DEF PspSuspendOperation
    <2>4. CASE PspClear
      BY <2>0, <2>4 DEF PspClear
    <2>5. CASE PspSuspend \/ PspResume \/ PspAction
      BY <2>0, <2>5 DEF PspSuspend, PspResume, PspAction
    <2>6. CASE SaveState
      <3>1. state' # NoState
        BY <2>6, SavedState, StateAssumption
      <3>2. QED
        BY <2>0, <2>6, <3>1 DEF SaveState, SavedToldOnce
    <2>7. CASE LoadState
      <3>1. CASE state = NoState
        BY <2>0, <2>7, <3>1 DEF LoadState
      <3>2. CASE state # NoState
        BY <2>0, <2>7, <3>2 DEF LoadState, SavedToldOnce
      <3>3. QED
        BY <3>1, <3>2
    <2>8. CASE InitAdrenaline \/ ResumeCompleted \/ PspExit \/ PspProgram
      BY <2>0, <2>8 DEF InitAdrenaline, ResumeCompleted, PspExit, PspProgram
    <2>9. CASE InitAdrenalineInfo
      BY <2>0, <2>9 DEF InitAdrenalineInfo
    <2>10. QED
      BY <1>4, <2>1, <2>2, <2>3, <2>4, <2>5, <2>6, <2>7, <2>8, <2>9 DEF PspSide, PspStep, PspStart
  <1>5. QED
    BY <1>1, <1>2, <1>3, <1>4 DEF StepKind

LEMMA SavedToldOnceNext ==
    ASSUME SavedToldOnce, ToldOnce, WordTypes, ListTypes, StateType, StepKind
    PROVE  SavedToldOnce' /\ StateType'
  <1> USE DEF SavedToldOnce, StateType
  <1>1. CASE VitaStep
    BY <1>1 DEF VitaStep
  <1>2. ASSUME NEW s \in Sender, Stores(s) PROVE SavedToldOnce' /\ StateType'
    BY <1>2 DEF Stores, StoreCommand
  <1>3. ASSUME NEW s \in Sender, Interrupts(s) PROVE SavedToldOnce' /\ StateType'
    BY <1>3 DEF Interrupts, Interrupt
  <1>4. ASSUME PspSide, UNCHANGED todo PROVE SavedToldOnce' /\ StateType'
    <2> USE DEF pspMemory
    <2>1. CASE PspWait \/ PspSwitch \/ PspSuspendOperation \/ PspClear
      BY <2>1 DEF PspWait, PspSwitch, PspSuspendOperation, PspClear
    <2>2. CASE PspSuspend \/ PspResume \/ PspAction
      BY <2>2 DEF PspSuspend, PspResume, PspAction
    <2>3. CASE SaveState
      <3>1. state' \in State
        BY <2>3, SavedState
      <3>2. QED
        BY <2>3, <3>1 DEF SaveState, ToldOnce
    <2>4. CASE LoadState
      BY <2>4 DEF LoadState
    <2>5. CASE InitAdrenaline \/ InitAdrenalineInfo \/ ResumeCompleted \/ PspExit \/ PspProgram
      BY <2>5 DEF InitAdrenaline, InitAdrenalineInfo, ResumeCompleted, PspExit, PspProgram
    <2>6. QED
      BY <1>4, <2>1, <2>2, <2>3, <2>4, <2>5 DEF PspSide, PspStep, PspStart
  <1>5. QED
    BY <1>1, <1>2, <1>3, <1>4 DEF StepKind

LEMMA NoStatesNext ==
    ASSUME NoStates, WordTypes, StepKind
    PROVE  NoStates'
  <1> USE DEF NoStates, StateCommand
  <1>1. CASE VitaStep
    BY <1>1 DEF VitaStep
  <1>2. ASSUME NEW s \in Sender, Stores(s) PROVE NoStates'
    BY <1>2 DEF Stores, StoreCommand, Given
  <1>3. ASSUME NEW s \in Sender, Interrupts(s) PROVE NoStates'
    BY <1>3 DEF Interrupts, Interrupt
  <1>4. ASSUME PspSide PROVE NoStates'
    <2> USE DEF pspMemory
    <2>1. CASE PspWait \/ PspSwitch \/ PspSuspendOperation \/ PspClear
      BY <2>1 DEF PspWait, PspSwitch, PspSuspendOperation, PspClear
    <2>2. CASE PspSuspend \/ PspResume \/ PspAction
      BY <2>2 DEF PspSuspend, PspResume, PspAction
    <2>3. CASE SaveState \/ LoadState
      BY <2>3 DEF SaveState, LoadState
    <2>4. CASE InitAdrenaline \/ InitAdrenalineInfo \/ ResumeCompleted \/ PspExit \/ PspProgram
      BY <2>4 DEF InitAdrenaline, InitAdrenalineInfo, ResumeCompleted, PspExit, PspProgram
    <2>5. QED
      BY <1>4, <2>1, <2>2, <2>3, <2>4 DEF PspSide, PspStep, PspStart
  <1>5. QED
    BY <1>1, <1>2, <1>3, <1>4 DEF StepKind

LEMMA MenuTypesNext == MenuTypes /\ [Next]_vars => MenuTypes'
  <1> SUFFICES ASSUME MenuTypes, [Next]_vars PROVE MenuTypes'
    OBVIOUS
  <1> USE DEF MenuTypes, menu
  <1>1. CASE UNCHANGED vars
    BY <1>1 DEF vars
  <1>2. CASE PsButtonMenu \/ MenuOption
    BY <1>2 DEF PsButtonMenu, MenuOption, Round
  <1>3. CASE CtrlMenu
    <2>1. UNCHANGED <<suspend, moved, menu_open, old_suspend>> /\ passed' = FALSE
      BY <1>3 DEF CtrlMenu, Round
    <2>2. load_state' \in BOOLEAN
      BY <1>3 DEF CtrlMenu
    <2>3. QED
      BY <2>1, <2>2
  <1>4. CASE SettingsHandler \/ AutoLoadState
    BY <1>4 DEF SettingsHandler, AutoLoadState
  <1>5. CASE \E s \in Sender : SenderStep(s)
    BY <1>5 DEF SenderStep, StoreCommand, Interrupt, Open, Exit, Close, Signal, Check, Loaded, Await
  <1>6. CASE PspStep
    BY <1>6 DEF PspStep, PspWait, PspSwitch, PspSuspendOperation, PspClear, PspSuspend, PspResume,
       PspAction, SaveState, LoadState, ResumeCompleted
  <1>7. CASE PspStart \/ PspExit \/ PspProgram
    BY <1>7 DEF PspStart, InitAdrenaline, InitAdrenalineInfo, PspExit, PspProgram
  <1>8. QED
    BY <1>1, <1>2, <1>3, <1>4, <1>5, <1>6, <1>7 DEF Next

LEMMA WordTypesNext == WordTypes /\ StateType /\ [Next]_vars => WordTypes'
  <1> SUFFICES ASSUME WordTypes, StateType, [Next]_vars PROVE WordTypes'
    OBVIOUS
  <1> USE DEF WordTypes, psp, pspMemory, menu
  <1>1. CASE UNCHANGED vars
    BY <1>1 DEF vars
  <1>2. CASE PsButtonMenu \/ MenuOption \/ CtrlMenu
    BY <1>2 DEF PsButtonMenu, MenuOption, CtrlMenu, Round
  <1>3. CASE SettingsHandler
    BY <1>3 DEF SettingsHandler
  <1>4. CASE AutoLoadState
    BY <1>4 DEF AutoLoadState
  <1>5. CASE \E s \in Sender : StoreCommand(s)
    BY <1>5 DEF StoreCommand
  <1>6. CASE \E s \in Sender : Interrupt(s)
    BY <1>6 DEF Interrupt
  <1>7. CASE \E s \in Sender : Open(s) \/ Exit(s) \/ Close(s) \/ Signal(s) \/ Check(s) \/ Loaded(s) \/ Await(s)
    BY <1>7 DEF Open, Exit, Close, Signal, Check, Loaded, Await
  <1>8. CASE PspWait
    BY <1>8 DEF PspWait
  <1>8a. CASE PspSwitch
    BY <1>8a DEF PspSwitch
  <1>8b. CASE PspClear
    BY <1>8b DEF PspClear
  <1>9. CASE PspSuspendOperation
    BY <1>9 DEF PspSuspendOperation
  <1>10. CASE PspSuspend \/ PspResume \/ PspAction
    BY <1>10 DEF PspSuspend, PspResume, PspAction
  <1>11. CASE SaveState \/ ResumeCompleted
    BY <1>11 DEF SaveState, ResumeCompleted
  <1>12. CASE LoadState
    <2>1. CASE state = NoState
      BY <1>12, <2>1 DEF LoadState
    <2>2. CASE state # NoState
      <3>1. /\ state.psp_cmd \in Command \cup {"NONE"} /\ state.sema \in {0, 1}
            /\ state.spoiled \in BOOLEAN /\ state.pops_mode \in BOOLEAN /\ state.inited \in BOOLEAN
        BY <2>2 DEF StateType, State
      <3>2. /\ psp_cmd' = state.psp_cmd /\ sema' = state.sema
            /\ pops_mode' = state.pops_mode /\ inited' = state.inited
            /\ UNCHANGED <<pcmd, savestate_mode, settings>>
            /\ ppc' = "resume" /\ unread' = FALSE
        BY <1>12, <2>2 DEF LoadState
      <3>3. spoiled' \in BOOLEAN
        BY <1>12, <2>2 DEF LoadState
      <3>4. QED
        BY <3>1, <3>2, <3>3
    <2>3. QED
      BY <2>1, <2>2
  <1>13. CASE InitAdrenaline
    BY <1>13 DEF InitAdrenaline
  <1>14. CASE InitAdrenalineInfo
    <2>1. spoiled' \in BOOLEAN
      BY <1>14 DEF InitAdrenalineInfo
    <2>2. QED
      BY <1>14, <2>1 DEF InitAdrenalineInfo
  <1>15. CASE PspExit \/ PspProgram
    BY <1>15 DEF PspExit, PspProgram
  <1>16. QED
    BY <1>1, <1>2, <1>3, <1>4, <1>5, <1>6, <1>7, <1>8, <1>8a, <1>8b, <1>9, <1>10, <1>11, <1>12, <1>13, <1>14, <1>15
    DEF Next, SenderStep, PspStep, PspStart

\* The list of SuspendThreads has room for all threads and the word behind them.
LEMMA ListHasRoom ==
    ASSUME live \subseteq Thread, NEW ids \in Orders(live \cup {Self})
    PROVE  /\ Len(ids) \in 0 .. MAX_THREADS - 1
           /\ \A i \in 1 .. Len(ids) : ids[i] \in live \cup {Self}
  <1> DEFINE S == live \cup {Self}
  <1>1. IsFiniteSet(S) /\ Cardinality(S) \in Nat /\ Cardinality(S) <= Cardinality(Thread) + 1
    <2>1. IsFiniteSet(Thread \cup {Self}) /\ Cardinality(Thread \cup {Self}) = Cardinality(Thread) + 1
      BY FS_AddElement
    <2>2. S \subseteq Thread \cup {Self}
      OBVIOUS
    <2>3. IsFiniteSet(S) /\ Cardinality(S) <= Cardinality(Thread \cup {Self})
      BY <2>1, <2>2, FS_Subset
    <2>4. QED
      BY <2>1, <2>3, FS_CardinalityType
  <1>2. ids \in [1 .. Cardinality(S) -> S]
    BY DEF Orders
  <1>3. PICK n \in Nat : n = Cardinality(S)
    BY <1>1
  <1> HIDE DEF S
  <1>4. ids \in [1 .. n -> S]
    BY <1>2, <1>3 DEF S
  <1>5. Cardinality(Thread) \in Nat
    BY FS_CardinalityType
  <1>6. ids \in Seq(S) /\ Len(ids) = n
    BY <1>4
  <1>7. n \in 0 .. MAX_THREADS - 1
    BY <1>1, <1>3, <1>5
  <1>8. QED
    BY <1>4, <1>6, <1>7 DEF S

LEMMA ListTypesNext == ListTypes /\ StateType /\ [Next]_vars => ListTypes'
  <1> SUFFICES ASSUME ListTypes, StateType, [Next]_vars PROVE ListTypes'
    OBVIOUS
  <1> USE DEF ListTypes, psp, pspMemory, Status
  <1>1. CASE UNCHANGED vars
    BY <1>1 DEF vars
  <1>2. CASE PsButtonMenu \/ MenuOption \/ CtrlMenu \/ SettingsHandler \/ AutoLoadState
    BY <1>2 DEF PsButtonMenu, MenuOption, CtrlMenu, Round, SettingsHandler, AutoLoadState
  <1>3. CASE \E s \in Sender : SenderStep(s)
    BY <1>3 DEF SenderStep, StoreCommand, Interrupt, Open, Exit, Close, Signal, Check, Loaded, Await
  <1>4. CASE PspWait \/ PspSwitch \/ PspSuspendOperation \/ PspClear
    BY <1>4 DEF PspWait, PspSwitch, PspSuspendOperation, PspClear
  <1>5. CASE PspSuspend
    <2>1. PICK ids \in Orders(live \cup {Self}) :
            /\ threads' = Listed(ids)
            /\ thread_count' = Len(ids)
            /\ suspended_count' = Len(ids)
            /\ status' = [t \in Thread |->
                            IF t \in live \cap Suspended(threads', Len(ids)) /\ status[t] = "ready"
                            THEN "adrenaline" ELSE status[t]]
      BY <1>5 DEF PspSuspend
    <2>2. /\ Len(ids) \in 0 .. MAX_THREADS - 1
          /\ \A i \in 1 .. Len(ids) : ids[i] \in live \cup {Self}
      BY ListHasRoom
    <2>3. \A i \in 0 .. MAX_THREADS - 1 : Listed(ids)[i] \in Thread \cup {NoThread}
      <3> SUFFICES ASSUME NEW i \in 0 .. MAX_THREADS - 1
                   PROVE  Listed(ids)[i] \in Thread \cup {NoThread}
        OBVIOUS
      <3>1. CASE i >= Len(ids)
        BY <3>1 DEF Listed
      <3>2. CASE ~(i >= Len(ids))
        <4>1. i + 1 \in 1 .. Len(ids)
          BY <2>2, <3>2
        <4>2. ids[i + 1] \in live \cup {Self}
          BY <2>2, <4>1
        <4>3. QED
          BY <3>2, <4>2 DEF Listed
      <3>3. QED
        BY <3>1, <3>2
    <2>4. threads' \in [0 .. MAX_THREADS - 1 -> Thread \cup {NoThread}]
      BY <2>1, <2>3 DEF Listed
    <2>5. status' \in [Thread -> Status]
      BY <2>1
    <2>6. live' = live
      BY <1>5 DEF PspSuspend
    <2>7. QED
      BY <2>1, <2>2, <2>4, <2>5, <2>6
  <1>6. CASE PspResume \/ PspAction
    BY <1>6 DEF PspResume, PspAction, ResumeThreads
  <1>7. CASE SaveState \/ ResumeCompleted \/ InitAdrenalineInfo \/ PspExit
    BY <1>7 DEF SaveState, ResumeCompleted, InitAdrenalineInfo, PspExit
  <1>8. CASE LoadState
    BY <1>8 DEF LoadState, StateType, State
  <1>9. CASE InitAdrenaline
    <2>1. 0 \in 0 .. MAX_THREADS - 1
      BY FS_CardinalityType
    <2>2. QED
      BY <1>9, <2>1 DEF InitAdrenaline, NoThreads
  <1>10. CASE PspProgram
    BY <1>10 DEF PspProgram
  <1>11. QED
    BY <1>1, <1>2, <1>3, <1>4, <1>5, <1>6, <1>7, <1>8, <1>9, <1>10 DEF Next, PspStep, PspStart

-----------------------------------------------------------------------------
(* The threads of the PSP: what the menu suspends is resumed                *)

\* The handler that opens the menu, from the round of AdrenalineDraw or by the shell.
Entry == {<<"SUSPEND", "interrupt", "open">>, <<"interrupt", "open">>, <<"open">>}
EntryAwaited ==
    {<<"SUSPEND", "interrupt", "open", "await">>, <<"interrupt", "open", "await">>, <<"open", "await">>}

Has(q, x) == \E i \in 1 .. Len(q) : q[i] = x

\* Any other handler of AdrenalineDraw.  A state is saved last.
Leaving(q) ==
    \A i \in 1 .. Len(q) :
        /\ q[i] \notin {"SUSPEND", "open", "await"}
        /\ q[i] = "SAVESTATE" => i = Len(q) - 1

Shapes ==
    /\ todo["shell"] \in EntryAwaited \cup {<<>>, <<"await">>}
    /\ ~ByShell => todo["shell"] = <<>>
    /\ todo["compat"] \in {<<>>, <<"LOADSTATE", "interrupt">>, <<"interrupt">>}
    /\ \/ todo["draw"] \in Entry /\ ~ByShell
       \/ Leaving(todo["draw"])

Opens == todo["shell"] \in EntryAwaited \/ todo["draw"] \in Entry

SuspendToCome ==
    \/ todo["shell"] = <<"SUSPEND", "interrupt", "open", "await">>
    \/ todo["draw"] = <<"SUSPEND", "interrupt", "open">>

\* The menu is opened when it is closed and nobody is still leaving it; a state is
\* saved when it has been left.
OneMenu ==
    /\ Opens => ~menu_open
    /\ todo["shell"] \in EntryAwaited => todo["draw"] = <<>>
    /\ Has(todo["draw"], "SAVESTATE") /\ menu_open =>
           Has(todo["draw"], "exit") \/ Has(todo["draw"], "close")

SuspendMeant == SuspendToCome => suspend /\ ~pops_mode

Held == ppc # "down" /\ \E t \in Thread : status[t] = "adrenaline"

\* The command to resume will be sent: the menu that is being opened, or is open, will
\* see the option that it was opened with, or the command is the next to be stored.
MenuResumes ==
    \/ Opens /\ ~SuspendToCome /\ suspend
    \/ menu_open /\ old_suspend /\ ~Has(todo["draw"], "close")
    \/ Has(todo["draw"], "RESUME")

ResumeUnread == psp_cmd = "RESUME" /\ unread

\* A command to suspend, on its way or carried out, and the command to resume that is
\* behind it.
Suspension ==
    /\ psp_cmd = "SUSPEND" /\ unread =>
           MenuResumes /\ ~pops_mode /\ pcmd # "SUSPEND" /\ (Held => pcmd = "RESUME")
    /\ pcmd = "SUSPEND" => ~Held /\ ~pops_mode /\ (MenuResumes \/ ResumeUnread)
    /\ Held => ~pops_mode /\ (MenuResumes \/ ResumeUnread \/ pcmd = "RESUME")
    /\ ~inited => ~Held /\ pcmd # "SUSPEND"

\* ResumeThreads finds every thread that SuspendThreads has suspended.
InList ==
    \A t \in Thread : status[t] = "adrenaline" =>
        suspended_count > 0 /\ \E i \in 0 .. thread_count - 1 : threads[i] = t

\* No suspended thread gets into a saved state.
SavedResumed ==
    /\ psp_cmd = "SAVESTATE" /\ unread => pcmd # "SUSPEND" /\ (Held => pcmd = "RESUME")
    /\ ppc = "power" /\ savestate_mode = "SAVESTATE" => ~Held
    /\ state # NoState /\ ~state.spoiled => \A t \in Thread : state.status[t] # "adrenaline"

CarriesOut == ppc \notin {"clear", "run"} => pcmd = "NONE"

ResumeInv ==
    /\ Shapes /\ CarriesOut
    /\ ~spoiled => OneMenu /\ SuspendMeant /\ Suspension /\ InList /\ SavedResumed

-----------------------------------------------------------------------------
(* What a handler has left to do *)

LEMMA HasThen ==
    ASSUME NEW S, NEW p \in Seq(S), NEW q \in Seq(S), NEW x
    PROVE  Has(p \o q, x) <=> Has(p, x) \/ Has(q, x)
  <1>1. PICK n \in Nat : n = Len(p)
    BY LenProperties
  <1>2. PICK m \in Nat : m = Len(q)
    BY LenProperties
  <1>3. PICK r : r = p \o q
    OBVIOUS
  <1>4. Len(r) = n + m /\ \A i \in 1 .. n + m : r[i] = IF i <= n THEN p[i] ELSE q[i - n]
    BY <1>1, <1>2, <1>3, ConcatProperties
  <1>5. ASSUME Has(r, x) PROVE Has(p, x) \/ Has(q, x)
    <2>1. PICK i \in 1 .. n + m : r[i] = x
      BY <1>4, <1>5 DEF Has
    <2>2. CASE i <= n
      BY <2>1, <2>2, <1>1, <1>4 DEF Has
    <2>3. CASE ~(i <= n)
      <3>1. i - n \in 1 .. m /\ q[i - n] = x
        BY <2>1, <2>3, <1>4
      <3>2. QED
        BY <3>1, <1>2 DEF Has
    <2>4. QED
      BY <2>2, <2>3
  <1>6. ASSUME Has(p, x) PROVE Has(r, x)
    <2>1. PICK i \in 1 .. n : p[i] = x
      BY <1>1, <1>6 DEF Has
    <2>2. i \in 1 .. n + m /\ r[i] = x
      BY <2>1, <1>4
    <2>3. QED
      BY <2>2, <1>4 DEF Has
  <1>7. ASSUME Has(q, x) PROVE Has(r, x)
    <2>1. PICK i \in 1 .. m : q[i] = x
      BY <1>2, <1>7 DEF Has
    <2>2. n + i \in 1 .. n + m /\ ~(n + i <= n) /\ n + i - n = i
      OBVIOUS
    <2>3. r[n + i] = x
      BY <2>1, <2>2, <1>4
    <2>4. QED
      BY <2>2, <2>3, <1>4 DEF Has
  <1>8. QED
    BY <1>3, <1>5, <1>6, <1>7

LEMMA HasTail ==
    ASSUME NEW S, NEW q \in Seq(S), q # <<>>, NEW x
    PROVE  Has(q, x) <=> Head(q) = x \/ Has(Tail(q), x)
  <1>1. PICK n \in Nat : n + 1 = Len(q)
    <2>1. Len(q) \in Nat /\ Len(q) # 0
      BY LenProperties, EmptySeq
    <2>2. Len(q) - 1 \in Nat /\ Len(q) - 1 + 1 = Len(q)
      BY <2>1
    <2>3. QED
      BY <2>2
  <1>2. PICK t : t = Tail(q)
    OBVIOUS
  <1>3. Head(q) = q[1] /\ Len(t) = n /\ \A i \in 1 .. n : t[i] = q[i + 1]
    <2>1. Len(q) - 1 = n
      BY <1>1
    <2>2. QED
      BY <1>2, <2>1, HeadTailProperties
  <1>4. ASSUME Has(q, x), Head(q) # x PROVE Has(t, x)
    <2>1. PICK i \in 1 .. n + 1 : q[i] = x
      BY <1>1, <1>4 DEF Has
    <2>2. i # 1
      BY <2>1, <1>3, <1>4
    <2>3. i - 1 \in 1 .. n /\ i - 1 + 1 = i
      BY <2>1, <2>2
    <2>4. t[i - 1] = x
      BY <2>1, <2>3, <1>3
    <2>5. QED
      BY <2>3, <2>4, <1>3 DEF Has
  <1>5. ASSUME Has(t, x) PROVE Has(q, x)
    <2>1. PICK i \in 1 .. n : t[i] = x
      BY <1>3, <1>5 DEF Has
    <2>2. i + 1 \in 1 .. n + 1 /\ q[i + 1] = x
      BY <2>1, <1>3
    <2>3. QED
      BY <2>2, <1>1 DEF Has
  <1>6. Head(q) = x => Has(q, x)
    <2>1. 1 \in 1 .. n + 1
      OBVIOUS
    <2>2. QED
      BY <2>1, <1>1, <1>3 DEF Has
  <1>7. QED
    BY <1>2, <1>4, <1>5, <1>6

\* Steps that may be put in front of any handler of AdrenalineDraw.
Plain(q) == \A i \in 1 .. Len(q) : q[i] \notin {"SUSPEND", "open", "await", "SAVESTATE"}

LEMMA LeavingThen ==
    ASSUME NEW S, NEW p \in Seq(S), NEW q \in Seq(S), Plain(p), Leaving(q)
    PROVE  Leaving(p \o q) /\ (Plain(q) => Plain(p \o q))
  <1>1. PICK n \in Nat : n = Len(p)
    BY LenProperties
  <1>2. PICK m \in Nat : m = Len(q)
    BY LenProperties
  <1>3. PICK r : r = p \o q
    OBVIOUS
  <1>4. Len(r) = n + m /\ \A i \in 1 .. n + m : r[i] = IF i <= n THEN p[i] ELSE q[i - n]
    BY <1>1, <1>2, <1>3, ConcatProperties
  <1>5. ASSUME NEW i \in 1 .. n + m
        PROVE  /\ r[i] \notin {"SUSPEND", "open", "await"}
               /\ r[i] = "SAVESTATE" => i = n + m - 1 /\ ~Plain(q)
    <2>1. CASE i <= n
      BY <2>1, <1>1, <1>4 DEF Plain
    <2>2. CASE ~(i <= n)
      <3>1. PICK j \in 1 .. m : j = i - n
        BY <2>2
      <3>2. r[i] = q[j] /\ i = n + j
        BY <2>2, <3>1, <1>4
      <3>3. q[j] \notin {"SUSPEND", "open", "await"} /\ (q[j] = "SAVESTATE" => j = m - 1 /\ ~Plain(q))
        BY <1>2 DEF Leaving, Plain
      <3>4. QED
        BY <3>2, <3>3
    <2>3. QED
      BY <2>1, <2>2
  <1>6. Leaving(r)
    BY <1>4, <1>5 DEF Leaving
  <1>7. Plain(q) => Plain(r)
    BY <1>4, <1>5 DEF Plain
  <1>8. QED
    BY <1>3, <1>6, <1>7

LEMMA LeavingTail ==
    ASSUME NEW S, NEW q \in Seq(S), q # <<>>, Leaving(q)
    PROVE  /\ Leaving(Tail(q)) /\ Head(q) \notin {"SUSPEND", "open", "await"}
           /\ Head(q) = "SAVESTATE" => Len(q) = 2
  <1>1. PICK n \in Nat : n + 1 = Len(q)
    <2>1. Len(q) \in Nat /\ Len(q) # 0
      BY LenProperties, EmptySeq
    <2>2. Len(q) - 1 \in Nat /\ Len(q) - 1 + 1 = Len(q)
      BY <2>1
    <2>3. QED
      BY <2>2
  <1>2. PICK t : t = Tail(q)
    OBVIOUS
  <1>3. Head(q) = q[1] /\ Len(t) = n /\ \A i \in 1 .. n : t[i] = q[i + 1]
    <2>1. Len(q) - 1 = n
      BY <1>1
    <2>2. QED
      BY <1>2, <2>1, HeadTailProperties
  <1>4. \A i \in 1 .. n + 1 :
          q[i] \notin {"SUSPEND", "open", "await"} /\ (q[i] = "SAVESTATE" => i = n + 1 - 1)
    BY <1>1 DEF Leaving
  <1>5. ASSUME NEW i \in 1 .. n
        PROVE  t[i] \notin {"SUSPEND", "open", "await"} /\ (t[i] = "SAVESTATE" => i = n - 1)
    <2>1. i + 1 \in 1 .. n + 1 /\ t[i] = q[i + 1] /\ (i + 1 = n + 1 - 1 => i = n - 1)
      BY <1>3
    <2>2. QED
      BY <2>1, <1>4
  <1>6. 1 \in 1 .. n + 1 /\ (1 = n + 1 - 1 => Len(q) = 2)
    BY <1>1
  <1>7. Leaving(t)
    BY <1>3, <1>5 DEF Leaving
  <1>8. Head(q) \notin {"SUSPEND", "open", "await"} /\ (Head(q) = "SAVESTATE" => Len(q) = 2)
    BY <1>3, <1>4, <1>6
  <1>9. QED
    BY <1>2, <1>7, <1>8

LEMMA AddLastSeq ==
    ASSUME NEW S, NEW x \in S, NEW n \in {1, 2, 3}, NEW p \in Seq(S), Len(p) = n,
           NEW q \in Seq(S), Len(q) = n + 1, q[n + 1] = x, \A i \in 1 .. n : q[i] = p[i]
    PROVE  p \o <<x>> = q
  <1>0. <<x>> \in Seq(S) /\ Len(<<x>>) = 1 /\ <<x>>[1] = x
    OBVIOUS
  <1>1. PICK r : r = p \o <<x>>
    OBVIOUS
  <1>2. r \in Seq(S) /\ Len(r) = n + 1
        /\ \A i \in 1 .. n + 1 : r[i] = IF i <= n THEN p[i] ELSE <<x>>[i - n]
    BY <1>0, <1>1, ConcatProperties
  <1>3. \A i \in 1 .. n + 1 : r[i] = q[i]
    <2> SUFFICES ASSUME NEW i \in 1 .. n + 1 PROVE r[i] = q[i]
      OBVIOUS
    <2>1. CASE i <= n
      BY <2>1, <1>2
    <2>2. CASE ~(i <= n)
      <3>1. i = n + 1 /\ i - n = 1
        BY <2>2
      <3>2. r[i] = <<x>>[1]
        BY <3>1, <2>2, <1>2
      <3>3. QED
        BY <3>1, <3>2, <1>0
    <2>3. QED
      BY <2>1, <2>2
  <1>4. QED
    BY <1>1, <1>2, <1>3, SeqEqual

LEMMA AddLast ==
    ASSUME NEW a, NEW b, NEW x
    PROVE  /\ <<>> \o <<x>> = <<x>> /\ <<a>> \o <<x>> = <<a, x>>
           /\ <<a, b>> \o <<x>> = <<a, b, x>>
  <1> DEFINE S == {a, b, x}
  <1>1. <<x>> \in Seq(S) /\ Len(<<x>>) = 1 /\ <<x>>[1] = x
    OBVIOUS
  <1>2. <<>> \o <<x>> = <<x>>
    BY <1>1, ConcatEmptySeq
  <1>4. <<a>> \o <<x>> = <<a, x>>
    <2>1. PICK p, q : p = <<a>> /\ q = <<a, x>>
      OBVIOUS
    <2>2. p \in Seq(S) /\ q \in Seq(S) /\ Len(p) = 1 /\ Len(q) = 1 + 1 /\ q[1 + 1] = x
      BY <2>1
    <2>3. \A i \in 1 .. 1 : q[i] = p[i]
      BY <2>1
    <2>4. p \o <<x>> = q
      BY <2>2, <2>3, AddLastSeq
    <2>5. QED
      BY <2>1, <2>4
  <1>5. <<a, b>> \o <<x>> = <<a, b, x>>
    <2>1. PICK p, q : p = <<a, b>> /\ q = <<a, b, x>>
      OBVIOUS
    <2>2. p \in Seq(S) /\ q \in Seq(S) /\ Len(p) = 2 /\ Len(q) = 2 + 1 /\ q[2 + 1] = x
      BY <2>1
    <2>3. \A i \in 1 .. 2 : q[i] = p[i]
      BY <2>1
    <2>4. p \o <<x>> = q
      BY <2>2, <2>3, AddLastSeq
    <2>5. QED
      BY <2>1, <2>4
  <1>6. QED
    BY <1>2, <1>4, <1>5

LEMMA AddLast3 ==
    ASSUME NEW a, NEW b, NEW c, NEW x
    PROVE  <<a, b, c>> \o <<x>> = <<a, b, c, x>>
  <1> DEFINE S == {a, b, c, x}
  <1>1. PICK p, q : p = <<a, b, c>> /\ q = <<a, b, c, x>>
    OBVIOUS
  <1>2. p \in Seq(S) /\ q \in Seq(S) /\ Len(p) = 3 /\ Len(q) = 3 + 1 /\ q[3 + 1] = x
    BY <1>1
  <1>3. \A i \in 1 .. 3 : q[i] = p[i]
    BY <1>1
  <1>4. p \o <<x>> = q
    BY <1>2, <1>3, AddLastSeq
  <1>5. QED
    BY <1>1, <1>4

-----------------------------------------------------------------------------
(* The steps of the handlers and the menu *)

LEMMA EntryHas ==
    ASSUME NEW q \in Entry \cup {<<>>}, NEW x \in {"RESUME", "SAVESTATE", "close", "exit"}
    PROVE  ~Has(q, x)
  BY DEF Entry, Has

LEMMA EntryNotLeaving == ASSUME NEW q \in Entry PROVE ~Leaving(q)
  <1>1. CASE q = <<"open">>
    <2>1. 1 \in 1 .. Len(q) /\ q[1] = "open"
      BY <1>1
    <2>2. QED
      BY <2>1 DEF Leaving
  <1>2. CASE q = <<"interrupt", "open">>
    <2>1. 2 \in 1 .. Len(q) /\ q[2] = "open"
      BY <1>2
    <2>2. QED
      BY <2>1 DEF Leaving
  <1>3. CASE q = <<"SUSPEND", "interrupt", "open">>
    <2>1. 3 \in 1 .. Len(q) /\ q[3] = "open"
      BY <1>3
    <2>2. QED
      BY <2>1 DEF Leaving
  <1>4. QED
    BY <1>1, <1>2, <1>3 DEF Entry

LEMMA EmptyLeaving == Leaving(<<>>) /\ Plain(<<>>) /\ \A x : ~Has(<<>>, x)
  BY DEF Leaving, Plain, Has

LEMMA PlainLeaving == ASSUME NEW q, Plain(q) PROVE Leaving(q)
  BY DEF Plain, Leaving

LEMMA EnterIs ==
    /\ EnterAdrenalineMenu = IF suspend /\ ~pops_mode THEN <<"SUSPEND", "interrupt", "open">>
                             ELSE <<"open">>
    /\ EnterAdrenalineMenu \o <<"await">> =
           IF suspend /\ ~pops_mode THEN <<"SUSPEND", "interrupt", "open", "await">>
           ELSE <<"open", "await">>
  <1>1. EnterAdrenalineMenu = IF suspend /\ ~pops_mode THEN <<"SUSPEND", "interrupt", "open">>
                              ELSE <<"open">>
    BY AddLast DEF EnterAdrenalineMenu, When, Send
  <1>2. CASE suspend /\ ~pops_mode
    <2>1. <<"SUSPEND", "interrupt", "open">> \o <<"await">> = <<"SUSPEND", "interrupt", "open", "await">>
      BY AddLast3
    <2>2. QED
      BY <1>1, <1>2, <2>1
  <1>3. CASE ~(suspend /\ ~pops_mode)
    BY <1>1, <1>3, AddLast
  <1>4. QED
    BY <1>1, <1>2, <1>3

\* A command and its interrupt, and single steps.
LEMMA SendPlain ==
    ASSUME NEW cmd \in Command \ {"SUSPEND", "SAVESTATE"}
    PROVE  /\ Send(cmd) \in Seq(Op) /\ Plain(Send(cmd)) /\ Has(Send(cmd), cmd)
           /\ \A x : Has(Send(cmd), x) => x \in {cmd, "interrupt"}
  <1>1. Send(cmd) \in Seq(Op)
    BY DEF Send, Op
  <1>2. Len(Send(cmd)) = 2 /\ Send(cmd)[1] = cmd /\ Send(cmd)[2] = "interrupt"
    BY DEF Send
  <1>3. \A i \in 1 .. 2 : Send(cmd)[i] \in {cmd, "interrupt"}
    BY <1>2
  <1>4. QED
    BY <1>1, <1>2, <1>3 DEF Plain, Has

LEMMA StepPlain ==
    ASSUME NEW op \in {"exit", "close", "signal", "check", "loaded"}
    PROVE  /\ <<op>> \in Seq(Op) /\ Plain(<<op>>) /\ Has(<<op>>, op)
           /\ \A x : Has(<<op>>, x) => x = op
  <1>1. <<op>> \in Seq(Op)
    BY DEF Op
  <1>2. QED
    BY <1>1 DEF Plain, Has

LEMMA ExitPlain ==
    /\ ExitAdrenalineMenu \in Seq(Op) /\ Plain(ExitAdrenalineMenu)
    /\ Has(ExitAdrenalineMenu, "close")
    /\ Resumes => Has(ExitAdrenalineMenu, "RESUME")
    /\ ~Has(ExitAdrenalineMenu, "SAVESTATE")
  <1> DEFINE p == When(Resumes, Send("RESUME"))  q == <<"close", "signal">>
  <1>1. /\ p \in Seq(Op) /\ Plain(p) /\ (Resumes => Has(p, "RESUME")) /\ ~Has(p, "SAVESTATE")
    <2>1. CASE Resumes
      <3>1. p = Send("RESUME")
        BY <2>1 DEF When
      <3>2. "RESUME" \in Command \ {"SUSPEND", "SAVESTATE"}
        OBVIOUS
      <3>3. QED
        BY <3>1, <3>2, SendPlain
    <2>2. CASE ~Resumes
      BY <2>2, EmptyLeaving DEF When
    <2>3. QED
      BY <2>1, <2>2
  <1>2. q \in Seq(Op)
    <2>1. "close" \in Op /\ "signal" \in Op
      BY DEF Op
    <2>2. QED
      BY <2>1
  <1>3. Plain(q) /\ Has(q, "close") /\ ~Has(q, "SAVESTATE")
    <2>1. Len(q) = 2 /\ q[1] = "close" /\ q[2] = "signal"
      OBVIOUS
    <2>2. 1 \in 1 .. 2 /\ \A i \in 1 .. 2 : q[i] \in {"close", "signal"}
      BY <2>1
    <2>3. QED
      BY <2>1, <2>2 DEF Plain, Has
  <1> HIDE DEF p, q
  <1>4. Plain(p \o q) /\ \A x : Has(p \o q, x) <=> Has(p, x) \/ Has(q, x)
    BY <1>1, <1>2, <1>3, PlainLeaving, LeavingThen, HasThen
  <1>5. p \o q \in Seq(Op)
    BY <1>1, <1>2, ConcatProperties
  <1>6. ExitAdrenalineMenu = p \o q
    BY DEF ExitAdrenalineMenu, p, q
  <1>7. QED
    BY <1>1, <1>3, <1>4, <1>5, <1>6

\* What may be chosen in the menu: a state is saved after the menu has been left.
LEMMA ChoiceLeaving ==
    ASSUME NEW n \in Nat, NEW choice \in MenuChoice(n)
    PROVE  /\ choice \in Seq(Op) /\ Leaving(choice) /\ ~Has(choice, "close")
           /\ Has(choice, "SAVESTATE") => Has(choice, "exit")
  <1> DEFINE Fine(q) == /\ q \in Seq(Op) /\ Leaving(q) /\ ~Has(q, "close")
                        /\ Has(q, "SAVESTATE") => Has(q, "exit")
  <1>1. Fine(<<>>)
    BY EmptyLeaving
  <1>2. ASSUME NEW cmd \in Actions PROVE Fine(DoAction(cmd))
    <2>1. cmd \in Command \ {"SUSPEND", "SAVESTATE"}
      OBVIOUS
    <2>2. /\ Send(cmd) \in Seq(Op) /\ Plain(Send(cmd))
          /\ ~Has(Send(cmd), "close") /\ ~Has(Send(cmd), "SAVESTATE")
      BY <2>1, SendPlain
    <2>3. /\ <<"check">> \in Seq(Op) /\ Leaving(<<"check">>)
          /\ ~Has(<<"check">>, "close") /\ ~Has(<<"check">>, "SAVESTATE")
      BY StepPlain, PlainLeaving
    <2>4. QED
      BY <2>2, <2>3, LeavingThen, HasThen, ConcatProperties DEF DoAction
  <1>3. <<"exit">> \in Seq(Op) /\ Plain(<<"exit">>) /\ Has(<<"exit">>, "exit")
        /\ ~Has(<<"exit">>, "close") /\ ~Has(<<"exit">>, "SAVESTATE")
    BY StepPlain
  <1>4. Fine(<<"exit">> \o Send("SAVESTATE"))
    <2> DEFINE q == Send("SAVESTATE")
    <2>1. q \in Seq(Op)
      BY DEF Send, Op
    <2>2. Len(q) = 2 /\ q[1] = "SAVESTATE" /\ q[2] = "interrupt"
      BY DEF Send
    <2> HIDE DEF q
    <2>3. Leaving(q) /\ ~Has(q, "close")
      BY <2>2 DEF Leaving, Has
    <2>4. QED
      BY <1>3, <2>1, <2>3, LeavingThen, HasThen, ConcatProperties DEF q
  <1>5. LET q == <<"exit">> \o Send("LOADSTATE") IN Fine(q) /\ Plain(q) /\ ~Has(q, "SAVESTATE")
    <2>1. /\ Send("LOADSTATE") \in Seq(Op) /\ Plain(Send("LOADSTATE"))
          /\ ~Has(Send("LOADSTATE"), "close") /\ ~Has(Send("LOADSTATE"), "SAVESTATE")
      BY SendPlain
    <2>2. QED
      BY <1>3, <2>1, PlainLeaving, LeavingThen, HasThen, ConcatProperties
  <1>6. Fine(<<"exit">> \o Send("LOADSTATE") \o <<"loaded">>)
    <2>1. /\ <<"loaded">> \in Seq(Op) /\ Leaving(<<"loaded">>)
          /\ ~Has(<<"loaded">>, "close") /\ ~Has(<<"loaded">>, "SAVESTATE")
      BY StepPlain, PlainLeaving
    <2>2. PICK q : q = <<"exit">> \o Send("LOADSTATE")
      OBVIOUS
    <2>3. Fine(q) /\ Plain(q) /\ ~Has(q, "SAVESTATE")
      BY <1>5, <2>2
    <2>4. Fine(q \o <<"loaded">>)
      BY <2>1, <2>3, LeavingThen, HasThen, ConcatProperties
    <2>5. QED
      BY <2>2, <2>4
  <1> HIDE DEF Fine
  <1>7. Fine(choice)
    BY <1>1, <1>2, <1>4, <1>5, <1>6 DEF MenuChoice
  <1>8. QED
    BY <1>7 DEF Fine

LEMMA RoundLeaving ==
    ASSUME NEW n \in Nat, NEW choice \in MenuChoice(n)
    PROVE  LET q == Leaves(n) \o choice
           IN  /\ Leaving(q) /\ ~Has(q, "close")
               /\ Has(q, "SAVESTATE") => Has(q, "exit")
  <1>1. Leaves(n) \in Seq(Op) /\ \A i \in 1 .. Len(Leaves(n)) : Leaves(n)[i] = "exit"
    <2>1. "exit" \in Op
      BY DEF Op
    <2>2. QED
      BY <2>1 DEF Leaves
  <1>2. Plain(Leaves(n)) /\ \A x : Has(Leaves(n), x) => x = "exit"
    BY <1>1 DEF Plain, Has
  <1>3. QED
    BY <1>1, <1>2, ChoiceLeaving, LeavingThen, HasThen

\* AdrenalineDraw takes a step of a handler that does not open the menu.
LEMMA DrawDoes ==
    ASSUME Handlers, Leaving(todo["draw"]), NEW op, NEW rest \in Seq(Op), Plain(rest),
           Does("draw", op, rest)
    PROVE  /\ Leaving(todo'["draw"])
           /\ op \notin {"SUSPEND", "open", "await"} /\ todo["draw"] # <<>> /\ Has(todo["draw"], op)
           /\ \A x : Has(rest, x) => Has(todo'["draw"], x)
           /\ \A x : Has(todo["draw"], x) => x = op \/ Has(todo'["draw"], x)
           /\ \A x : Has(todo'["draw"], x) => Has(rest, x) \/ Has(todo["draw"], x)
           /\ op = "SAVESTATE" => \A x : Has(todo["draw"], x) => x \in {"SAVESTATE", "interrupt"}
           /\ \A s \in {"shell", "compat"} : todo'[s] = todo[s]
  <1>1. PICK q \in Rest : q = todo["draw"]
    BY DEF Handlers
  <1>2. q # <<>> /\ Head(q) = op /\ todo' = [todo EXCEPT !["draw"] = rest \o Tail(q)]
    BY <1>1 DEF Does
  <1>3. q \in Seq(Op) /\ Leaving(q) /\ Paired(q)
    <2>1. Given \subseteq Op
      BY DEF Given
    <2>2. q \in Seq(Given) /\ Paired(q)
      BY DEF Rest
    <2>3. QED
      BY <1>1, <2>1, <2>2, SeqMonotonic
  <1>4. PICK t : t = Tail(q)
    OBVIOUS
  <1>5. t \in Seq(Op) /\ Leaving(t)
    BY <1>2, <1>3, <1>4, LeavingTail, HeadTailProperties
  <1>6. PICK r : r = rest \o t
    OBVIOUS
  <1>7. Leaving(r)
    BY <1>5, <1>6, LeavingThen
  <1>8. \A x : Has(r, x) <=> Has(rest, x) \/ Has(t, x)
    BY <1>5, <1>6, HasThen
  <1>9. \A x : Has(q, x) <=> x = op \/ Has(t, x)
    BY <1>2, <1>3, <1>4, HasTail
  <1>10. op \notin {"SUSPEND", "open", "await"} /\ (op = "SAVESTATE" => Len(q) = 2)
    BY <1>2, <1>3, LeavingTail
  <1>11. op = "SAVESTATE" => \A x : Has(q, x) => x \in {"SAVESTATE", "interrupt"}
    <2> SUFFICES ASSUME op = "SAVESTATE", NEW x, Has(q, x) PROVE x \in {"SAVESTATE", "interrupt"}
      OBVIOUS
    <2>1. Len(q) = 2 /\ q[1] = "SAVESTATE"
      BY <1>2, <1>3, <1>10
    <2>2. q[1 + 1] = "interrupt"
      BY <2>1, <1>3 DEF Paired
    <2>3. PICK i \in 1 .. 2 : q[i] = x
      BY <2>1 DEF Has
    <2>4. QED
      BY <2>1, <2>2, <2>3
  <1>12. todo'["draw"] = r /\ \A s \in {"shell", "compat"} : todo'[s] = todo[s]
    BY <1>2, <1>4, <1>6 DEF Handlers
  <1>13. QED
    BY <1>1, <1>2, <1>7, <1>8, <1>9, <1>10, <1>11, <1>12

\* The shell, AdrenalineCompat, or AdrenalineDraw opening the menu.
LEMMA EntryDoes ==
    ASSUME Handlers, NEW s \in Sender, NEW op, Does(s, op, <<>>),
           todo[s] \in Entry \cup EntryAwaited \cup
                       {<<"await">>, <<"LOADSTATE", "interrupt">>, <<"interrupt">>}
    PROVE  /\ todo'[s] = Tail(todo[s]) /\ op = Head(todo[s])
           /\ \A r \in Sender \ {s} : todo'[r] = todo[r]
  <1>1. PICK q \in Rest : q = todo[s]
    BY DEF Handlers
  <1>2. q # <<>> /\ Head(q) = op /\ todo' = [todo EXCEPT ![s] = <<>> \o Tail(q)]
    BY <1>1 DEF Does
  <1>3. Tail(q) \in Seq(Given)
    BY <1>2, TailRest DEF Rest
  <1>4. <<>> \o Tail(q) = Tail(q)
    BY <1>3, ConcatEmptySeq
  <1>5. QED
    BY <1>1, <1>2, <1>4 DEF Handlers

\* What a step that stores no command leaves as it should be.
Goes ==
    /\ Shapes'
    /\ OneMenu /\ SuspendMeant /\ ~spoiled' =>
           OneMenu' /\ SuspendMeant' /\ (MenuResumes /\ ~pops_mode => MenuResumes')

MenuSame == UNCHANGED <<menu_open, suspend, old_suspend, pops_mode>>

\* A step of AdrenalineDraw leaving the menu that is not about the menu itself.
LEMMA DrawGoes ==
    ASSUME Handlers, Shapes, Leaving(todo["draw"]), MenuSame,
           NEW op \in {"interrupt", "signal", "check", "loaded"}, NEW rest \in {<<>>, <<"exit">>},
           Does("draw", op, rest)
    PROVE  Goes
  <1>1. /\ rest \in Seq(Op) /\ Plain(rest)
        /\ ~Has(rest, "close") /\ ~Has(rest, "SAVESTATE")
    BY StepPlain, EmptyLeaving, EmptySeq
  <1>2. /\ Leaving(todo'["draw"]) /\ todo["draw"] # <<>>
        /\ \A x : Has(todo["draw"], x) => x = op \/ Has(todo'["draw"], x)
        /\ \A x : Has(todo'["draw"], x) => Has(rest, x) \/ Has(todo["draw"], x)
        /\ \A s \in {"shell", "compat"} : todo'[s] = todo[s]
    BY <1>1, DrawDoes
  <1>3. todo["draw"] \notin Entry /\ todo'["draw"] \notin Entry
    BY <1>2, EntryNotLeaving
  <1>4. Shapes'
    BY <1>2 DEF Shapes, ByShell
  <1>5. ASSUME OneMenu PROVE OneMenu'
    <2>1. ~Opens' /\ ~(todo["shell"] \in EntryAwaited)
      BY <1>2, <1>3, <1>5 DEF OneMenu, Opens
    <2>2. Has(todo'["draw"], "SAVESTATE") /\ menu_open =>
              Has(todo'["draw"], "exit") \/ Has(todo'["draw"], "close")
      BY <1>1, <1>2, <1>5 DEF OneMenu
    <2>3. QED
      BY <1>2, <2>1, <2>2 DEF OneMenu, MenuSame
  <1>7. SuspendToCome' <=> SuspendToCome
    BY <1>2, <1>3 DEF SuspendToCome, Entry
  <1>8. MenuResumes => MenuResumes'
    BY <1>1, <1>2, <1>3, <1>7 DEF MenuResumes, Opens, MenuSame
  <1>9. QED
    BY <1>4, <1>5, <1>7, <1>8 DEF Goes, SuspendMeant, MenuSame

\* Whose step it is.
LEMMA WhoSteps ==
    ASSUME Shapes, NEW s \in Sender, NEW op, NEW rest, Does(s, op, rest)
    PROVE  \/ s = "draw" /\ Leaving(todo["draw"])
           \/ s = "draw" /\ ~ByShell /\ todo["draw"] \in Entry /\ op = Head(todo["draw"])
           \/ s = "shell" /\ ByShell /\ todo["shell"] \in EntryAwaited \cup {<<"await">>}
              /\ op = Head(todo["shell"])
           \/ s = "compat" /\ todo["compat"] \in {<<"LOADSTATE", "interrupt">>, <<"interrupt">>}
              /\ op = Head(todo["compat"])
  BY DEF Shapes, Does

LEMMA DrawOnly ==
    ASSUME Shapes, NEW s \in Sender, NEW op \in {"exit", "close", "signal", "check", "loaded"}, NEW rest,
           Does(s, op, rest)
    PROVE  s = "draw" /\ Leaving(todo["draw"])
  BY WhoSteps DEF Entry, EntryAwaited

\* The menu has not been opened while AdrenalineDraw is leaving it.
LEMMA NotOpening ==
    ASSUME OneMenu, Leaving(todo["draw"]), todo["draw"] # <<>>
    PROVE  ~Opens /\ ~SuspendToCome
  <1>1. todo["draw"] \notin Entry
    BY EntryNotLeaving
  <1>2. QED
    BY <1>1 DEF OneMenu, Opens, SuspendToCome, Entry, EntryAwaited

LEMMA ExitGoes ==
    ASSUME Handlers, Shapes, NEW s \in Sender, Exit(s)
    PROVE  Goes
  <1>1. /\ Does(s, "exit", ExitAdrenalineMenu) /\ MenuSame
    BY DEF Exit, menu, psp, pspMemory, MenuSame
  <1>2. s = "draw" /\ Leaving(todo["draw"])
    BY <1>1, DrawOnly
  <1>3. PICK rest : rest = ExitAdrenalineMenu
    OBVIOUS
  <1>4. /\ rest \in Seq(Op) /\ Plain(rest)
        /\ Has(rest, "close") /\ (Resumes => Has(rest, "RESUME")) /\ ~Has(rest, "SAVESTATE")
    BY <1>3, ExitPlain
  <1>5. /\ Leaving(todo'["draw"]) /\ todo["draw"] # <<>>
        /\ \A x : Has(rest, x) => Has(todo'["draw"], x)
        /\ \A x : Has(todo["draw"], x) => x = "exit" \/ Has(todo'["draw"], x)
        /\ \A r \in {"shell", "compat"} : todo'[r] = todo[r]
    BY <1>1, <1>2, <1>3, <1>4, DrawDoes
  <1>6. todo'["draw"] \notin Entry
    BY <1>5, EntryNotLeaving
  <1>7. Shapes'
    BY <1>5 DEF Shapes, ByShell
  <1>8. ASSUME OneMenu, SuspendMeant
        PROVE  OneMenu' /\ SuspendMeant' /\ (MenuResumes /\ ~pops_mode => MenuResumes')
    <2>1. ~Opens /\ ~SuspendToCome
      BY <1>2, <1>5, <1>8, NotOpening
    <2>2. ~Opens' /\ ~SuspendToCome'
      BY <2>1, <1>5, <1>6 DEF Opens, SuspendToCome, Entry
    <2>3. OneMenu'
      BY <2>2, <1>4, <1>5 DEF OneMenu, Opens
    <2>4. MenuResumes /\ ~pops_mode => MenuResumes'
      BY <2>1, <1>4, <1>5 DEF MenuResumes, Resumes
    <2>5. QED
      BY <2>2, <2>3, <2>4 DEF SuspendMeant
  <1>9. QED
    BY <1>7, <1>8 DEF Goes

LEMMA CloseGoes ==
    ASSUME Handlers, Shapes, NEW s \in Sender, Close(s)
    PROVE  Goes
  <1>1. /\ Does(s, "close", When(moved, Send("REINSERT_MS"))) /\ menu_open' = FALSE
        /\ UNCHANGED <<suspend, old_suspend, pops_mode>>
    BY DEF Close, psp, pspMemory
  <1>2. s = "draw" /\ Leaving(todo["draw"])
    BY <1>1, DrawOnly
  <1>3. PICK rest : rest = When(moved, Send("REINSERT_MS"))
    OBVIOUS
  <1>4. rest \in Seq(Op) /\ Plain(rest)
    BY <1>3, SendPlain, EmptyLeaving, EmptySeq DEF When
  <1>5. /\ Leaving(todo'["draw"]) /\ todo["draw"] # <<>> /\ Has(todo["draw"], "close")
        /\ \A x : Has(todo["draw"], x) => x = "close" \/ Has(todo'["draw"], x)
        /\ \A r \in {"shell", "compat"} : todo'[r] = todo[r]
    BY <1>1, <1>2, <1>3, <1>4, DrawDoes
  <1>6. todo'["draw"] \notin Entry
    BY <1>5, EntryNotLeaving
  <1>7. Shapes'
    BY <1>5 DEF Shapes, ByShell
  <1>8. ASSUME OneMenu, SuspendMeant
        PROVE  OneMenu' /\ SuspendMeant' /\ (MenuResumes => MenuResumes')
    <2>1. ~Opens /\ ~SuspendToCome
      BY <1>2, <1>5, <1>8, NotOpening
    <2>2. ~Opens' /\ ~SuspendToCome'
      BY <2>1, <1>5, <1>6 DEF Opens, SuspendToCome, Entry
    <2>3. OneMenu'
      BY <2>2, <1>1 DEF OneMenu, Opens
    <2>4. MenuResumes => MenuResumes'
      BY <2>1, <1>5 DEF MenuResumes
    <2>5. QED
      BY <2>2, <2>3, <2>4 DEF SuspendMeant
  <1>9. QED
    BY <1>7, <1>8 DEF Goes

\* The steps of a handler that opens the menu, apart from its command.
LEMMA EntryGoes ==
    ASSUME Handlers, Shapes, NEW s \in {"draw", "shell"}, NEW op \in {"interrupt", "open"}, Does(s, op, <<>>),
           todo[s] \in Entry \cup EntryAwaited, s = "draw" => ~ByShell /\ todo[s] \in Entry,
           s = "shell" => ByShell /\ todo[s] \in EntryAwaited,
           UNCHANGED <<suspend, pops_mode>>,
           IF op = "open" THEN menu_open' = TRUE /\ old_suspend' = suspend
                          ELSE UNCHANGED <<menu_open, old_suspend>>
    PROVE  Goes
  <1>1. todo'[s] = Tail(todo[s]) /\ op = Head(todo[s]) /\ \A r \in Sender \ {s} : todo'[r] = todo[r]
    BY EntryDoes
  <1>2. CASE s = "draw"
    <2>1. todo["draw"] = IF op = "open" THEN <<"open">> ELSE <<"interrupt", "open">>
      BY <1>1, <1>2 DEF Entry
    <2>2. todo'["draw"] = IF op = "open" THEN <<>> ELSE <<"open">>
      BY <1>1, <1>2, <2>1
    <2>3. todo["shell"] = <<>> /\ todo'["shell"] = <<>> /\ todo'["compat"] = todo["compat"]
      BY <1>1, <1>2 DEF Shapes
    <2>4. Shapes'
      BY <1>2, <2>2, <2>3, EmptyLeaving DEF Shapes, Entry, ByShell
    <2>5. ~SuspendToCome /\ ~SuspendToCome' /\ Opens /\ (Opens' <=> op # "open")
      BY <2>1, <2>2, <2>3 DEF SuspendToCome, Opens, Entry, EntryAwaited
    <2>6. ~Has(todo["draw"], "RESUME") /\ ~Has(todo'["draw"], "SAVESTATE") /\ ~Has(todo'["draw"], "close")
      BY <2>1, <2>2, EntryHas DEF Entry
    <2>7. OneMenu => OneMenu'
      BY <2>3, <2>5, <2>6 DEF OneMenu, EntryAwaited
    <2>8. OneMenu /\ MenuResumes => MenuResumes'
      BY <2>5, <2>6 DEF MenuResumes, OneMenu
    <2>9. QED
      BY <2>4, <2>5, <2>7, <2>8 DEF Goes, SuspendMeant
  <1>3. CASE s = "shell"
    <2>1. todo["shell"] = IF op = "open" THEN <<"open", "await">> ELSE <<"interrupt", "open", "await">>
      BY <1>1, <1>3 DEF EntryAwaited
    <2>2. todo'["shell"] = IF op = "open" THEN <<"await">> ELSE <<"open", "await">>
      BY <1>1, <1>3, <2>1
    <2>3. todo'["draw"] = todo["draw"] /\ todo'["compat"] = todo["compat"] /\ todo["draw"] \notin Entry
      BY <1>1, <1>3, EntryNotLeaving DEF Shapes
    <2>4. Shapes'
      BY <1>3, <2>2, <2>3 DEF Shapes, EntryAwaited, ByShell
    <2>5. ~SuspendToCome /\ ~SuspendToCome' /\ Opens /\ (Opens' <=> op # "open")
      BY <2>1, <2>2, <2>3 DEF SuspendToCome, Opens, Entry, EntryAwaited
    <2>6. OneMenu => todo["draw"] = <<>> /\ todo'["draw"] = <<>>
      BY <1>3, <2>3 DEF OneMenu
    <2>7. OneMenu => OneMenu'
      BY <2>5, <2>6, EmptyLeaving DEF OneMenu
    <2>8. OneMenu /\ MenuResumes => MenuResumes'
      BY <2>5, <2>6, EmptyLeaving DEF MenuResumes, OneMenu
    <2>9. QED
      BY <2>4, <2>5, <2>7, <2>8 DEF Goes, SuspendMeant
  <1>4. QED
    BY <1>2, <1>3

PspSame ==
    /\ UNCHANGED <<psp_cmd, unread, ppc, pcmd, savestate_mode, pspMemory, state>>
    /\ spoiled => spoiled'

\* What the storing of a command leaves: one to suspend is followed by one to resume, and
\* a state is saved only when the latter has been stored.
StoreGoes ==
    /\ Shapes'
    /\ OneMenu /\ SuspendMeant =>
           /\ OneMenu' /\ SuspendMeant'
           /\ psp_cmd' = "SUSPEND" => ~pops_mode /\ ~MenuResumes /\ MenuResumes'
           /\ psp_cmd' = "SAVESTATE" => ~MenuResumes
           /\ psp_cmd' # "RESUME" /\ MenuResumes => MenuResumes'

LEMMA TailIs ==
    ASSUME NEW a, NEW b, NEW c, NEW d
    PROVE  /\ Tail(<<a>>) = <<>> /\ Tail(<<a, b>>) = <<b>>
           /\ Tail(<<a, b, c>>) = <<b, c>> /\ Tail(<<a, b, c, d>>) = <<b, c, d>>
  OBVIOUS

LEMMA StoreCommandGoes ==
    ASSUME Handlers, Shapes, NEW s \in Sender, StoreCommand(s)
    PROVE  StoreGoes
  <1>1. PICK op \in Command : Does(s, op, <<>>) /\ psp_cmd' = op
    BY DEF StoreCommand
  <1>2. MenuSame
    BY DEF StoreCommand, MenuSame, menu, pspMemory
  <1>3. CASE s = "draw" /\ Leaving(todo["draw"])
    <2>1. /\ Leaving(todo'["draw"]) /\ op # "SUSPEND" /\ todo["draw"] # <<>> /\ Has(todo["draw"], op)
          /\ \A x : Has(todo["draw"], x) => x = op \/ Has(todo'["draw"], x)
          /\ \A x : Has(todo'["draw"], x) => Has(todo["draw"], x)
          /\ op = "SAVESTATE" => \A x : Has(todo["draw"], x) => x \in {"SAVESTATE", "interrupt"}
          /\ \A r \in {"shell", "compat"} : todo'[r] = todo[r]
      <3>1. <<>> \in Seq(Op) /\ Plain(<<>>) /\ \A x : ~Has(<<>>, x)
        BY EmptyLeaving, EmptySeq
      <3>2. QED
        BY <1>1, <1>3, <3>1, DrawDoes
    <2>2. todo["draw"] \notin Entry /\ todo'["draw"] \notin Entry
      BY <1>3, <2>1, EntryNotLeaving
    <2>3. Shapes'
      BY <2>1 DEF Shapes, ByShell
    <2>4. ASSUME OneMenu, SuspendMeant
          PROVE  OneMenu' /\ SuspendMeant' /\ (op = "SAVESTATE" => ~MenuResumes)
                 /\ (op # "RESUME" /\ MenuResumes => MenuResumes')
      <3>1. ~Opens /\ ~SuspendToCome
        BY <1>3, <2>1, <2>4, NotOpening
      <3>2. ~Opens' /\ ~SuspendToCome'
        BY <3>1, <2>1, <2>2 DEF Opens, SuspendToCome, Entry
      <3>3. op \notin {"exit", "close"}
        OBVIOUS
      <3>4. OneMenu'
        BY <3>2, <3>3, <2>1, <2>4, <1>2 DEF OneMenu, Opens, MenuSame
      <3>5. op = "SAVESTATE" => ~MenuResumes
        BY <3>1, <2>1, <2>4 DEF MenuResumes, OneMenu
      <3>6. op # "RESUME" /\ MenuResumes => MenuResumes'
        BY <3>1, <2>1, <1>2 DEF MenuResumes, MenuSame
      <3>7. QED
        BY <3>2, <3>4, <3>5, <3>6 DEF SuspendMeant
    <2>5. QED
      BY <1>1, <2>1, <2>3, <2>4 DEF StoreGoes
  <1>4. CASE s = "draw" /\ ~ByShell /\ todo["draw"] \in Entry /\ op = Head(todo["draw"])
    <2>1. todo["draw"] = <<"SUSPEND", "interrupt", "open">> /\ op = "SUSPEND"
      BY <1>4 DEF Entry
    <2>2. /\ todo'["draw"] = <<"interrupt", "open">>
          /\ todo'["shell"] = todo["shell"] /\ todo'["compat"] = todo["compat"]
      <3>1. /\ todo'["draw"] = Tail(todo["draw"])
            /\ todo'["shell"] = todo["shell"] /\ todo'["compat"] = todo["compat"]
        BY <1>1, <1>4, EntryDoes
      <3>2. QED
        BY <3>1, <2>1, TailIs
    <2>3. todo["shell"] = <<>>
      BY <1>4 DEF Shapes
    <2>4. Shapes'
      BY <1>4, <2>2, <2>3 DEF Shapes, Entry, ByShell
    <2>5. SuspendToCome /\ ~SuspendToCome' /\ Opens /\ Opens'
      BY <2>1, <2>2, <2>3 DEF SuspendToCome, Opens, Entry, EntryAwaited
    <2>6. ~Has(todo["draw"], "RESUME") /\ ~Has(todo'["draw"], "SAVESTATE")
      BY <2>1, <2>2, EntryHas DEF Entry
    <2>7. OneMenu => OneMenu'
      BY <2>2, <2>3, <2>5, <2>6, <1>2 DEF OneMenu, EntryAwaited, MenuSame
    <2>8. OneMenu => ~MenuResumes
      BY <2>5, <2>6 DEF OneMenu, MenuResumes
    <2>9. SuspendMeant => ~pops_mode /\ MenuResumes'
      BY <2>5, <1>2 DEF MenuResumes, SuspendMeant, MenuSame
    <2>10. QED
      BY <1>1, <2>1, <2>4, <2>5, <2>7, <2>8, <2>9 DEF StoreGoes, SuspendMeant
  <1>5. CASE s = "shell" /\ ByShell /\ todo["shell"] \in EntryAwaited \cup {<<"await">>}
             /\ op = Head(todo["shell"])
    <2>1. todo["shell"] = <<"SUSPEND", "interrupt", "open", "await">> /\ op = "SUSPEND"
      BY <1>5 DEF EntryAwaited
    <2>2. /\ todo'["shell"] = <<"interrupt", "open", "await">>
          /\ todo'["draw"] = todo["draw"] /\ todo'["compat"] = todo["compat"]
      <3>1. /\ todo'["shell"] = Tail(todo["shell"])
            /\ todo'["draw"] = todo["draw"] /\ todo'["compat"] = todo["compat"]
        BY <1>1, <1>5, EntryDoes
      <3>2. QED
        BY <3>1, <2>1, TailIs
    <2>3. todo["draw"] \notin Entry
      BY <1>5, EntryNotLeaving DEF Shapes
    <2>4. Shapes'
      BY <1>5, <2>2 DEF Shapes, EntryAwaited, ByShell
    <2>5. SuspendToCome /\ ~SuspendToCome' /\ Opens /\ Opens'
      BY <2>1, <2>2, <2>3 DEF SuspendToCome, Opens, Entry, EntryAwaited
    <2>6. OneMenu => todo["draw"] = <<>> /\ todo'["draw"] = <<>>
      BY <1>5, <2>1, <2>2 DEF OneMenu, EntryAwaited
    <2>7. OneMenu => OneMenu'
      BY <2>5, <2>6, <1>2, EmptyLeaving DEF OneMenu, MenuSame
    <2>8. OneMenu => ~MenuResumes
      BY <2>5, <2>6, EmptyLeaving DEF OneMenu, MenuResumes
    <2>9. SuspendMeant => ~pops_mode /\ MenuResumes'
      BY <2>5, <1>2 DEF MenuResumes, SuspendMeant, MenuSame
    <2>10. QED
      BY <1>1, <2>1, <2>4, <2>5, <2>7, <2>8, <2>9 DEF StoreGoes, SuspendMeant
  <1>6. CASE s = "compat" /\ todo["compat"] \in {<<"LOADSTATE", "interrupt">>, <<"interrupt">>}
             /\ op = Head(todo["compat"])
    <2>1. todo["compat"] = <<"LOADSTATE", "interrupt">> /\ op = "LOADSTATE"
      BY <1>6
    <2>2. /\ todo'["compat"] = <<"interrupt">>
          /\ todo'["draw"] = todo["draw"] /\ todo'["shell"] = todo["shell"]
      <3>1. /\ todo'["compat"] = Tail(todo["compat"])
            /\ todo'["draw"] = todo["draw"] /\ todo'["shell"] = todo["shell"]
        BY <1>1, <1>6, EntryDoes
      <3>2. QED
        BY <3>1, <2>1, TailIs
    <2>3. Shapes'
      BY <2>2 DEF Shapes, ByShell
    <2>4. (OneMenu => OneMenu') /\ (SuspendMeant => SuspendMeant') /\ (MenuResumes => MenuResumes')
      BY <2>2, <1>2 DEF OneMenu, SuspendMeant, MenuResumes, Opens, SuspendToCome, MenuSame
    <2>5. QED
      BY <1>1, <2>1, <2>3, <2>4 DEF StoreGoes
  <1>7. QED
    BY <1>1, <1>3, <1>4, <1>5, <1>6, WhoSteps

LEMMA InterruptGoes ==
    ASSUME Handlers, Shapes, NEW s \in Sender, Interrupt(s)
    PROVE  Goes
  <1>1. Does(s, "interrupt", <<>>) /\ MenuSame
    BY DEF Interrupt, MenuSame, menu, pspMemory
  <1>2. CASE s = "draw" /\ Leaving(todo["draw"])
    BY <1>1, <1>2, DrawGoes
  <1>3. CASE s = "draw" /\ ~ByShell /\ todo["draw"] \in Entry
    BY <1>1, <1>3, EntryGoes DEF MenuSame
  <1>4. CASE s = "shell" /\ ByShell /\ todo["shell"] \in EntryAwaited
    BY <1>1, <1>4, EntryGoes DEF MenuSame
  <1>5. CASE s = "compat" /\ todo["compat"] \in {<<"LOADSTATE", "interrupt">>, <<"interrupt">>}
    <2>1. /\ "interrupt" = Head(todo["compat"]) /\ todo'["compat"] = Tail(todo["compat"])
          /\ todo'["draw"] = todo["draw"] /\ todo'["shell"] = todo["shell"]
      BY <1>1, <1>5, EntryDoes
    <2>2. todo'["compat"] = <<>>
      <3>1. todo["compat"] = <<"interrupt">>
        BY <1>5, <2>1
      <3>2. QED
        BY <2>1, <3>1, TailIs
    <2>3. Shapes'
      BY <2>1, <2>2 DEF Shapes, ByShell
    <2>4. (OneMenu => OneMenu') /\ (SuspendMeant => SuspendMeant') /\ (MenuResumes => MenuResumes')
      BY <2>1, <1>1 DEF OneMenu, SuspendMeant, MenuResumes, Opens, SuspendToCome, MenuSame
    <2>5. QED
      BY <2>3, <2>4 DEF Goes
  <1>6. QED
    BY <1>1, <1>2, <1>3, <1>4, <1>5, WhoSteps

LEMMA OpenGoes ==
    ASSUME Handlers, Shapes, NEW s \in Sender, Open(s)
    PROVE  Goes
  <1>1. /\ Does(s, "open", <<>>) /\ menu_open' = TRUE /\ old_suspend' = suspend
        /\ UNCHANGED <<suspend, pops_mode>>
    BY DEF Open, psp, pspMemory
  <1>2. ~(s = "draw" /\ Leaving(todo["draw"]))
    BY <1>1, EmptyLeaving, EmptySeq, DrawDoes
  <1>3. CASE s = "draw" /\ ~ByShell /\ todo["draw"] \in Entry
    BY <1>1, <1>3, EntryGoes
  <1>4. CASE s = "shell" /\ ByShell /\ todo["shell"] \in EntryAwaited
    BY <1>1, <1>4, EntryGoes
  <1>5. QED
    BY <1>1, <1>2, <1>3, <1>4, WhoSteps

\* A handler begins.
LEMMA BeginGoes ==
    ASSUME Handlers, Shapes, MenuTypes,
           PsButtonMenu \/ MenuOption \/ CtrlMenu \/ SettingsHandler \/ AutoLoadState
    PROVE  Goes
  <1> USE DEF psp, pspMemory, menu
  <1>1. CASE PsButtonMenu
    <2>1. /\ ~ByShell /\ ~menu_open /\ todo["draw"] = <<>> /\ MenuSame
          /\ todo' = [todo EXCEPT !["draw"] = EnterAdrenalineMenu]
      BY <1>1 DEF PsButtonMenu, Round, MenuSame
    <2>2. todo'["draw"] = EnterAdrenalineMenu /\ todo["shell"] = <<>> /\ todo'["shell"] = <<>>
          /\ todo'["compat"] = todo["compat"]
      BY <2>1 DEF Handlers, Shapes
    <2>3. /\ todo'["draw"] \in Entry
          /\ todo'["draw"] = <<"SUSPEND", "interrupt", "open">> => suspend /\ ~pops_mode
      <3>1. CASE suspend /\ ~pops_mode
        BY <2>2, <3>1, EnterIs DEF Entry
      <3>2. CASE ~(suspend /\ ~pops_mode)
        <4>1. todo'["draw"] = <<"open">>
          BY <2>2, <3>2, EnterIs
        <4>2. <<"open">> # <<"SUSPEND", "interrupt", "open">>
          OBVIOUS
        <4>3. QED
          BY <4>1, <4>2 DEF Entry
      <3>3. QED
        BY <3>1, <3>2
    <2>4. Shapes'
      BY <2>1, <2>2, <2>3 DEF Shapes, ByShell
    <2>5. SuspendToCome' => suspend /\ ~pops_mode
      BY <2>2, <2>3 DEF SuspendToCome
    <2>6. ~Has(todo'["draw"], "SAVESTATE")
      BY <2>3, EntryHas
    <2>7. OneMenu'
      BY <2>1, <2>2, <2>6 DEF OneMenu, MenuSame, EntryAwaited
    <2>8. ~MenuResumes
      BY <2>1, <2>2, EmptyLeaving DEF MenuResumes, Opens, Entry, EntryAwaited
    <2>9. QED
      BY <2>1, <2>4, <2>5, <2>7, <2>8 DEF Goes, SuspendMeant, MenuSame
  <1>2. CASE MenuOption
    <2>1. /\ menu_open /\ todo["draw"] = <<>> /\ UNCHANGED <<menu_open, old_suspend, pops_mode>>
          /\ todo' = [todo EXCEPT !["draw"] = <<>>]
      BY <1>2 DEF MenuOption, Round
    <2>2. \A s \in Sender : todo'[s] = todo[s]
      BY <2>1 DEF Handlers
    <2>3. Shapes' /\ (OneMenu => OneMenu')
      BY <2>1, <2>2 DEF Shapes, OneMenu, Opens, ByShell
    <2>4. OneMenu => ~Opens /\ ~Opens' /\ ~SuspendToCome'
      BY <2>1, <2>2 DEF OneMenu, Opens, SuspendToCome, Entry, EntryAwaited
    <2>5. OneMenu /\ MenuResumes => MenuResumes'
      BY <2>1, <2>2, <2>4 DEF MenuResumes
    <2>6. QED
      BY <2>3, <2>4, <2>5 DEF Goes, SuspendMeant
  <1>3. CASE CtrlMenu
    <2>1. PICK n \in 0 .. MaxLeaves : \E choice \in MenuChoice(n) : Round(Leaves(n) \o choice)
      BY <1>3 DEF CtrlMenu
    <2>2. PICK choice \in MenuChoice(n) : Round(Leaves(n) \o choice)
      BY <2>1
    <2>3. PICK q : q = Leaves(n) \o choice
      OBVIOUS
    <2>4. Leaving(q) /\ ~Has(q, "close") /\ (Has(q, "SAVESTATE") => Has(q, "exit"))
      BY <2>3, RoundLeaving
    <2>5. /\ menu_open /\ todo["draw"] = <<>> /\ MenuSame
          /\ todo' = [todo EXCEPT !["draw"] = q]
      BY <1>3, <2>2, <2>3 DEF CtrlMenu, Round, MenuSame
    <2>6. todo'["draw"] = q /\ todo'["shell"] = todo["shell"] /\ todo'["compat"] = todo["compat"]
      BY <2>5 DEF Handlers
    <2>7. q \notin Entry
      BY <2>4, EntryNotLeaving
    <2>8. Shapes'
      BY <2>4, <2>6 DEF Shapes, ByShell
    <2>9. OneMenu => ~Opens /\ ~Opens' /\ ~SuspendToCome' /\ OneMenu'
      BY <2>4, <2>5, <2>6, <2>7 DEF OneMenu, Opens, SuspendToCome, Entry, EntryAwaited, MenuSame
    <2>10. OneMenu /\ MenuResumes => MenuResumes'
      BY <2>4, <2>5, <2>6, <2>9, EmptyLeaving DEF MenuResumes, MenuSame
    <2>11. QED
      BY <2>8, <2>9, <2>10 DEF Goes, SuspendMeant
  <1>4. CASE SettingsHandler
    <2>1. /\ ByShell /\ todo["shell"] = <<>> /\ MenuSame
          /\ todo' = [todo EXCEPT !["shell"] = EnterAdrenalineMenu \o <<"await">>]
          /\ ~spoiled' => ~menu_open /\ todo["draw"] = <<>>
      BY <1>4 DEF SettingsHandler, MenuSame
    <2>2. /\ todo'["shell"] = EnterAdrenalineMenu \o <<"await">>
          /\ todo'["draw"] = todo["draw"] /\ todo'["compat"] = todo["compat"]
      BY <2>1 DEF Handlers
    <2>3. /\ todo'["shell"] \in EntryAwaited
          /\ todo'["shell"] = <<"SUSPEND", "interrupt", "open", "await">> => suspend /\ ~pops_mode
      <3>1. CASE suspend /\ ~pops_mode
        BY <2>2, <3>1, EnterIs DEF EntryAwaited
      <3>2. CASE ~(suspend /\ ~pops_mode)
        <4>1. todo'["shell"] = <<"open", "await">>
          BY <2>2, <3>2, EnterIs
        <4>2. <<"open", "await">> # <<"SUSPEND", "interrupt", "open", "await">>
          OBVIOUS
        <4>3. QED
          BY <4>1, <4>2 DEF EntryAwaited
      <3>3. QED
        BY <3>1, <3>2
    <2>4. Shapes'
      BY <2>1, <2>2, <2>3 DEF Shapes, ByShell
    <2>5. todo["draw"] \notin Entry
      BY <2>1, EntryNotLeaving DEF Shapes
    <2>6. SuspendToCome' => suspend /\ ~pops_mode
      BY <2>2, <2>3, <2>5 DEF SuspendToCome, Entry
    <2>7. ~spoiled' => OneMenu'
      BY <2>1, <2>2, EmptyLeaving DEF OneMenu, MenuSame
    <2>8. ~spoiled' => ~MenuResumes
      BY <2>1, <2>5, EmptyLeaving DEF MenuResumes, Opens, EntryAwaited
    <2>9. QED
      BY <2>1, <2>4, <2>6, <2>7, <2>8 DEF Goes, SuspendMeant, MenuSame
  <1>5. CASE AutoLoadState
    <2>1. todo["compat"] = <<>> /\ MenuSame /\ todo' = [todo EXCEPT !["compat"] = Send("LOADSTATE")]
      BY <1>5 DEF AutoLoadState, MenuSame
    <2>2. /\ todo'["compat"] = <<"LOADSTATE", "interrupt">>
          /\ todo'["draw"] = todo["draw"] /\ todo'["shell"] = todo["shell"]
      BY <2>1 DEF Handlers, Send
    <2>3. Shapes'
      BY <2>2 DEF Shapes, ByShell
    <2>4. (OneMenu => OneMenu') /\ (SuspendMeant => SuspendMeant') /\ (MenuResumes => MenuResumes')
      BY <2>1, <2>2 DEF OneMenu, SuspendMeant, MenuResumes, Opens, SuspendToCome, MenuSame
    <2>5. QED
      BY <2>3, <2>4 DEF Goes
  <1>6. QED
    BY <1>1, <1>2, <1>3, <1>4, <1>5

LEMMA AwaitGoes ==
    ASSUME Handlers, Shapes, NEW s \in Sender, Await(s)
    PROVE  Goes
  <1>1. Does(s, "await", <<>>) /\ MenuSame
    BY DEF Await, MenuSame, psp, pspMemory
  <1>2. ~(s = "draw" /\ Leaving(todo["draw"]))
    BY <1>1, EmptyLeaving, EmptySeq, DrawDoes
  <1>3. s = "shell" /\ todo["shell"] = <<"await">>
    BY <1>1, <1>2, WhoSteps DEF Entry, EntryAwaited
  <1>4. todo'["shell"] = <<>> /\ todo'["draw"] = todo["draw"] /\ todo'["compat"] = todo["compat"]
    <2>1. /\ todo'["shell"] = Tail(todo["shell"])
          /\ todo'["draw"] = todo["draw"] /\ todo'["compat"] = todo["compat"]
      BY <1>1, <1>3, EntryDoes
    <2>2. QED
      BY <2>1, <1>3, TailIs
  <1>5. Shapes'
    BY <1>4 DEF Shapes, ByShell
  <1>6. (Opens' <=> Opens) /\ (SuspendToCome' <=> SuspendToCome)
    BY <1>3, <1>4 DEF Opens, SuspendToCome, EntryAwaited
  <1>7. (OneMenu => OneMenu') /\ (SuspendMeant => SuspendMeant') /\ (MenuResumes => MenuResumes')
    BY <1>1, <1>3, <1>4, <1>6 DEF OneMenu, SuspendMeant, MenuResumes, MenuSame, EntryAwaited
  <1>8. QED
    BY <1>5, <1>7 DEF Goes

MenuStep ==
    \/ Goes /\ PspSame
    \/ StoreGoes /\ \E s \in Sender : StoreCommand(s)
    \/ PspSide /\ UNCHANGED <<todo, menu_open, suspend, old_suspend>>

LEMMA NextGoes ==
    ASSUME Handlers, Shapes, MenuTypes, [Next]_vars
    PROVE  MenuStep
  <1> USE DEF psp, pspMemory, menu
  <1>1. CASE UNCHANGED vars
    BY <1>1 DEF vars, MenuStep, Goes, PspSame, Shapes, ByShell, OneMenu, SuspendMeant, MenuResumes,
       Opens, SuspendToCome
  <1>2. CASE PsButtonMenu \/ MenuOption \/ CtrlMenu \/ SettingsHandler \/ AutoLoadState
    <2>1. PspSame
      <3>1. ASSUME NEW ops, Round(ops) PROVE PspSame
        BY <3>1 DEF Round, PspSame
      <3>2. CASE PsButtonMenu
        BY <3>1, <3>2 DEF PsButtonMenu
      <3>3. CASE MenuOption
        BY <3>1, <3>3 DEF MenuOption
      <3>4. CASE CtrlMenu
        BY <3>1, <3>4 DEF CtrlMenu
      <3>5. CASE SettingsHandler
        BY <3>5 DEF SettingsHandler, PspSame
      <3>6. CASE AutoLoadState
        BY <3>6 DEF AutoLoadState, PspSame
      <3>7. QED
        BY <1>2, <3>2, <3>3, <3>4, <3>5, <3>6
    <2>2. QED
      BY <1>2, <2>1, BeginGoes DEF MenuStep
  <1>3. ASSUME NEW s \in Sender, StoreCommand(s) PROVE MenuStep
    BY <1>3, StoreCommandGoes DEF MenuStep
  <1>4. ASSUME NEW s \in Sender, Interrupt(s) PROVE MenuStep
    <2>1. PspSame
      BY <1>4 DEF Interrupt, PspSame
    <2>2. QED
      BY <1>4, <2>1, InterruptGoes DEF MenuStep
  <1>5. ASSUME NEW s \in Sender, Open(s) \/ Exit(s) \/ Close(s) \/ Await(s) PROVE MenuStep
    <2>1. PspSame
      BY <1>5 DEF Open, Exit, Close, Await, PspSame
    <2>2. QED
      BY <1>5, <2>1, OpenGoes, ExitGoes, CloseGoes, AwaitGoes DEF MenuStep
  <1>6. ASSUME NEW s \in Sender, Signal(s) \/ Check(s) \/ Loaded(s) PROVE MenuStep
    <2>1. PspSame /\ MenuSame
      BY <1>6 DEF Signal, Check, Loaded, PspSame, MenuSame
    <2>2. PICK op \in {"signal", "check", "loaded"}, rest \in {<<>>, <<"exit">>} : Does(s, op, rest)
      BY <1>6 DEF Signal, Check, Loaded, When
    <2>3. s = "draw" /\ Leaving(todo["draw"])
      BY <2>2, DrawOnly
    <2>4. QED
      BY <2>1, <2>2, <2>3, DrawGoes DEF MenuStep
  <1>7. CASE PspSide
    BY <1>7 DEF MenuStep, PspSide, PspStep, PspStart, PspWait, PspSwitch, PspSuspendOperation, PspClear,
       PspSuspend, PspResume, PspAction, SaveState, LoadState, ResumeCompleted, InitAdrenaline,
       InitAdrenalineInfo, PspExit, PspProgram
  <1>8. QED
    BY <1>1, <1>2, <1>3, <1>4, <1>5, <1>6, <1>7 DEF Next, SenderStep, PspSide

-----------------------------------------------------------------------------
(* The steps of the PSP *)

\* No thread is suspended by Adrenaline.
Free == \A t \in Thread : status[t] # "adrenaline"

LEMMA ComingPending == SuspendToCome => SuspendPending
  <1>1. CASE todo["shell"] = <<"SUSPEND", "interrupt", "open", "await">>
    <2>1. 1 \in DOMAIN todo["shell"] /\ todo["shell"][1] = "SUSPEND"
      BY <1>1
    <2>2. QED
      BY <2>1 DEF SuspendPending
  <1>2. CASE todo["draw"] = <<"SUSPEND", "interrupt", "open">>
    <2>1. 1 \in DOMAIN todo["draw"] /\ todo["draw"][1] = "SUSPEND"
      BY <1>2
    <2>2. QED
      BY <2>1 DEF SuspendPending
  <1>3. QED
    BY <1>1, <1>2 DEF SuspendToCome

LEMMA MenuKept ==
    ASSUME UNCHANGED <<todo, menu_open, suspend, old_suspend>>
    PROVE  /\ Shapes => Shapes'
           /\ OneMenu => OneMenu'
           /\ MenuResumes' <=> MenuResumes
           /\ SuspendToCome' <=> SuspendToCome
  BY DEF Shapes, ByShell, OneMenu, MenuResumes, Opens, SuspendToCome

\* Every thread that SuspendThreads suspends is in the part of the list that
\* ResumeThreads looks at, although the former reads a word further.
LEMMA SuspendListed ==
    ASSUME ListTypes, Free, PspSuspend
    PROVE  InList'
  <1>1. PICK ids \in Orders(live \cup {Self}) :
          /\ threads' = Listed(ids)
          /\ thread_count' = Len(ids)
          /\ suspended_count' = Len(ids)
          /\ status' = [t \in Thread |->
                          IF t \in live \cap Suspended(threads', Len(ids)) /\ status[t] = "ready"
                          THEN "adrenaline" ELSE status[t]]
    BY DEF PspSuspend
  <1>2. /\ Len(ids) \in 0 .. MAX_THREADS - 1
        /\ \A i \in 1 .. Len(ids) : ids[i] \in live \cup {Self}
    BY ListHasRoom DEF ListTypes
  <1>3. \A t \in live \cup {Self} : \E i \in DOMAIN ids : ids[i] = t
    BY DEF Orders
  <1>4. DOMAIN ids = 1 .. Len(ids)
    <2>1. PICK n : n = Cardinality(live \cup {Self})
      OBVIOUS
    <2>2. ids \in [1 .. n -> live \cup {Self}]
      BY <2>1 DEF Orders
    <2>3. IsFiniteSet(live \cup {Self})
      BY FS_Subset, FS_AddElement DEF ListTypes
    <2>4. n \in Nat
      BY <2>1, <2>3, FS_CardinalityType
    <2>5. ids \in Seq(live \cup {Self})
      BY <2>2, <2>4
    <2>6. QED
      BY <2>5, LenProperties
  <1>5. ASSUME NEW t \in Thread, status'[t] = "adrenaline"
        PROVE  suspended_count' > 0 /\ \E i \in 0 .. thread_count' - 1 : threads'[i] = t
    <2>1. t \in live /\ status[t] = "ready"
      BY <1>1, <1>5 DEF Free
    <2>2. PICK i \in 1 .. Len(ids) : ids[i] = t
      BY <1>3, <1>4, <2>1
    <2>3. i - 1 \in 0 .. Len(ids) - 1 /\ i - 1 \in 0 .. MAX_THREADS - 1 /\ i - 1 + 1 = i /\ Len(ids) > 0
      BY <1>2, <2>2
    <2>4. Listed(ids)[i - 1] = t
      <3>1. i - 1 \in DOMAIN threads
        BY <2>3 DEF ListTypes
      <3>2. ~(i - 1 >= Len(ids))
        BY <1>2, <2>3
      <3>3. ids[i - 1 + 1] # Self /\ status[ids[i - 1 + 1]] = "ready"
        BY <2>1, <2>2, <2>3
      <3>4. QED
        BY <2>2, <2>3, <3>1, <3>2, <3>3 DEF Listed
    <2>5. QED
      BY <1>1, <2>3, <2>4
  <1>6. QED
    BY <1>5 DEF InList

\* And ResumeThreads resumes all of them.
LEMMA AllResumed ==
    ASSUME ListTypes, InList, ResumeThreads PROVE Free' /\ InList'
  <1>1. \A t \in Thread : status'[t] # "adrenaline"
    BY DEF ResumeThreads, InList, ListTypes
  <1>2. QED
    BY <1>1 DEF Free, InList

LEMMA PspSpoiled == ASSUME spoiled, PspSide PROVE spoiled'
  <1>1. CASE LoadState
    <2>1. CASE state = NoState
      BY <1>1, <2>1 DEF LoadState
    <2>2. CASE state # NoState
      BY <1>1, <2>2 DEF LoadState
    <2>3. QED
      BY <2>1, <2>2
  <1>2. CASE PspWait \/ PspSwitch \/ PspSuspendOperation \/ PspClear
    BY <1>2 DEF PspWait, PspSwitch, PspSuspendOperation, PspClear
  <1>3. CASE PspSuspend \/ PspResume \/ PspAction \/ PspExit \/ PspProgram
    BY <1>3 DEF PspSuspend, PspResume, PspAction, PspExit, PspProgram
  <1>4. CASE SaveState \/ ResumeCompleted \/ InitAdrenaline \/ InitAdrenalineInfo
    BY <1>4 DEF SaveState, ResumeCompleted, InitAdrenaline, InitAdrenalineInfo
  <1>5. QED
    BY <1>1, <1>2, <1>3, <1>4 DEF PspSide, PspStep, PspStart

LEMMA PspCarriesOut == ASSUME CarriesOut, PspSide PROVE CarriesOut'
  <1> USE DEF CarriesOut
  <1>1. CASE PspWait \/ PspSwitch \/ PspSuspendOperation \/ PspClear
    BY <1>1 DEF PspWait, PspSwitch, PspSuspendOperation, PspClear
  <1>2. CASE PspSuspend \/ PspResume \/ PspAction \/ PspExit \/ PspProgram
    BY <1>2 DEF PspSuspend, PspResume, PspAction, PspExit, PspProgram
  <1>3. CASE SaveState \/ LoadState \/ ResumeCompleted \/ InitAdrenaline \/ InitAdrenalineInfo
    BY <1>3 DEF SaveState, LoadState, ResumeCompleted, InitAdrenaline, InitAdrenalineInfo
  <1>4. QED
    BY <1>1, <1>2, <1>3 DEF PspSide, PspStep, PspStart

\* Only another program, or a loaded state, changes pops_mode.
LEMMA PspMeant ==
    ASSUME SuspendMeant, UNCHANGED <<todo, menu_open, suspend, old_suspend>>, PspSide, ~spoiled'
    PROVE  SuspendMeant'
  <1>1. SuspendToCome' <=> SuspendToCome
    BY MenuKept
  <1>2. CASE LoadState
    <2>1. CASE state = NoState
      BY <1>1, <1>2, <2>1 DEF LoadState, SuspendMeant, pspMemory
    <2>2. CASE state # NoState
      BY <1>1, <1>2, <2>2, ComingPending DEF LoadState, SuspendMeant
    <2>3. QED
      BY <2>1, <2>2
  <1>3. CASE InitAdrenalineInfo
    BY <1>1, <1>3, ComingPending DEF InitAdrenalineInfo, SuspendMeant
  <1>4. ASSUME pops_mode' = pops_mode PROVE SuspendMeant'
    BY <1>1, <1>4 DEF SuspendMeant
  <1>5. CASE PspWait \/ PspSwitch \/ PspSuspendOperation \/ PspClear
    BY <1>4, <1>5 DEF PspWait, PspSwitch, PspSuspendOperation, PspClear, pspMemory
  <1>6. CASE PspSuspend \/ PspResume \/ PspAction \/ PspExit \/ PspProgram
    BY <1>4, <1>6 DEF PspSuspend, PspResume, PspAction, PspExit, PspProgram, pspMemory
  <1>7. CASE SaveState \/ ResumeCompleted \/ InitAdrenaline
    BY <1>4, <1>7 DEF SaveState, ResumeCompleted, InitAdrenaline, pspMemory
  <1>8. QED
    BY <1>2, <1>3, <1>5, <1>6, <1>7 DEF PspSide, PspStep, PspStart

LEMMA PspKeeps ==
    ASSUME Types, ToldOnce, CarriesOut, Suspension, InList, SavedResumed, ~spoiled, ~spoiled',
           PspSide, MenuResumes' <=> MenuResumes
    PROVE  Suspension' /\ InList' /\ SavedResumed'
  <1> DEFINE Good == Suspension' /\ InList' /\ SavedResumed'
  <1> USE DEF pspMemory
  <1>1. (Held <=> ppc # "down" /\ ~Free) /\ (Held' <=> ppc' # "down" /\ ~Free')
    BY DEF Held, Free
  <1>2. ppc = "switch" => unread
    BY DEF ToldOnce
  <1>3. (ResumeUnread <=> psp_cmd = "RESUME" /\ unread)
        /\ (ResumeUnread' <=> psp_cmd' = "RESUME" /\ unread')
    BY DEF ResumeUnread
  <1>4. \/ state = NoState \/ state.spoiled
        \/ \A t \in Thread : state.status[t] # "adrenaline"
    BY DEF SavedResumed
  <1>5. ASSUME UNCHANGED <<status, threads, thread_count, suspended_count>>
        PROVE  InList' /\ (Free' <=> Free)
    BY <1>5 DEF InList, Free
  <1>6. ASSUME UNCHANGED state,
               psp_cmd' = "SAVESTATE" /\ unread' => pcmd' # "SUSPEND" /\ (Held' => pcmd' = "RESUME"),
               ppc' = "power" /\ savestate_mode' = "SAVESTATE" => ~Held'
        PROVE  SavedResumed'
    BY <1>6 DEF SavedResumed
  <1>7. /\ psp_cmd = "SAVESTATE" /\ unread => pcmd # "SUSPEND" /\ (Held => pcmd = "RESUME")
        /\ ppc = "power" /\ savestate_mode = "SAVESTATE" => ~Held
    BY DEF SavedResumed
  <1>8. CASE PspWait
    <2>1. /\ UNCHANGED <<psp_cmd, unread, pcmd, savestate_mode, pops_mode, inited, status, threads,
                         thread_count, suspended_count, state>>
          /\ ppc = "wait" /\ ppc' = "switch"
      BY <1>8 DEF PspWait
    <2>2. InList' /\ (Held' <=> Held)
      BY <2>1, <1>1, <1>5
    <2>3. Suspension'
      BY <2>1, <2>2, <1>3 DEF Suspension
    <2>4. QED
      BY <2>1, <2>2, <2>3, <1>6, <1>7
  <1>9. CASE PspSwitch
    <2>1. /\ UNCHANGED <<psp_cmd, savestate_mode, pops_mode, inited, status, threads,
                         thread_count, suspended_count, state>>
          /\ ppc = "switch" /\ ~unread' /\ inited /\ pcmd = "NONE"
          /\ IF psp_cmd \in Cleared THEN ppc' = "clear" /\ pcmd' = psp_cmd
             ELSE ppc' = "wait" /\ pcmd' = "NONE"
      BY <1>2, <1>9 DEF PspSwitch, CarriesOut
    <2>2. InList' /\ (Held' <=> Held)
      BY <2>1, <1>1, <1>5
    <2>3. Suspension'
      BY <2>1, <2>2, <1>2, <1>3 DEF Suspension
    <2>4. QED
      BY <2>1, <2>2, <2>3, <1>6
  <1>10. CASE PspSuspendOperation
    <2>1. /\ UNCHANGED <<psp_cmd, pcmd, pops_mode, inited, status, threads,
                         thread_count, suspended_count, state>>
          /\ ppc = "switch" /\ ~unread' /\ pcmd = "NONE"
          /\ psp_cmd \in {"SAVESTATE", "LOADSTATE"} /\ savestate_mode' = psp_cmd /\ ppc' = "power"
      BY <1>10 DEF PspSuspendOperation, CarriesOut
    <2>2. InList' /\ (Held' <=> Held)
      BY <2>1, <1>1, <1>5
    <2>3. Suspension'
      BY <2>1, <2>2, <1>3 DEF Suspension
    <2>4. psp_cmd = "SAVESTATE" => ~Held
      BY <2>1, <1>2, <1>7
    <2>5. QED
      BY <2>1, <2>2, <2>3, <2>4, <1>6
  <1>11. CASE PspClear
    <2>1. /\ UNCHANGED <<pcmd, savestate_mode, pops_mode, inited, status, threads,
                         thread_count, suspended_count, state>>
          /\ ppc = "clear" /\ psp_cmd' = "NONE" /\ ppc' = "run" /\ ~unread /\ ~unread'
      BY <1>11 DEF PspClear
    <2>2. InList' /\ (Held' <=> Held)
      BY <2>1, <1>1, <1>5
    <2>3. Suspension'
      BY <2>1, <2>2, <1>3 DEF Suspension
    <2>4. QED
      BY <2>1, <2>2, <2>3, <1>6
  <1>12. CASE PspSuspend
    <2>1. /\ UNCHANGED <<psp_cmd, unread, savestate_mode, pops_mode, inited, state>>
          /\ ppc = "run" /\ pcmd = "SUSPEND" /\ ppc' = "wait" /\ pcmd' = "NONE"
      BY <1>12 DEF PspSuspend
    <2>2. Free /\ ~pops_mode /\ (MenuResumes \/ ResumeUnread) /\ inited
      BY <2>1, <1>1 DEF Suspension
    <2>3. InList'
      BY <1>12, <2>2, SuspendListed DEF Types
    <2>4. Suspension'
      BY <2>1, <2>2, <1>3 DEF Suspension
    <2>5. QED
      BY <2>1, <2>3, <2>4, <1>6, <1>7
  <1>13. CASE PspResume \/ PspAction
    <2>1. /\ UNCHANGED <<psp_cmd, unread, savestate_mode, pops_mode, inited, state>>
          /\ pcmd # "SUSPEND" /\ ppc' \in {"wait", "down"} /\ pcmd' = "NONE" /\ ResumeThreads
      BY <1>13 DEF PspResume, PspAction
    <2>2. ~Held' /\ InList'
      BY <2>1, <1>1, AllResumed DEF Types
    <2>3. Suspension'
      BY <2>1, <2>2, <1>3 DEF Suspension
    <2>4. QED
      BY <2>1, <2>2, <2>3, <1>6
  <1>14. CASE PspExit
    <2>1. /\ UNCHANGED <<psp_cmd, unread, savestate_mode, pops_mode, inited, status, threads,
                         thread_count, suspended_count, state>>
          /\ inited /\ ppc' = "down" /\ pcmd' = "NONE"
      BY <1>14 DEF PspExit
    <2>2. ~Held' /\ InList'
      BY <2>1, <1>1, <1>5
    <2>3. Suspension'
      BY <2>1, <2>2 DEF Suspension
    <2>4. QED
      BY <2>1, <2>2, <2>3, <1>6
  <1>15. CASE InitAdrenaline
    <2>1. /\ UNCHANGED <<psp_cmd, unread, pcmd, savestate_mode, pops_mode, state>>
          /\ ppc = "down" /\ pcmd = "NONE" /\ ppc' = "wait"
          /\ status' = [t \in Thread |-> "ready"]
      BY <1>15 DEF InitAdrenaline, CarriesOut
    <2>2. Free' /\ InList'
      BY <2>1 DEF Free, InList
    <2>3. Suspension'
      BY <2>1, <2>2, <1>1 DEF Suspension
    <2>4. QED
      BY <2>1, <2>2, <2>3, <1>1, <1>6
  <1>16. CASE InitAdrenalineInfo
    <2>1. /\ UNCHANGED <<ppc, pcmd, status, threads, thread_count, suspended_count, state>>
          /\ ~inited /\ inited' /\ psp_cmd' = "NONE" /\ savestate_mode' = "NONE" /\ ~unread'
      BY <1>16 DEF InitAdrenalineInfo
    <2>2. InList' /\ (Held' <=> Held)
      BY <2>1, <1>1, <1>5
    <2>3. ~Held /\ pcmd # "SUSPEND"
      BY <2>1 DEF Suspension
    <2>4. Suspension'
      BY <2>1, <2>2, <2>3 DEF Suspension
    <2>5. QED
      BY <2>1, <2>2, <2>4, <1>6
  <1>17. CASE PspProgram
    <2>1. /\ UNCHANGED <<psp_cmd, unread, ppc, pcmd, savestate_mode, pops_mode, inited, threads,
                         thread_count, suspended_count, state>>
          /\ ppc = "wait" /\ inited
      BY <1>17 DEF PspProgram
    <2>2. \A t \in Thread : status'[t] = "adrenaline" => status[t] = "adrenaline"
      BY <1>17 DEF PspProgram, Types, ListTypes, Status
    <2>3. InList' /\ (Free => Free')
      BY <2>1, <2>2 DEF InList, Free
    <2>4. Held' => Held
      BY <2>1, <2>3, <1>1
    <2>5. Suspension'
      BY <2>1, <2>4, <1>3 DEF Suspension
    <2>6. QED
      BY <2>1, <2>3, <2>4, <2>5, <1>6, <1>7
  <1>18. CASE SaveState
    <2>1. /\ UNCHANGED <<psp_cmd, unread, pcmd, savestate_mode, pops_mode, inited, status, threads,
                         thread_count, suspended_count>>
          /\ ppc = "power" /\ savestate_mode = "SAVESTATE" /\ ppc' = "resume" /\ state'.status = status
      BY <1>18 DEF SaveState
    <2>2. InList' /\ Free /\ ~Held' /\ ~Held
      BY <2>1, <1>1, <1>5, <1>7
    <2>3. Suspension'
      BY <2>1, <2>2, <1>3 DEF Suspension
    <2>4. SavedResumed'
      BY <2>1, <2>2, <1>7 DEF SavedResumed, Free
    <2>5. QED
      BY <2>2, <2>3, <2>4
  <1>19. CASE LoadState
    <2>1. UNCHANGED <<pcmd, savestate_mode, state>> /\ ppc = "power" /\ ppc' = "resume" /\ pcmd = "NONE"
      BY <1>19 DEF LoadState, CarriesOut
    <2>2. CASE state = NoState
      <3>1. UNCHANGED <<psp_cmd, unread, pops_mode, inited, status, threads, thread_count, suspended_count>>
        BY <1>19, <2>2 DEF LoadState
      <3>2. InList' /\ (Held' <=> Held)
        BY <2>1, <3>1, <1>1, <1>5
      <3>3. Suspension'
        BY <2>1, <3>1, <3>2, <1>3 DEF Suspension
      <3>4. QED
        BY <2>1, <3>1, <3>2, <3>3, <1>6, <1>7
    <2>3. CASE state # NoState
      <3>1. ~unread' /\ status' = state.status /\ ~state.spoiled
        BY <1>19, <2>3 DEF LoadState
      <3>2. Free' /\ InList' /\ ~Held'
        BY <2>3, <3>1, <1>1, <1>4 DEF Free, InList
      <3>3. Suspension'
        BY <2>1, <3>1, <3>2 DEF Suspension
      <3>4. QED
        BY <2>1, <3>1, <3>2, <3>3, <1>6
    <2>4. QED
      BY <2>2, <2>3
  <1>20. CASE ResumeCompleted
    <2>1. /\ UNCHANGED <<psp_cmd, unread, pcmd, pops_mode, inited, status, threads,
                         thread_count, suspended_count, state>>
          /\ ppc = "resume" /\ ppc' = "wait"
      BY <1>20 DEF ResumeCompleted
    <2>2. InList' /\ (Held' <=> Held)
      BY <2>1, <1>1, <1>5
    <2>3. Suspension'
      BY <2>1, <2>2, <1>3 DEF Suspension
    <2>4. QED
      BY <2>1, <2>2, <2>3, <1>6, <1>7
  <1>21. QED
    BY <1>8, <1>9, <1>10, <1>11, <1>12, <1>13, <1>14, <1>15, <1>16, <1>17, <1>18, <1>19, <1>20
    DEF PspSide, PspStep, PspStart

-----------------------------------------------------------------------------
(* Every step keeps the threads resumed *)

LEMMA SameKeeps ==
    ASSUME PspSame, Suspension, InList, SavedResumed, MenuResumes /\ ~pops_mode => MenuResumes'
    PROVE  Suspension' /\ InList' /\ SavedResumed'
  <1>1. /\ UNCHANGED <<psp_cmd, unread, ppc, pcmd, savestate_mode, pops_mode, inited, status, threads,
                       thread_count, suspended_count, state>>
    BY DEF PspSame, pspMemory
  <1>2. (Held' <=> Held) /\ (ResumeUnread' <=> ResumeUnread)
    BY <1>1 DEF Held, ResumeUnread
  <1>3. InList' /\ SavedResumed'
    BY <1>1, <1>2 DEF InList, SavedResumed
  <1>4. Suspension'
    BY <1>1, <1>2 DEF Suspension
  <1>5. QED
    BY <1>3, <1>4

LEMMA StoreKeeps ==
    ASSUME NEW s \in Sender, StoreCommand(s), StoreGoes, OneMenu, SuspendMeant, ~spoiled',
           Suspension, InList, SavedResumed
    PROVE  Suspension' /\ InList' /\ SavedResumed'
  <1>1. /\ UNCHANGED <<ppc, pcmd, savestate_mode, pops_mode, inited, status, threads,
                       thread_count, suspended_count, state>>
        /\ ~unread /\ unread'
    BY DEF StoreCommand, pspMemory
  <1>2. (Held' <=> Held) /\ ~ResumeUnread /\ (ResumeUnread' <=> psp_cmd' = "RESUME")
    BY <1>1 DEF Held, ResumeUnread
  <1>3. /\ psp_cmd' = "SUSPEND" => ~pops_mode /\ ~MenuResumes /\ MenuResumes'
        /\ psp_cmd' = "SAVESTATE" => ~MenuResumes
        /\ psp_cmd' # "RESUME" /\ MenuResumes => MenuResumes'
    BY DEF StoreGoes
  <1>4. InList'
    BY <1>1 DEF InList
  <1>5. Suspension'
    BY <1>1, <1>2, <1>3 DEF Suspension
  <1>6. SavedResumed'
    BY <1>1, <1>2, <1>3 DEF Suspension, SavedResumed
  <1>7. QED
    BY <1>4, <1>5, <1>6

LEMMA ResumeInvNext ==
    ASSUME Inv, ResumeInv, [Next]_vars PROVE ResumeInv'
  <1> USE DEF Inv, Types
  <1>1. Shapes /\ CarriesOut
    BY DEF ResumeInv
  <1>2. MenuStep
    BY <1>1, NextGoes
  <1>3. CASE Goes /\ PspSame
    <2>1. Shapes' /\ CarriesOut' /\ (~spoiled' => ~spoiled)
      BY <1>1, <1>3 DEF Goes, PspSame, CarriesOut
    <2>2. ASSUME ~spoiled' PROVE OneMenu' /\ SuspendMeant' /\ Suspension' /\ InList' /\ SavedResumed'
      <3>1. OneMenu /\ SuspendMeant /\ Suspension /\ InList /\ SavedResumed
        BY <2>1, <2>2 DEF ResumeInv
      <3>2. OneMenu' /\ SuspendMeant' /\ (MenuResumes /\ ~pops_mode => MenuResumes')
        BY <1>3, <2>2, <3>1 DEF Goes
      <3>3. QED
        BY <1>3, <3>1, <3>2, SameKeeps
    <2>3. QED
      BY <2>1, <2>2 DEF ResumeInv
  <1>4. ASSUME StoreGoes, NEW s \in Sender, StoreCommand(s) PROVE ResumeInv'
    <2>1. Shapes' /\ CarriesOut' /\ (~spoiled' => ~spoiled)
      BY <1>1, <1>4 DEF StoreGoes, StoreCommand, CarriesOut
    <2>2. ASSUME ~spoiled' PROVE OneMenu' /\ SuspendMeant' /\ Suspension' /\ InList' /\ SavedResumed'
      <3>1. OneMenu /\ SuspendMeant /\ Suspension /\ InList /\ SavedResumed
        BY <2>1, <2>2 DEF ResumeInv
      <3>2. OneMenu' /\ SuspendMeant'
        BY <1>4, <3>1 DEF StoreGoes
      <3>3. QED
        BY <1>4, <2>2, <3>1, <3>2, StoreKeeps
    <2>3. QED
      BY <2>1, <2>2 DEF ResumeInv
  <1>5. ASSUME PspSide, UNCHANGED <<todo, menu_open, suspend, old_suspend>> PROVE ResumeInv'
    <2>1. Shapes' /\ CarriesOut' /\ (~spoiled' => ~spoiled)
      BY <1>1, <1>5, MenuKept, PspCarriesOut, PspSpoiled
    <2>2. ASSUME ~spoiled' PROVE OneMenu' /\ SuspendMeant' /\ Suspension' /\ InList' /\ SavedResumed'
      <3>1. OneMenu /\ SuspendMeant /\ Suspension /\ InList /\ SavedResumed
        BY <2>1, <2>2 DEF ResumeInv
      <3>2. OneMenu' /\ SuspendMeant' /\ (MenuResumes' <=> MenuResumes)
        BY <1>5, <2>2, <3>1, MenuKept, PspMeant
      <3>3. QED
        BY <1>1, <1>5, <2>1, <2>2, <3>1, <3>2, PspKeeps
    <2>3. QED
      BY <2>1, <2>2 DEF ResumeInv
  <1>6. QED
    BY <1>2, <1>3, <1>4, <1>5 DEF MenuStep

LEMMA InitResumeInv == Init => ResumeInv
  <1> SUFFICES ASSUME Init PROVE ResumeInv
    OBVIOUS
  <1>1. todo["draw"] = <<>> /\ todo["shell"] = <<>> /\ todo["compat"] = <<>>
    BY DEF Init
  <1>2. Shapes
    BY <1>1, EmptyLeaving DEF Shapes
  <1>3. OneMenu /\ SuspendMeant
    BY <1>1, EmptyLeaving DEF OneMenu, SuspendMeant, Opens, SuspendToCome, Entry, EntryAwaited
  <1>4. Free /\ state = NoState /\ psp_cmd = "NONE" /\ pcmd = "NONE" /\ ppc = "wait" /\ inited
    BY DEF Init, Free
  <1>5. Suspension /\ InList /\ SavedResumed /\ CarriesOut
    BY <1>4 DEF Suspension, InList, SavedResumed, CarriesOut, Held, Free
  <1>6. QED
    BY <1>2, <1>3, <1>5 DEF ResumeInv

-----------------------------------------------------------------------------
(* The theorems *)

\* The inductive invariant of the commands: a command that is unread has its wakeup
\* on the way, once (SendAdrenalineRequest, adrenaline_thread).
THEOREM Invariant == Spec => []Inv
  <1>1. Inv /\ [Next]_vars => Inv'
    <2> SUFFICES ASSUME Inv, [Next]_vars PROVE Inv'
      OBVIOUS
    <2> USE DEF Inv, Types
    <2>1. StepKind /\ Handlers'
      BY NextKind DEF StepKind
    <2>2. ToldOnce' /\ Woken' /\ NoStates'
      BY <2>1, ToldOnceNext, WokenNext, NoStatesNext
    <2>3. SavedToldOnce' /\ StateType'
      BY <2>1, SavedToldOnceNext
    <2>4. MenuTypes' /\ WordTypes' /\ ListTypes'
      BY MenuTypesNext, WordTypesNext, ListTypesNext
    <2>5. QED
      BY <2>1, <2>2, <2>3, <2>4
  <1>2. QED
    BY InitInv, <1>1, PTL DEF Spec

\* The word, the semaphores, the list of SuspendThreads and the handlers keep their
\* shapes, for any number of threads: the list never outgrows its array
\* (SuspendThreads).
THEOREM TypesKept == Spec => []TypeOK
  <1>1. Inv => TypeOK
    <2> SUFFICES ASSUME Inv PROVE TypeOK
      OBVIOUS
    <2>1. Rest \subseteq Seq(Op)
      <3>1. Given \subseteq Op
        BY DEF Given
      <3>2. QED
        BY <3>1, SeqMonotonic DEF Rest
    <2>2. todo \in [Sender -> Seq(Op)]
      BY <2>1 DEF Inv, Handlers
    <2>3. QED
      BY <2>2 DEF Inv, Types, WordTypes, ListTypes, MenuTypes, StateType, TypeOK
  <1>2. QED
    BY Invariant, <1>1, PTL

\* Without states no command that the PSP clears is left in the word while the PSP
\* thread sleeps and nothing will wake it (SendAdrenalineRequest, adrenaline_thread).
THEOREM WakeupKept == ASSUME ~WithStates PROVE Spec => []NoLostWakeup
  <1>1. Inv => NoLostWakeup
    BY DEF Inv, NoStates, Woken, NoLostWakeup, Raises
  <1>2. QED
    BY Invariant, <1>1, PTL

\* With states it is lost at most with a state that was saved between a command and
\* its interrupt, and has been loaded (SaveStateBin, LoadStateBin).
THEOREM WakeupKeptWithStates == Spec => [](NoLostWakeup \/ (spoiled /\ state # NoState))
  <1>1. Inv => NoLostWakeup \/ (spoiled /\ state # NoState)
    BY DEF Inv, Woken, NoLostWakeup, Raises
  <1>2. QED
    BY Invariant, <1>1, PTL

\* The PSP begins to save or to load only for a command that it has not read
\* before, unless one was lost, although the commands about states stay in the word
\* and come back with a loaded state (adrenaline_thread).
THEOREM StatesAskedOnce == Spec => StateCommandOnce
  <1> DEFINE Once == savestate_mode = "NONE" /\ savestate_mode' # "NONE" => unread \/ spoiled
  <1>1. Inv /\ [Next]_vars => [Once]_vars
    <2> SUFFICES ASSUME Inv, [Next]_vars, savestate_mode = "NONE", savestate_mode' # "NONE"
                 PROVE  unread \/ spoiled
      OBVIOUS
    <2>1. StepKind
      BY NextKind DEF Inv, Types
    <2>2. PspSide
      BY <2>1 DEF StepKind, VitaStep, Stores, StoreCommand, Interrupts, Interrupt
    <2>3. PspSuspendOperation
      BY <2>2 DEF PspSide, PspStep, PspStart, PspWait, PspSwitch, PspClear, PspSuspend, PspResume,
         PspAction, SaveState, LoadState, ResumeCompleted, InitAdrenaline, InitAdrenalineInfo,
         PspExit, PspProgram
    <2>4. QED
      BY <2>3 DEF PspSuspendOperation, Inv, ToldOnce
  <1>2. QED
    BY Invariant, <1>1, PTL DEF Spec, StateCommandOnce

\* The part of the invariant that is about the threads: what is suspended will be
\* resumed by a command that is on its way or will be sent (ctrlMenu, ResumeThreads).
THEOREM ThreadsInvariant == Spec => []ResumeInv
  <1>1. Inv /\ ResumeInv /\ [Next]_vars => ResumeInv'
    BY ResumeInvNext
  <1>2. QED
    BY Invariant, InitResumeInv, <1>1, PTL DEF Spec

\* When the menu has been left and both sides are quiet no thread of the PSP is
\* suspended by Adrenaline, for any threads, and whatever the options were changed to,
\* unless a command was lost or the menu was entered while it was open
\* (EnterAdrenalineMenu, ExitAdrenalineMenu, SuspendThreads, ResumeThreads).
THEOREM ThreadsCorrect == Spec => []ThreadsResumed
  <1>1. Inv /\ ResumeInv => ThreadsResumed
    <2> SUFFICES ASSUME Inv, ResumeInv, Quiet, ~menu_open, ~spoiled
                 PROVE  \A t \in live : status[t] # "adrenaline"
      BY DEF ThreadsResumed
    <2>1. Shapes /\ Suspension /\ CarriesOut
      BY DEF ResumeInv
    <2>2. \A s \in Sender : todo[s] = <<>> \/ Head(todo[s]) = "await"
      BY DEF Quiet
    <2>3. todo["shell"] \notin EntryAwaited /\ todo["draw"] \notin Entry
      <3>1. \A q \in Entry \cup EntryAwaited : q # <<>> /\ Head(q) # "await"
        BY DEF Entry, EntryAwaited
      <3>2. QED
        BY <2>2, <3>1
    <2>4. todo["draw"] = <<>>
      <3>1. PICK q \in Rest : q = todo["draw"]
        BY DEF Inv, Handlers
      <3>2. q \in Seq(Given) /\ Leaving(q) /\ (q = <<>> \/ Head(q) = "await")
        BY <2>1, <2>2, <2>3, <3>1 DEF Shapes, Rest
      <3>3. QED
        BY <3>1, <3>2, LeavingTail
    <2>5. ~MenuResumes
      BY <2>3, <2>4, EmptyLeaving DEF MenuResumes, Opens
    <2>6. ~Held
      BY <2>1, <2>5 DEF Quiet, Suspension, ResumeUnread, CarriesOut
    <2>7. QED
      BY <2>6 DEF Held, Quiet, Inv, Types, ListTypes
  <1>2. QED
    BY Invariant, ThreadsInvariant, <1>1, PTL

=============================================================================
