-------------------------------- MODULE Menu --------------------------------
(***************************************************************************)
(* The menu as its user sees it: tabs, the cursor, entries that come and   *)
(* go, options and whether they are stored, and the window over the list   *)
(* of states (user/menu.c, user/states.c).                                 *)
(*                                                                         *)
(* AdrenalineDraw calls hideEntries, drawMenu and ctrlMenu in every round. *)
(* ctrlMenu goes on to the end when a key has left the menu: the triggers, *)
(* the entry under the cursor, UP and DOWN still count.  In each of these  *)
(* parts at most one key does something (bound).  Between them the         *)
(* settings handler may open the menu, whether or not it is open,          *)
(* AdrenalineCompat moves the window when it loads a state by itself, and  *)
(* the PSP starts and leaves games.                                        *)
(***************************************************************************)
EXTENDS Integers, FiniteSets

CONSTANTS
    Host,          \* adr_id: the host application, not a bubble
    MAX_STATES,
    MAX_POSITION,  \* entries of the window
    LoadStates     \* the values of boot_info.loadstate the user considers

ASSUME MenuAssumption ==
    /\ Host \in BOOLEAN
    /\ MAX_POSITION \in Nat \ {0} /\ MAX_STATES \in Nat
    /\ MAX_POSITION <= MAX_STATES
    /\ 0 \in LoadStates /\ LoadStates \subseteq 0..MAX_STATES

VARIABLES
    menu_open,
    at,                    \* the part of ctrlMenu that AdrenalineDraw has done
    hidden,                \* what hideEntries has hidden for this round
    tab_sel, menu_sel,     \* the cursor; kept while the menu is closed
    listed,                \* the entries of states with num # -1
    open_options, option_mode, option_sel,
    base_pos, rel_pos,     \* the window over the states and the cursor in it
    aspect,                \* config.screen_scale_aspect_ratio
    loadstate,             \* boot_info.loadstate
    changed,
    unsaved,               \* config and boot_info differ from their files
    game,                  \* adrenaline->game_mode or pops_mode
    load_state,
    jump,                  \* the number base_pos was last set to
    crossed,               \* that happened while options were open (history)
    slips                  \* how what is unsaved has escaped saveConfigs (history)

round == <<at, hidden>>
cursor == <<tab_sel, menu_sel>>
window == <<listed, open_options, option_mode, option_sel, base_pos, rel_pos, jump, crossed>>
options == <<aspect, loadstate, changed, unsaved, slips>>
vars == <<menu_open, round, cursor, window, options, game, load_state>>

-----------------------------------------------------------------------------
(* The tables *)

Tab == IF Host THEN <<"main", "states", "settings", "about">>
               ELSE <<"main", "states", "settings", "booter", "about">>
N_TABS == IF Host THEN 4 ELSE 5
TabName == Tab[tab_sel + 1]

N_ENTRIES == [main |-> 5, states |-> 0, settings |-> 14, booter |-> 14, about |-> 13]
Moveable == {"main", "settings", "booter"}

\* The entries with a value, and what the others call.
OptionEntry == ({"settings"} \X (0..12)) \cup ({"booter"} \X (0..9))
Callback(tab, i) ==
    CASE tab = "main" ->
             <<"EnterStandbyMode", "OpenOfficialSettings", "GoToLiveAreaScreen",
               "ExitPspEmuApplication", "ExitAdrenalineMenu">>[i + 1]
      [] tab = "settings" -> "ResetAdrenalineSettings"
      [] tab = "booter" ->
             <<"LoadSelectedState", "ResetBooterSettings", "RestartBooter", "ExitGame">>[i - 9]

Hideable == {<<"settings", 4>>, <<"settings", 6>>, <<"booter", 10>>, <<"booter", 13>>}

\* hideEntries: the second scale when the ratio is kept; the selected state when
\* it is not listed, and "Exit Game" when there is none.
Hidden ==
    (IF aspect THEN {<<"settings", 4>>, <<"settings", 6>>} ELSE {})
    \cup (IF loadstate = 0 \/ loadstate - 1 \notin listed THEN {<<"booter", 10>>} ELSE {})
    \cup (IF game THEN {} ELSE {<<"booter", 13>>})

\* drawMenu: the entries that are drawn in this round.
Drawn(tab) == {i \in 0 .. N_ENTRIES[tab] - 1 : <<tab, i>> \notin hidden}

Init ==
    /\ menu_open = FALSE
    /\ at = "out" /\ hidden = {}
    /\ tab_sel = 0 /\ menu_sel = 0
    /\ listed = {}
    /\ open_options = FALSE /\ option_mode = "new" /\ option_sel = 0
    /\ base_pos = 0 /\ rel_pos = 0
    /\ aspect \in BOOLEAN /\ loadstate \in LoadStates
    /\ changed = FALSE /\ unsaved = FALSE
    /\ game \in BOOLEAN /\ load_state = FALSE
    /\ jump = 0 /\ crossed = FALSE /\ slips = {}

-----------------------------------------------------------------------------
(* Opening and leaving *)

\* EnterAdrenalineMenu and initStates; files are found on the memory stick.  The
\* settings handler does not look whether the menu is open.
EnterAdrenalineMenu ==
    /\ menu_open' = TRUE
    /\ listed' \in SUBSET (0 .. MAX_STATES - 1)
    /\ open_options' = FALSE /\ option_sel' = 0
    /\ changed' = FALSE
    /\ slips' = slips \cup (IF menu_open /\ unsaved THEN {"again"} ELSE {})
    /\ UNCHANGED <<round, cursor, option_mode, base_pos, rel_pos, jump, crossed, aspect,
                   loadstate, unsaved, game, load_state>>

\* Mutant: nothing is stored.
SavedNot(dirty) == dirty

\* saveConfigs: config and boot_info are written when something counts as changed.
Saved(dirty) == dirty /\ ~changed
Escaped(how) == IF changed THEN {} ELSE slips \cup how

\* ExitAdrenalineMenu: saveConfigs and finishStates.
Leaves ==
    /\ menu_open' = FALSE
    /\ listed' = {}
    /\ unsaved' = Saved(unsaved)
    /\ slips' = Escaped({})

LeavesOnly ==
    /\ Leaves
    /\ UNCHANGED <<open_options, option_mode, option_sel, base_pos, rel_pos, jump, crossed,
                   aspect, loadstate, changed, load_state>>

-----------------------------------------------------------------------------
(* The parts of ctrlMenu *)

\* A round with the menu open: hideEntries and drawMenu, then ctrlMenu.
RoundBegins ==
    /\ at = "out"
    /\ menu_open
    /\ at' = "keys" /\ hidden' = Hidden
    /\ UNCHANGED <<menu_open, cursor, window, options, game, load_state>>

\* The power button, the PS button, and CANCEL when no options are shown.
LeaveMenu ==
    /\ at = "keys"
    /\ at' = "left"
    /\ LeavesOnly
    /\ UNCHANGED <<hidden, cursor, game>>

\* The triggers.
ChangeTab(step) ==
    /\ at \in {"keys", "left"}
    /\ ~open_options
    /\ tab_sel + step \in 0 .. N_TABS - 1
    /\ at' = "tab"
    /\ tab_sel' = tab_sel + step
    /\ menu_sel' = 0
    /\ UNCHANGED <<menu_open, hidden, window, options, game, load_state>>

\* The entry under the cursor comes next, and after it UP and DOWN.
AtEntry == at \in {"keys", "left", "tab"}
EntryDone == AtEntry /\ at' = "moves" /\ UNCHANGED hidden
RoundOver == at' = "out" /\ hidden' = {}

RoundEnds ==
    /\ at = "moves" \/ (AtEntry /\ TabName \notin Moveable)
    /\ RoundOver
    /\ UNCHANGED <<menu_open, cursor, window, options, game, load_state>>

-----------------------------------------------------------------------------
(* The cursor *)

\* Off an entry that is not shown: onwards, or back at the end of the table.  The
\* loop of ctrlMenu makes as many such steps as there are entries from sel on.
Skip(tab, sel, step) ==
    IF <<tab, sel>> \notin hidden THEN sel
    ELSE IF sel + step \in 0 .. N_ENTRIES[tab] - 1 THEN sel + step ELSE sel - step

Skipped(tab, sel, step) ==
    LET skip[i \in 0 .. N_ENTRIES[tab]] ==
            IF i = 0 THEN sel ELSE Skip(tab, skip[i - 1], step)
    IN  skip[N_ENTRIES[tab] - sel]

\* Mutant: the entries that are not shown are not skipped.
MoveCursorPlain(step) ==
    /\ at = "moves"
    /\ menu_sel' = IF menu_sel + step \in 0 .. N_ENTRIES[TabName] - 1
                   THEN menu_sel + step ELSE menu_sel
    /\ RoundOver
    /\ UNCHANGED <<menu_open, tab_sel, window, options, game, load_state>>

\* UP and DOWN
MoveCursor(step) ==
    /\ at = "moves"
    /\ LET to == IF menu_sel + step \in 0 .. N_ENTRIES[TabName] - 1
                 THEN menu_sel + step ELSE menu_sel
       IN  menu_sel' = Skipped(TabName, to, step)
    /\ RoundOver
    /\ UNCHANGED <<menu_open, tab_sel, window, options, game, load_state>>

\* No key for the entry; an option counts as changed all the same.
PassEntry ==
    /\ EntryDone
    /\ TabName \in Moveable
    /\ changed' = (changed \/ <<TabName, menu_sel>> \in OptionEntry)
    /\ UNCHANGED <<menu_open, cursor, window, aspect, loadstate, unsaved, slips, game, load_state>>

\* RIGHT, LEFT and ENTER on an entry with a value.
ChangeOption ==
    /\ EntryDone
    /\ <<TabName, menu_sel>> \in OptionEntry
    /\ aspect' = IF <<TabName, menu_sel>> = <<"settings", 7>> THEN ~aspect ELSE aspect
    /\ loadstate' \in IF <<TabName, menu_sel>> = <<"booter", 9>> THEN LoadStates ELSE {loadstate}
    /\ changed' = TRUE
    /\ unsaved' = TRUE
    /\ slips' = slips \cup (IF menu_open THEN {} ELSE {"late"})
    /\ UNCHANGED <<menu_open, cursor, window, game, load_state>>

-----------------------------------------------------------------------------
(* ENTER on an entry with a callback *)

Enters(call) ==
    /\ EntryDone
    /\ TabName \in Moveable
    /\ <<TabName, menu_sel>> \notin OptionEntry
    /\ Callback(TabName, menu_sel) = call
    /\ UNCHANGED <<tab_sel, game>>

\* EnterStandbyMode, OpenOfficialSettings, GoToLiveAreaScreen, ExitAdrenalineMenu.
LeaveByEntry ==
    /\ \E call \in {"EnterStandbyMode", "OpenOfficialSettings", "GoToLiveAreaScreen",
                    "ExitAdrenalineMenu"} : Enters(call)
    /\ LeavesOnly
    /\ UNCHANGED menu_sel

\* ExitPspEmuApplication: the process ends without storing the options; it starts
\* again with the stored ones.
ExitPspEmuApplication ==
    /\ AtEntry /\ RoundOver
    /\ TabName = "main" /\ menu_sel = 3
    /\ menu_open' = FALSE /\ tab_sel' = 0 /\ menu_sel' = 0
    /\ listed' = {} /\ open_options' = FALSE /\ option_mode' = "new" /\ option_sel' = 0
    /\ base_pos' = 0 /\ rel_pos' = 0 /\ jump' = 0
    /\ aspect' \in BOOLEAN /\ loadstate' \in LoadStates
    /\ changed' = FALSE /\ unsaved' = FALSE /\ slips' = {}
    /\ load_state' = FALSE
    /\ UNCHANGED <<crossed, game>>

\* ResetAdrenalineSettings and ResetBooterSettings: saveConfigs stores nothing
\* when the cursor has been on no option since the menu was opened.
ResetSettings ==
    /\ \/ Enters("ResetAdrenalineSettings") /\ aspect' = FALSE /\ UNCHANGED loadstate
       \/ Enters("ResetBooterSettings") /\ loadstate' = 0 /\ UNCHANGED aspect
    /\ unsaved' = Saved(TRUE)
    /\ slips' = Escaped({"reset"})
    /\ UNCHANGED <<menu_open, menu_sel, window, changed, load_state>>

\* base_pos = n
Jump(n) ==
    /\ base_pos' = n
    /\ jump' = n

LoadSelectedState ==
    /\ Enters("LoadSelectedState")
    /\ Leaves
    /\ IF loadstate >= 1
       THEN Jump(loadstate - 1) /\ load_state' = TRUE
       ELSE UNCHANGED <<base_pos, jump, load_state>>
    /\ UNCHANGED <<menu_sel, open_options, option_mode, option_sel, rel_pos, crossed,
                   aspect, loadstate, changed>>

\* RestartBooter and ExitGame: DoAction leaves the menu if the PSP took the command.
DoAction(taken) ==
    /\ \/ Enters("RestartBooter") /\ UNCHANGED menu_sel
       \/ Enters("ExitGame") /\ menu_sel' = IF taken THEN 0 ELSE menu_sel
    /\ load_state' = TRUE
    /\ IF taken THEN Leaves ELSE UNCHANGED <<menu_open, listed, unsaved, slips>>
    /\ UNCHANGED <<open_options, option_mode, option_sel, base_pos, rel_pos, jump, crossed,
                   aspect, loadstate, changed>>

-----------------------------------------------------------------------------
(* ctrlStates *)

\* Nothing once the menu was left: finishStates has freed the list.
InStates ==
    /\ AtEntry /\ RoundOver
    /\ menu_open
    /\ TabName = "states"
    /\ UNCHANGED <<cursor, aspect, loadstate, changed, game, load_state, jump, crossed>>

Entry == base_pos + rel_pos
N_OPTIONS == IF option_mode = "new" THEN 2 ELSE 4

StatesUp ==
    /\ InStates
    /\ ~open_options
    /\ \/ rel_pos > 0 /\ rel_pos' = rel_pos - 1 /\ UNCHANGED base_pos
       \/ rel_pos = 0 /\ base_pos > 0 /\ base_pos' = base_pos - 1 /\ UNCHANGED rel_pos
    /\ UNCHANGED <<menu_open, listed, unsaved, slips, open_options, option_mode, option_sel>>

\* Mutant: the end of the list is not looked at.
StatesDownPlain ==
    /\ InStates
    /\ ~open_options
    /\ \/ rel_pos < MAX_POSITION - 1 /\ rel_pos' = rel_pos + 1 /\ UNCHANGED base_pos
       \/ rel_pos = MAX_POSITION - 1 /\ base_pos < MAX_STATES - 1
          /\ base_pos' = base_pos + 1 /\ UNCHANGED rel_pos
    /\ UNCHANGED <<menu_open, listed, unsaved, slips, open_options, option_mode, option_sel>>

StatesDown ==
    /\ InStates
    /\ ~open_options
    /\ \/ rel_pos < MAX_POSITION - 1 /\ rel_pos' = rel_pos + 1 /\ UNCHANGED base_pos
       \/ rel_pos = MAX_POSITION - 1 /\ Entry < MAX_STATES - 1
          /\ base_pos' = base_pos + 1 /\ UNCHANGED rel_pos
    /\ UNCHANGED <<menu_open, listed, unsaved, slips, open_options, option_mode, option_sel>>

\* What the heap holds behind the list: anything.
Exists(found) == IF Entry < MAX_STATES THEN Entry \in listed ELSE found

OpenOptions(found) ==
    /\ InStates
    /\ ~open_options
    /\ open_options' = TRUE /\ option_sel' = 0
    /\ option_mode' = IF Exists(found) THEN "exist" ELSE "new"
    /\ UNCHANGED <<menu_open, listed, unsaved, slips, base_pos, rel_pos>>

\* Mutant: a new state has as many options as an old one.
MoveOptionFour(step) ==
    /\ InStates
    /\ open_options
    /\ option_sel + step \in 0 .. 3
    /\ option_sel' = option_sel + step
    /\ UNCHANGED <<menu_open, listed, unsaved, slips, open_options, option_mode, base_pos, rel_pos>>

MoveOption(step) ==
    /\ InStates
    /\ open_options
    /\ option_sel + step \in 0 .. N_OPTIONS - 1
    /\ option_sel' = option_sel + step
    /\ UNCHANGED <<menu_open, listed, unsaved, slips, open_options, option_mode, base_pos, rel_pos>>

\* CANCEL, and the last option.
CloseOptions ==
    /\ InStates
    /\ open_options
    /\ open_options' = FALSE
    /\ UNCHANGED <<menu_open, listed, unsaved, slips, option_mode, option_sel, base_pos, rel_pos>>

\* Save, load or overwrite: see SaveStates.
ChooseState ==
    /\ InStates
    /\ open_options
    /\ option_sel = 0 \/ (option_mode = "exist" /\ option_sel = 1)
    /\ Leaves
    /\ UNCHANGED <<open_options, option_mode, option_sel, base_pos, rel_pos>>

\* Mutant: the options stay open.
DeleteStateOnly ==
    /\ InStates
    /\ open_options
    /\ option_mode = "exist" /\ option_sel = 2
    /\ listed' = listed \ {Entry}
    /\ UNCHANGED <<menu_open, unsaved, slips, open_options, option_mode, option_sel, base_pos, rel_pos>>

DeleteState ==
    /\ InStates
    /\ open_options
    /\ option_mode = "exist" /\ option_sel = 2
    /\ listed' = listed \ {Entry}
    /\ open_options' = FALSE
    /\ UNCHANGED <<menu_open, unsaved, slips, option_mode, option_sel, base_pos, rel_pos>>

-----------------------------------------------------------------------------
(* The other threads *)

\* autoLoadState in AdrenalineCompat.
AutoLoadState ==
    /\ loadstate >= 1 /\ ~load_state
    /\ load_state' = TRUE
    /\ Jump(loadstate - 1)
    /\ crossed' = (crossed \/ open_options)
    /\ UNCHANGED <<menu_open, round, cursor, listed, open_options, option_mode, option_sel,
                   rel_pos, options, game>>

GameChanges ==
    /\ game' = ~game
    /\ UNCHANGED <<menu_open, round, cursor, window, options, load_state>>

Next ==
    \/ EnterAdrenalineMenu \/ RoundBegins \/ LeaveMenu \/ RoundEnds
    \/ \E step \in {-1, 1} : ChangeTab(step) \/ MoveCursor(step) \/ MoveOption(step)
    \/ PassEntry \/ ChangeOption
    \/ LeaveByEntry \/ ExitPspEmuApplication \/ ResetSettings \/ LoadSelectedState
    \/ \E taken \in BOOLEAN : DoAction(taken)
    \/ StatesUp \/ StatesDown
    \/ \E found \in BOOLEAN : OpenOptions(found)
    \/ CloseOptions \/ ChooseState \/ DeleteState
    \/ AutoLoadState \/ GameChanges

Spec == Init /\ [][Next]_vars

\* Bound of the run: the user finds at most one state; what is unsaved has escaped
\* in one way, and no states are found or moved over then, which saveConfigs has
\* nothing to do with; games start and end, and AdrenalineCompat loads its state,
\* between two rounds.
Bounded ==
    /\ Cardinality(slips') <= 1 /\ Cardinality(listed') <= 1
    /\ slips' # {} => ~open_options' /\ ~crossed' /\ listed' = {} /\ rel_pos' = 0
    /\ at # "out" => UNCHANGED game /\ ~AutoLoadState

-----------------------------------------------------------------------------
(* Properties *)

\* The cursor, the window and the options stay in their tables.
TypeOK ==
    /\ menu_open \in BOOLEAN
    /\ at \in {"out", "keys", "left", "tab", "moves"} /\ hidden \subseteq Hideable
    /\ at = "moves" => TabName \in Moveable
    /\ tab_sel \in 0 .. N_TABS - 1
    /\ menu_sel \in 0 .. (IF TabName \in Moveable THEN N_ENTRIES[TabName] - 1 ELSE 0)
    /\ listed \subseteq 0 .. MAX_STATES - 1
    /\ open_options \in BOOLEAN /\ option_mode \in {"new", "exist"}
    /\ option_sel \in 0 .. N_OPTIONS - 1
    /\ base_pos \in 0 .. MAX_STATES - 1 /\ rel_pos \in 0 .. MAX_POSITION - 1
    /\ aspect \in BOOLEAN /\ loadstate \in LoadStates
    /\ changed \in BOOLEAN /\ unsaved \in BOOLEAN /\ game \in BOOLEAN
    /\ load_state \in BOOLEAN /\ jump \in 0 .. MAX_STATES - 1
    /\ crossed \in BOOLEAN /\ slips \subseteq {"reset", "late", "again"}

\* ctrlMenu: a cursor that is moved lands on an entry that drawMenu draws, also
\* when the entry it was on has disappeared under it.
CursorDrawn ==
    [][menu_sel' # menu_sel /\ tab_sel' = tab_sel => menu_sel' \in Drawn(TabName)]_vars

\* The window stays inside the list of MAX_STATES entries, but for a window that
\* was set to a number: it begins there at most, and may reach behind the list.
WindowInList ==
    base_pos + MAX_POSITION <= MAX_STATES \/ base_pos <= jump

\* The options that are shown are the ones of the entry that they will act on,
\* unless AdrenalineCompat moved the window under them.
OptionsMatch ==
    (open_options /\ menu_open /\ ~crossed /\ Entry < MAX_STATES)
        => (option_mode = "exist" <=> Entry \in listed)

\* ctrlStates: what is shown of the list is in the list, and acts on what it shows.
ListShown == WindowInList /\ OptionsMatch

\* When the menu is closed what the user set is stored, but for three ways past
\* saveConfigs: settings reset while nothing else had been touched, a key that comes in
\* the frame that leaves the menu, and a menu entered while it was open.  What escaped
\* is stored with the next change.
OptionsStored == ~menu_open /\ unsaved => slips # {}

=============================================================================
