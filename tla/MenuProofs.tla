----------------------------- MODULE MenuProofs -----------------------------
(***************************************************************************)
(* Menu for any number of states and any size of the window: the cursor    *)
(* and the window stay where there is something to see, the options of a   *)
(* state are its own, and what was set is stored.                          *)
(***************************************************************************)
EXTENDS Menu, WellFoundedInduction, TLAPS

USE MenuAssumption

-----------------------------------------------------------------------------
(* The tables *)

TabNames == {"main", "states", "settings", "booter", "about"}

LEMMA Tables ==
    /\ N_TABS \in {4, 5}
    /\ \A i \in 0 .. N_TABS - 1 : Tab[i + 1] \in TabNames
    /\ Tab[1] = "main"
    /\ N_ENTRIES["main"] = 5 /\ N_ENTRIES["states"] = 0 /\ N_ENTRIES["settings"] = 14
    /\ N_ENTRIES["booter"] = 14 /\ N_ENTRIES["about"] = 13
  <1>1. N_ENTRIES["main"] = 5 /\ N_ENTRIES["states"] = 0 /\ N_ENTRIES["settings"] = 14
        /\ N_ENTRIES["booter"] = 14 /\ N_ENTRIES["about"] = 13
    BY DEF N_ENTRIES
  <1>2. CASE Host
    BY <1>1, <1>2 DEF N_TABS, Tab, TabNames
  <1>3. CASE ~Host
    BY <1>1, <1>3 DEF N_TABS, Tab, TabNames
  <1>4. QED
    BY <1>2, <1>3

\* In a table with a cursor the neighbour of an entry that is not shown is shown.
LEMMA SkipShown ==
    ASSUME hidden \subseteq Hideable,
           NEW tab \in Moveable, NEW sel \in 0 .. N_ENTRIES[tab] - 1, NEW step \in {-1, 1}
    PROVE  /\ Skip(tab, sel, step) \in 0 .. N_ENTRIES[tab] - 1
           /\ <<tab, Skip(tab, sel, step)>> \notin hidden
  <1>1. CASE <<tab, sel>> \notin hidden
    BY <1>1 DEF Skip
  <1>2. CASE <<tab, sel>> \in hidden
    <2>1. <<tab, sel>> \in {<<"settings", 4>>, <<"settings", 6>>, <<"booter", 10>>, <<"booter", 13>>}
      BY <1>2 DEF Hideable
    <2>2. N_ENTRIES[tab] = 14
      BY <2>1, Tables
    <2>3. \A i : <<tab, i>> \in hidden =>
            <<tab, i>> \in {<<"settings", 4>>, <<"settings", 6>>, <<"booter", 10>>, <<"booter", 13>>}
      BY DEF Hideable
    <2>4. Skip(tab, sel, step) = IF sel + step \in 0 .. 13 THEN sel + step ELSE sel - step
      BY <1>2, <2>2 DEF Skip
    <2>5. /\ Skip(tab, sel, step) \in 0 .. 13
          /\ tab = "settings" => Skip(tab, sel, step) \notin {4, 6}
          /\ tab = "booter" => Skip(tab, sel, step) \notin {10, 13}
      BY <2>1, <2>4
    <2>6. QED
      BY <2>2, <2>3, <2>5
  <1>3. QED
    BY <1>1, <1>2

\* The loop of ctrlMenu comes to a shown entry, in the first of its turns.
LEMMA SkippedShown ==
    ASSUME hidden \subseteq Hideable,
           NEW tab \in Moveable, NEW sel \in 0 .. N_ENTRIES[tab] - 1, NEW step \in {-1, 1}
    PROVE  Skipped(tab, sel, step) = Skip(tab, sel, step)
  <1>1. N_ENTRIES[tab] \in {5, 14}
    BY Tables DEF Moveable
  <1>2. PICK n \in Nat : n = N_ENTRIES[tab]
    BY <1>1
  <1>3. PICK to : to = Skip(tab, sel, step)
    OBVIOUS
  <1>4. Skip(tab, to, step) = to
    BY <1>3, SkipShown DEF Skip
  <1> DEFINE Loop(g) == g = [i \in 0 .. n |-> IF i = 0 THEN sel ELSE Skip(tab, g[i - 1], step)]
             f == [i \in 0 .. n |-> IF i = 0 THEN sel ELSE to]
  <1>5. Loop(f)
    <2>1. \A i \in 0 .. n : f[i] = IF i = 0 THEN sel ELSE Skip(tab, f[i - 1], step)
      <3> SUFFICES ASSUME NEW i \in 0 .. n PROVE f[i] = IF i = 0 THEN sel ELSE Skip(tab, f[i - 1], step)
        OBVIOUS
      <3>1. CASE i = 0
        BY <3>1
      <3>2. CASE i = 1
        <4>1. f[i - 1] = sel
          BY <3>2
        <4>2. QED
          BY <3>2, <4>1, <1>3
      <3>3. CASE i > 1
        <4>1. f[i - 1] = to
          BY <3>3
        <4>2. QED
          BY <3>3, <4>1, <1>4
      <3>4. QED
        BY <3>1, <3>2, <3>3
    <2>2. f = [i \in 0 .. n |-> IF i = 0 THEN sel ELSE Skip(tab, f[i - 1], step)]
      BY <2>1
    <2>3. QED
      BY <2>2
  <1> HIDE DEF f
  <1>6. ASSUME NEW g, Loop(g), NEW k \in 1 .. n PROVE g[k] = to
    <2>1. g[0] = sel /\ \A i \in 1 .. n : g[i] = Skip(tab, g[i - 1], step)
      BY <1>6
    <2> DEFINE Bad == {i \in Nat : i \in 1 .. n /\ g[i] # to}
    <2> SUFFICES ASSUME g[k] # to PROVE FALSE
      OBVIOUS
    <2>2. k \in Bad
      OBVIOUS
    <2>3. PICK i \in Bad : \A j \in Bad : <<j, i>> \notin OpToRel(<, Nat)
      <3>1. IsWellFoundedOn(OpToRel(<, Nat), Nat)
        BY NatLessThanWellFounded
      <3>2. QED
        BY <2>2, <3>1, WFMin
    <2>4. \A j \in Bad : ~(j < i)
      BY <2>3 DEF OpToRel
    <2>5. CASE i = 1
      BY <2>1, <2>5, <1>3
    <2>6. CASE i # 1
      <3>1. i - 1 \in 1 .. n /\ i - 1 < i
        BY <2>6
      <3>2. g[i - 1] = to
        BY <2>4, <3>1
      <3>3. QED
        BY <2>1, <3>2, <1>4
    <2>7. QED
      BY <2>5, <2>6
  <1>7. n - sel \in 1 .. n
    BY <1>2
  <1> DEFINE skip == CHOOSE g : Loop(g)
  <1>8. Loop(skip)
    BY <1>5
  <1>9. Skipped(tab, sel, step) = skip[n - sel]
    BY <1>2 DEF Skipped
  <1> HIDE DEF skip
  <1>10. QED
    BY <1>3, <1>6, <1>7, <1>8, <1>9

-----------------------------------------------------------------------------
(* The inductive invariant *)

LEMMA TabIs ==
    ASSUME TypeOK
    PROVE  /\ TabName \in TabNames
           /\ TabName \in Moveable => N_ENTRIES[TabName] \in {5, 14}
           /\ menu_sel \in Nat
           /\ TabName \in Moveable => menu_sel \in 0 .. N_ENTRIES[TabName] - 1
  <1>1. TabName \in TabNames
    BY Tables DEF TypeOK, TabName
  <1>2. TabName \in Moveable => N_ENTRIES[TabName] \in {5, 14}
    BY Tables DEF Moveable
  <1>3. TabName \in Moveable => menu_sel \in 0 .. N_ENTRIES[TabName] - 1
    BY DEF TypeOK
  <1>4. TabName \notin Moveable => menu_sel = 0
    BY DEF TypeOK
  <1>5. QED
    BY <1>1, <1>2, <1>3, <1>4

\* The cursor is where its tab has an entry, whatever the entries have become.
CursorIn ==
    /\ tab_sel \in 0 .. N_TABS - 1
    /\ menu_sel \in 0 .. (IF TabName \in Moveable THEN N_ENTRIES[TabName] - 1 ELSE 0)

LEMMA Top ==
    ASSUME tab_sel' \in 0 .. N_TABS - 1, menu_sel' = 0 PROVE CursorIn'
  <1>1. Tab[tab_sel' + 1] \in TabNames
    BY Tables
  <1>2. TabName' = Tab[tab_sel' + 1]
    BY DEF TabName, Tab
  <1>3. TabName' \in Moveable => N_ENTRIES[TabName'] \in {5, 14}
    BY Tables DEF Moveable
  <1>4. N_ENTRIES' = N_ENTRIES /\ N_TABS' = N_TABS
    BY DEF N_ENTRIES, N_TABS
  <1>5. QED
    BY <1>3, <1>4 DEF CursorIn

LEMMA CursorMoved ==
    ASSUME TypeOK, NEW step \in {-1, 1}, MoveCursor(step)
    PROVE  CursorIn' /\ menu_sel' \in Drawn(TabName)
  <1>1. PICK tab \in Moveable : tab = TabName
    BY DEF MoveCursor, TypeOK
  <1>2. N_ENTRIES[tab] \in {5, 14} /\ menu_sel \in 0 .. N_ENTRIES[tab] - 1
    BY <1>1, TabIs
  <1>3. PICK to \in 0 .. N_ENTRIES[tab] - 1 :
          to = IF menu_sel + step \in 0 .. N_ENTRIES[tab] - 1 THEN menu_sel + step ELSE menu_sel
    BY <1>2
  <1>4. menu_sel' = Skipped(tab, to, step)
    BY <1>1, <1>3 DEF MoveCursor
  <1>5. menu_sel' \in 0 .. N_ENTRIES[tab] - 1 /\ <<tab, menu_sel'>> \notin hidden
    <2>1. hidden \subseteq Hideable
      BY DEF TypeOK
    <2>2. QED
      BY <1>3, <1>4, <2>1, SkipShown, SkippedShown
  <1>6. tab_sel' = tab_sel /\ TabName' = tab
    BY <1>1 DEF MoveCursor, TabName
  <1>7. QED
    BY <1>1, <1>5, <1>6 DEF CursorIn, Drawn, TypeOK

LEMMA CursorNext ==
    ASSUME TypeOK, [Next]_vars PROVE CursorIn'
  <1>1. ASSUME UNCHANGED cursor PROVE CursorIn'
    BY <1>1 DEF cursor, TypeOK, CursorIn, TabName
  <1>2. CASE UNCHANGED vars
    BY <1>1, <1>2 DEF vars
  <1>3. CASE EnterAdrenalineMenu \/ RoundBegins \/ LeaveMenu \/ RoundEnds \/ PassEntry \/ ChangeOption
             \/ AutoLoadState \/ GameChanges
    BY <1>1, <1>3 DEF EnterAdrenalineMenu, RoundBegins, LeaveMenu, RoundEnds, PassEntry, ChangeOption,
       AutoLoadState, GameChanges, cursor
  <1>4. CASE LeaveByEntry \/ ResetSettings \/ LoadSelectedState
    BY <1>1, <1>4 DEF LeaveByEntry, ResetSettings, LoadSelectedState, Enters, cursor
  <1>5. ASSUME NEW taken \in BOOLEAN, DoAction(taken) PROVE CursorIn'
    <2>1. tab_sel' = tab_sel /\ (menu_sel' = menu_sel \/ menu_sel' = 0)
      BY <1>5 DEF DoAction, Enters
    <2>2. QED
      BY <2>1, <1>1, Top DEF cursor, TypeOK
  <1>6. CASE ExitPspEmuApplication
    <2>1. 0 \in 0 .. N_TABS - 1
      BY Tables
    <2>2. QED
      BY <1>6, <2>1, Top DEF ExitPspEmuApplication
  <1>7. ASSUME NEW step \in {-1, 1}, ChangeTab(step) PROVE CursorIn'
    BY <1>7, Top DEF ChangeTab
  <1>8. ASSUME NEW step \in {-1, 1}, MoveOption(step) PROVE CursorIn'
    BY <1>8, <1>1 DEF MoveOption, InStates
  <1>9. CASE StatesUp \/ StatesDown \/ CloseOptions \/ ChooseState \/ DeleteState
             \/ \E found \in BOOLEAN : OpenOptions(found)
    BY <1>9, <1>1 DEF StatesUp, StatesDown, CloseOptions, ChooseState, DeleteState, OpenOptions, InStates
  <1>10. QED
    BY <1>2, <1>3, <1>4, <1>5, <1>6, <1>7, <1>8, <1>9, CursorMoved DEF Next

\* The rest of TypeOK.
Window ==
    /\ listed \subseteq 0 .. MAX_STATES - 1
    /\ open_options \in BOOLEAN /\ option_mode \in {"new", "exist"}
    /\ option_sel \in 0 .. N_OPTIONS - 1
    /\ base_pos \in 0 .. MAX_STATES - 1 /\ rel_pos \in 0 .. MAX_POSITION - 1
    /\ jump \in 0 .. MAX_STATES - 1 /\ crossed \in BOOLEAN

Settings ==
    /\ menu_open \in BOOLEAN /\ aspect \in BOOLEAN /\ loadstate \in LoadStates
    /\ changed \in BOOLEAN /\ unsaved \in BOOLEAN /\ game \in BOOLEAN
    /\ load_state \in BOOLEAN /\ slips \subseteq {"reset", "late", "again"}

\* The round is one of hideEntries, and UP and DOWN come on a tab with entries.
RoundIs ==
    /\ at \in {"out", "keys", "left", "tab", "moves"} /\ hidden \subseteq Hideable
    /\ at = "moves" => TabName \in Moveable

LEMMA RoundNext ==
    ASSUME TypeOK, [Next]_vars PROVE RoundIs'
  <1> USE DEF RoundIs
  <1>1. RoundIs
    BY DEF TypeOK
  <1>2. ASSUME UNCHANGED round, UNCHANGED tab_sel PROVE RoundIs'
    BY <1>1, <1>2 DEF round, TabName
  <1>3. ASSUME RoundOver PROVE RoundIs'
    BY <1>3 DEF RoundOver
  <1>4. ASSUME at' \in {"keys", "left", "tab"}, hidden' \subseteq Hideable PROVE RoundIs'
    BY <1>4
  <1>5. ASSUME EntryDone, TabName \in Moveable, UNCHANGED tab_sel PROVE RoundIs'
    <2>1. at' = "moves" /\ hidden' = hidden /\ TabName' = TabName
      BY <1>5 DEF EntryDone, TabName
    <2>2. QED
      BY <1>1, <1>5, <2>1
  <1>6. CASE UNCHANGED vars
    BY <1>2, <1>6 DEF vars, cursor
  <1>7. CASE EnterAdrenalineMenu \/ AutoLoadState \/ GameChanges
    BY <1>2, <1>7 DEF EnterAdrenalineMenu, AutoLoadState, GameChanges, cursor
  <1>8. CASE RoundBegins
    <2>1. Hidden \subseteq Hideable
      BY DEF Hidden, Hideable
    <2>2. QED
      BY <1>4, <1>8, <2>1 DEF RoundBegins
  <1>9. CASE LeaveMenu
    BY <1>1, <1>4, <1>9 DEF LeaveMenu
  <1>10. CASE RoundEnds
    BY <1>3, <1>10 DEF RoundEnds
  <1>11. CASE PassEntry
    BY <1>5, <1>11 DEF PassEntry, cursor
  <1>12. CASE ChangeOption
    BY <1>5, <1>12 DEF ChangeOption, cursor, OptionEntry, Moveable
  <1>13. CASE LeaveByEntry \/ ResetSettings \/ LoadSelectedState
    BY <1>5, <1>13 DEF LeaveByEntry, ResetSettings, LoadSelectedState, Enters
  <1>14. CASE ExitPspEmuApplication
    BY <1>3, <1>14 DEF ExitPspEmuApplication
  <1>15. ASSUME NEW taken \in BOOLEAN, DoAction(taken) PROVE RoundIs'
    BY <1>5, <1>15 DEF DoAction, Enters
  <1>16. ASSUME NEW step \in {-1, 1}, ChangeTab(step) PROVE RoundIs'
    BY <1>1, <1>4, <1>16 DEF ChangeTab
  <1>17. ASSUME NEW step \in {-1, 1}, MoveCursor(step) \/ MoveOption(step) PROVE RoundIs'
    BY <1>3, <1>17 DEF MoveCursor, MoveOption, InStates
  <1>18. CASE StatesUp \/ StatesDown \/ CloseOptions \/ ChooseState \/ DeleteState
              \/ \E found \in BOOLEAN : OpenOptions(found)
    BY <1>3, <1>18 DEF StatesUp, StatesDown, CloseOptions, ChooseState, DeleteState, OpenOptions, InStates
  <1>19. QED
    BY <1>6, <1>7, <1>8, <1>9, <1>10, <1>11, <1>12, <1>13, <1>14, <1>15, <1>16, <1>17, <1>18 DEF Next

LEMMA SettingsNext ==
    ASSUME Settings, [Next]_vars PROVE Settings'
  <1> USE DEF Settings, cursor, window, options
  <1>1. CASE UNCHANGED vars
    BY <1>1 DEF vars
  <1>2. CASE EnterAdrenalineMenu \/ RoundBegins \/ RoundEnds \/ PassEntry \/ AutoLoadState \/ GameChanges
    BY <1>2 DEF EnterAdrenalineMenu, RoundBegins, RoundEnds, PassEntry, AutoLoadState, GameChanges
  <1>3. CASE ChangeOption
    <2>1. loadstate' \in LoadStates
      BY <1>3 DEF ChangeOption
    <2>2. aspect' \in BOOLEAN
      BY <1>3 DEF ChangeOption
    <2>3. QED
      BY <1>3, <2>1, <2>2 DEF ChangeOption
  <1>4. CASE LeaveMenu \/ LeaveByEntry \/ LoadSelectedState
    BY <1>4 DEF LeaveMenu, LeaveByEntry, LeavesOnly, LoadSelectedState, Leaves, Saved, Escaped, Enters, Jump
  <1>5. CASE ResetSettings
    BY <1>5 DEF ResetSettings, Saved, Escaped, Enters
  <1>6. CASE ExitPspEmuApplication
    BY <1>6 DEF ExitPspEmuApplication
  <1>7. ASSUME NEW taken \in BOOLEAN, DoAction(taken) PROVE Settings'
    BY <1>7 DEF DoAction, Leaves, Saved, Escaped, Enters
  <1>8. ASSUME NEW step \in {-1, 1}, ChangeTab(step) \/ MoveCursor(step) \/ MoveOption(step) PROVE Settings'
    BY <1>8 DEF ChangeTab, MoveCursor, MoveOption, InStates
  <1>9. CASE StatesUp \/ StatesDown \/ CloseOptions \/ ChooseState \/ DeleteState
             \/ \E found \in BOOLEAN : OpenOptions(found)
    BY <1>9 DEF StatesUp, StatesDown, CloseOptions, ChooseState, DeleteState, OpenOptions, InStates,
       Leaves, Saved, Escaped
  <1>10. QED
    BY <1>1, <1>2, <1>3, <1>4, <1>5, <1>6, <1>7, <1>8, <1>9 DEF Next

LEMMA WindowNext ==
    ASSUME Window, Settings, [Next]_vars PROVE Window'
  <1> USE DEF Window, N_OPTIONS
  <1>1. ASSUME UNCHANGED <<option_mode, option_sel, rel_pos>>,
               open_options' \in {open_options, FALSE}, crossed' \in BOOLEAN,
               listed' \in SUBSET (0 .. MAX_STATES - 1),
               \/ UNCHANGED <<base_pos, jump>>
               \/ loadstate >= 1 /\ base_pos' = loadstate - 1 /\ jump' = loadstate - 1
        PROVE  Window'
    <2>1. loadstate \in 0 .. MAX_STATES
      BY DEF Settings
    <2>2. base_pos' \in 0 .. MAX_STATES - 1 /\ jump' \in 0 .. MAX_STATES - 1
      BY <1>1, <2>1
    <2>3. QED
      BY <1>1, <2>2
  <1>2. CASE UNCHANGED vars
    BY <1>1, <1>2 DEF vars, window
  <1>3. CASE EnterAdrenalineMenu
    <2>1. 0 \in 0 .. 2 - 1 /\ 0 \in 0 .. 4 - 1
      OBVIOUS
    <2>2. UNCHANGED <<option_mode, base_pos, rel_pos, jump, crossed>> /\ option_sel' = 0
          /\ open_options' = FALSE /\ listed' \in SUBSET (0 .. MAX_STATES - 1)
      BY <1>3 DEF EnterAdrenalineMenu
    <2>3. QED
      BY <2>1, <2>2
  <1>4. CASE LeaveMenu \/ LeaveByEntry
    BY <1>4, <1>1 DEF LeaveMenu, LeaveByEntry, LeavesOnly, Leaves
  <1>5. CASE RoundBegins \/ RoundEnds \/ PassEntry \/ ChangeOption \/ ResetSettings \/ GameChanges
    BY <1>5, <1>1 DEF RoundBegins, RoundEnds, PassEntry, ChangeOption, ResetSettings, GameChanges, window
  <1>6. CASE LoadSelectedState
    BY <1>6, <1>1 DEF LoadSelectedState, Leaves, Jump
  <1>7. CASE AutoLoadState
    BY <1>7, <1>1 DEF AutoLoadState, Jump
  <1>8. CASE ExitPspEmuApplication
    <2>1. 0 \in 0 .. MAX_STATES - 1 /\ 0 \in 0 .. MAX_POSITION - 1 /\ 0 \in 0 .. 2 - 1
      OBVIOUS
    <2>2. /\ listed' = {} /\ open_options' = FALSE /\ option_mode' = "new" /\ option_sel' = 0
          /\ base_pos' = 0 /\ rel_pos' = 0 /\ jump' = 0 /\ crossed' = crossed
      BY <1>8 DEF ExitPspEmuApplication
    <2>3. QED
      BY <2>1, <2>2
  <1>9. ASSUME NEW taken \in BOOLEAN, DoAction(taken) PROVE Window'
    BY <1>9, <1>1 DEF DoAction, Leaves
  <1>10. ASSUME NEW step \in {-1, 1}, ChangeTab(step) \/ MoveCursor(step) PROVE Window'
    BY <1>10, <1>1 DEF ChangeTab, MoveCursor, window
  <1>11. ASSUME NEW step \in {-1, 1}, MoveOption(step) PROVE Window'
    BY <1>11 DEF MoveOption, InStates
  <1>12. CASE StatesUp
    BY <1>12 DEF StatesUp, InStates
  <1>13. CASE StatesDown
    BY <1>13 DEF StatesDown, InStates, Entry
  <1>14. CASE CloseOptions \/ ChooseState \/ DeleteState
    BY <1>14, <1>1 DEF CloseOptions, ChooseState, DeleteState, InStates, Leaves
  <1>15. ASSUME NEW found \in BOOLEAN, OpenOptions(found) PROVE Window'
    BY <1>15 DEF OpenOptions, InStates
  <1>16. QED
    BY <1>2, <1>3, <1>4, <1>5, <1>6, <1>7, <1>8, <1>9, <1>10, <1>11, <1>12, <1>13, <1>14, <1>15 DEF Next

LEMMA TypesAre == TypeOK <=> CursorIn /\ Window /\ Settings /\ RoundIs
  BY DEF TypeOK, CursorIn, Window, Settings, RoundIs

LEMMA InitTypes == Init => TypeOK
  <1> SUFFICES ASSUME Init PROVE TypeOK
    OBVIOUS
  <1>1. CursorIn
    <2>1. TabName = "main" /\ 0 \in 0 .. N_TABS - 1
      BY Tables DEF Init, TabName
    <2>2. QED
      BY <2>1, Tables DEF Init, CursorIn
  <1>2. Window
    <2>1. 0 \in 0 .. MAX_STATES - 1 /\ 0 \in 0 .. MAX_POSITION - 1 /\ 0 \in 0 .. 2 - 1
      OBVIOUS
    <2>2. QED
      BY <2>1 DEF Init, Window, N_OPTIONS
  <1>3. Settings
    BY DEF Init, Settings
  <1>4. RoundIs
    BY DEF Init, RoundIs
  <1>5. QED
    BY <1>1, <1>2, <1>3, <1>4, TypesAre

-----------------------------------------------------------------------------
(* The list of states *)

LEMMA WindowInListNext ==
    ASSUME Window, Settings, WindowInList, [Next]_vars PROVE WindowInList'
  <1> USE DEF WindowInList
  <1>1. ASSUME \/ UNCHANGED <<base_pos, jump>>
               \/ loadstate >= 1 /\ base_pos' = loadstate - 1 /\ jump' = loadstate - 1
        PROVE  WindowInList'
    BY <1>1 DEF Settings
  <1>2. CASE UNCHANGED vars
    BY <1>1, <1>2 DEF vars, window
  <1>3. CASE EnterAdrenalineMenu \/ RoundBegins \/ LeaveMenu \/ LeaveByEntry \/ RoundEnds \/ PassEntry
             \/ ChangeOption \/ ResetSettings \/ GameChanges
    BY <1>3, <1>1 DEF EnterAdrenalineMenu, RoundBegins, LeaveMenu, LeaveByEntry, LeavesOnly, RoundEnds,
       PassEntry, ChangeOption, ResetSettings, GameChanges, window
  <1>4. CASE LoadSelectedState \/ AutoLoadState
    BY <1>4, <1>1 DEF LoadSelectedState, AutoLoadState, Jump
  <1>5. CASE ExitPspEmuApplication
    BY <1>5 DEF ExitPspEmuApplication
  <1>6. ASSUME NEW taken \in BOOLEAN, DoAction(taken) PROVE WindowInList'
    BY <1>6, <1>1 DEF DoAction
  <1>7. ASSUME NEW step \in {-1, 1}, ChangeTab(step) \/ MoveCursor(step) \/ MoveOption(step) PROVE WindowInList'
    BY <1>7, <1>1 DEF ChangeTab, MoveCursor, MoveOption, InStates, window
  <1>8. CASE StatesUp
    BY <1>8 DEF StatesUp, InStates, Window
  <1>9. CASE StatesDown
    BY <1>9 DEF StatesDown, InStates, Entry, Window
  <1>10. CASE CloseOptions \/ ChooseState \/ DeleteState \/ \E found \in BOOLEAN : OpenOptions(found)
    BY <1>10, <1>1 DEF CloseOptions, ChooseState, DeleteState, OpenOptions, InStates
  <1>11. QED
    BY <1>2, <1>3, <1>4, <1>5, <1>6, <1>7, <1>8, <1>9, <1>10 DEF Next

LEMMA OptionsMatchNext ==
    ASSUME Window, Settings, OptionsMatch, [Next]_vars PROVE OptionsMatch'
  <1> USE DEF OptionsMatch, Entry
  <1>1. ASSUME UNCHANGED <<menu_open, open_options, crossed, option_mode, listed, base_pos, rel_pos>>
        PROVE  OptionsMatch'
    BY <1>1
  <1>2. ASSUME ~menu_open' \/ ~open_options' PROVE OptionsMatch'
    BY <1>2
  <1>3. CASE UNCHANGED vars
    BY <1>1, <1>3 DEF vars, window
  <1>4. CASE EnterAdrenalineMenu \/ LeaveMenu \/ LeaveByEntry \/ LoadSelectedState \/ ExitPspEmuApplication
             \/ CloseOptions \/ ChooseState \/ DeleteState
    BY <1>4, <1>2 DEF EnterAdrenalineMenu, LeaveMenu, LeaveByEntry, LeavesOnly, LoadSelectedState, Leaves,
       ExitPspEmuApplication, CloseOptions, ChooseState, DeleteState
  <1>5. CASE RoundBegins \/ RoundEnds \/ PassEntry \/ ChangeOption \/ ResetSettings \/ GameChanges
    BY <1>5, <1>1 DEF RoundBegins, RoundEnds, PassEntry, ChangeOption, ResetSettings, GameChanges, window
  <1>6. ASSUME NEW taken \in BOOLEAN, DoAction(taken) PROVE OptionsMatch'
    <2>1. CASE taken
      BY <1>6, <2>1, <1>2 DEF DoAction, Leaves
    <2>2. CASE ~taken
      BY <1>6, <2>2, <1>1 DEF DoAction
    <2>3. QED
      BY <2>1, <2>2
  <1>7. ASSUME NEW step \in {-1, 1}, ChangeTab(step) \/ MoveCursor(step) \/ MoveOption(step) PROVE OptionsMatch'
    BY <1>7, <1>1 DEF ChangeTab, MoveCursor, MoveOption, InStates, window
  <1>8. CASE StatesUp \/ StatesDown
    BY <1>8, <1>2 DEF StatesUp, StatesDown, Window
  <1>9. CASE AutoLoadState
    <2>1. CASE open_options
      BY <1>9, <2>1 DEF AutoLoadState
    <2>2. CASE ~open_options
      BY <1>9, <2>2, <1>2 DEF AutoLoadState
    <2>3. QED
      BY <2>1, <2>2
  <1>10. ASSUME NEW found \in BOOLEAN, OpenOptions(found) PROVE OptionsMatch'
    BY <1>10 DEF OpenOptions, InStates, Exists
  <1>11. QED
    BY <1>3, <1>4, <1>5, <1>6, <1>7, <1>8, <1>9, <1>10 DEF Next

-----------------------------------------------------------------------------
(* What the user set *)

\* What is unsaved counts as a change in the open menu, and will be stored when it is
\* left, or it has escaped.
WillBeStored == unsaved => (menu_open /\ changed) \/ slips # {}

LEMMA StoredNext ==
    ASSUME Settings, WillBeStored, [Next]_vars PROVE WillBeStored'
  <1> USE DEF WillBeStored
  <1>1. ASSUME UNCHANGED <<menu_open, unsaved, slips>>, changed => changed' PROVE WillBeStored'
    BY <1>1
  <1>2. ASSUME Leaves PROVE WillBeStored'
    <2>1. CASE changed
      BY <1>2, <2>1 DEF Leaves, Saved
    <2>2. CASE ~changed
      <3>1. unsaved' => unsaved
        BY <1>2 DEF Leaves, Saved
      <3>2. slips' = slips
        BY <1>2, <2>2 DEF Leaves, Escaped
      <3>3. QED
        BY <2>2, <3>1, <3>2
    <2>3. QED
      BY <2>1, <2>2
  <1>3. CASE UNCHANGED vars
    BY <1>1, <1>3 DEF vars, options
  <1>4. CASE EnterAdrenalineMenu
    <2>1. unsaved' = unsaved /\ slips \subseteq slips' /\ (menu_open /\ unsaved => slips' # {})
      BY <1>4 DEF EnterAdrenalineMenu
    <2>2. QED
      BY <2>1
  <1>5. CASE LeaveMenu \/ LeaveByEntry \/ LoadSelectedState
    BY <1>5, <1>2 DEF LeaveMenu, LeaveByEntry, LeavesOnly, LoadSelectedState
  <1>6. CASE RoundBegins \/ RoundEnds \/ PassEntry \/ AutoLoadState \/ GameChanges
    BY <1>6, <1>1 DEF RoundBegins, RoundEnds, PassEntry, AutoLoadState, GameChanges, options
  <1>7. CASE ChangeOption
    <2>1. menu_open' = menu_open /\ changed' = TRUE /\ (~menu_open => slips' # {})
      BY <1>7 DEF ChangeOption
    <2>2. QED
      BY <2>1
  <1>8. CASE ResetSettings
    <2>1. CASE changed
      BY <1>8, <2>1 DEF ResetSettings, Saved
    <2>2. CASE ~changed
      BY <1>8, <2>2 DEF ResetSettings, Escaped
    <2>3. QED
      BY <2>1, <2>2
  <1>9. CASE ExitPspEmuApplication
    BY <1>9 DEF ExitPspEmuApplication
  <1>10. ASSUME NEW taken \in BOOLEAN, DoAction(taken) PROVE WillBeStored'
    <2>1. CASE taken
      BY <1>10, <2>1, <1>2 DEF DoAction
    <2>2. CASE ~taken
      BY <1>10, <2>2, <1>1 DEF DoAction
    <2>3. QED
      BY <2>1, <2>2
  <1>11. ASSUME NEW step \in {-1, 1}, ChangeTab(step) \/ MoveCursor(step) \/ MoveOption(step)
         PROVE  WillBeStored'
    BY <1>11, <1>1 DEF ChangeTab, MoveCursor, MoveOption, InStates, options
  <1>12. CASE ChooseState
    BY <1>12, <1>2 DEF ChooseState
  <1>13. CASE StatesUp \/ StatesDown \/ CloseOptions \/ DeleteState \/ \E found \in BOOLEAN : OpenOptions(found)
    BY <1>13, <1>1 DEF StatesUp, StatesDown, CloseOptions, DeleteState, OpenOptions, InStates
  <1>14. QED
    BY <1>3, <1>4, <1>5, <1>6, <1>7, <1>8, <1>9, <1>10, <1>11, <1>12, <1>13 DEF Next

-----------------------------------------------------------------------------
(* The theorems *)

\* The cursor, the window and the options stay in their tables, for any number of
\* states and any size of the window (ctrlMenu, ctrlStates).
THEOREM TypesKept == Spec => []TypeOK
  <1>1. TypeOK /\ [Next]_vars => TypeOK'
    <2> SUFFICES ASSUME TypeOK, [Next]_vars PROVE TypeOK'
      OBVIOUS
    <2>1. Window /\ Settings
      BY TypesAre
    <2>2. CursorIn' /\ Window' /\ Settings' /\ RoundIs'
      BY <2>1, CursorNext, WindowNext, SettingsNext, RoundNext
    <2>3. QED
      BY <2>2 DEF TypeOK, CursorIn, Window, Settings, RoundIs
  <1>2. QED
    BY InitTypes, <1>1, PTL DEF Spec

\* What is shown of the list of states is in the list, but for a window that was set
\* to a number, and the options act on the entry they are shown for (ctrlStates).
THEOREM ListCorrect == Spec => []ListShown
  <1>1. Init => ListShown
    BY DEF Init, ListShown, WindowInList, OptionsMatch
  <1>2. TypeOK /\ ListShown /\ [Next]_vars => ListShown'
    <2> SUFFICES ASSUME TypeOK, ListShown, [Next]_vars PROVE ListShown'
      OBVIOUS
    <2>1. Window /\ Settings
      BY TypesAre
    <2>2. WindowInList' /\ OptionsMatch'
      BY <2>1, WindowInListNext, OptionsMatchNext DEF ListShown
    <2>3. QED
      BY <2>2 DEF ListShown
  <1>3. QED
    BY TypesKept, <1>1, <1>2, PTL DEF Spec

\* When the menu is closed what the user set is stored, but for settings reset while
\* nothing else had been touched, a key in the frame that leaves the menu, and a second
\* entry into the open menu (saveConfigs, ctrlMenu, ScePspemuCustomSettingsHandler).
THEOREM StoredOnLeaving == Spec => []OptionsStored
  <1>1. Init => WillBeStored
    BY DEF Init, WillBeStored
  <1>2. TypeOK /\ WillBeStored /\ [Next]_vars => WillBeStored'
    BY StoredNext, TypesAre
  <1>3. WillBeStored => OptionsStored
    BY DEF WillBeStored, OptionsStored
  <1>4. QED
    BY TypesKept, <1>1, <1>2, <1>3, PTL DEF Spec

\* A cursor that is moved lands on an entry that drawMenu draws, in one turn of the
\* loop that ctrlMenu makes over the entries that are not shown.
THEOREM CursorOnEntry == Spec => CursorDrawn
  <1> DEFINE Lands == menu_sel' # menu_sel /\ tab_sel' = tab_sel => menu_sel' \in Drawn(TabName)
  <1>1. TypeOK /\ [Next]_vars => [Lands]_vars
    <2> SUFFICES ASSUME TypeOK, [Next]_vars, menu_sel' # menu_sel, tab_sel' = tab_sel
                 PROVE  menu_sel' \in Drawn(TabName)
      OBVIOUS
    <2>1. ~(UNCHANGED cursor)
      BY DEF cursor
    <2>2. \/ \E step \in {-1, 1} : ChangeTab(step) \/ MoveCursor(step)
          \/ ExitPspEmuApplication \/ \E taken \in BOOLEAN : DoAction(taken)
      BY <2>1 DEF Next, vars, EnterAdrenalineMenu, RoundBegins, LeaveMenu, RoundEnds, PassEntry, MoveOption, InStates, ChangeOption, LeaveByEntry,
         ResetSettings, LoadSelectedState, Enters, StatesUp, StatesDown, OpenOptions, CloseOptions,
         ChooseState, DeleteState, AutoLoadState, GameChanges, cursor
    <2>3. ASSUME NEW step \in {-1, 1}, ChangeTab(step) PROVE FALSE
      BY <2>3 DEF ChangeTab, TypeOK
    <2>4. CASE ExitPspEmuApplication
      <3>1. menu_sel' = 0 /\ TabName = "main"
        BY <2>4 DEF ExitPspEmuApplication
      <3>2. <<"main", 0>> \notin hidden
        BY DEF TypeOK, Hideable
      <3>3. QED
        BY <3>1, <3>2, Tables DEF Drawn
    <2>5. ASSUME NEW taken \in BOOLEAN, DoAction(taken) PROVE menu_sel' \in Drawn(TabName)
      <3>1. menu_sel' = 0 /\ Enters("ExitGame")
        BY <2>5 DEF DoAction
      <3>2. PICK tab \in Moveable : tab = TabName
        BY <3>1 DEF Enters
      <3>3. <<tab, 0>> \notin hidden
        BY DEF TypeOK, Hideable
      <3>4. N_ENTRIES[tab] \in {5, 14}
        BY Tables DEF Moveable
      <3>5. QED
        BY <3>1, <3>2, <3>3, <3>4 DEF Drawn
    <2>6. QED
      BY <2>2, <2>3, <2>4, <2>5, CursorMoved
  <1>2. QED
    BY TypesKept, <1>1, PTL DEF Spec, CursorDrawn

=============================================================================
