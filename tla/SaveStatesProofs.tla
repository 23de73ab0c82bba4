-------------------------- MODULE SaveStatesProofs --------------------------
(***************************************************************************)
(* SaveStates for every set of locations, numbers and moments, any number  *)
(* of requests, kills and failing calls: the files are whole, the old      *)
(* state is kept until the new one is complete, and the files and the      *)
(* PSP's memory implement StateSlots.  What was disturbed once ends        *)
(* nothing: the menu, the PSP and AdrenalineCompat go on after it.         *)
(***************************************************************************)
EXTENDS SaveStates, TLAPS

USE SentinelAssumption, FileAssumption

-----------------------------------------------------------------------------
(* The inductive invariant *)

Saves == {"part1", "part2", "header", "close", "rename"}
Loads == {"read1", "read2", "readd"}

\* What every variable can hold.
Types ==
    /\ file \in [Path -> Content \cup {Absent}]
    /\ tmp \in [Path -> Content \cup {Absent}]
    /\ location \in Location
    /\ num \in Num
    /\ psp_cmd \in {"NONE", "SAVESTATE", "LOADSTATE"}
    /\ savestate_mode \in {"NONE", "SAVESTATE", "LOADSTATE"}
    /\ pp \in {"run", "stop", "request", "answered"}
    /\ ram \in [1..2 -> Part]
    /\ compat \in [at: Stage, p: Path]
    /\ draw \in [at: {"round", "create", "shot", "num", "send"}, p: Path,
                 cmd: {"NONE", "SAVESTATE", "LOADSTATE", "SELECTED"}]
    /\ listed \subseteq Num
    /\ loadstate \in Selected
    /\ torn \subseteq Path
    /\ spoiled \in BOOLEAN

\* The PSP waits for its answer while AdrenalineCompat is at work.
PspWaits == compat.at \in Saves \cup Loads => pp = "request"

\* The file that is at work exists.
AtWork ==
    /\ compat.at \in Saves => tmp[compat.p] # Absent
    /\ compat.at \in Loads => file[compat.p] # Absent

\* A state that is saved undisturbed is one moment, is not open in the menu, and its
\* .tmp file holds what has been written of the PSP's memory.
Written ==
    compat.at \in Saves /\ compat.p \notin torn =>
        /\ ~spoiled /\ ~DrawHas(compat.p)
        /\ compat.at # "part1" => tmp[compat.p].ram_part1 = ram[1]
        /\ compat.at \notin {"part1", "part2"} => tmp[compat.p].ram_part2 = ram[2]
        /\ compat.at \in {"close", "rename"} => tmp[compat.p].magic = TRUE

\* The PSP's memory is one moment or spoiled, except in the middle of a load: then
\* its first half is what the file has, or nothing.
RamWhole ==
    /\ ~spoiled => ram[2] \in Moment /\ (compat.at # "read2" => ram[1] = ram[2])
    /\ compat.at = "read2" /\ compat.p \notin torn =>
           ram[1] \in {file[compat.p].ram_part1, Hole}

Inv == Types /\ PspWaits /\ AtWork /\ Written /\ RamWhole /\ FilesWhole
-----------------------------------------------------------------------------
(* Types are kept *)

LEMMA RamType == \A x, y \in Part : <<x, y>> \in [1..2 -> Part] /\ <<x, y>>[1] = x /\ <<x, y>>[2] = y
  OBVIOUS

LEMMA FileTypes ==
    /\ Blank \in Content
    /\ \A m \in Moment : StateOf(m) \in Content
    /\ \A c \in Content, b \in BOOLEAN : [c EXCEPT !.magic = b] \in Content
    /\ \A c \in Content, x \in Part : [c EXCEPT !.ram_part1 = x] \in Content
    /\ \A c \in Content, x \in Part : [c EXCEPT !.ram_part2 = x] \in Content
  BY DEF Blank, Content, StateOf, Part

LEMMA PathType == \A l \in Location, n \in Num : <<l, n>> \in Path /\ <<l, n>>[2] = n
  BY DEF Path

\* A part of a file that exists is replaced by one of the same kind.
LEMMA WriteTypes ==
    \A c \in Content, x \in Part : /\ [c EXCEPT !["ram_part1"] = x] \in Content
                                  /\ [c EXCEPT !["ram_part2"] = x] \in Content
                                  /\ [c EXCEPT !["magic"] = TRUE] \in Content
  BY DEF Content

LEMMA InitTypes == Init => Types
  <1> SUFFICES ASSUME Init PROVE Types
    OBVIOUS
  <1>1. Somewhere \in Path
    BY PathType DEF Init, Somewhere
  <1>2. ram \in [1..2 -> Part]
    BY RamType DEF Init, Part
  <1>3. file \in [Path -> Content \cup {Absent}] /\ tmp \in [Path -> Content \cup {Absent}]
    BY FileTypes DEF Init
  <1>4. compat \in [at: Stage, p: Path]
    BY <1>1 DEF Init, IdleCompat, Stage
  <1>5. draw \in [at: {"round", "create", "shot", "num", "send"}, p: Path,
                  cmd: {"NONE", "SAVESTATE", "LOADSTATE", "SELECTED"}]
    BY <1>1 DEF Init, IdleDraw
  <1>6. QED
    BY <1>2, <1>3, <1>4, <1>5 DEF Init, Types

LEMMA NextTypes == Types /\ AtWork /\ [Next]_vars => Types'
  <1> SUFFICES ASSUME Types, AtWork, [Next]_vars PROVE Types'
    OBVIOUS
  <1> USE DEF Types, files, psp, menu
  <1>p. /\ compat.p \in Path /\ draw.p \in Path /\ draw.p[2] \in Num
        /\ Somewhere \in Path /\ \A n \in Num : PathOf(n) \in Path
    BY PathType DEF Path, PathOf, Somewhere
  <1>idle. IdleCompat \in [at: Stage, p: Path] /\ IdleDraw.p \in Path
    BY <1>p DEF IdleCompat, IdleDraw, Stage
  <1>stage. \A s \in Stage : [compat EXCEPT !.at = s] \in [at: Stage, p: Path]
    OBVIOUS
  <1>draw. \A s \in {"round", "create", "shot", "num", "send"} :
               [draw EXCEPT !.at = s] \in [at: {"round", "create", "shot", "num", "send"}, p: Path,
                 cmd: {"NONE", "SAVESTATE", "LOADSTATE", "SELECTED"}]
    OBVIOUS
  <1>1. CASE EnterMenu \/ ExitMenu \/ ChangeOptions
    BY <1>1 DEF EnterMenu, ExitMenu, ChangeOptions, RoundBegins, LeavesMenu
  <1>2. CASE LoadSelectedState
    BY <1>2, <1>p DEF LoadSelectedState, RoundBegins, LeavesMenu
  <1>3. ASSUME NEW n \in Num, ChooseSave(n) \/ ChooseLoad(n) \/ ChooseDelete(n)
        PROVE Types'
    BY <1>3, <1>p DEF ChooseSave, ChooseLoad, ChooseDelete, RoundBegins, LeavesMenu
  <1>4. CASE SaveStateCreate
    BY <1>4, <1>p, <1>draw, FileTypes DEF SaveStateCreate
  <1>5. CASE SaveStateShot
    <2>1. tmp[draw.p] # Absent => [tmp[draw.p] EXCEPT !.magic = FALSE] \in Content
      BY <1>p, FileTypes
    <2>2. tmp' \in [Path -> Content \cup {Absent}]
      BY <1>5, <2>1 DEF SaveStateShot
    <2>3. QED BY <1>5, <2>2, <1>draw DEF SaveStateShot
  <1>6. CASE DrawNum
    BY <1>6, <1>p, <1>draw DEF DrawNum
  <1>7. CASE DrawSend
    BY <1>7, <1>p DEF DrawSend, Send, IdleDraw
  <1>8. CASE PspRun
    <2>1. ram' \in [1..2 -> Part]
      BY <1>8, RamType DEF PspRun, Part
    <2>2. QED BY <1>8, <2>1 DEF PspRun
  <1>9. CASE PspTake \/ PspRequest \/ PspResume
    BY <1>9 DEF PspTake, PspRequest, PspResume
  <1>10. CASE SaveStateOpen \/ LoadStateOpen
    BY <1>10, <1>p DEF SaveStateOpen, LoadStateOpen, Answer, CompatUnchanged, Stage
  <1>write. ASSUME NEW at \in Stage, NEW next \in Stage, NEW part, NEW value,
                   [tmp[compat.p] EXCEPT ![part] = value] \in Content,
                   WritePart(at, part, value, next)
            PROVE Types'
    <2>1. tmp' \in [Path -> Content \cup {Absent}]
      BY <1>write DEF WritePart
    <2>2. QED BY <1>write, <2>1, <1>p, <1>stage DEF WritePart, CompatUnchanged
  <1>11. CASE SaveRamPart1 \/ SaveRamPart2 \/ SaveHeader
    <2>1. tmp[compat.p] \in Content /\ ram[1] \in Part /\ ram[2] \in Part
      BY <1>11, <1>p DEF SaveRamPart1, SaveRamPart2, SaveHeader, WritePart, AtWork, Saves
    <2>2. /\ [tmp[compat.p] EXCEPT !["ram_part1"] = ram[1]] \in Content
          /\ [tmp[compat.p] EXCEPT !["ram_part2"] = ram[2]] \in Content
          /\ [tmp[compat.p] EXCEPT !["magic"] = TRUE] \in Content
      BY <2>1, WriteTypes
    <2>3. QED
      BY <1>11, <1>write, <2>2 DEF SaveRamPart1, SaveRamPart2, SaveHeader, Stage
  <1>12. CASE SaveStateRemove
    BY <1>12, <1>stage DEF SaveStateRemove, CompatUnchanged, Stage
  <1>13. CASE SaveStateRename
    BY <1>13, <1>idle DEF SaveStateRename, Answer, CompatUnchanged
  <1>14. CASE LoadRamPart1 \/ LoadRamPart2
    <2>1. file[compat.p] \in Content
      BY <1>14, <1>p DEF LoadRamPart1, LoadRamPart2, ReadHalf, AtWork, Loads
    <2>2. ram' \in [1..2 -> Part] /\ spoiled' \in BOOLEAN
      <3>1. \E half \in 1..2, x \in Part : ram' = [ram EXCEPT ![half] = x]
        BY <1>14, <2>1 DEF LoadRamPart1, LoadRamPart2, ReadHalf, Content, Part
      <3>2. spoiled' \in BOOLEAN
        BY <1>14 DEF LoadRamPart1, LoadRamPart2
      <3>3. QED BY <3>1, <3>2
    <2>3. QED
      BY <1>14, <2>2, <1>stage DEF LoadRamPart1, LoadRamPart2, ReadHalf, CompatUnchanged, Stage
  <1>15. CASE LoadDescriptors
    BY <1>15, <1>idle DEF LoadDescriptors, Answer, CompatUnchanged
  <1>16. CASE AutoLoadState
    BY <1>16, <1>stage DEF AutoLoadState, Stage
  <1>17. CASE AutoLoadSend
    BY <1>17, <1>idle DEF AutoLoadSend, Send
  <1>18. CASE Kill
    <2>1. ram' \in [1..2 -> Part]
      BY <1>18, RamType DEF Kill, Part
    <2>2. QED BY <1>18, <2>1, <1>idle DEF Kill, IdleDraw
  <1>19. CASE UNCHANGED vars
    BY <1>19 DEF vars
  <1>20. QED
    BY <1>1, <1>2, <1>3, <1>4, <1>5, <1>6, <1>7, <1>8, <1>9, <1>10, <1>11, <1>12, <1>13,
       <1>14, <1>15, <1>16, <1>17, <1>18, <1>19
       DEF Next, Ask, Draw, Serve, Run

-----------------------------------------------------------------------------
(* The invariant *)

LEMMA InitInv == Init => Inv
  <1> SUFFICES ASSUME Init PROVE Inv
    OBVIOUS
  <1>1. RamWhole
    BY DEF Init, RamWhole, IdleCompat
  <1>2. FilesWhole
    BY FileTypes DEF Init, FilesWhole, Whole
  <1>3. PspWaits /\ AtWork /\ Written
    BY DEF Init, PspWaits, AtWork, Written, IdleCompat, Saves, Loads
  <1>4. QED BY <1>1, <1>2, <1>3, InitTypes DEF Inv

\* The parts besides the types.
Parts == PspWaits /\ AtWork /\ Written /\ RamWhole /\ FilesWhole

LEMMA NextParts == Inv /\ [Next]_vars => Parts'
  <1> SUFFICES ASSUME Inv, [Next]_vars PROVE Parts'
    OBVIOUS
  <1> USE DEF Inv, Parts, files, psp, menu
  <1>t. Types /\ Types'
    BY NextTypes
  <1>p. /\ compat.p \in Path /\ draw.p \in Path /\ compat.at \in Stage
        /\ \A n \in Num : PathOf(n) \in Path
    BY <1>t, PathType DEF Types, PathOf
  \* A step that leaves the work of AdrenalineCompat alone.
  <1>calm. ASSUME UNCHANGED <<file, tmp, ram, compat, torn, spoiled>>,
                  pp = "request" => pp' = "request",
                  DrawHas(compat.p)' => DrawHas(compat.p)
           PROVE Parts'
    BY <1>calm DEF PspWaits, AtWork, Written, RamWhole, FilesWhole
  <1>1. CASE EnterMenu \/ ExitMenu \/ ChangeOptions
    BY <1>1, <1>calm DEF EnterMenu, ExitMenu, ChangeOptions, DrawHas
  <1>2. CASE LoadSelectedState
    BY <1>2, <1>calm DEF LoadSelectedState, DrawHas
  <1>3. ASSUME NEW n \in Num, ChooseSave(n) \/ ChooseLoad(n)
        PROVE Parts'
    BY <1>3, <1>calm DEF ChooseSave, ChooseLoad, DrawHas
  <1>4. ASSUME NEW n \in Num, ChooseDelete(n)
        PROVE Parts'
    <2>1. UNCHANGED <<tmp, ram, compat, torn, spoiled, pp, draw>>
      BY <1>4 DEF ChooseDelete
    <2>2. \A p \in Path : file'[p] = file[p] \/ (file'[p] = Absent /\ ~Reading(p))
      BY <1>4, <1>p, <1>t DEF ChooseDelete, Types
    <2>3. compat.at \in Loads => file'[compat.p] = file[compat.p]
      BY <2>2, <1>p DEF Reading, Loads
    <2>4. QED
      BY <2>1, <2>2, <2>3
         DEF PspWaits, AtWork, Written, RamWhole, FilesWhole, DrawHas, Loads
  <1>5. CASE SaveStateCreate
    <2>0. CASE UNCHANGED <<tmp, torn>> /\ draw' = [draw EXCEPT !.at = "num"]
      BY <1>5, <2>0, <1>calm, <1>t DEF SaveStateCreate, DrawHas, Types
    <2> SUFFICES ASSUME tmp' = [tmp EXCEPT ![draw.p] = Blank],
                        torn' = IF Saving(draw.p) THEN torn \cup {draw.p} ELSE torn,
                        draw' = [draw EXCEPT !.at = "shot"]
                 PROVE Parts'
      BY <1>5, <2>0 DEF SaveStateCreate
    <2>1. UNCHANGED <<file, ram, compat, pp, spoiled>> /\ draw' = [draw EXCEPT !.at = "shot"]
      BY <1>5 DEF SaveStateCreate
    <2>2. \/ Saving(draw.p) /\ torn' = torn \cup {draw.p}
          \/ ~Saving(draw.p) /\ torn' = torn
      BY <1>5 DEF SaveStateCreate
    <2>3. tmp'[draw.p] = Blank /\ \A p \in Path \ {draw.p} : tmp'[p] = tmp[p]
      BY <1>5, <1>t, <1>p DEF SaveStateCreate, Types
    <2>4. PspWaits' /\ AtWork' /\ FilesWhole' /\ RamWhole'
      BY <2>1, <2>2, <2>3, <1>t, <1>p, FileTypes
         DEF PspWaits, AtWork, FilesWhole, RamWhole, Saving, Saves, Loads, Types
    <2>5. Written'
      BY <2>1, <2>2, <2>3, <1>t, <1>p DEF Written, Saving, Saves, DrawHas, Types
    <2>6. QED BY <2>4, <2>5
  <1>6. CASE SaveStateShot
    <2>1. UNCHANGED <<file, ram, compat, pp, torn, spoiled>> /\ draw' = [draw EXCEPT !.at = "num"]
      BY <1>6 DEF SaveStateShot
    <2>2. DrawHas(draw.p)
      BY <1>6 DEF SaveStateShot, DrawHas
    <2>3. \A p \in Path \ {draw.p} : tmp'[p] = tmp[p]
      BY <1>6, <1>t, <1>p DEF SaveStateShot, Types
    <2>4. tmp[draw.p] # Absent => tmp'[draw.p] # Absent
      <3>1. tmp[draw.p] # Absent => [tmp[draw.p] EXCEPT !.magic = FALSE] \in Content
        BY <1>t, <1>p, FileTypes DEF Types
      <3>2. QED BY <3>1, <1>6, <1>t, <1>p DEF SaveStateShot, Types
    <2>5. Written'
      BY <2>1, <2>2, <2>3, <1>t, <1>p DEF Written, DrawHas, Types
    <2>6. QED
      BY <2>1, <2>3, <2>4, <2>5, <1>p DEF PspWaits, AtWork, RamWhole, FilesWhole
  <1>7. CASE DrawNum \/ DrawSend
    BY <1>7, <1>calm, <1>t DEF DrawNum, DrawSend, Send, DrawHas, IdleDraw, Types
  <1>8. CASE PspRun
    BY <1>8, RamType, <1>t, <1>p
       DEF PspRun, PspWaits, AtWork, Written, RamWhole, FilesWhole, DrawHas, Part, Saves,
           Loads
  <1>9. CASE PspTake \/ PspRequest \/ PspResume
    BY <1>9, <1>calm DEF PspTake, PspRequest, PspResume, DrawHas
  <1>10. CASE SaveStateOpen
    BY <1>10, <1>t, <1>p
       DEF SaveStateOpen, Answer, CompatUnchanged, PspWaits, AtWork, Written,
           RamWhole, FilesWhole, DrawHas, Saves, Loads
  <1>11. CASE LoadStateOpen
    BY <1>11, <1>t, <1>p
       DEF LoadStateOpen, Answer, CompatUnchanged, PspWaits, AtWork, Written,
           RamWhole, FilesWhole, DrawHas, Saves, Loads
  \* A part is written, or the write fails and the path is torn.
  <1>write. ASSUME NEW at \in Saves, NEW next \in Saves, NEW part, NEW value,
                   [tmp[compat.p] EXCEPT ![part] = value] \in Content,
                   WritePart(at, part, value, next)
            PROVE /\ UNCHANGED <<file, ram, draw, pp, spoiled>>
                  /\ compat.at = at /\ compat'.at = next /\ compat'.p = compat.p
                  /\ \/ torn' = torn \cup {compat.p}
                     \/ /\ torn' = torn
                        /\ tmp'[compat.p] = [tmp[compat.p] EXCEPT ![part] = value]
                  /\ PspWaits' /\ AtWork' /\ RamWhole' /\ FilesWhole'
    <2>1. /\ UNCHANGED <<file, ram, draw, pp, spoiled>>
          /\ compat.at = at /\ compat'.at = next /\ compat'.p = compat.p
      BY <1>write, <1>t DEF WritePart, CompatUnchanged, Types
    <2>2. \/ torn' = torn \cup {compat.p} /\ tmp' = tmp
          \/ /\ torn' = torn
             /\ tmp'[compat.p] = [tmp[compat.p] EXCEPT ![part] = value]
      BY <1>write, <1>t, <1>p DEF WritePart, Types
    <2>3. tmp'[compat.p] # Absent
      BY <1>write, <2>1, <2>2 DEF AtWork
    <2>4. PspWaits' /\ AtWork'
      BY <2>1, <2>3 DEF PspWaits, AtWork, Saves, Loads
    <2>5. RamWhole' /\ FilesWhole'
      BY <2>1, <2>2 DEF RamWhole, FilesWhole, Saves
    <2>6. QED BY <2>1, <2>2, <2>4, <2>5
  <1>value. compat.at \in Saves =>
              /\ tmp[compat.p] \in Content
              /\ [tmp[compat.p] EXCEPT !["ram_part1"] = ram[1]] \in Content
              /\ [tmp[compat.p] EXCEPT !["ram_part2"] = ram[2]] \in Content
              /\ [tmp[compat.p] EXCEPT !["magic"] = TRUE] \in Content
    <2>1. compat.at \in Saves => tmp[compat.p] \in Content
      BY <1>t, <1>p DEF AtWork, Types
    <2>2. ram[1] \in Part /\ ram[2] \in Part
      BY <1>t DEF Types
    <2>3. QED BY <2>1, <2>2, WriteTypes
  <1>12. CASE SaveRamPart1
    <2>1. WritePart("part1", "ram_part1", ram[1], "part2") /\ compat.at \in Saves
      BY <1>12 DEF SaveRamPart1, WritePart, Saves
    <2>2. Written'
      BY <2>1, <1>write, <1>value DEF Written, Saves, DrawHas, Content
    <2>3. QED BY <2>1, <2>2, <1>write, <1>value DEF Saves
  <1>13. CASE SaveRamPart2
    <2>1. WritePart("part2", "ram_part2", ram[2], "header") /\ compat.at \in Saves
      BY <1>13 DEF SaveRamPart2, WritePart, Saves
    <2>2. Written'
      BY <2>1, <1>write, <1>value DEF Written, Saves, DrawHas, Content
    <2>3. QED BY <2>1, <2>2, <1>write, <1>value DEF Saves
  <1>14. CASE SaveHeader
    <2>1. WritePart("header", "magic", TRUE, "close") /\ compat.at \in Saves
      BY <1>14 DEF SaveHeader, WritePart, Saves
    <2>2. Written'
      <3>1. LET c == tmp[compat.p]
                d == [c EXCEPT !["magic"] = TRUE]
            IN  /\ d.magic = TRUE /\ d.ram_part1 = c.ram_part1 /\ d.ram_part2 = c.ram_part2
        BY <2>1, <1>value DEF Content
      <3>2. /\ UNCHANGED <<ram, draw, spoiled>> /\ compat.at = "header" /\ compat'.at = "close"
            /\ compat'.p = compat.p
        BY <2>1, <1>t DEF WritePart, CompatUnchanged, Types
      <3>3. CASE torn' = torn \cup {compat.p}
        BY <3>2, <3>3 DEF Written
      <3>4. CASE torn' = torn /\ tmp' = [tmp EXCEPT ![compat.p]["magic"] = TRUE]
        <4>1. tmp'[compat.p] = [tmp[compat.p] EXCEPT !["magic"] = TRUE]
          BY <3>4, <1>t, <1>p DEF Types
        <4>2. /\ tmp'[compat.p].magic = TRUE
              /\ tmp'[compat.p].ram_part1 = tmp[compat.p].ram_part1
              /\ tmp'[compat.p].ram_part2 = tmp[compat.p].ram_part2
          BY <4>1, <3>1
        <4>3. QED BY <4>2, <3>2, <3>4 DEF Written, Saves, DrawHas
      <3>5. QED BY <2>1, <3>3, <3>4 DEF WritePart
    <2>3. QED BY <2>1, <2>2, <1>write, <1>value DEF Saves
  <1>15. CASE SaveStateRemove
    BY <1>15, <1>t, <1>p
       DEF SaveStateRemove, CompatUnchanged, PspWaits, AtWork, Written,
           RamWhole, FilesWhole, DrawHas, Saves, Loads, Types
  <1>16. CASE SaveStateRename
    BY <1>16, <1>t, <1>p
       DEF SaveStateRename, Answer, CompatUnchanged, PspWaits, AtWork, Written,
           RamWhole, FilesWhole, DrawHas, Saves, Loads, Types, IdleCompat, Whole, StateOf, Content
  <1>17. CASE LoadRamPart1
    BY <1>17, <1>t, <1>p
       DEF LoadRamPart1, ReadHalf, CompatUnchanged, PspWaits, AtWork, Written,
           RamWhole, FilesWhole, DrawHas, Saves, Loads, Types
  <1>18. CASE LoadRamPart2
    <2>1. /\ UNCHANGED <<file, tmp, torn, draw, pp>> /\ compat.at = "read2"
          /\ compat'.at = "readd" /\ compat'.p = compat.p
          /\ \/ ram' = [ram EXCEPT ![2] = file[compat.p].ram_part2]
             \/ ram' = [ram EXCEPT ![2] = Hole]
          /\ spoiled' = (compat.p \in torn \/ Hole \in {ram'[1], ram'[2]})
      BY <1>18, <1>t DEF LoadRamPart2, ReadHalf, CompatUnchanged, Types
    <2>2. PspWaits' /\ AtWork' /\ Written' /\ FilesWhole'
      BY <2>1 DEF PspWaits, AtWork, Written, FilesWhole, Saves, Loads
    <2>3. RamWhole'
      <3> SUFFICES ASSUME ~spoiled' PROVE ram'[2] \in Moment /\ ram'[1] = ram'[2]
        BY <2>1 DEF RamWhole
      <3>1. compat.p \notin torn /\ ram'[1] # Hole /\ ram'[2] # Hole
        BY <2>1
      <3>2. PICK m \in Moment : file[compat.p] = StateOf(m)
        BY <2>1, <3>1, <1>p DEF AtWork, Loads, FilesWhole, Whole
      <3>3. ram'[2] = m
        BY <2>1, <3>1, <3>2, <1>t DEF StateOf, Types
      <3>4. ram'[1] = ram[1] /\ ram[1] \in {file[compat.p].ram_part1, Hole}
        BY <2>1, <3>1, <1>t DEF RamWhole, Types
      <3>5. QED BY <3>1, <3>2, <3>3, <3>4 DEF StateOf
    <2>4. QED BY <2>2, <2>3
  <1>19. CASE LoadDescriptors
    BY <1>19, <1>t, <1>p
       DEF LoadDescriptors, Answer, CompatUnchanged, PspWaits, AtWork, Written,
           RamWhole, FilesWhole, Saves, Loads, IdleCompat
  <1>20. CASE AutoLoadState \/ AutoLoadSend
    BY <1>20, <1>t, <1>p
       DEF AutoLoadState, AutoLoadSend, Send, PspWaits, AtWork, Written,
           RamWhole, FilesWhole, Saves, Loads, IdleCompat, Types
  <1>21. CASE Kill
    BY <1>21, <1>t, RamType
       DEF Kill, PspWaits, AtWork, Written, RamWhole, FilesWhole, Saves, Loads, IdleCompat, Part
  <1>22. CASE UNCHANGED vars
    BY <1>22, <1>calm DEF vars, DrawHas
  <1>23. QED
    BY <1>1, <1>2, <1>3, <1>4, <1>5, <1>6, <1>7, <1>8, <1>9, <1>10, <1>11, <1>12, <1>13,
       <1>14, <1>15, <1>16, <1>17, <1>18, <1>19, <1>20, <1>21, <1>22
       DEF Next, Ask, Draw, Serve, Run

LEMMA Invariant == Spec => []Inv
  <1>1. Inv /\ [Next]_vars => Inv'
    BY NextTypes, NextParts DEF Inv, Parts
  <1>2. QED BY <1>1, InitInv, PTL DEF Spec

-----------------------------------------------------------------------------
(* What SaveState and LoadState guarantee *)

\* A file with the name of a state is one moment, unless its own saving was
\* disturbed; and so is the memory of a PSP that runs, unless what it loaded last
\* was such a file or could not be read.  Whatever is killed or fails before or
\* after, and however the menu and AdrenalineCompat interleave (SaveState and
\* LoadState of user/main.c).
THEOREM StatesCorrect == Spec => []StatesWhole
  <1>1. Inv => StatesWhole
    <2> SUFFICES ASSUME Inv PROVE OneMoment
      BY DEF Inv, StatesWhole
    <2>2. pp = "run" => compat.at # "read2"
      BY DEF Inv, PspWaits, Loads
    <2>3. QED BY <2>2 DEF Inv, RamWhole, OneMoment
  <1>2. QED BY <1>1, Invariant, PTL

\* When the old state is removed the new one is complete and stays: a kill before
\* the renaming leaves the whole state in the .tmp file (SaveState).
THEOREM OldStateKept == Spec => OldKept
  <1>1. Inv /\ [Next]_vars =>
          [\A p \in Path :
             (compat.p = p /\ compat.at = "close" /\ file[p] # Absent /\ file'[p] = Absent)
                => (p \in torn \/ (Whole(tmp[p]) /\ tmp'[p] = tmp[p]))]_vars
    <2> SUFFICES ASSUME Inv, Next, NEW p \in Path, compat.p = p, compat.at = "close",
                        file[p] # Absent, file'[p] = Absent, p \notin torn
                 PROVE Whole(tmp[p]) /\ tmp'[p] = tmp[p]
      OBVIOUS
    <2>1. Whole(tmp[p])
      <3>1. /\ tmp[p].ram_part1 = ram[1] /\ tmp[p].ram_part2 = ram[2] /\ tmp[p].magic = TRUE
            /\ tmp[p] # Absent
        BY DEF Inv, Written, AtWork, Saves
      <3>2. ram[1] = ram[2] /\ ram[2] \in Moment
        BY DEF Inv, Written, Saves, RamWhole
      <3>3. tmp[p] = StateOf(ram[2])
        BY <3>1, <3>2 DEF Inv, Types, Content, StateOf
      <3>4. QED BY <3>2, <3>3 DEF Whole
    <2>2. SaveStateRemove \/ \E n \in Num : ChooseDelete(n)
      BY DEF Next, Ask, Draw, Serve, Run, files, menu, EnterMenu, ExitMenu, ChangeOptions,
             LoadSelectedState, ChooseSave, ChooseLoad, SaveStateCreate, SaveStateShot,
             DrawNum, DrawSend, PspRun, PspTake, PspRequest, PspResume, SaveStateOpen,
             SaveRamPart1, SaveRamPart2, SaveHeader, WritePart, SaveStateRename,
             LoadStateOpen, LoadRamPart1, LoadRamPart2, ReadHalf, LoadDescriptors,
             AutoLoadState, AutoLoadSend, Kill
    <2>3. tmp' = tmp
      BY <2>2 DEF SaveStateRemove, ChooseDelete
    <2>4. QED BY <2>1, <2>3
  <1>2. QED BY <1>1, Invariant, PTL DEF Spec, OldKept

-----------------------------------------------------------------------------
(* The refinement of StateSlots *)

\* The refinement mapping of Slots, by name.
Slot(c) == IF c = Absent THEN None ELSE IF Whole(c) THEN c.ram_part1 ELSE Damaged
SlotMap == [p \in Path |-> Slot(file[p])]
MomentOf == IF spoiled THEN Damaged ELSE ram[2]

LEMMA SlotOfState == \A m \in Moment : Slot(StateOf(m)) = m
  BY FileTypes DEF Slot, Whole, StateOf

LEMMA StepImplements ==
    Inv /\ Inv' /\ [Next]_vars => [Slots!Next]_<<SlotMap, MomentOf, torn>>
  <1> SUFFICES ASSUME Inv, Inv', Next, UNCHANGED <<SlotMap, MomentOf, torn>> => FALSE
               PROVE Slots!Next
    BY DEF vars, files, psp, SlotMap, MomentOf
  <1> USE DEF files, psp, menu
  <1>t. Types /\ Types'
    BY DEF Inv
  <1>p. /\ compat.p \in Path /\ draw.p \in Path
        /\ \A n \in Num : PathOf(n) \in Path
    BY <1>t, PathType DEF Types, PathOf
  <1>stutter. UNCHANGED <<file, torn, spoiled>> /\ ram'[2] = ram[2] => FALSE
    BY DEF SlotMap, MomentOf
  <1>tear. ASSUME UNCHANGED <<file, ram, spoiled>>, NEW p \in Path, torn' = torn \cup {p}
           PROVE Slots!Next
    <2>1. UNCHANGED <<SlotMap, MomentOf>>
      BY <1>tear DEF SlotMap, MomentOf
    <2>2. Slots!Tear(p)
      BY <2>1, <1>tear DEF Slots!Tear, SlotMap, MomentOf, Slot
    <2>3. QED BY <2>2 DEF Slots!Next
  <1>run. ASSUME UNCHANGED <<file, torn>>, MomentOf' \in Moment
          PROVE Slots!Next
    <2>1. SlotMap' = SlotMap
      BY <1>run DEF SlotMap
    <2>2. Slots!Run
      BY <2>1, <1>run DEF Slots!Run, SlotMap, MomentOf, Slot
    <2>3. QED BY <2>2 DEF Slots!Next
  <1>drop. ASSUME UNCHANGED <<ram, torn, spoiled>>, NEW p \in Path, file' = [file EXCEPT ![p] = Absent]
           PROVE Slots!Next
    <2>1. SlotMap' = [SlotMap EXCEPT ![p] = None] /\ MomentOf' = MomentOf
      BY <1>drop, <1>t DEF SlotMap, MomentOf, Slot, Types
    <2>2. Slots!Drop(p)
      BY <2>1, <1>drop DEF Slots!Drop, SlotMap, Slot
    <2>3. QED BY <2>2 DEF Slots!Next
  <1>store. \A p \in Path : Slots!Store(p) => Slots!Next
    BY DEF Slots!Next
  <1>1. CASE EnterMenu \/ ExitMenu \/ ChangeOptions \/ LoadSelectedState
    BY <1>1, <1>stutter DEF EnterMenu, ExitMenu, ChangeOptions, LoadSelectedState
  <1>2. ASSUME NEW n \in Num, ChooseSave(n) \/ ChooseLoad(n)
        PROVE Slots!Next
    BY <1>2, <1>stutter DEF ChooseSave, ChooseLoad
  <1>3. ASSUME NEW n \in Num, ChooseDelete(n)
        PROVE Slots!Next
    BY <1>3, <1>stutter, <1>drop, <1>p DEF ChooseDelete
  <1>4. CASE SaveStateCreate
    BY <1>4, <1>stutter, <1>tear, <1>p DEF SaveStateCreate
  <1>5. CASE SaveStateShot \/ DrawNum \/ DrawSend
    BY <1>5, <1>stutter DEF SaveStateShot, DrawNum, DrawSend, Send
  <1>6. CASE PspRun
    <2>1. UNCHANGED <<file, torn, spoiled>> /\ \E m \in Moment : ram' = <<m, m>>
      BY <1>6 DEF PspRun
    <2>2. CASE spoiled
      BY <2>1, <2>2 DEF SlotMap, MomentOf
    <2>3. CASE ~spoiled
      BY <2>1, <2>3, <1>run, <1>t DEF MomentOf, Types
    <2>4. QED BY <2>2, <2>3
  <1>7. CASE PspTake \/ PspRequest \/ PspResume
    BY <1>7, <1>stutter DEF PspTake, PspRequest, PspResume
  <1>8. CASE SaveStateOpen
    BY <1>8, <1>stutter, <1>tear, <1>p, <1>t DEF SaveStateOpen, Answer, CompatUnchanged, Types
  <1>9. CASE LoadStateOpen
    BY <1>9, <1>stutter DEF LoadStateOpen, Answer
  <1>10. CASE SaveRamPart1 \/ SaveRamPart2 \/ SaveHeader
    <2>1. UNCHANGED <<file, ram, spoiled>> /\ (torn' = torn \/ torn' = torn \cup {compat.p})
      BY <1>10 DEF SaveRamPart1, SaveRamPart2, SaveHeader, WritePart
    <2>2. QED BY <2>1, <1>stutter, <1>tear, <1>p
  <1>11. CASE SaveStateRemove
    BY <1>11, <1>drop, <1>stutter, <1>p DEF SaveStateRemove
  <1>12. CASE SaveStateRename
    <2>1. CASE UNCHANGED files
      BY <1>12, <2>1, <1>stutter DEF SaveStateRename, Answer
    <2>2. CASE file' = [file EXCEPT ![compat.p] = tmp[compat.p]]
      <3>p. PICK p \in Path : p = compat.p
        BY <1>p
      <3>1. UNCHANGED <<ram, torn, spoiled>> /\ compat.at = "rename"
        BY <1>12 DEF SaveStateRename, Answer
      <3>2. tmp[compat.p] \in Content
        BY <3>1, <1>t, <1>p DEF Inv, AtWork, Saves, Types
      <3>3. SlotMap' = [SlotMap EXCEPT ![p] = Slot(tmp[compat.p])] /\ MomentOf' = MomentOf
        BY <2>2, <3>1, <3>p, <1>t DEF SlotMap, MomentOf, Types
      <3>4. CASE compat.p \in torn
        <4>1. Slot(tmp[compat.p]) \in Moment \cup {Damaged}
          <5>1. tmp[compat.p] # Absent
            BY <3>2
          <5>2. CASE Whole(tmp[compat.p])
            <6>1. PICK m \in Moment : tmp[compat.p] = StateOf(m)
              BY <5>2 DEF Whole
            <6>2. QED BY <6>1, SlotOfState
          <5>3. CASE ~Whole(tmp[compat.p])
            BY <5>1, <5>3 DEF Slot
          <5>4. QED BY <5>2, <5>3
        <4>2. Slots!Store(p)
          BY <3>1, <3>3, <3>4, <3>p, <4>1 DEF Slots!Store, SlotMap, MomentOf, Slot
        <4>3. QED BY <4>2, <1>store
      <3>5. CASE compat.p \notin torn
        <4>1. /\ tmp[compat.p].ram_part1 = ram[1] /\ tmp[compat.p].ram_part2 = ram[2]
              /\ tmp[compat.p].magic = TRUE
          BY <3>1, <3>5 DEF Inv, Written, Saves
        <4>2. ram[1] = ram[2] /\ ram[2] \in Moment /\ ~spoiled
          BY <3>1, <3>5, <1>p DEF Inv, Written, Saves, RamWhole
        <4>3. tmp[compat.p] = StateOf(ram[2])
          BY <3>2, <4>1, <4>2 DEF Content, StateOf
        <4>4. Slot(tmp[compat.p]) = ram[2] /\ MomentOf = ram[2]
          BY <4>2, <4>3, SlotOfState DEF MomentOf
        <4>5. Slots!Store(p)
          BY <3>1, <3>3, <3>p, <4>2, <4>4 DEF Slots!Store, SlotMap, MomentOf, Slot
        <4>6. QED BY <4>5, <1>store
      <3>6. QED BY <3>4, <3>5
    <2>3. QED BY <1>12, <2>1, <2>2 DEF SaveStateRename
  <1>13. CASE LoadRamPart1
    BY <1>13, <1>stutter, <1>t DEF LoadRamPart1, ReadHalf, Types
  <1>14. CASE LoadRamPart2
    <2>1. /\ UNCHANGED <<file, torn>> /\ compat.at = "read2"
          /\ \/ ram' = [ram EXCEPT ![2] = file[compat.p].ram_part2]
             \/ ram' = [ram EXCEPT ![2] = Hole]
          /\ spoiled' = (compat.p \in torn \/ Hole \in {ram'[1], ram'[2]})
      BY <1>14 DEF LoadRamPart2, ReadHalf
    <2>2. SlotMap' = SlotMap
      BY <2>1 DEF SlotMap
    <2>3. CASE spoiled'
      <3>1. MomentOf' = Damaged
        BY <2>3 DEF MomentOf
      <3>2. Slots!Damage
        BY <2>1, <2>2, <3>1 DEF Slots!Damage, SlotMap, MomentOf, Slot
      <3>3. QED BY <3>2 DEF Slots!Next
    <2>4. CASE ~spoiled'
      <3>1. compat.p \notin torn /\ ram'[2] # Hole
        BY <2>1, <2>4
      <3>2. PICK m \in Moment : file[compat.p] = StateOf(m)
        BY <2>1, <3>1, <1>p DEF Inv, AtWork, Loads, FilesWhole, Whole
      <3>3. MomentOf' = m
        BY <2>1, <2>4, <3>1, <3>2, <1>t DEF MomentOf, StateOf, Types
      <3>p. PICK p \in Path : p = compat.p
        BY <1>p
      <3>4. SlotMap[p] = m
        BY <3>p, <3>2, SlotOfState DEF SlotMap
      <3>5. Slots!Restore(p)
        BY <2>1, <2>2, <3>3, <3>4, <3>p DEF Slots!Restore, SlotMap, MomentOf, Slot
      <3>6. QED BY <3>5 DEF Slots!Next
    <2>5. QED BY <2>3, <2>4
  <1>15. CASE LoadDescriptors \/ AutoLoadState \/ AutoLoadSend
    BY <1>15, <1>stutter DEF LoadDescriptors, Answer, AutoLoadState, AutoLoadSend, Send
  <1>16. CASE Kill
    BY <1>16, <1>run DEF Kill, MomentOf
  <1>17. QED
    BY <1>1, <1>2, <1>3, <1>4, <1>5, <1>6, <1>7, <1>8, <1>9, <1>10, <1>11, <1>12, <1>13,
       <1>14, <1>15, <1>16
       DEF Next, Ask, Draw, Serve, Run

\* The files and the PSP's memory do what StateSlots promises: a slot is emptied or
\* stored as the PSP is at that moment, and a load brings back exactly what the
\* slot held; only a disturbed slot may be stale or damaged (SaveState, LoadState,
\* saveState of user/states.c).
THEOREM Refinement == Spec => Implements
  <1>1. Init => Slots!Init
    <2> SUFFICES ASSUME Init PROVE Slots!Init
      OBVIOUS
    <2>1. SlotMap \in [Path -> Moment \cup {None}]
      BY SlotOfState DEF Init, SlotMap, Slot
    <2>2. MomentOf \in Moment
      BY DEF Init, MomentOf
    <2>3. QED BY <2>1, <2>2 DEF Slots!Init, Init, SlotMap, MomentOf, Slot
  <1>2. Inv /\ Inv' /\ [Next]_vars => [Slots!Next]_Slots!vars
    BY StepImplements DEF Slots!vars, SlotMap, MomentOf, Slot
  <1>3. QED
    BY <1>1, <1>2, Invariant, PTL DEF Spec, Implements, Slots!Spec

=============================================================================
