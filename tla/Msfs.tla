-------------------------------- MODULE Msfs --------------------------------
(***************************************************************************)
(* The memory stick server of adrenaline_user, user/msfs.c: the PSP's file *)
(* requests, answered one at a time by the thread ScePspemuRemoteMsfs from *)
(* a table of descriptors over Vita file handles.                          *)
(*                                                                         *)
(* A file is its contents at a few positions.  A handle of the Vita is     *)
(* kept in the descriptor that uses it (fields fd, at and pos); the        *)
(* descriptor's own fields follow it.  A request that takes several steps  *)
(* on the card is several steps here, so that the application can be       *)
(* killed, the card remounted or its location changed between them.        *)
(***************************************************************************)
EXTENDS Integers, FiniteSets

CONSTANTS
    MaxDescriptors, \* MAX_DESCRIPTORS
    Device, Ux0,    \* memory stick locations, and the default one
    File, Dir,      \* the PSP's names for files and directories
    Root,           \* the root directory
    MaxPos,         \* positions of a file
    Entries,        \* entries of a directory
    Flags,          \* the flag sets that programs open files with
    Absent,         \* no file of that name
    Envs            \* what happens around the server: see EnvAssumption

ASSUME TableAssumption ==
    /\ MaxDescriptors \in Nat \ {0}
    /\ MaxPos \in Nat
    /\ Entries \in Nat

ASSUME NameAssumption ==
    Ux0 \in Device /\ Root \in Dir /\ File # {} /\ File \cap Dir = {}

\* A program that appends to a file does not truncate it as well.
ASSUME FlagAssumption ==
    Flags \subseteq (SUBSET {"creat", "trunc"}) \cup (SUBSET {"creat", "append"})

\* The card is remounted; the process is killed; calls on the card fail; the
\* menu changes the location; states are saved and loaded; programs seek after
\* their first write, open a file that is open, append, use directories, more than
\* one descriptor, and more than one file and position.
ASSUME EnvAssumption ==
    Envs \subseteq SUBSET {"remount", "crash", "fault", "location", "state", "seek",
                           "share", "append", "dir", "two", "data"}

VARIABLES
    env,             \* one of Envs; rigid
    files,           \* files[<<d, f>>]: contents of the file, or Absent
    backup,          \* contents of the file with "__TRUNC__" after its name
    dirs,            \* the directories that exist
    leaked,          \* files open on the Vita without a descriptor
    descriptor_list, \* the table
    req,             \* the request being answered
    held,            \* PSP: the descriptors it was given and has not closed
    location,        \* config.ms_location
    saved            \* saved states: the table, and the PSP's view of it

card == <<files, backup, dirs>>
table == <<descriptor_list, leaked>>
vars == <<env, card, table, req, held, location, saved>>

-----------------------------------------------------------------------------
(* Data *)

Slots == 0 .. MaxDescriptors - 1
Pos == 0 .. MaxPos - 1
Offset == 0 .. MaxPos

\* What a position holds: data from before, data the PSP wrote, a hole, bytes
\* of an uninitialized buffer, nothing.
Value == {"old", "new", "zero", "junk", "eof"}
Content == [Pos -> Value]
EmptyFile == [p \in Pos |-> "eof"]

ASSUME ContentAssumption == Absent \notin Content

Place == Device \X (File \cup Dir)

\* fd: 0, an open handle, a handle that a remount made invalid (ENODEV), or the
\* error code that a failed reopen leaves there.
Descriptor ==
    [fd: {"free", "live", "dead", "bad"}, at: Place, pos: Nat,
     path: File \cup Dir, flags: SUBSET {"creat", "trunc", "append"}, trunc: BOOLEAN,
     folder: BOOLEAN, offset: Nat, first_write: BOOLEAN,
     first_write_offset: Offset, extra: {-1, 0, 1}, filter: BOOLEAN]

\* memset(&descriptor, 0, sizeof descriptor)
FreeDescriptor ==
    [fd |-> "free", at |-> <<Ux0, Root>>, pos |-> 0, path |-> Root,
     flags |-> {}, trunc |-> FALSE, folder |-> FALSE, offset |-> 0,
     first_write |-> FALSE, first_write_offset |-> 0, extra |-> 0, filter |-> FALSE]

FreeTable == [i \in Slots |-> FreeDescriptor]

\* A request under way: a stage, and what its handler has on its stack.
Request ==
    [at: {"idle", "create", "open", "fixopen", "fixcopy", "close", "dread"},
     slot: Slots, place: Place, flags: SUBSET {"creat", "trunc", "append"},
     trunc: BOOLEAN, match: BOOLEAN]

Idle ==
    [at |-> "idle", slot |-> 0, place |-> <<Ux0, Root>>, flags |-> {},
     trunc |-> FALSE, match |-> FALSE]

\* buildPspemuMsfsPath
PlaceOf(path) == <<location, path>>

Faulty == "fault" \in env

\* Bound: the files, the flags and the length that programs use.
UsedFiles == IF "data" \in env THEN File ELSE {CHOOSE f \in File : TRUE}
UsedLength == IF "data" \in env THEN MaxPos ELSE 1
UsedFlags ==
    {flags \in Flags : /\ "data" \in env \/ flags \cap {"trunc", "append"} # {}
                       /\ "append" \in flags => "append" \in env}

-----------------------------------------------------------------------------
(* The Vita's files *)

Busy(x) ==
    \/ x \in leaked
    \/ \E i \in Slots : descriptor_list[i].fd = "live" /\ descriptor_list[i].at = x

\* sceIoWrite of one block: a gap before it reads as zeros.  Bound: a block behind
\* the last position is not kept.
Put(c, off, v) ==
    [p \in Pos |-> IF p = off THEN v
                   ELSE IF p < off /\ c[p] = "eof" THEN "zero" ELSE c[p]]

\* SCE_O_APPEND: every write goes to the end of the file.
End(c) == Cardinality({p \in Pos : c[p] # "eof"})
WriteAt(d, c) == IF "append" \in d.flags THEN End(c) ELSE d.pos

\* sceIoOpen(x, flags) on a file with contents c.
CanOpen(c, flags) == c # Absent \/ "creat" \in flags
Opened(c, flags) == IF c = Absent \/ "trunc" \in flags THEN EmptyFile ELSE c

-----------------------------------------------------------------------------
(* The table *)

Free ==
    {i \in Slots : descriptor_list[i].fd = "free" /\ (i = 0 \/ "two" \in env)}

\* ScePspemuMsfsAddDescriptor: the first free slot; when there is none the
\* handle just opened is forgotten.
AddDescriptor(x, flags, trunc, folder) ==
    IF Free = {}
    THEN leaked' = leaked \cup {x} /\ UNCHANGED <<descriptor_list, held>>
    ELSE LET i == CHOOSE i \in Free : \A j \in Free : i <= j
         IN  /\ descriptor_list' = [descriptor_list EXCEPT ![i] =
                    [FreeDescriptor EXCEPT
                        !.fd = "live", !.at = x, !.path = x[2], !.flags = flags,
                        !.trunc = trunc, !.folder = folder,
                        !.extra = IF folder /\ x[2] # Root THEN 0 ELSE -1]]
             /\ held' = held \cup {i}
             /\ UNCHANGED leaked

\* Mutant: the handle stays at the start of the reopened file.
ReopenedAtStart(d) == [d EXCEPT !.fd = "live", !.at = PlaceOf(d.path), !.pos = 0]

\* ScePspemuMsfsReopenFile, on the location selected now and with the flags of
\* the first open.
Reopened(d) == [d EXCEPT !.fd = "live", !.at = PlaceOf(d.path), !.pos = d.offset]
CanReopen(d) == CanOpen(files[PlaceOf(d.path)], d.flags)
ReopenedFiles(d) == [files EXCEPT ![PlaceOf(d.path)] = Opened(@, d.flags)]
NotReopened(d) == [d EXCEPT !.fd = "bad"]

-----------------------------------------------------------------------------

Init ==
    /\ env \in Envs
    /\ files \in [Device \X File -> {Absent} \cup
                     {[p \in Pos |-> IF p < n THEN "old" ELSE "eof"] : n \in 0 .. UsedLength}]
    /\ backup = [x \in Device \X File |-> Absent]
    /\ dirs = Device \X {Root}
    /\ leaked = {}
    /\ location \in Device
    /\ \A x \in Device \X File : x[2] \notin UsedFiles => files[x] = Absent
    /\ "location" \in env \/
           (location = Ux0 /\ \A x \in Device \X File : x[1] # Ux0 => files[x] = Absent)
    /\ descriptor_list = FreeTable
    /\ req = Idle
    /\ held = {}
    /\ saved = {}

\* ScePspemuMsfsInit and ScePspemuMsfsExit: ScePspemuMsfsCloseAllDescriptors.
CloseAll ==
    /\ req.at = "idle"
    /\ descriptor_list' = FreeTable
    /\ held' = {}
    /\ UNCHANGED <<card, leaked, req, location, saved>>

-----------------------------------------------------------------------------
(* ScePspemuMsfsOpen *)

\* Mutant: the file counts as put aside whether it was or not.
OpenAlwaysAside(f, flags) ==
    LET x == PlaceOf(f)
        here == [Idle EXCEPT !.place = x, !.flags = flags]
        aside == "trunc" \in flags /\ files[x] # Absent /\ backup[x] = Absent /\ ~Busy(x)
    IN  /\ req.at = "idle"
        /\ "share" \in env \/ \A i \in held : descriptor_list[i].path # f
        /\ IF aside
           THEN /\ backup' = [backup EXCEPT ![x] = files[x]]
                /\ files' = [files EXCEPT ![x] = Absent]
                /\ req' = [here EXCEPT !.at = "create"]
           ELSE /\ UNCHANGED <<files, backup>>
                /\ req' = [here EXCEPT !.at = "open", !.trunc = "trunc" \in flags]
        /\ UNCHANGED <<dirs, table, held, location, saved>>

\* The file is put aside under its "__TRUNC__" name before it is truncated,
\* unless that name is taken, or the file is missing or open.
Open(f, flags) ==
    LET x == PlaceOf(f)
        here == [Idle EXCEPT !.place = x, !.flags = flags]
        aside == "trunc" \in flags /\ files[x] # Absent /\ backup[x] = Absent /\ ~Busy(x)
    IN  /\ req.at = "idle"
        /\ "share" \in env \/ \A i \in held : descriptor_list[i].path # f
        /\ \/ /\ aside
              /\ backup' = [backup EXCEPT ![x] = files[x]]
              /\ files' = [files EXCEPT ![x] = Absent]
              /\ req' = [here EXCEPT !.at = "create"]
           \/ /\ ~aside \/ Faulty
              /\ UNCHANGED <<files, backup>>
              /\ req' = [here EXCEPT !.at = "open"]
        /\ UNCHANGED <<dirs, table, held, location, saved>>

\* Create empty file
OpenCreate ==
    /\ req.at = "create"
    /\ \/ /\ files' = [files EXCEPT ![req.place] = EmptyFile]
          /\ req' = [req EXCEPT !.at = "open", !.trunc = TRUE]
       \/ /\ Faulty
          /\ UNCHANGED files
          /\ req' = [req EXCEPT !.at = "open"]
    /\ UNCHANGED <<backup, dirs, table, held, location, saved>>

OpenFile ==
    /\ req.at = "open"
    /\ \/ /\ CanOpen(files[req.place], req.flags)
          /\ files' = [files EXCEPT ![req.place] = Opened(@, req.flags)]
          /\ AddDescriptor(req.place, req.flags, req.trunc, FALSE)
       \/ /\ ~CanOpen(files[req.place], req.flags) \/ Faulty
          /\ UNCHANGED <<files, table, held>>
    /\ req' = Idle
    /\ UNCHANGED <<backup, dirs, location, saved>>

-----------------------------------------------------------------------------
(* ScePspemuMsfsClose *)

Descr == descriptor_list[req.slot]

Close(i) ==
    /\ req.at = "idle"
    /\ ~descriptor_list[i].folder
    /\ req' = [Idle EXCEPT !.at = IF descriptor_list[i].trunc THEN "fixopen" ELSE "close",
                           !.slot = i, !.place = PlaceOf(descriptor_list[i].path)]
    /\ UNCHANGED <<card, table, held, location, saved>>

\* ScePspemuMsfsTruncateFix: the first first_write_offset positions of the file
\* that was put aside are copied to the start of the new one, through its handle.
TruncateFixOpen ==
    /\ req.at = "fixopen"
    /\ backup[req.place] # Absent
    /\ descriptor_list' = [descriptor_list EXCEPT ![req.slot].pos = 0]
    /\ req' = [req EXCEPT !.at = "fixcopy"]
    /\ UNCHANGED <<card, leaked, held, location, saved>>

\* One block; past the end of the old file it is the buffer as it is.
TruncateFixCopy ==
    LET block == backup[req.place][Descr.pos]
    IN  /\ req.at = "fixcopy"
        /\ Descr.fd = "live"
        /\ Descr.pos < Descr.first_write_offset
        /\ files' = [files EXCEPT ![Descr.at] =
                        Put(@, Descr.pos, IF block = "eof" THEN "junk" ELSE block)]
        /\ descriptor_list' = [descriptor_list EXCEPT ![req.slot].pos = @ + 1]
        /\ UNCHANGED <<backup, dirs, leaked, req, held, location, saved>>

\* One of its calls fails: the file put aside is removed all the same, and the
\* descriptor stays open.
TruncateFixFails ==
    /\ \/ req.at = "fixopen" /\ (backup[req.place] = Absent \/ Faulty)
       \/ req.at = "fixcopy" /\ Descr.pos < Descr.first_write_offset
                             /\ (Descr.fd # "live" \/ Faulty)
    /\ backup' = [backup EXCEPT ![req.place] = Absent]
    /\ req' = Idle
    /\ UNCHANGED <<files, dirs, table, held, location, saved>>

TruncateFixRemove ==
    /\ req.at = "fixcopy"
    /\ Descr.pos = Descr.first_write_offset
    /\ backup' = [backup EXCEPT ![req.place] = Absent]
    /\ req' = [req EXCEPT !.at = "close"]
    /\ UNCHANGED <<files, dirs, table, held, location, saved>>

\* Mutant: the slot is freed although the close is reported to have failed.
CloseHandleAlways(i) ==
    /\ descriptor_list' = [descriptor_list EXCEPT ![i] = FreeDescriptor]
    /\ held' = IF descriptor_list[i].fd = "bad" THEN held ELSE held \ {i}

\* sceIoClose; ENODEV counts as success, EBADF does not.
CloseHandle(i) ==
    IF descriptor_list[i].fd = "bad"
    THEN UNCHANGED <<descriptor_list, held>>
    ELSE /\ descriptor_list' = [descriptor_list EXCEPT ![i] = FreeDescriptor]
         /\ held' = held \ {i}

CloseFile ==
    /\ req.at = "close"
    /\ CloseHandle(req.slot)
    /\ req' = Idle
    /\ UNCHANGED <<card, leaked, location, saved>>

-----------------------------------------------------------------------------
(* ScePspemuMsfsRead, ScePspemuMsfsWrite, ScePspemuMsfsLseek                *)
(*                                                                         *)
(* A request of several blocks is several requests of one block.           *)

\* The descriptor that the call is made on, d before: after ENODEV the file is
\* reopened and the call repeated, once.
OnHandle(i, d, Call(_, _)) ==
    LET Fail(e, fs) == descriptor_list' = [descriptor_list EXCEPT ![i] = e] /\ files' = fs
        Try(e, fs) == Call(e, fs) \/ (Faulty /\ Fail(e, fs))
    IN  \/ d.fd = "live" /\ Try(d, files)
        \/ d.fd = "dead" /\ CanReopen(d) /\ Try(Reopened(d), ReopenedFiles(d))
        \/ d.fd = "dead" /\ (~CanReopen(d) \/ Faulty) /\ Fail(NotReopened(d), files)
        \/ d.fd = "bad" /\ Fail(d, files)

Advance(d) == [d EXCEPT !.pos = @ + 1, !.offset = @ + 1]

Read(i) ==
    LET Call(d, fs) ==
            LET more == d.pos < MaxPos /\ fs[d.at][d.pos] # "eof"
            IN  /\ descriptor_list' =
                       [descriptor_list EXCEPT ![i] = IF more THEN Advance(d) ELSE d]
                /\ files' = fs
    IN  /\ req.at = "idle"
        /\ ~descriptor_list[i].folder
        /\ OnHandle(i, descriptor_list[i], Call)
        /\ UNCHANGED <<backup, dirs, leaked, req, held, location, saved>>

\* Mutant: every write counts as the first.
EveryWrite(d) == [d EXCEPT !.first_write = TRUE, !.first_write_offset = d.offset]

\* Where the first write went, for TruncateFix.
FirstWrite(d) ==
    IF d.first_write THEN d
    ELSE [d EXCEPT !.first_write = TRUE, !.first_write_offset = d.offset]

AfterWrite(d, c) == [d EXCEPT !.pos = WriteAt(d, c) + 1, !.offset = @ + 1]

Write(i) ==
    LET Call(d, fs) ==
            /\ descriptor_list' = [descriptor_list EXCEPT ![i] = AfterWrite(d, fs[d.at])]
            /\ files' = [fs EXCEPT ![d.at] = Put(@, WriteAt(d, @), "new")]
    IN  /\ req.at = "idle"
        /\ ~descriptor_list[i].folder
        /\ descriptor_list[i].offset < UsedLength
        /\ OnHandle(i, FirstWrite(descriptor_list[i]), Call)
        /\ UNCHANGED <<backup, dirs, leaked, req, held, location, saved>>

Lseek(i, offset) ==
    LET Call(d, fs) ==
            /\ descriptor_list' =
                   [descriptor_list EXCEPT ![i] = [d EXCEPT !.pos = offset, !.offset = offset]]
            /\ files' = fs
    IN  /\ req.at = "idle"
        /\ ~descriptor_list[i].folder
        /\ "seek" \in env \/ ~descriptor_list[i].first_write
        /\ OnHandle(i, descriptor_list[i], Call)
        /\ UNCHANGED <<backup, dirs, leaked, req, held, location, saved>>

-----------------------------------------------------------------------------
(* Names *)

Remove(f) ==
    /\ req.at = "idle"
    /\ ~Busy(PlaceOf(f))
    /\ files' = [files EXCEPT ![PlaceOf(f)] = Absent]
    /\ UNCHANGED <<backup, dirs, table, req, held, location, saved>>

Rename(f, g) ==
    LET x == PlaceOf(f)
        y == PlaceOf(g)
    IN  /\ req.at = "idle"
        /\ files[x] # Absent /\ files[y] = Absent /\ ~Busy(x)
        /\ files' = [files EXCEPT ![x] = Absent, ![y] = files[x]]
        /\ UNCHANGED <<backup, dirs, table, req, held, location, saved>>

Mkdir(dir) ==
    /\ req.at = "idle"
    /\ "dir" \in env
    /\ dirs' = dirs \cup {PlaceOf(dir)}
    /\ UNCHANGED <<files, backup, table, req, held, location, saved>>

Rmdir(dir) ==
    /\ req.at = "idle"
    /\ "dir" \in env
    /\ dir # Root
    /\ ~Busy(PlaceOf(dir))
    /\ dirs' = dirs \ {PlaceOf(dir)}
    /\ UNCHANGED <<files, backup, table, req, held, location, saved>>

-----------------------------------------------------------------------------
(* Directories *)

Dopen(dir) ==
    /\ req.at = "idle"
    /\ "dir" \in env
    /\ PlaceOf(dir) \in dirs
    /\ AddDescriptor(PlaceOf(dir), {}, FALSE, TRUE)
    /\ UNCHANGED <<card, req, location, saved>>

Dclose(i) ==
    /\ req.at = "idle"
    /\ descriptor_list[i].folder
    /\ CloseHandle(i)
    /\ UNCHANGED <<card, leaked, req, location, saved>>

\* The directory filter command of ScePspemuMsfsIoctl, which programs send on
\* directories.
Ioctl(i) ==
    /\ req.at = "idle"
    /\ descriptor_list[i].folder
    /\ descriptor_list' = [descriptor_list EXCEPT ![i].filter = TRUE]
    /\ UNCHANGED <<card, leaked, req, held, location, saved>>

\* ScePspemuMsfsDread with an entry buffer whose name passes the filter or not.
Dread(i, match) ==
    /\ req.at = "idle"
    /\ descriptor_list[i].folder
    /\ req' = [Idle EXCEPT !.at = "dread", !.slot = i, !.match = match]
    /\ UNCHANGED <<card, table, held, location, saved>>

\* Another round unless the entry is the last or passes the filter.
DreadNext(match) ==
    IF Descr.filter /\ ~match THEN [req EXCEPT !.match = match] ELSE Idle

\* Mutant: the two extra entries are counted but not ended.
DreadExtraCounts(match) ==
    /\ req.at = "dread"
    /\ Descr.extra >= 0
    /\ descriptor_list' = [descriptor_list EXCEPT ![req.slot].extra = @ + 1]
    /\ req' = DreadNext(match)
    /\ UNCHANGED <<card, leaked, held, location, saved>>

\* ScePspemuMsfsExtraDread: "." and ".." first.
DreadExtra(match) ==
    /\ req.at = "dread"
    /\ Descr.extra >= 0
    /\ descriptor_list' =
           [descriptor_list EXCEPT ![req.slot].extra = IF Descr.extra = 0 THEN 1 ELSE -1]
    /\ req' = DreadNext(match)
    /\ UNCHANGED <<card, leaked, held, location, saved>>

DreadEntry(match) ==
    /\ req.at = "dread"
    /\ Descr.extra < 0
    /\ Descr.fd = "live"
    /\ Descr.pos < Entries
    /\ descriptor_list' = [descriptor_list EXCEPT ![req.slot].pos = @ + 1]
    /\ req' = DreadNext(match)
    /\ UNCHANGED <<card, leaked, held, location, saved>>

\* Mutant: the loop does not stop at the end of the directory.
DreadEndFiltered ==
    /\ req.at = "dread"
    /\ Descr.extra < 0
    /\ Descr.fd = "live"
    /\ Descr.pos = Entries
    /\ req' = DreadNext(req.match)
    /\ UNCHANGED <<card, table, held, location, saved>>

DreadEnd ==
    /\ req.at = "dread"
    /\ Descr.extra < 0
    /\ Descr.fd = "live"
    /\ Descr.pos = Entries
    /\ req' = Idle
    /\ UNCHANGED <<card, table, held, location, saved>>

\* sceIoDread fails and leaves the buffer alone: with a filter that the name in
\* it does not pass, the loop repeats the failing call.
DreadFails ==
    /\ req.at = "dread"
    /\ Descr.extra < 0
    /\ Descr.fd # "live"
    /\ req' = DreadNext(req.match)
    /\ UNCHANGED <<card, table, held, location, saved>>

-----------------------------------------------------------------------------
(* Around the server *)

\* stopUsb remounts the cards: every open handle answers ENODEV from then on.
Remount ==
    /\ "remount" \in env
    /\ descriptor_list' = [i \in Slots |->
           [descriptor_list[i] EXCEPT !.fd = IF @ = "live" THEN "dead" ELSE @]]
    /\ leaked' = {}
    /\ UNCHANGED <<card, req, held, location, saved>>

Kill ==
    /\ "crash" \in env
    /\ descriptor_list' = FreeTable
    /\ leaked' = {}
    /\ req' = Idle
    /\ held' = {}
    /\ UNCHANGED <<card, location, saved>>

SetLocation(d) ==
    /\ "location" \in env
    /\ location' = d
    /\ UNCHANGED <<card, table, req, held, saved>>

\* SaveState writes the table, with the memory that holds the PSP's view.  Bound:
\* one state is saved, and loaded any number of times.
SaveState ==
    /\ "state" \in env
    /\ saved = {}
    /\ req.at = "idle"
    /\ saved' = {[list |-> descriptor_list, held |-> held]}
    /\ UNCHANGED <<card, table, req, held, location>>

\* LoadState: ScePspemuMsfsSetFileDescriptors closes every descriptor, takes
\* over the saved ones and reopens them in order; those in refused fail.
SetFileDescriptors(s, refused) ==
    LET list == s.list
        Used(i) == list[i].fd # "free"
        Place1(i) == PlaceOf(list[i].path)
        IsFile(i) == Used(i) /\ ~list[i].folder /\ i \notin refused
        Openable(i) ==
            IF list[i].folder THEN Place1(i) \in dirs
            ELSE \/ files[Place1(i)] # Absent
                 \/ \E j \in Slots : /\ j <= i
                                     /\ IsFile(j)
                                     /\ list[j].path = list[i].path
                                     /\ "creat" \in list[j].flags
        Reopens(i) == Used(i) /\ i \notin refused /\ Openable(i)
        Wiped(x) ==
            \E i \in Slots :
                /\ Reopens(i) /\ ~list[i].folder /\ Place1(i) = x
                /\ "trunc" \in list[i].flags \/ files[x] = Absent
    IN  /\ "state" \in env
        /\ req.at = "idle"
        /\ refused = {} \/ Faulty
        /\ descriptor_list' = [i \in Slots |->
               IF Reopens(i)
               THEN IF list[i].folder
                    THEN [list[i] EXCEPT !.fd = "live", !.at = Place1(i), !.pos = 0]
                    ELSE Reopened(list[i])
               ELSE IF Used(i) THEN NotReopened(list[i]) ELSE list[i]]
        /\ files' = [x \in Device \X File |-> IF Wiped(x) THEN EmptyFile ELSE files[x]]
        /\ held' = s.held
        /\ UNCHANGED <<backup, dirs, leaked, req, location, saved>>

-----------------------------------------------------------------------------

\* The steps of a request under way.
RequestStep ==
    \/ OpenCreate \/ OpenFile
    \/ TruncateFixOpen \/ TruncateFixCopy \/ TruncateFixFails \/ TruncateFixRemove
    \/ CloseFile
    \/ \E match \in BOOLEAN : DreadExtra(match) \/ DreadEntry(match)
    \/ DreadEnd \/ DreadFails

Next ==
    /\ UNCHANGED env
    /\ \/ CloseAll
       \/ \E f \in UsedFiles, flags \in UsedFlags : Open(f, flags)
       \/ \E i \in held : Close(i) \/ Read(i) \/ Write(i) \/ Dclose(i) \/ Ioctl(i)
       \/ \E i \in held, offset \in 0 .. UsedLength : Lseek(i, offset)
       \/ \E f \in UsedFiles : Remove(f)
       \/ \E f, g \in UsedFiles : Rename(f, g)
       \/ \E dir \in Dir : Mkdir(dir) \/ Rmdir(dir) \/ Dopen(dir)
       \/ \E i \in held, match \in BOOLEAN : Dread(i, match)
       \/ RequestStep
       \/ Remount \/ Kill
       \/ \E d \in Device : SetLocation(d)
       \/ SaveState
       \/ \E s \in saved, refused \in SUBSET Slots : SetFileDescriptors(s, refused)

Spec == Init /\ [][Next]_vars

\* The server thread runs.
FairSpec == Spec /\ WF_vars(RequestStep /\ UNCHANGED env)

-----------------------------------------------------------------------------
(* Properties *)

\* The files, the table and the request have the shapes the code gives them.
TypeOK ==
    /\ files \in [Device \X File -> Content \cup {Absent}]
    /\ backup \in [Device \X File -> Content \cup {Absent}]
    /\ dirs \subseteq Device \X Dir
    /\ leaked \subseteq Place
    /\ descriptor_list \in [Slots -> Descriptor]
    /\ req \in Request
    /\ held \subseteq Slots
    /\ location \in Device
    /\ saved \subseteq [list: [Slots -> Descriptor], held: SUBSET Slots]

\* The slots in use are the ones the PSP was given and has not closed: none is
\* lost, given twice, or freed under a program, also after a failed close, a
\* remount, a reset of the PSP, or a loaded state, which replaces the table and
\* the PSP's memory together.
SlotsHeld == {i \in Slots : descriptor_list[i].fd # "free"} = held

\* The descriptor's own offset, which is all that a reopen restores, is where the
\* handle is, for a file that was not opened to append: there writes move the handle
\* to the end, and the offset counts on from where it was.  A failed
\* ScePspemuMsfsTruncateFix, which has also removed the file that was put aside,
\* leaves the handle somewhere else; and so does a change of the location, which
\* makes it look for that file in the wrong place.
OffsetTracks ==
    "location" \notin env => \A i \in Slots :
        LET d == descriptor_list[i]
        IN  (d.fd = "live" /\ ~d.folder /\ "append" \notin d.flags) =>
                \/ d.pos = d.offset
                \/ d.trunc /\ backup[PlaceOf(d.path)] = Absent
                \/ req.at = "fixcopy" /\ req.slot = i

\* As long as nothing fails around the server, every open file that was put aside has
\* its copy under the "__TRUNC__" name until its own close has used it: no kill, no
\* second open of the file, no close of another descriptor takes it away.
Calm == env \cap {"remount", "fault", "location", "state"} = {}

CopyFound ==
    Calm => \A i \in Slots :
        descriptor_list[i].trunc /\ ~(req.at = "close" /\ req.slot = i)
            => backup[PlaceOf(descriptor_list[i].path)] # Absent

\* msfs.c: "Truncation on vita sets everything to 0.  This doesn't happen on PSP
\* though, so we need to copy back the data".  Copying back replaces no data that
\* the program wrote, and when it succeeds no position that has old data is left
\* as zeros.
ClosedAsOnPsp ==
    [][req.at = "fixcopy" /\ "data" \in env =>
         /\ \A x \in Device \X File, p \in Pos :
                files[x] # Absent /\ files[x][p] = "new" => files'[x][p] = "new"
         /\ req'.at = "close" =>
                \A p \in Pos : files[Descr.at][p] = "zero" => backup[req.place][p] # "old"]_vars

\* Every request is answered, but for a directory read with a filter on a handle
\* that fails: that one repeats the failing call.
RequestAnswered ==
    req.at # "idle" ~>
        \/ req.at = "idle"
        \/ req.at = "dread" /\ Descr.filter /\ ~req.match /\ Descr.fd # "live"

=============================================================================
