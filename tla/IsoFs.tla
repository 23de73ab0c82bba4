------------------------------- MODULE IsoFs -------------------------------
(***************************************************************************)
(* The driver of ISO9660 images of vshctrl (cef/vshctrl/isofs_driver): the *)
(* search of a directory through a window of a few sectors, the table of   *)
(* handles, and reads made of a partial first sector, whole sectors and a  *)
(* partial last one.                                                       *)
(*                                                                         *)
(* A byte of the image is its position.  A directory is a sequence of      *)
(* sectors, a sector the lengths of its records; what it does not fill is  *)
(* zero.  The records of the root are named 1, 2, 3, ...: 1 is ".", 2 is   *)
(* "..", 3 is a directory of one sector, which holds the file SubFile, and *)
(* the others are files.  Behind the root are bytes that look like records *)
(* with the name Elsewhere.                                                *)
(*                                                                         *)
(* Bound: a behaviour searches one of many directories for one path, or it *)
(* opens and reads files of one directory.                                 *)
(***************************************************************************)
EXTENDS Integers, Sequences, SequencesExt

CONSTANTS
    SECTOR_SIZE,
    Window,       \* sectors that IsofsReadSectors reads at once; 8
    Record,       \* sizeof(Iso9660DirectoryRecord) + 0x60
    MAX_HANDLERS,
    Lengths,      \* of records
    MaxSectors,   \* of the root
    FileSize,     \* of every file
    MaxSeek,      \* how far before and behind a file a run seeks
    IntMax        \* the largest int

ASSUME IsoFsAssumption ==
    /\ SECTOR_SIZE \in Nat \ 0..2 /\ Window \in Nat \ {0, 1}
    /\ MAX_HANDLERS \in Nat \ {0} /\ MaxSectors \in Nat \ {0, 1} /\ FileSize \in Nat
    /\ MaxSeek \in Nat /\ IntMax \in Nat /\ FileSize + 1 + MaxSeek <= IntMax
    \* 1 is the length of the records of FilesRoot and SubRecords.
    /\ 1 \in Lengths /\ Lengths \subseteq 1 .. SECTOR_SIZE - 1
    \* 129 bytes and 2048 in the code.
    /\ Record \in 1 .. SECTOR_SIZE
    /\ \A l \in Lengths : l <= Record

VARIABLES
    focus,     \* "search" or "files"; rigid
    root,      \* the sectors of the root; rigid
    mounted,   \* isofs_init has read main_record
    sectors,   \* the buffer is allocated
    handlers,  \* the handle table
    answer     \* what the last call returned (observation)

vars == <<focus, root, mounted, sectors, handlers, answer>>

-----------------------------------------------------------------------------
(* The image *)

RootLba == 1
SubLba == 100
FileLba == 200
SubFile == 103

\* The sum of the first n members.
SumTo(s, n) ==
    LET sum[k \in 0 .. Len(s)] == IF k = 0 THEN 0 ELSE sum[k - 1] + s[k]
    IN  sum[n]
Sum(s) == SumTo(s, Len(s))
Start(q, j) == SumTo(q, j - 1)

Layouts == {q \in BoundedSeq(Lengths, SECTOR_SIZE) : q # <<>> /\ Sum(q) <= SECTOR_SIZE}
Roots ==
    {r \in UNION {[1..n -> Layouts] : n \in 1..MaxSectors} : Len(r[1]) >= 3}

SubRecords == <<1, 1, 1>>
FilesRoot == <<SubRecords, <<1, 1>> >>

\* How many records the sectors before k have.
Before(k) == SumTo([i \in 1 .. Len(root) |-> Len(root[i])], k - 1)
Names == 1 .. Before(Len(root) + 1)
Listed(dir) == IF dir.lba = RootLba THEN Names ELSE {1, 2, SubFile}

Root == [lba |-> RootLba, sectors |-> Len(root)]
Sub == [lba |-> SubLba, sectors |-> 1]

Zero == [len |-> 0, name |-> 0]
Elsewhere == -1
Alien == [len |-> 1, name |-> Elsewhere]

\* The record that begins at a byte of the image, or zero.
RecordAt(b) ==
    LET lba == b \div SECTOR_SIZE
        in(q, before) ==
            LET js == {j \in DOMAIN q : Start(q, j) = b % SECTOR_SIZE}
            IN  IF js = {} THEN Zero
                ELSE LET j == CHOOSE k \in js : TRUE
                     IN  [len |-> q[j], name |-> before + j]
    IN  IF lba \in RootLba .. RootLba + Len(root) - 1
        THEN LET k == lba - RootLba + 1
             IN  in(root[k], Before(k))
        ELSE IF lba = SubLba
        THEN LET r == in(SubRecords, 0)
             IN  IF r.name = 3 THEN [r EXCEPT !.name = SubFile] ELSE r
        ELSE Alien

-----------------------------------------------------------------------------
(* FindFileLBA *)

\* The state of the loop: pos is the byte of the image that p points to, lba and
\* n the sectors in the buffer, which has zeroes behind them.
Record0(dir) ==
    [pos |-> dir.lba * SECTOR_SIZE, lba |-> dir.lba,
     n |-> IF dir.sectors <= Window THEN dir.sectors ELSE Window,
     remaining |-> IF dir.sectors <= Window THEN 0 ELSE dir.sectors - Window,
     oldDirLen |-> 0, res |-> "searching"]

\* Mutant: what lies behind the buffer is not zero.
BufferedStale(st, pos) == RecordAt(pos)

Buffered(st, pos) ==
    IF pos - st.lba * SECTOR_SIZE >= st.n * SECTOR_SIZE THEN Zero ELSE RecordAt(pos)

\* A zero length: the records go on in the next sector if the rest of this one is
\* no longer than the last record.
SkipRest(st) ==
    LET rest == SECTOR_SIZE - (st.pos % SECTOR_SIZE)
    IN  IF Buffered(st, st.pos).len # 0 THEN st.pos
        ELSE IF rest <= st.oldDirLen THEN st.pos + rest ELSE st.pos

\* Mutant: the window is always taken to move by its size.
AdvanceFar(st, pos, len) ==
    LET offset == pos + len - st.lba * SECTOR_SIZE
        moved  == st.remaining > 0 /\ offset + Record >= Window * SECTOR_SIZE
    IN  [st EXCEPT
            !.pos = pos + len,
            !.oldDirLen = len,
            !.lba = IF moved THEN @ + offset \div SECTOR_SIZE ELSE @,
            !.n = IF moved THEN Window ELSE @,
            !.remaining = IF moved THEN @ - Window ELSE @]

\* To the next record; near the end of the buffer the window moves on.
Advance(st, pos, len) ==
    LET offset == pos + len - st.lba * SECTOR_SIZE
        moved  == st.remaining > 0 /\ offset + Record >= Window * SECTOR_SIZE
    IN  [st EXCEPT
            !.pos = pos + len,
            !.oldDirLen = len,
            !.lba = IF moved THEN @ + offset \div SECTOR_SIZE ELSE @,
            !.n = IF moved THEN Window ELSE @,
            !.remaining = IF ~moved THEN @
                          ELSE IF offset >= Window * SECTOR_SIZE THEN @ - Window
                          ELSE @ - (Window - 1)]

\* One turn of the loop.
Search(st, name) ==
    LET pos    == SkipRest(st)
        record == Buffered(st, pos)
    IN  IF st.res # "searching" THEN st
        ELSE IF record.len = 0 THEN [st EXCEPT !.res = "ENOENT"]
        ELSE IF record.name = name THEN [st EXCEPT !.res = "found"]
        ELSE Advance(st, pos, record.len)

\* Bound: more turns than there are records, in the root and behind it.
Turns == SECTOR_SIZE * (MaxSectors + 1) + 2

FindFileLBA(dir, name) ==
    LET turn[k \in 0..Turns] ==
            IF k = 0 THEN Record0(dir) ELSE Search(turn[k - 1], name)
    IN  turn[Turns].res = "found"

IsDir(name) == name \in {1, 2, 3}
Target(dir, name) ==
    CASE name = 1 -> dir [] name = 2 -> Root [] name = 3 -> Sub

\* GetPathAndName: a path is its directories and the last name.
GetPathAndName(path) == [path |-> Front(path), name |-> Last(path)]

\* FindPathLBA: the directory at the end of a path; each is looked up in the one
\* before, and a name that is missing or a file ends the search.
NoDirectory == [lba |-> -1, sectors |-> 0]
FindPathLBA(path) ==
    LET dir[n \in 0 .. Len(path)] ==
            IF n = 0 THEN Root
            ELSE IF /\ dir[n - 1] # NoDirectory
                    /\ FindFileLBA(dir[n - 1], path[n])
                    /\ IsDir(path[n])
            THEN Target(dir[n - 1], path[n]) ELSE NoDirectory
    IN  dir[Len(path)]

Finds(path) ==
    LET to  == GetPathAndName(path)
        dir == FindPathLBA(to.path)
    IN  dir # NoDirectory /\ FindFileLBA(dir, to.name)

\* Bound: the paths that are opened.
Paths ==
    IF focus = "files" THEN {<<4>>, <<3, SubFile>>, <<Elsewhere>>}
    ELSE {<<n>> : n \in Names \cup {Elsewhere}}
         \cup {<<3, SubFile>>, <<3, 2, 4>>, <<3, 1, 5>>, <<1, 3, 2>>, <<4, 4>>}

-----------------------------------------------------------------------------
(* Handles *)

Handle == 0 .. MAX_HANDLERS - 1
Closed == [opened |-> FALSE, lba |-> 0, filesize |-> 0, filepointer |-> 0]

Nothing == [op |-> "none"]

\* Mutant: a handle that is open is not passed over.
GetFirstHandle == IF MAX_HANDLERS > 1 THEN {1} ELSE {}

\* GetFreeHandle: never 0, the lowest that is closed.
GetFreeHandle ==
    {i \in Handle \ {0} :
        /\ ~handlers[i].opened
        /\ \A j \in Handle \ {0} : j < i => handlers[j].opened}

Init ==
    /\ \/ focus = "search" /\ root \in Roots
       \/ focus = "files" /\ root = FilesRoot
    /\ mounted = FALSE /\ sectors = FALSE
    /\ handlers = [i \in Handle |-> Closed]
    /\ answer = Nothing

\* The volume descriptor is read; an image that has none, or that cannot be read,
\* leaves everything but the buffer as it is.
isofs_init ==
    /\ sectors' = TRUE
    /\ \/ mounted' = TRUE /\ handlers' = [i \in Handle |-> Closed]
       \/ UNCHANGED <<mounted, handlers>>
    /\ answer' = Nothing
    /\ UNCHANGED <<focus, root>>

\* Without an image: a buffer, and no record and no open file.
isofs_fastinit ==
    /\ sectors' = TRUE
    /\ mounted' = FALSE
    /\ handlers' = [i \in Handle |-> Closed]
    /\ answer' = Nothing
    /\ UNCHANGED <<focus, root>>

\* Only the buffer goes: the record stays, and the files stay open.
isofs_exit ==
    /\ sectors' = FALSE
    /\ answer' = Nothing
    /\ UNCHANGED <<focus, root, mounted, handlers>>

\* Only the buffer stays.
isofs_reset ==
    /\ mounted' = FALSE
    /\ handlers' = [i \in Handle |-> Closed]
    /\ answer' = Nothing
    /\ UNCHANGED <<focus, root, sectors>>

\* The lowest free handle is given to the file; with none the call fails.
Opens(lba, filesize) ==
    \/ \E i \in GetFreeHandle :
         /\ handlers' = [handlers EXCEPT ![i] =
                [opened |-> TRUE, lba |-> lba, filesize |-> filesize, filepointer |-> 0]]
         /\ answer' = [op |-> "open", fd |-> i]
    \/ /\ GetFreeHandle = {}
       /\ handlers' = handlers
       /\ answer' = [op |-> "EMFILE"]

\* Where a path leads, or an error of the search; a sector may be unreadable.  A
\* search and a read need the buffer: they come before isofs_exit.
isofs_open(path, readable) ==
    /\ mounted /\ sectors /\ focus = "files"
    /\ IF readable /\ Finds(path)
       THEN Opens(FileLba + Last(path), FileSize)
       ELSE /\ answer' = [op |-> IF readable THEN "ENOENT" ELSE "error", path |-> path]
            /\ UNCHANGED handlers
    /\ UNCHANGED <<focus, root, mounted, sectors>>

\* The same search, for what is at the end of the path.  Bound: not after another one.
isofs_getstat(path, readable) ==
    /\ mounted /\ sectors /\ focus = "search" /\ answer = Nothing
    /\ answer' = [op |-> IF ~readable THEN "error" ELSE IF Finds(path) THEN "found" ELSE "ENOENT",
                  path |-> path]
    /\ UNCHANGED <<focus, root, mounted, sectors, handlers>>

\* The path "/", and "/sce_lbn..._size...": no directory is searched.
isofs_open_lbn ==
    /\ focus = "files"
    /\ Opens(FileLba, FileSize + 1)
    /\ UNCHANGED <<focus, root, mounted, sectors>>

isofs_close(fd) ==
    /\ handlers[fd].opened
    /\ handlers' = [handlers EXCEPT ![fd].opened = FALSE]
    /\ answer' = Nothing
    /\ UNCHANGED <<focus, root, mounted, sectors>>

\* SEEK_SET and SEEK_CUR add, SEEK_END subtracts; nothing is too far.
isofs_lseek(fd, ofs, whence) ==
    /\ handlers[fd].opened
    /\ LET h == handlers[fd]
       IN  handlers' = [handlers EXCEPT ![fd].filepointer =
               CASE whence = "SET" -> ofs
                 [] whence = "CUR" -> h.filepointer + ofs
                 [] whence = "END" -> h.filesize - ofs]
    /\ answer' = Nothing
    /\ UNCHANGED <<focus, root, mounted, sectors>>

-----------------------------------------------------------------------------
(* isofs_read *)

\* n bytes of the image from b on.
Bytes(b, n) == [i \in 1..n |-> b + i - 1]
Least(a, b) == IF a <= b THEN a ELSE b

\* n bytes that are not of the image: the image has no byte before 0.
Unknown == -1
Unknowns(n) == [i \in 1..n |-> Unknown]

\* A sum of two ints that are not negative.
Wrapped(n) == IF n > IntMax THEN n - 2 * (IntMax + 1) ELSE n

\* The remainder of a pointer, as C has it.
At(pointer) ==
    LET rest == pointer % SECTOR_SIZE
    IN  IF pointer < 0 /\ rest # 0 THEN rest - SECTOR_SIZE ELSE rest

\* Umd9660ReadSectors2 reads n sectors, fewer, or none with an error.
Reads(n) == -1 .. n

\* The three parts, each with what was delivered and the result so far: what the
\* reads return is first, middle and last.  Of a pointer before the file the first
\* part begins before the buffer.
FirstPart(h, remaining, first) ==
    LET at   == At(h.filepointer)
        from == h.lba * SECTOR_SIZE + h.filepointer
    IN  IF at = 0 THEN [data |-> <<>>, ends |-> FALSE, res |-> 0]
        ELSE IF first # 1 THEN [data |-> <<>>, ends |-> TRUE, res |-> first]
        ELSE LET read == Least(SECTOR_SIZE - at, remaining)
             IN  [data |-> [i \in 1..read |-> IF at + i <= 0 THEN Unknown ELSE from + i - 1],
                  ends |-> read = remaining, res |-> read]

\* Mutant: the next sector is not counted on.
MiddlePartSame(h, remaining, fst, middle) ==
    LET left == remaining - Len(fst.data)
        next == h.lba + h.filepointer \div SECTOR_SIZE
        res  == Least(middle, left \div SECTOR_SIZE)
    IN  IF fst.ends \/ left < SECTOR_SIZE THEN fst
        ELSE IF res < 0 THEN [fst EXCEPT !.ends = TRUE, !.res = res]
        ELSE LET data == fst.data \o Bytes(next * SECTOR_SIZE, res * SECTOR_SIZE)
             IN  [data |-> data, ends |-> Len(data) = remaining, res |-> Len(data)]

MiddlePart(h, remaining, fst, middle) ==
    LET left == remaining - Len(fst.data)
        next == h.lba + (h.filepointer + Len(fst.data)) \div SECTOR_SIZE
        res  == Least(middle, left \div SECTOR_SIZE)
    IN  IF fst.ends \/ left < SECTOR_SIZE THEN fst
        ELSE IF res < 0 THEN [fst EXCEPT !.ends = TRUE, !.res = res]
        ELSE LET data == fst.data \o Bytes(next * SECTOR_SIZE, res * SECTOR_SIZE)
             IN  [data |-> data, ends |-> Len(data) = remaining, res |-> Len(data)]

\* Mutant: the last part is not counted.
LastPartUncounted(h, remaining, mid, last) ==
    LET left == remaining - Len(mid.data)
        next == h.lba + (h.filepointer + Len(mid.data)) \div SECTOR_SIZE
    IN  IF mid.ends THEN mid
        ELSE IF last < 0 THEN [mid EXCEPT !.res = last]
        ELSE [mid EXCEPT !.data = @ \o Bytes(next * SECTOR_SIZE, left % SECTOR_SIZE),
                         !.ends = TRUE]

\* The last sector comes from the buffer, also when nothing was read into it.  What
\* is still missing of whole sectors after it is an error.
LastPart(h, remaining, mid, last) ==
    LET left == remaining - Len(mid.data)
        next == h.lba + (h.filepointer + Len(mid.data)) \div SECTOR_SIZE
        rest == left % SECTOR_SIZE
        data == mid.data \o IF last = 1 THEN Bytes(next * SECTOR_SIZE, rest) ELSE Unknowns(rest)
    IN  IF mid.ends THEN mid
        ELSE IF last < 0 THEN [mid EXCEPT !.res = last]
        ELSE [data |-> data, ends |-> TRUE,
              res |-> IF left >= SECTOR_SIZE THEN -1 ELSE Len(data)]

\* What is read of len: not beyond the file, unless the sum of the pointer and len is
\* too large for an int.
Remaining(h, len) ==
    {Least(len, h.filesize - h.filepointer)}
    \cup IF len + h.filepointer > IntMax THEN {len} ELSE {}

\* The pointer moves by what was delivered, also when the call then fails.  Bound:
\* a read comes after a call that is not one; a seek by 0 leads to the same table.
isofs_read(fd, len, first, middle, last) ==
    /\ answer = Nothing /\ sectors
    /\ handlers[fd].opened
    /\ \E remaining \in Remaining(handlers[fd], len) :
         LET h    == handlers[fd]
             done == IF remaining <= 0
                     THEN [data |-> <<>>, ends |-> TRUE, res |-> 0]
                     ELSE LET fst == FirstPart(h, remaining, first)
                          IN  LastPart(h, remaining,
                                       MiddlePart(h, remaining, fst, middle), last)
         IN  /\ handlers' = [handlers EXCEPT ![fd].filepointer = Wrapped(@ + Len(done.data))]
             /\ answer' = [op |-> "read", fd |-> fd, len |-> len, from |-> h.filepointer,
                           data |-> done.data, res |-> done.res, last |-> last,
                           whole |-> first = 1 /\ last = 1
                                     /\ middle * SECTOR_SIZE + SECTOR_SIZE > len]
    /\ UNCHANGED <<focus, root, mounted, sectors>>

-----------------------------------------------------------------------------

Next ==
    \/ isofs_init \/ isofs_fastinit \/ isofs_exit \/ isofs_reset
    \/ \E path \in Paths, readable \in BOOLEAN :
         \/ isofs_open(path, readable)
         \/ isofs_getstat(path, readable)
    \/ isofs_open_lbn
    \/ \E fd \in Handle :
         \/ isofs_close(fd)
         \/ \E ofs \in -2..2, whence \in {"SET", "CUR", "END"} : isofs_lseek(fd, ofs, whence)
         \/ \E len \in 0 .. FileSize + 2, first \in Reads(1), last \in Reads(1) :
              \E middle \in Reads(len \div SECTOR_SIZE) :
                 isofs_read(fd, len, first, middle, last)

Spec == Init /\ [][Next]_vars

\* Bounds of the run, not of Spec.  A read is from a pointer that was not wrapped,
\* with the pointers of the other handles at 0; a seek leads at most MaxSeek out of
\* the file.
Bounded ==
    /\ answer'.op = "read" =>
         /\ answer'.from >= -MaxSeek
         /\ \A other \in Handle \ {answer'.fd} : handlers[other].filepointer = 0
    /\ answer'.op # "read" =>
         \A fd \in Handle :
            handlers'[fd].filepointer
               \in {handlers[fd].filepointer} \cup -MaxSeek .. handlers[fd].filesize + MaxSeek

-----------------------------------------------------------------------------
(* Properties *)

\* Every handle is closed or has a file, and handle 0 is closed; the pointer may be
\* anywhere.
TypeOK ==
    /\ mounted \in BOOLEAN /\ sectors \in BOOLEAN
    /\ handlers \in [Handle -> [opened : BOOLEAN, lba : Nat, filesize : 0 .. FileSize + 1,
                                filepointer : Int]]
    /\ ~handlers[0].opened

\* Every sector of the root but the last leaves no more free than its last record
\* is long: FindFileLBA then goes on to the next sector.
Rest(q) == SECTOR_SIZE - Sum(q)
Regular(k) == Rest(root[k]) <= root[k][Len(root[k])]

\* A path of one name that is in the root is found, wherever its record is and
\* however often the window has moved, if every sector but the last is regular.
PresentFound ==
    answer.op = "ENOENT" /\ Len(answer.path) = 1 /\ answer.path[1] \in Names
        => \E k \in 1 .. Len(root) - 1 : ~Regular(k)

\* What follows the root in the image is not taken for a part of it, unless the root
\* is larger than the window and its last sector is regular.
AbsentRefused ==
    answer.op = "found" /\ Elsewhere \in Range(answer.path)
        => Len(root) > Window /\ Regular(Len(root))

\* FindFileLBA finds a name of the root if it is there, and only then, within these
\* limits.  The paths of several names are searched, and nothing is said of them.
SearchExact == PresentFound /\ AbsentRefused

\* A call that opens a file takes no handle that is open, and changes no other.
HandlesKept ==
    [][\A fd \in Handle :
         answer'.op \in {"open", "EMFILE"} /\ handlers[fd].opened => handlers'[fd] = handlers[fd]]_vars

\* A pointer in the file or behind it, and a request that an int can hold.
Plain(from, len) == from >= 0 /\ from + len <= IntMax

\* The bytes that a read delivers are the ones of the file from its pointer on,
\* none is left out or read twice across the parts, and the pointer ends up behind
\* them, whatever the result is.  Only the last part may be something else, less
\* than a sector, and only when its sector was not read and that was no error.
ReadContiguous ==
    answer.op = "read" /\ Plain(answer.from, answer.len) =>
        LET h    == handlers[answer.fd]
            read == Len(answer.data)
        IN  /\ \E n \in 0 .. read :
                 /\ answer.data = Bytes(h.lba * SECTOR_SIZE + answer.from, n) \o Unknowns(read - n)
                 /\ n < read => answer.last = 0 /\ read - n < SECTOR_SIZE
            /\ h.filepointer = answer.from + read
            /\ answer.data # <<>> => h.filepointer <= h.filesize

\* A read of which every sector could be read returns as much as there is of the file.
ReadComplete ==
    answer.op = "read" /\ Plain(answer.from, answer.len) /\ answer.whole =>
        LET h == handlers[answer.fd]
        IN  /\ answer.res = Len(answer.data)
            /\ Len(answer.data) = Least(answer.len, IF h.filesize > answer.from
                                                    THEN h.filesize - answer.from ELSE 0)

\* isofs_read delivers the file, in one piece and, if the sectors are read, all of it.
ReadReturnsFile == ReadContiguous /\ ReadComplete

=============================================================================
