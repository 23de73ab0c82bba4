----------------------------- MODULE MsfsProofs -----------------------------
(***************************************************************************)
(* Msfs for every number of descriptors and positions, every set of        *)
(* locations, files and directories, and every set of environments: all    *)
(* that can happen around the server at once.                              *)
(***************************************************************************)
EXTENDS Msfs, WellFoundedInduction, FiniteSetTheorems, TLAPS

\* A set of numbers has a least one.
LEMMA LeastNumber ==
    ASSUME NEW S, S \subseteq Nat, S # {}
    PROVE  \E i \in S : \A j \in S : i <= j
  <1> DEFINE R == OpToRel(<, Nat)
  <1>1. \A i, j \in Nat : <<j, i>> \in R <=> j < i
    BY DEF OpToRel
  <1>2. IsWellFoundedOn(R, Nat)
    BY NatLessThanWellFounded
  <1>3. PICK x : x \in S
    OBVIOUS
  <1> HIDE DEF R
  <1>4. PICK i \in S : \A j \in S : ~(<<j, i>> \in R)
    BY <1>2, <1>3, WFMin, Zenon
  <1>5. ASSUME NEW j \in S PROVE i <= j
    <2>1. i \in Nat /\ j \in Nat /\ ~(<<j, i>> \in R)
      BY <1>4
    <2>2. QED
      BY <1>1, <2>1
  <1>6. QED
    BY <1>5

USE TableAssumption, NameAssumption, FlagAssumption, ContentAssumption

-----------------------------------------------------------------------------
(* The inductive invariant *)

FilePlace == Device \X File

\* A descriptor in use that is no directory is a file.
Shape(d) == d.fd # "free" /\ ~d.folder => d.path \in File
Shapes == \A i \in Slots : Shape(descriptor_list[i])

\* An open file exists; it is on the selected location as long as that is kept.
OpenExists ==
    \A i \in Slots :
        LET d == descriptor_list[i]
        IN  d.fd = "live" /\ ~d.folder =>
                /\ d.at \in FilePlace
                /\ files[d.at] # Absent
                /\ "location" \notin env => d.at = PlaceOf(d.path)

\* The request is about a file, and its descriptor is in use until it is answered.
RequestPlace ==
    req.at \in {"create", "open", "fixopen", "fixcopy"} => req.place \in FilePlace
RequestHere ==
    req.at \in {"create", "open"} /\ "location" \notin env => req.place = PlaceOf(req.place[2])
RequestSlot ==
    /\ req.at \in {"fixopen", "fixcopy", "close"} => Descr.fd # "free" /\ ~Descr.folder
    /\ req.at = "dread" => Descr.fd # "free" /\ Descr.folder
RequestFix ==
    req.at \in {"fixopen", "fixcopy"} =>
        /\ Descr.trunc
        /\ "location" \notin env => req.place = PlaceOf(Descr.path)
        /\ req.at = "fixcopy" => backup[req.place] # Absent

\* What a saved state holds agrees with the PSP's view in it.
SavedHeld ==
    \A s \in saved : /\ \A i \in Slots : Shape(s.list[i])
                     /\ {i \in Slots : s.list[i].fd # "free"} = s.held

Inv ==
    /\ TypeOK
    /\ Shapes /\ OpenExists
    /\ RequestPlace /\ RequestHere /\ RequestSlot /\ RequestFix
    /\ SavedHeld
    /\ SlotsHeld
    /\ OffsetTracks

-----------------------------------------------------------------------------
(* What the operators return *)

\* The records that the handlers make of a descriptor are descriptors.
LEMMA DescriptorTypes ==
    ASSUME NEW d \in Descriptor
    PROVE  /\ \A v \in BOOLEAN : [d EXCEPT !.filter = v] \in Descriptor
           /\ \A v \in {-1, 0, 1} : [d EXCEPT !.extra = v] \in Descriptor
           /\ \A v \in Nat : [d EXCEPT !.pos = v] \in Descriptor
           /\ \A v \in {"free", "live", "dead", "bad"} : [d EXCEPT !.fd = v] \in Descriptor
           /\ \A u, v \in Nat : [d EXCEPT !.pos = u, !.offset = v] \in Descriptor
           /\ \A v \in Offset : [d EXCEPT !.first_write = TRUE, !.first_write_offset = v] \in Descriptor
           /\ \A x \in Place, v \in Nat : [d EXCEPT !.fd = "live", !.at = x, !.pos = v] \in Descriptor
  BY DEF Descriptor

LEMMA FreeTypes == FreeDescriptor \in Descriptor /\ FreeTable \in [Slots -> Descriptor]
  BY DEF FreeDescriptor, FreeTable, Descriptor, Place, Offset

LEMMA PlaceTypes ==
    ASSUME location \in Device
    PROVE  /\ \A p \in File \cup Dir : PlaceOf(p) \in Place
           /\ \A f \in File : PlaceOf(f) \in FilePlace
  BY DEF PlaceOf, Place, FilePlace

LEMMA ContentTypes ==
    /\ EmptyFile \in Content
    /\ \A c \in Content, off \in Nat, v \in Value : Put(c, off, v) \in Content
    /\ \A c \in Content \cup {Absent} : \A flags : Opened(c, flags) \in Content
  BY DEF EmptyFile, Content, Value, Put, Opened, Pos

LEMMA UsedTypes ==
    /\ UsedFiles \subseteq File
    /\ UsedFlags \subseteq Flags /\ UsedFlags \subseteq SUBSET {"creat", "trunc", "append"}
    /\ UsedLength \in Nat
    /\ \A n \in Nat : n < UsedLength => n \in Offset
  <1>1. (CHOOSE f \in File : TRUE) \in File
    OBVIOUS
  <1>2. UsedFiles \subseteq File
    BY <1>1 DEF UsedFiles
  <1>3. UsedFlags \subseteq Flags /\ UsedFlags \subseteq SUBSET {"creat", "trunc", "append"}
    <2> SUFFICES ASSUME NEW flags \in UsedFlags
                 PROVE  flags \in Flags /\ flags \subseteq {"creat", "trunc", "append"}
      OBVIOUS
    <2>1. flags \in Flags
      BY DEF UsedFlags
    <2>2. flags \subseteq {"creat", "trunc"} \/ flags \subseteq {"creat", "append"}
      BY <2>1, FlagAssumption
    <2>3. flags \subseteq {"creat", "trunc", "append"}
      BY <2>2
    <2>4. QED
      BY <2>1, <2>3
  <1>4. UsedLength \in Nat /\ \A n \in Nat : n < UsedLength => n \in Offset
    BY DEF UsedLength, Offset
  <1>5. QED
    BY <1>2, <1>3, <1>4

LEMMA RequestTypes ==
    /\ Idle \in Request
    /\ 0 \in Slots
  BY DEF Idle, Request, Slots, Place

-----------------------------------------------------------------------------
(* The invariant holds initially, and is kept *)

LEMMA InitInv == Init => Inv
  <1> SUFFICES ASSUME Init PROVE Inv
    OBVIOUS
  <1>1. \A n \in Nat : [p \in Pos |-> IF p < n THEN "old" ELSE "eof"] \in Content
    BY DEF Content, Value
  <1>2. files \in [FilePlace -> Content \cup {Absent}]
    BY <1>1, UsedTypes DEF Init, FilePlace
  <1>3. \A i \in Slots : descriptor_list[i] = FreeDescriptor
    BY DEF Init, FreeTable
  <1>4. TypeOK
    BY <1>2, FreeTypes, RequestTypes DEF Init, TypeOK, FilePlace
  <1>5. SlotsHeld
    BY <1>3 DEF Init, SlotsHeld, FreeDescriptor
  <1>6. Shapes /\ OpenExists /\ OffsetTracks
    BY <1>3 DEF Shapes, Shape, OpenExists, OffsetTracks, FreeDescriptor
  <1>7. QED
    BY <1>4, <1>5, <1>6
    DEF Init, Inv, RequestPlace, RequestHere, RequestSlot, RequestFix, SavedHeld, Idle

\* A descriptor that a step may put in the place of i, one in use, with the
\* files as fs: it names the same file, its handle is open on a file that exists
\* and stands where the descriptor's offset says, or where it stood.
Replaces(e, i, fs) ==
    LET d == descriptor_list[i]
    IN  /\ e \in Descriptor
        /\ d.fd # "free" /\ e.fd # "free"
        /\ e.path = d.path /\ e.folder = d.folder /\ e.trunc = d.trunc
        /\ fs \in [FilePlace -> Content \cup {Absent}]
        /\ \A x \in FilePlace : files[x] # Absent => fs[x] # Absent
        /\ e.fd = "live" /\ ~e.folder =>
               /\ e.at \in FilePlace
               /\ fs[e.at] # Absent
               /\ "location" \notin env => e.at = PlaceOf(e.path)

OffsetHere(e) ==
    "location" \notin env /\ e.fd = "live" /\ ~e.folder /\ "append" \notin e.flags =>
        e.pos = e.offset \/ (e.trunc /\ backup[PlaceOf(e.path)] = Absent)

\* Two descriptors of one file and one handle.
SameHandle(d, e) ==
    /\ d.fd = e.fd /\ d.at = e.at /\ d.pos = e.pos
    /\ d.path = e.path /\ d.folder = e.folder /\ d.trunc = e.trunc /\ d.offset = e.offset
    /\ d.flags = e.flags

LEMMA DescriptorReplaced ==
    ASSUME Inv, NEW i \in Slots, NEW e,
           Replaces(e, i, files'),
           descriptor_list' = [descriptor_list EXCEPT ![i] = e],
           OffsetHere(e) \/ (req'.at = "fixcopy" /\ req'.slot = i),
           \/ req' = req
           \/ req.at # "fixcopy" /\ req' = Idle
           \/ req.at = "dread" /\ \E match \in BOOLEAN : req' = [req EXCEPT !.match = match]
           \/ req.at = "fixopen" /\ backup[req.place] # Absent
                                 /\ req' = [req EXCEPT !.at = "fixcopy"],
           UNCHANGED <<env, backup, dirs, leaked, held, location, saved>>
    PROVE  Inv'
  <1> USE DEF Inv, Replaces
  <1>1. /\ descriptor_list \in [Slots -> Descriptor]
        /\ req \in Request
    BY DEF TypeOK
  <1>2. /\ descriptor_list'[i] = e
        /\ \A j \in Slots : j # i => descriptor_list'[j] = descriptor_list[j]
    BY <1>1
  <1>3. req' \in Request
    BY <1>1, RequestTypes DEF Request
  <1>4. TypeOK'
    BY <1>1, <1>3 DEF TypeOK, FilePlace
  <1>5. Shapes'
    BY <1>2 DEF Shapes, Shape
  <1>6. PlaceOf(e.path)' = PlaceOf(e.path)
    BY DEF PlaceOf
  <1>7. OpenExists'
    <2> SUFFICES ASSUME NEW j \in Slots, descriptor_list'[j].fd = "live", ~descriptor_list'[j].folder
                 PROVE  /\ descriptor_list'[j].at \in FilePlace
                        /\ files'[descriptor_list'[j].at] # Absent
                        /\ "location" \notin env' =>
                               descriptor_list'[j].at = <<location', descriptor_list'[j].path>>
      BY DEF OpenExists, PlaceOf
    <2>1. CASE j = i
      BY <2>1, <1>2 DEF PlaceOf
    <2>2. CASE j # i
      BY <2>2, <1>2 DEF OpenExists, PlaceOf
    <2>3. QED
      BY <2>1, <2>2
  <1>8. SlotsHeld'
    BY <1>2 DEF SlotsHeld
  <1>9. SavedHeld'
    BY DEF SavedHeld, Shape
  <1>10. OffsetTracks'
    <2> SUFFICES ASSUME "location" \notin env, NEW j \in Slots,
                        descriptor_list'[j].fd = "live", ~descriptor_list'[j].folder,
                        "append" \notin descriptor_list'[j].flags
                 PROVE  \/ descriptor_list'[j].pos = descriptor_list'[j].offset
                        \/ /\ descriptor_list'[j].trunc
                           /\ backup'[<<location', descriptor_list'[j].path>>] = Absent
                        \/ req'.at = "fixcopy" /\ req'.slot = j
      BY DEF OffsetTracks, PlaceOf
    <2>1. CASE j = i
      BY <2>1, <1>2 DEF PlaceOf, OffsetHere
    <2>2. CASE j # i
      BY <2>2, <1>2, <1>1 DEF OffsetTracks, PlaceOf, Request
    <2>3. QED
      BY <2>1, <2>2
  <1>11. RequestPlace' /\ RequestHere'
    BY <1>1 DEF RequestPlace, RequestHere, PlaceOf, Request, Idle
  <1>12. RequestSlot' /\ RequestFix'
    BY <1>1, <1>2 DEF RequestSlot, RequestFix, PlaceOf, Request, Idle, Descr
  <1>13. QED
    BY <1>4, <1>5, <1>7, <1>8, <1>9, <1>10, <1>11, <1>12

\* What OnHandle gives its call: the descriptor with its file open, or an error.
LEMMA Handles ==
    ASSUME Inv, req.at = "idle", NEW i \in held, NEW d \in Descriptor,
           ~descriptor_list[i].folder,
           SameHandle(d, descriptor_list[i])
    PROVE  /\ i \in Slots
           /\ d.fd # "dead" => Replaces(d, i, files) /\ OffsetHere(d)
           /\ d.fd = "dead" /\ CanReopen(d) =>
                  Replaces(Reopened(d), i, ReopenedFiles(d)) /\ OffsetHere(Reopened(d))
           /\ d.fd = "dead" => Replaces(NotReopened(d), i, files) /\ OffsetHere(NotReopened(d))
  <1> USE DEF Inv
  <1>1. /\ i \in Slots
        /\ descriptor_list[i].fd # "free"
    BY DEF SlotsHeld
  <1>2. /\ d.fd = descriptor_list[i].fd /\ d.at = descriptor_list[i].at
        /\ d.pos = descriptor_list[i].pos /\ d.path = descriptor_list[i].path
        /\ d.folder = descriptor_list[i].folder /\ d.trunc = descriptor_list[i].trunc
        /\ d.offset = descriptor_list[i].offset /\ d.flags = descriptor_list[i].flags
    BY DEF SameHandle
  <1>3. files \in [FilePlace -> Content \cup {Absent}] /\ location \in Device
    BY DEF TypeOK, FilePlace
  <1>4. d.fd # "dead" => Replaces(d, i, files) /\ OffsetHere(d)
    BY <1>1, <1>2, <1>3 DEF Replaces, OffsetHere, OpenExists, OffsetTracks
  <1>5. d.path \in File
    BY <1>1, <1>2 DEF Shapes, Shape
  <1>6. PlaceOf(d.path) \in FilePlace /\ PlaceOf(d.path) \in Place
    BY <1>3, <1>5, PlaceTypes
  <1>7. /\ ReopenedFiles(d) \in [FilePlace -> Content \cup {Absent}]
        /\ \A x \in FilePlace : files[x] # Absent => ReopenedFiles(d)[x] # Absent
        /\ ReopenedFiles(d)[PlaceOf(d.path)] # Absent
    <2>1. Opened(files[PlaceOf(d.path)], d.flags) \in Content
      BY <1>3, <1>6, ContentTypes
    <2>2. QED
      BY <2>1, <1>3, <1>6 DEF ReopenedFiles
  <1>8. /\ Reopened(d) \in Descriptor
        /\ Reopened(d).fd = "live" /\ Reopened(d).at = PlaceOf(d.path)
        /\ Reopened(d).pos = d.offset /\ Reopened(d).offset = d.offset
        /\ Reopened(d).path = d.path /\ Reopened(d).folder = d.folder
        /\ Reopened(d).trunc = d.trunc
    BY <1>6 DEF Reopened, Descriptor
  <1>9. Replaces(Reopened(d), i, ReopenedFiles(d)) /\ OffsetHere(Reopened(d))
    BY <1>1, <1>2, <1>6, <1>7, <1>8 DEF Replaces, OffsetHere
  <1>10. /\ NotReopened(d) \in Descriptor
         /\ NotReopened(d).fd = "bad"
         /\ NotReopened(d).path = d.path /\ NotReopened(d).folder = d.folder
         /\ NotReopened(d).trunc = d.trunc
    BY DEF NotReopened, Descriptor
  <1>11. Replaces(NotReopened(d), i, files) /\ OffsetHere(NotReopened(d))
    BY <1>1, <1>2, <1>3, <1>10 DEF Replaces, OffsetHere
  <1>12. QED
    BY <1>1, <1>4, <1>9, <1>11

LEMMA AdvanceTypes ==
    ASSUME NEW d \in Descriptor
    PROVE  /\ Advance(d) \in Descriptor
           /\ Advance(d).pos = d.pos + 1 /\ Advance(d).offset = d.offset + 1
           /\ Advance(d).fd = d.fd /\ Advance(d).at = d.at /\ Advance(d).path = d.path
           /\ Advance(d).folder = d.folder /\ Advance(d).trunc = d.trunc
           /\ Advance(d).flags = d.flags
  <1>1. PICK u \in Nat, v \in Nat : u = d.pos + 1 /\ v = d.offset + 1
    BY DEF Descriptor
  <1>2. Advance(d) \in Descriptor
    <2>1. [d EXCEPT !.pos = u, !.offset = v] \in Descriptor
      BY DescriptorTypes
    <2>2. QED
      BY <1>1, <2>1 DEF Advance
  <1>3. DOMAIN d = {"fd", "at", "pos", "path", "flags", "trunc", "folder", "offset",
                    "first_write", "first_write_offset", "extra", "filter"}
    BY DEF Descriptor
  <1>4. QED
    BY <1>2, <1>3 DEF Advance

\* The handle and the offset go on together.
LEMMA AdvanceReplaces ==
    ASSUME NEW e, NEW i, NEW fs, Replaces(e, i, fs), OffsetHere(e)
    PROVE  Replaces(Advance(e), i, fs) /\ OffsetHere(Advance(e))
  <1>1. e \in Descriptor
    BY DEF Replaces
  <1>2. Replaces(Advance(e), i, fs)
    BY <1>1, AdvanceTypes DEF Replaces
  <1>3. OffsetHere(Advance(e))
    BY <1>1, AdvanceTypes DEF OffsetHere
  <1>4. QED
    BY <1>2, <1>3

LEMMA ReadInv == ASSUME Inv, UNCHANGED env, NEW i \in held, Read(i) PROVE Inv'
  <1>1. descriptor_list[i] \in Descriptor /\ i \in Slots
    BY DEF Inv, TypeOK, SlotsHeld
  <1>2. \E e : /\ Replaces(e, i, files') /\ OffsetHere(e)
               /\ descriptor_list' = [descriptor_list EXCEPT ![i] = e]
    <2> DEFINE d == descriptor_list[i]
               After(e, fs) ==
                   /\ files' = fs
                   /\ \/ descriptor_list' = [descriptor_list EXCEPT ![i] = e]
                      \/ descriptor_list' = [descriptor_list EXCEPT ![i] = Advance(e)]
    <2>1. req.at = "idle" /\ ~d.folder
      BY DEF Read
    <2>2. \/ d.fd # "dead" /\ After(d, files)
          \/ d.fd = "dead" /\ CanReopen(d) /\ After(Reopened(d), ReopenedFiles(d))
          \/ d.fd = "dead" /\ After(NotReopened(d), files)
      BY DEF Read, OnHandle
    <2> HIDE DEF d
    <2>3. \/ After(d, files) /\ Replaces(d, i, files) /\ OffsetHere(d)
          \/ /\ After(Reopened(d), ReopenedFiles(d))
             /\ Replaces(Reopened(d), i, ReopenedFiles(d)) /\ OffsetHere(Reopened(d))
          \/ /\ After(NotReopened(d), files)
             /\ Replaces(NotReopened(d), i, files) /\ OffsetHere(NotReopened(d))
      BY <1>1, <2>1, <2>2, Handles DEF d, SameHandle
    <2>4. QED
      BY <2>3, AdvanceReplaces
  <1>3. QED
    BY <1>1, <1>2, DescriptorReplaced DEF Read

LEMMA EndType == \A c : End(c) \in Nat
  <1> SUFFICES ASSUME NEW c PROVE End(c) \in Nat
    OBVIOUS
  <1> DEFINE held1 == {p \in Pos : c[p] # "eof"}
  <1>1. IsFiniteSet(0 .. MaxPos - 1)
    BY FS_Interval
  <1>2. held1 \subseteq 0 .. MaxPos - 1
    BY DEF Pos
  <1>3. IsFiniteSet(held1)
    BY <1>1, <1>2, FS_Subset
  <1>4. Cardinality(held1) \in Nat
    BY <1>3, FS_CardinalityType
  <1>5. QED
    BY <1>4 DEF End

\* A write moves the handle to behind what was written; without SCE_O_APPEND that is
\* one further.
LEMMA WrittenTypes ==
    ASSUME NEW d \in Descriptor, NEW c
    PROVE  /\ WriteAt(d, c) \in Nat
           /\ AfterWrite(d, c) \in Descriptor
           /\ AfterWrite(d, c).fd = d.fd /\ AfterWrite(d, c).at = d.at /\ AfterWrite(d, c).path = d.path
           /\ AfterWrite(d, c).folder = d.folder /\ AfterWrite(d, c).trunc = d.trunc
           /\ AfterWrite(d, c).flags = d.flags
           /\ "append" \notin d.flags => WriteAt(d, c) = d.pos /\ AfterWrite(d, c) = Advance(d)
  <1>1. WriteAt(d, c) \in Nat
    BY EndType DEF WriteAt, Descriptor
  <1>2. PICK u \in Nat, v \in Nat : u = WriteAt(d, c) + 1 /\ v = d.offset + 1
    BY <1>1 DEF Descriptor
  <1>3. AfterWrite(d, c) = [d EXCEPT !.pos = u, !.offset = v]
    BY <1>2 DEF AfterWrite
  <1>4. AfterWrite(d, c) \in Descriptor
    <2>1. [d EXCEPT !.pos = u, !.offset = v] \in Descriptor
      BY DescriptorTypes
    <2>2. QED
      BY <1>3, <2>1
  <1>5. /\ AfterWrite(d, c).fd = d.fd /\ AfterWrite(d, c).at = d.at /\ AfterWrite(d, c).path = d.path
        /\ AfterWrite(d, c).folder = d.folder /\ AfterWrite(d, c).trunc = d.trunc
        /\ AfterWrite(d, c).flags = d.flags
    BY <1>3 DEF Descriptor
  <1>6. "append" \notin d.flags => WriteAt(d, c) = d.pos /\ AfterWrite(d, c) = Advance(d)
    BY DEF WriteAt, AfterWrite, Advance
  <1>7. QED
    BY <1>1, <1>4, <1>5, <1>6

LEMMA WrittenReplaces ==
    ASSUME NEW e, NEW i, NEW fs, Replaces(e, i, fs), OffsetHere(e), NEW c
    PROVE  Replaces(AfterWrite(e, c), i, fs) /\ OffsetHere(AfterWrite(e, c))
  <1>1. e \in Descriptor
    BY DEF Replaces
  <1>2. Replaces(AfterWrite(e, c), i, fs)
    BY <1>1, WrittenTypes DEF Replaces
  <1>3. CASE "append" \in e.flags
    <2>1. AfterWrite(e, c).flags = e.flags
      BY <1>1, WrittenTypes
    <2>2. OffsetHere(AfterWrite(e, c))
      BY <1>3, <2>1 DEF OffsetHere
    <2>3. QED
      BY <1>2, <2>2
  <1>4. CASE "append" \notin e.flags
    BY <1>1, <1>4, WrittenTypes, AdvanceReplaces
  <1>5. QED
    BY <1>2, <1>3, <1>4

\* The block that is written goes to a file that exists.
LEMMA WriteReplaces ==
    ASSUME NEW e, NEW i, NEW fs, Replaces(e, i, fs), e.fd = "live", ~e.folder
    PROVE  Replaces(e, i, [fs EXCEPT ![e.at] = Put(@, WriteAt(e, @), "new")])
  <1> DEFINE gs == [fs EXCEPT ![e.at] = Put(@, WriteAt(e, @), "new")]
  <1>1. /\ e \in Descriptor /\ e.at \in FilePlace /\ fs[e.at] # Absent
        /\ fs \in [FilePlace -> Content \cup {Absent}]
    BY DEF Replaces
  <1>2. Put(fs[e.at], WriteAt(e, fs[e.at]), "new") \in Content
    <2>1. WriteAt(e, fs[e.at]) \in Nat
      BY <1>1, WrittenTypes
    <2>2. fs[e.at] \in Content
      BY <1>1
    <2>3. QED
      BY <2>1, <2>2, ContentTypes DEF Value
  <1>3. /\ gs \in [FilePlace -> Content \cup {Absent}]
        /\ \A x \in FilePlace : fs[x] # Absent => gs[x] # Absent
        /\ gs[e.at] # Absent
    BY <1>1, <1>2
  <1> HIDE DEF gs
  <1>4. QED
    BY <1>3 DEF Replaces, gs

LEMMA FirstWriteTypes ==
    ASSUME NEW d \in Descriptor, d.offset \in Offset
    PROVE  /\ FirstWrite(d) \in Descriptor
           /\ SameHandle(FirstWrite(d), d)
  <1>1. FirstWrite(d) \in Descriptor
    BY DescriptorTypes DEF FirstWrite
  <1>2. SameHandle(FirstWrite(d), d)
    BY DEF FirstWrite, SameHandle, Descriptor
  <1>3. QED
    BY <1>1, <1>2

LEMMA WriteInv == ASSUME Inv, UNCHANGED env, NEW i \in held, Write(i) PROVE Inv'
  <1>1. descriptor_list[i] \in Descriptor /\ i \in Slots
    BY DEF Inv, TypeOK, SlotsHeld
  <1>2. \E e : /\ Replaces(e, i, files') /\ OffsetHere(e)
               /\ descriptor_list' = [descriptor_list EXCEPT ![i] = e]
    <2> DEFINE d == FirstWrite(descriptor_list[i])
               Fails(e, fs) ==
                   /\ files' = fs
                   /\ descriptor_list' = [descriptor_list EXCEPT ![i] = e]
               Writes(e, fs) ==
                   /\ files' = [fs EXCEPT ![e.at] = Put(@, WriteAt(e, @), "new")]
                   /\ descriptor_list' =
                          [descriptor_list EXCEPT ![i] = AfterWrite(e, fs[e.at])]
    <2>1. req.at = "idle" /\ ~descriptor_list[i].folder
      BY DEF Write
    <2>2. descriptor_list[i].offset \in Offset
      BY <1>1, UsedTypes DEF Write, Descriptor
    <2>3. /\ d \in Descriptor
          /\ SameHandle(d, descriptor_list[i])
      BY <1>1, <2>2, FirstWriteTypes
    <2>4. \/ d.fd # "dead" /\ Fails(d, files)
          \/ d.fd = "live" /\ Writes(d, files)
          \/ /\ d.fd = "dead" /\ CanReopen(d)
             /\ \/ Fails(Reopened(d), ReopenedFiles(d))
                \/ Writes(Reopened(d), ReopenedFiles(d))
          \/ d.fd = "dead" /\ Fails(NotReopened(d), files)
      BY DEF Write, OnHandle
    <2>5. ~d.folder
      BY <2>1, <2>3 DEF SameHandle
    <2> HIDE DEF d
    <2>6. Reopened(d).fd = "live" /\ ~Reopened(d).folder
      BY <2>3, <2>5 DEF Reopened, Descriptor
    <2>7. ASSUME NEW e, NEW fs, Replaces(e, i, fs), OffsetHere(e), e.fd = "live", ~e.folder,
                 Writes(e, fs)
          PROVE  Replaces(AfterWrite(e, fs[e.at]), i, files') /\ OffsetHere(AfterWrite(e, fs[e.at]))
      <3>1. PICK gs : gs = [fs EXCEPT ![e.at] = Put(@, WriteAt(e, @), "new")]
        OBVIOUS
      <3>2. Replaces(e, i, gs)
        BY <2>7, <3>1, WriteReplaces
      <3>3. PICK c : c = fs[e.at]
        OBVIOUS
      <3>4. Replaces(AfterWrite(e, c), i, gs) /\ OffsetHere(AfterWrite(e, c))
        BY <2>7, <3>2, WrittenReplaces
      <3>5. QED
        BY <2>7, <3>1, <3>3, <3>4
    <2>8. \/ Fails(d, files) /\ Replaces(d, i, files) /\ OffsetHere(d)
          \/ d.fd = "live" /\ Writes(d, files) /\ Replaces(d, i, files) /\ OffsetHere(d)
          \/ /\ Fails(Reopened(d), ReopenedFiles(d)) \/ Writes(Reopened(d), ReopenedFiles(d))
             /\ Replaces(Reopened(d), i, ReopenedFiles(d)) /\ OffsetHere(Reopened(d))
          \/ /\ Fails(NotReopened(d), files)
             /\ Replaces(NotReopened(d), i, files) /\ OffsetHere(NotReopened(d))
      <3> HIDE DEF Fails, Writes
      <3>1. QED
        BY <1>1, <2>1, <2>3, <2>4, Handles
    <2>9. QED
      BY <2>5, <2>6, <2>7, <2>8
  <1>3. QED
    BY <1>1, <1>2, DescriptorReplaced DEF Write

LEMMA LseekInv ==
    ASSUME Inv, UNCHANGED env, NEW i \in held, NEW offset \in 0 .. UsedLength, Lseek(i, offset)
    PROVE  Inv'
  <1> DEFINE Sought(e) == [e EXCEPT !.pos = offset, !.offset = offset]
  <1>1. descriptor_list[i] \in Descriptor /\ i \in Slots /\ offset \in Nat
    BY UsedTypes DEF Inv, TypeOK, SlotsHeld
  <1>2. ASSUME NEW e, NEW fs, Replaces(e, i, fs)
        PROVE  Replaces(Sought(e), i, fs) /\ OffsetHere(Sought(e))
    <2>1. e \in Descriptor
      BY <1>2 DEF Replaces
    <2>2. /\ Sought(e) \in Descriptor
          /\ Sought(e).pos = offset /\ Sought(e).offset = offset
          /\ Sought(e).fd = e.fd /\ Sought(e).at = e.at /\ Sought(e).path = e.path
          /\ Sought(e).folder = e.folder /\ Sought(e).trunc = e.trunc
      BY <1>1, <2>1 DEF Descriptor
    <2> HIDE DEF Sought
    <2>3. QED
      BY <1>2, <2>2 DEF Replaces, OffsetHere
  <1>3. \E e : /\ Replaces(e, i, files') /\ OffsetHere(e)
               /\ descriptor_list' = [descriptor_list EXCEPT ![i] = e]
    <2> DEFINE d == descriptor_list[i]
               After(e, fs) ==
                   /\ files' = fs
                   /\ \/ descriptor_list' = [descriptor_list EXCEPT ![i] = e]
                      \/ descriptor_list' = [descriptor_list EXCEPT ![i] = Sought(e)]
    <2>1. req.at = "idle" /\ ~d.folder
      BY DEF Lseek
    <2>2. \/ d.fd # "dead" /\ After(d, files)
          \/ d.fd = "dead" /\ CanReopen(d) /\ After(Reopened(d), ReopenedFiles(d))
          \/ d.fd = "dead" /\ After(NotReopened(d), files)
      BY DEF Lseek, OnHandle
    <2> HIDE DEF d, Sought
    <2>3. \/ After(d, files) /\ Replaces(d, i, files) /\ OffsetHere(d)
          \/ /\ After(Reopened(d), ReopenedFiles(d))
             /\ Replaces(Reopened(d), i, ReopenedFiles(d)) /\ OffsetHere(Reopened(d))
          \/ /\ After(NotReopened(d), files)
             /\ Replaces(NotReopened(d), i, files) /\ OffsetHere(NotReopened(d))
      BY <1>1, <2>1, <2>2, Handles DEF d, SameHandle
    <2>4. QED
      BY <2>3, <1>2
  <1>4. QED
    BY <1>1, <1>3, DescriptorReplaced DEF Lseek

-----------------------------------------------------------------------------
(* The other steps that change one descriptor *)

\* A directory's descriptor moves on.
LEMMA FolderReplaced ==
    ASSUME Inv, NEW i \in Slots, NEW e \in Descriptor,
           descriptor_list[i].fd # "free", descriptor_list[i].folder,
           e.fd = descriptor_list[i].fd, e.path = descriptor_list[i].path,
           e.folder = descriptor_list[i].folder, e.trunc = descriptor_list[i].trunc
    PROVE  Replaces(e, i, files) /\ OffsetHere(e)
  <1>1. e.folder = TRUE
    OBVIOUS
  <1>2. QED
    BY <1>1 DEF Inv, TypeOK, FilePlace, Replaces, OffsetHere

LEMMA IoctlInv == ASSUME Inv, UNCHANGED env, NEW i \in held, Ioctl(i) PROVE Inv'
  <1> DEFINE e == [descriptor_list[i] EXCEPT !.filter = TRUE]
  <1>1. /\ i \in Slots /\ descriptor_list[i].fd # "free" /\ descriptor_list[i].folder
        /\ descriptor_list[i] \in Descriptor
    BY DEF Inv, TypeOK, SlotsHeld, Ioctl
  <1>2. /\ e \in Descriptor /\ e.fd = descriptor_list[i].fd
        /\ e.path = descriptor_list[i].path /\ e.folder = descriptor_list[i].folder
        /\ e.trunc = descriptor_list[i].trunc
    BY <1>1 DEF Descriptor
  <1>3. /\ descriptor_list' = [descriptor_list EXCEPT ![i] = e]
        /\ UNCHANGED <<files, req>> /\ UNCHANGED <<backup, dirs, leaked, held, location, saved>>
    BY DEF Ioctl, card
  <1> HIDE DEF e
  <1>4. Replaces(e, i, files') /\ OffsetHere(e)
    BY <1>1, <1>2, <1>3, FolderReplaced
  <1>5. QED
    BY <1>1, <1>3, <1>4, DescriptorReplaced

LEMMA DreadInv ==
    ASSUME Inv, UNCHANGED env, NEW match \in BOOLEAN, DreadExtra(match) \/ DreadEntry(match)
    PROVE  Inv'
  <1> DEFINE i == req.slot
             e == IF Descr.extra >= 0
                  THEN [Descr EXCEPT !.extra = IF Descr.extra = 0 THEN 1 ELSE -1]
                  ELSE [Descr EXCEPT !.pos = @ + 1]
  <1>1. /\ i \in Slots /\ Descr.fd # "free" /\ Descr.folder /\ Descr \in Descriptor
        /\ req.at = "dread"
    BY DEF Inv, TypeOK, Request, RequestSlot, Descr, DreadExtra, DreadEntry
  <1>2. /\ e \in Descriptor /\ e.fd = Descr.fd /\ e.path = Descr.path
        /\ e.folder = Descr.folder /\ e.trunc = Descr.trunc
    <2>1. CASE Descr.extra >= 0
      BY <1>1, <2>1 DEF Descriptor
    <2>2. CASE ~(Descr.extra >= 0)
      <3>1. PICK v \in Nat : v = Descr.pos + 1
        BY <1>1 DEF Descriptor
      <3>2. e = [Descr EXCEPT !.pos = v]
        BY <2>2, <3>1
      <3> HIDE DEF e
      <3>3. QED
        BY <1>1, <3>2 DEF Descriptor
    <2>3. QED
      BY <2>1, <2>2
  <1>3. /\ descriptor_list' = [descriptor_list EXCEPT ![i] = e]
        /\ UNCHANGED files /\ UNCHANGED <<backup, dirs, leaked, held, location, saved>>
    <2>1. CASE DreadExtra(match)
      BY <2>1 DEF DreadExtra, card, Descr
    <2>2. CASE DreadEntry(match)
      <3>1. ~(Descr.extra >= 0)
        BY <2>2, <1>1 DEF DreadEntry, Descriptor
      <3>2. QED
        BY <2>2, <3>1 DEF DreadEntry, card, Descr
    <2>3. QED
      BY <2>1, <2>2
  <1>4. req' = Idle \/ req' = [req EXCEPT !.match = match]
    BY DEF DreadExtra, DreadEntry, DreadNext
  <1> HIDE DEF e
  <1>5. Replaces(e, i, files') /\ OffsetHere(e)
    BY <1>1, <1>2, <1>3, FolderReplaced DEF Descr
  <1>6. QED
    BY <1>1, <1>3, <1>4, <1>5, DescriptorReplaced

LEMMA TruncateFixOpenInv == ASSUME Inv, UNCHANGED env, TruncateFixOpen PROVE Inv'
  <1> DEFINE i == req.slot
             e == [Descr EXCEPT !.pos = 0]
  <1>1. /\ i \in Slots /\ Descr.fd # "free" /\ ~Descr.folder /\ Descr \in Descriptor
        /\ req.at = "fixopen" /\ backup[req.place] # Absent
        /\ req \in Request
    BY DEF Inv, TypeOK, Request, RequestSlot, Descr, TruncateFixOpen
  <1>2. /\ e \in Descriptor /\ e.fd = Descr.fd /\ e.path = Descr.path /\ e.at = Descr.at
        /\ e.folder = Descr.folder /\ e.trunc = Descr.trunc
    BY <1>1 DEF Descriptor
  <1>3. /\ descriptor_list' = [descriptor_list EXCEPT ![i] = e]
        /\ req' = [req EXCEPT !.at = "fixcopy"]
        /\ UNCHANGED files /\ UNCHANGED <<backup, dirs, leaked, held, location, saved>>
    BY DEF TruncateFixOpen, card, Descr
  <1> HIDE DEF e
  <1>4. Replaces(e, i, files')
    BY <1>1, <1>2, <1>3 DEF Replaces, Inv, TypeOK, FilePlace, OpenExists, Descr
  <1>5. req'.at = "fixcopy" /\ req'.slot = i
    BY <1>1, <1>3 DEF Request
  <1>6. QED
    BY <1>1, <1>3, <1>4, <1>5, DescriptorReplaced

LEMMA TruncateFixCopyInv == ASSUME Inv, UNCHANGED env, TruncateFixCopy PROVE Inv'
  <1> DEFINE i == req.slot
             e == [Descr EXCEPT !.pos = @ + 1]
             block == backup[req.place][Descr.pos]
  <1>1. /\ i \in Slots /\ Descr.fd = "live" /\ ~Descr.folder /\ Descr \in Descriptor
        /\ req.at = "fixcopy" /\ backup[req.place] # Absent /\ req.place \in FilePlace
        /\ Descr.pos \in Pos
    <2>1. Descr.pos < Descr.first_write_offset /\ Descr \in Descriptor
      BY DEF Inv, TypeOK, Request, Descr, TruncateFixCopy
    <2>2. Descr.pos \in Pos
      BY <2>1 DEF Descriptor, Offset, Pos
    <2>3. QED
      BY <2>1, <2>2
      DEF Inv, TypeOK, Request, RequestSlot, RequestFix, RequestPlace, Descr, TruncateFixCopy
  <1>2. /\ e \in Descriptor /\ e.fd = Descr.fd /\ e.path = Descr.path /\ e.at = Descr.at
        /\ e.folder = Descr.folder /\ e.trunc = Descr.trunc
    BY <1>1 DEF Descriptor
  <1>3. block \in Value
    BY <1>1 DEF Inv, TypeOK, FilePlace, Content
  <1>4. /\ Descr.at \in FilePlace /\ files[Descr.at] # Absent
        /\ "location" \notin env => Descr.at = PlaceOf(Descr.path)
        /\ files \in [FilePlace -> Content \cup {Absent}]
    BY <1>1 DEF Inv, OpenExists, Descr, TypeOK, FilePlace
  <1> HIDE DEF block
  <1>5. Put(files[Descr.at], Descr.pos, IF block = "eof" THEN "junk" ELSE block) \in Content
    <2>1. (IF block = "eof" THEN "junk" ELSE block) \in Value
      BY <1>3 DEF Value
    <2>2. Descr.pos \in Nat /\ files[Descr.at] \in Content
      BY <1>1, <1>4 DEF Pos
    <2>3. QED
      BY <2>1, <2>2, ContentTypes
  <1>6. /\ descriptor_list' = [descriptor_list EXCEPT ![i] = e]
        /\ UNCHANGED req /\ UNCHANGED <<backup, dirs, leaked, held, location, saved>>
        /\ files' = [files EXCEPT ![Descr.at] =
                         Put(@, Descr.pos, IF block = "eof" THEN "junk" ELSE block)]
    BY DEF TruncateFixCopy, Descr, block
  <1> HIDE DEF e
  <1>7. Replaces(e, i, files')
    BY <1>1, <1>2, <1>4, <1>5, <1>6 DEF Replaces, Descr
  <1>8. QED
    BY <1>1, <1>6, <1>7, DescriptorReplaced

-----------------------------------------------------------------------------
(* The steps that leave the table alone *)

\* When no descriptor changes and no open file goes away, only what is said of the
\* request is left to be shown.
LEMMA TableKept ==
    ASSUME Inv, UNCHANGED <<env, descriptor_list, held, location, saved>>,
           TypeOK',
           \A x \in FilePlace : files[x] # Absent /\ Busy(x) => files'[x] # Absent,
           OffsetTracks', RequestPlace', RequestHere', RequestSlot', RequestFix'
    PROVE  Inv'
  <1> USE DEF Inv
  <1>1. Shapes' /\ SlotsHeld' /\ SavedHeld'
    BY DEF Shapes, Shape, SlotsHeld, SavedHeld
  <1>2. OpenExists'
    <2> SUFFICES ASSUME NEW i \in Slots, descriptor_list[i].fd = "live", ~descriptor_list[i].folder
                 PROVE  /\ descriptor_list[i].at \in FilePlace
                        /\ files'[descriptor_list[i].at] # Absent
                        /\ "location" \notin env =>
                               descriptor_list[i].at = <<location, descriptor_list[i].path>>
      BY DEF OpenExists, PlaceOf
    <2>1. QED
      BY DEF OpenExists, PlaceOf, Busy
  <1>3. QED
    BY <1>1, <1>2

\* Nor the files and the request.
LEMMA RequestKept ==
    ASSUME Inv, UNCHANGED <<env, descriptor_list, held, location, saved, files, backup, leaked>>,
           dirs' \subseteq Device \X Dir,
           \/ req' = req
           \/ req.at # "fixcopy" /\ req' = Idle
           \/ req.at = "dread" /\ \E match \in BOOLEAN : req' = [req EXCEPT !.match = match]
    PROVE  Inv'
  <1> USE DEF Inv
  <1>1. req' \in Request
    BY RequestTypes DEF Request, TypeOK
  <1>2. TypeOK'
    BY <1>1 DEF TypeOK
  <1>3. \/ req' = req
        \/ req.at # "fixcopy" /\ req'.at = "idle"
        \/ req.at = "dread" /\ req'.at = "dread" /\ req'.slot = req.slot
    BY DEF Idle, Request, TypeOK
  <1>4. OffsetTracks'
    BY <1>3 DEF OffsetTracks, PlaceOf
  <1>5. RequestPlace' /\ RequestHere' /\ RequestSlot' /\ RequestFix'
    BY <1>3 DEF RequestPlace, RequestHere, RequestSlot, RequestFix, PlaceOf, Descr
  <1>6. QED
    BY <1>2, <1>4, <1>5, TableKept

\* A file that is open is busy.
LEMMA OpenBusy ==
    ASSUME Inv, NEW i \in Slots, descriptor_list[i].fd = "live", ~descriptor_list[i].folder,
           "location" \notin env
    PROVE  Busy(PlaceOf(descriptor_list[i].path))
  BY DEF Inv, OpenExists, Busy

LEMMA OpenInv ==
    ASSUME Inv, UNCHANGED env, NEW f \in UsedFiles, NEW flags \in UsedFlags, Open(f, flags)
    PROVE  Inv'
  <1> DEFINE x == PlaceOf(f)
             here == [Idle EXCEPT !.place = x, !.flags = flags]
             aside == "trunc" \in flags /\ files[x] # Absent /\ backup[x] = Absent /\ ~Busy(x)
  <1> USE DEF Inv
  <1>1. /\ x \in FilePlace /\ x \in Place /\ x[2] = f
        /\ flags \in SUBSET {"creat", "trunc", "append"}
    BY UsedTypes, PlaceTypes DEF TypeOK, PlaceOf
  <1>2. /\ [here EXCEPT !.at = "create"] \in Request
        /\ [here EXCEPT !.at = "open"] \in Request
    BY <1>1, RequestTypes DEF Request, Idle
  <1>3. /\ [here EXCEPT !.at = "create"].at = "create"
        /\ [here EXCEPT !.at = "open"].at = "open"
        /\ [here EXCEPT !.at = "create"].place = x
        /\ [here EXCEPT !.at = "open"].place = x
    BY DEF Idle
  <1>4. /\ req.at = "idle"
        /\ UNCHANGED <<dirs, leaked, descriptor_list, held, location, saved>>
        /\ \/ /\ aside
              /\ backup' = [backup EXCEPT ![x] = files[x]]
              /\ files' = [files EXCEPT ![x] = Absent]
              /\ req' = [here EXCEPT !.at = "create"]
           \/ /\ UNCHANGED <<files, backup>>
              /\ req' = [here EXCEPT !.at = "open"]
    BY DEF Open, table
  <1> HIDE DEF here
  <1>5. TypeOK'
    <2>1. files' \in [FilePlace -> Content \cup {Absent}]
      BY <1>1, <1>4 DEF TypeOK, FilePlace
    <2>2. backup' \in [FilePlace -> Content \cup {Absent}]
      BY <1>1, <1>4 DEF TypeOK, FilePlace
    <2>3. QED
      BY <1>2, <1>4, <2>1, <2>2 DEF TypeOK, FilePlace
  <1>6. req'.at \in {"create", "open"} /\ req'.place = x
    BY <1>3, <1>4
  <1>7. RequestPlace' /\ RequestSlot' /\ RequestFix'
    BY <1>1, <1>6 DEF RequestPlace, RequestSlot, RequestFix
  <1>8. RequestHere'
    BY <1>1, <1>4, <1>6 DEF RequestHere, PlaceOf
  <1>9. \A y \in FilePlace : files[y] # Absent /\ Busy(y) => files'[y] # Absent
    BY <1>1, <1>4 DEF TypeOK, FilePlace
  <1>10. OffsetTracks'
    <2> SUFFICES ASSUME "location" \notin env, NEW i \in Slots,
                        descriptor_list[i].fd = "live", ~descriptor_list[i].folder,
                        "append" \notin descriptor_list[i].flags,
                        descriptor_list[i].pos # descriptor_list[i].offset
                 PROVE  /\ descriptor_list[i].trunc
                        /\ backup'[PlaceOf(descriptor_list[i].path)] = Absent
      BY <1>4 DEF OffsetTracks, PlaceOf
    <2>1. /\ descriptor_list[i].trunc
          /\ backup[PlaceOf(descriptor_list[i].path)] = Absent
      BY <1>4 DEF OffsetTracks
    <2>2. Busy(PlaceOf(descriptor_list[i].path))
      BY OpenBusy
    <2>3. PlaceOf(descriptor_list[i].path) \in FilePlace /\ backup \in [FilePlace -> Content \cup {Absent}]
      BY PlaceTypes DEF Shapes, Shape, TypeOK, FilePlace
    <2>4. QED
      BY <1>1, <1>4, <2>1, <2>2, <2>3
  <1>11. QED
    BY <1>4, <1>5, <1>7, <1>8, <1>9, <1>10, TableKept

LEMMA OpenCreateInv == ASSUME Inv, UNCHANGED env, OpenCreate PROVE Inv'
  <1> USE DEF Inv
  <1>1. /\ req.place \in FilePlace /\ req.at = "create" /\ req \in Request
        /\ files \in [FilePlace -> Content \cup {Absent}]
    BY DEF OpenCreate, TypeOK, FilePlace, RequestPlace
  <1>2. /\ UNCHANGED <<backup, dirs, leaked, descriptor_list, held, location, saved>>
        /\ files' = files \/ files' = [files EXCEPT ![req.place] = EmptyFile]
        /\ \/ req' = [req EXCEPT !.at = "open", !.trunc = TRUE]
           \/ req' = [req EXCEPT !.at = "open"]
    BY DEF OpenCreate, table
  <1>3. req' \in Request /\ req'.at = "open" /\ req'.place = req.place
    <2>1. CASE req' = [req EXCEPT !.at = "open", !.trunc = TRUE]
      BY <1>1, <2>1 DEF Request
    <2>2. CASE req' = [req EXCEPT !.at = "open"]
      BY <1>1, <2>2 DEF Request
    <2>3. QED
      BY <1>2, <2>1, <2>2
  <1>4. /\ files' \in [FilePlace -> Content \cup {Absent}]
        /\ \A x \in FilePlace : files[x] # Absent => files'[x] # Absent
    BY <1>1, <1>2, ContentTypes
  <1>5. TypeOK'
    BY <1>2, <1>3, <1>4 DEF TypeOK, FilePlace
  <1>6. OffsetTracks'
    BY <1>1, <1>2 DEF OffsetTracks, PlaceOf
  <1>7. RequestPlace' /\ RequestHere' /\ RequestSlot' /\ RequestFix'
    BY <1>1, <1>2, <1>3 DEF RequestPlace, RequestHere, RequestSlot, RequestFix, PlaceOf
  <1>8. QED
    BY <1>2, <1>4, <1>5, <1>6, <1>7, TableKept

LEMMA CloseInv == ASSUME Inv, UNCHANGED env, NEW i \in held, Close(i) PROVE Inv'
  <1> DEFINE stage == IF descriptor_list[i].trunc THEN "fixopen" ELSE "close"
             x == PlaceOf(descriptor_list[i].path)
  <1> USE DEF Inv
  <1>1. /\ i \in Slots /\ descriptor_list[i].fd # "free" /\ ~descriptor_list[i].folder
        /\ descriptor_list[i].path \in File
        /\ req.at = "idle"
    BY DEF SlotsHeld, Close, Shapes, Shape
  <1>2. x \in FilePlace /\ x \in Place
    BY <1>1, PlaceTypes DEF TypeOK
  <1>3. req' = [Idle EXCEPT !.at = stage, !.slot = i, !.place = x]
    BY DEF Close
  <1>4. stage \in {"fixopen", "close"} /\ (stage = "fixopen" => descriptor_list[i].trunc)
    OBVIOUS
  <1>5. UNCHANGED <<files, backup, dirs, leaked, descriptor_list, held, location, saved>>
    BY DEF Close, card, table
  <1> HIDE DEF stage
  <1>6. req' \in Request /\ req'.at = stage /\ req'.slot = i /\ req'.place = x
    BY <1>1, <1>2, <1>3, <1>4, RequestTypes DEF Request, Idle
  <1>7. TypeOK'
    BY <1>5, <1>6 DEF TypeOK
  <1>8. OffsetTracks'
    BY <1>1, <1>5 DEF OffsetTracks, PlaceOf
  <1>9. RequestPlace' /\ RequestHere' /\ RequestSlot' /\ RequestFix'
    BY <1>1, <1>2, <1>4, <1>5, <1>6
    DEF RequestPlace, RequestHere, RequestSlot, RequestFix, PlaceOf, Descr
  <1>10. QED
    BY <1>5, <1>7, <1>8, <1>9, TableKept

\* The file put aside is removed, and the request goes on to close or ends.
LEMMA TruncateFixEndInv ==
    ASSUME Inv, UNCHANGED env, TruncateFixFails \/ TruncateFixRemove PROVE Inv'
  <1> USE DEF Inv
  <1>1. /\ req.at \in {"fixopen", "fixcopy"} /\ req \in Request
        /\ backup' = [backup EXCEPT ![req.place] = Absent]
        /\ UNCHANGED <<files, dirs, leaked, descriptor_list, held, location, saved>>
        /\ req' = Idle \/ req' = [req EXCEPT !.at = "close"]
    BY DEF TruncateFixFails, TruncateFixRemove, table, TypeOK
  <1>2. /\ req.place \in FilePlace
        /\ backup \in [FilePlace -> Content \cup {Absent}]
        /\ Descr.fd # "free" /\ ~Descr.folder
    BY <1>1 DEF RequestPlace, RequestSlot, TypeOK, FilePlace
  <1>3. /\ req' \in Request
        /\ req'.at = "idle" \/ (req'.at = "close" /\ req'.slot = req.slot)
    <2>1. CASE req' = Idle
      BY <2>1, RequestTypes DEF Idle
    <2>2. CASE req' = [req EXCEPT !.at = "close"]
      BY <1>1, <2>2 DEF Request
    <2>3. QED
      BY <1>1, <2>1, <2>2
  <1>4. TypeOK'
    BY <1>1, <1>2, <1>3 DEF TypeOK, FilePlace
  <1>5. OffsetTracks'
    <2> SUFFICES ASSUME "location" \notin env, NEW i \in Slots,
                        descriptor_list[i].fd = "live", ~descriptor_list[i].folder,
                        "append" \notin descriptor_list[i].flags,
                        descriptor_list[i].pos # descriptor_list[i].offset
                 PROVE  /\ descriptor_list[i].trunc
                        /\ backup'[PlaceOf(descriptor_list[i].path)] = Absent
      BY <1>1 DEF OffsetTracks, PlaceOf
    <2>1. CASE i = req.slot
      BY <1>1, <1>2, <2>1 DEF RequestFix, Descr
    <2>2. CASE i # req.slot
      <3>1. /\ descriptor_list[i].trunc
            /\ backup[PlaceOf(descriptor_list[i].path)] = Absent
        BY <2>2 DEF OffsetTracks
      <3>2. PlaceOf(descriptor_list[i].path) \in FilePlace
        BY PlaceTypes DEF Shapes, Shape, TypeOK
      <3>3. QED
        BY <1>1, <1>2, <3>1, <3>2
    <2>3. QED
      BY <2>1, <2>2
  <1>6. RequestPlace' /\ RequestHere' /\ RequestSlot' /\ RequestFix'
    BY <1>1, <1>2, <1>3 DEF RequestPlace, RequestHere, RequestSlot, RequestFix, Descr
  <1>7. QED
    BY <1>1, <1>4, <1>5, <1>6, TableKept

\* A file that is not open goes away, or gets another name.
LEMMA NamesInv ==
    ASSUME Inv, UNCHANGED env,
           \/ \E f \in UsedFiles : Remove(f)
           \/ \E f, g \in UsedFiles : Rename(f, g)
    PROVE  Inv'
  <1> USE DEF Inv
  <1>1. /\ req.at = "idle"
        /\ UNCHANGED <<backup, dirs, leaked, req, descriptor_list, held, location, saved>>
    BY DEF Remove, Rename, table
  <1>2. /\ files' \in [FilePlace -> Content \cup {Absent}]
        /\ \A x \in FilePlace : files[x] # Absent /\ Busy(x) => files'[x] # Absent
    <2>1. files \in [FilePlace -> Content \cup {Absent}]
      BY DEF TypeOK, FilePlace
    <2>2. CASE \E f \in UsedFiles : Remove(f)
      BY <2>1, <2>2 DEF Remove
    <2>3. CASE \E f, g \in UsedFiles : Rename(f, g)
      <3>1. PICK f \in UsedFiles, g \in UsedFiles : Rename(f, g)
        BY <2>3
      <3>2. PlaceOf(f) \in FilePlace /\ PlaceOf(g) \in FilePlace
        BY PlaceTypes, UsedTypes DEF TypeOK
      <3>3. QED
        BY <2>1, <3>1, <3>2 DEF Rename
    <2>4. QED
      BY <2>2, <2>3
  <1>3. TypeOK'
    BY <1>1, <1>2 DEF TypeOK, FilePlace
  <1>4. OffsetTracks' /\ RequestPlace' /\ RequestHere' /\ RequestSlot' /\ RequestFix'
    BY <1>1 DEF OffsetTracks, RequestPlace, RequestHere, RequestSlot, RequestFix, PlaceOf, Descr
  <1>5. QED
    BY <1>1, <1>2, <1>3, <1>4, TableKept

LEMMA DirsInv ==
    ASSUME Inv, UNCHANGED env, NEW dir \in Dir, Mkdir(dir) \/ Rmdir(dir)
    PROVE  Inv'
  <1>1. /\ dirs' \subseteq Device \X Dir
        /\ UNCHANGED <<files, backup, leaked, req, descriptor_list, held, location, saved>>
    BY DEF Mkdir, Rmdir, table, Inv, TypeOK, PlaceOf
  <1>2. QED
    BY <1>1, RequestKept

LEMMA DreadStartInv ==
    ASSUME Inv, UNCHANGED env, NEW i \in held, NEW match \in BOOLEAN, Dread(i, match)
    PROVE  Inv'
  <1> USE DEF Inv
  <1>1. /\ i \in Slots /\ descriptor_list[i].fd # "free" /\ descriptor_list[i].folder
        /\ req.at = "idle"
        /\ req' = [Idle EXCEPT !.at = "dread", !.slot = i, !.match = match]
        /\ UNCHANGED <<files, backup, dirs, leaked, descriptor_list, held, location, saved>>
    BY DEF SlotsHeld, Dread, card, table
  <1>2. req' \in Request /\ req'.at = "dread" /\ req'.slot = i
    BY <1>1, RequestTypes DEF Request, Idle
  <1>3. TypeOK'
    BY <1>1, <1>2 DEF TypeOK
  <1>4. OffsetTracks' /\ RequestPlace' /\ RequestHere' /\ RequestSlot' /\ RequestFix'
    BY <1>1, <1>2
    DEF OffsetTracks, RequestPlace, RequestHere, RequestSlot, RequestFix, PlaceOf, Descr
  <1>5. QED
    BY <1>1, <1>3, <1>4, TableKept

LEMMA DreadEndInv == ASSUME Inv, UNCHANGED env, DreadEnd \/ DreadFails PROVE Inv'
  <1>1. /\ req.at = "dread"
        /\ req' = Idle \/ req' = [req EXCEPT !.match = req.match]
        /\ UNCHANGED <<files, backup, dirs, leaked, descriptor_list, held, location, saved>>
    BY DEF DreadEnd, DreadFails, DreadNext, card, table
  <1>2. req.match \in BOOLEAN /\ dirs \subseteq Device \X Dir
    BY DEF Inv, TypeOK, Request
  <1>3. QED
    BY <1>1, <1>2, RequestKept

-----------------------------------------------------------------------------
(* The steps that give out or take back slots *)

\* A table without a file in use.
LEMMA EmptyInv ==
    ASSUME Inv, UNCHANGED <<env, files, backup, dirs, location, saved>>,
           descriptor_list' = FreeTable, held' = {}, leaked' \subseteq Place,
           req'.at = "idle", req' \in Request
    PROVE  Inv'
  <1> USE DEF Inv
  <1>1. \A i \in Slots : descriptor_list'[i] = FreeDescriptor
    BY DEF FreeTable
  <1>2. TypeOK'
    BY FreeTypes DEF TypeOK
  <1>3. SlotsHeld'
    BY <1>1 DEF SlotsHeld, FreeDescriptor
  <1>4. Shapes' /\ OpenExists' /\ OffsetTracks'
    BY <1>1 DEF Shapes, Shape, OpenExists, OffsetTracks, FreeDescriptor
  <1>5. RequestPlace' /\ RequestHere' /\ RequestSlot' /\ RequestFix' /\ SavedHeld'
    BY DEF RequestPlace, RequestHere, RequestSlot, RequestFix, SavedHeld, Shape
  <1>6. QED
    BY <1>2, <1>3, <1>4, <1>5

LEMMA CloseAllInv == ASSUME Inv, UNCHANGED env, CloseAll PROVE Inv'
  <1>1. leaked' \subseteq Place /\ req'.at = "idle" /\ req' \in Request
    BY DEF CloseAll, Inv, TypeOK
  <1>2. QED
    BY <1>1, EmptyInv DEF CloseAll, card

LEMMA KillInv == ASSUME Inv, UNCHANGED env, Kill PROVE Inv'
  <1>1. leaked' \subseteq Place /\ req'.at = "idle" /\ req' \in Request
    BY RequestTypes DEF Kill, Idle
  <1>2. QED
    BY <1>1, EmptyInv DEF Kill, card

\* The slot that a new descriptor gets is free, and the first one.
LEMMA FreeSlot ==
    ASSUME Free # {}
    PROVE  /\ (CHOOSE i \in Free : \A j \in Free : i <= j) \in Free
           /\ Free \subseteq Slots
  <1>1. Free \subseteq Nat
    BY DEF Free, Slots
  <1>2. \E i \in Free : \A j \in Free : i <= j
    BY <1>1, LeastNumber
  <1>3. QED
    BY <1>2 DEF Free

\* A file that a new descriptor may be for.
Openable(x) ==
    /\ x \in FilePlace
    /\ files[x] # Absent
    /\ "location" \notin env => x = PlaceOf(x[2])

\* An open leaves a new descriptor in a slot that was free, or none.
LEMMA Added ==
    ASSUME Inv, UNCHANGED <<env, location, saved>>,
           NEW x \in Place, NEW flags \in SUBSET {"creat", "trunc", "append"}, NEW trunc \in BOOLEAN,
           NEW folder \in BOOLEAN,
           folder \/ Openable(x)',
           AddDescriptor(x, flags, trunc, folder),
           files' \in [FilePlace -> Content \cup {Absent}],
           \A y \in FilePlace : files[y] # Absent => files'[y] # Absent,
           UNCHANGED <<backup, dirs>>, req'.at = "idle", req' \in Request, req.at # "fixcopy"
    PROVE  Inv'
  <1> USE DEF Inv
  <1>1. CASE Free = {}
    <2>1. /\ leaked' \subseteq Place
          /\ UNCHANGED <<descriptor_list, held>>
      BY <1>1 DEF AddDescriptor, TypeOK
    <2>2. TypeOK'
      BY <2>1 DEF TypeOK, FilePlace
    <2>3. OffsetTracks' /\ RequestPlace' /\ RequestHere' /\ RequestSlot' /\ RequestFix'
      BY <2>1 DEF OffsetTracks, RequestPlace, RequestHere, RequestSlot, RequestFix, PlaceOf
    <2>4. QED
      BY <2>1, <2>2, <2>3, TableKept
  <1>2. CASE Free # {}
    <2>1. PICK i \in Free : i = CHOOSE j \in Free : \A k \in Free : j <= k
      BY <1>2, FreeSlot
    <2> DEFINE extra == IF folder /\ x[2] # Root THEN 0 ELSE -1
               e == [FreeDescriptor EXCEPT
                        !.fd = "live", !.at = x, !.path = x[2], !.flags = flags,
                        !.trunc = trunc, !.folder = folder, !.extra = extra]
    <2>2. /\ i \in Slots /\ descriptor_list[i].fd = "free"
          /\ descriptor_list \in [Slots -> Descriptor]
      BY <2>1 DEF Free, TypeOK
    <2>3. x[2] \in File \cup Dir /\ (~folder => x[2] \in File)
      BY DEF Place, FilePlace, Openable
    <2>4. /\ e \in Descriptor
          /\ e.fd = "live" /\ e.at = x /\ e.path = x[2]
          /\ e.folder = folder /\ e.pos = e.offset
      <3>1. extra \in {-1, 0, 1}
        OBVIOUS
      <3> HIDE DEF extra
      <3>2. CASE folder = TRUE /\ trunc = TRUE
        BY <2>3, <3>1, <3>2, FreeTypes DEF Descriptor, FreeDescriptor
      <3>3. CASE folder = TRUE /\ trunc = FALSE
        BY <2>3, <3>1, <3>3, FreeTypes DEF Descriptor, FreeDescriptor
      <3>4. CASE folder = FALSE /\ trunc = TRUE
        BY <2>3, <3>1, <3>4, FreeTypes DEF Descriptor, FreeDescriptor
      <3>5. CASE folder = FALSE /\ trunc = FALSE
        BY <2>3, <3>1, <3>5, FreeTypes DEF Descriptor, FreeDescriptor
      <3>6. QED
        BY <3>2, <3>3, <3>4, <3>5
    <2>5. /\ descriptor_list' = [descriptor_list EXCEPT ![i] = e]
          /\ held' = held \cup {i}
          /\ UNCHANGED leaked
      BY <1>2, <2>1 DEF AddDescriptor
    <2> HIDE DEF e
    <2>6. /\ descriptor_list'[i] = e
          /\ \A j \in Slots : j # i => descriptor_list'[j] = descriptor_list[j]
      BY <2>2, <2>5
    <2>7. TypeOK'
      BY <2>2, <2>4, <2>5 DEF TypeOK, FilePlace
    <2>8. SlotsHeld'
      BY <2>2, <2>4, <2>5, <2>6 DEF SlotsHeld
    <2>9. Shapes'
      BY <2>3, <2>4, <2>6 DEF Shapes, Shape
    <2>10. OpenExists'
      BY <2>2, <2>3, <2>4, <2>6 DEF OpenExists, Openable, PlaceOf
    <2>11. OffsetTracks'
      BY <2>2, <2>4, <2>6 DEF OffsetTracks, PlaceOf
    <2>12. RequestPlace' /\ RequestHere' /\ RequestSlot' /\ RequestFix' /\ SavedHeld'
      BY DEF RequestPlace, RequestHere, RequestSlot, RequestFix, SavedHeld, Shape
    <2>13. QED
      BY <2>7, <2>8, <2>9, <2>10, <2>11, <2>12
  <1>3. QED
    BY <1>1, <1>2

LEMMA OpenFileInv == ASSUME Inv, UNCHANGED env, OpenFile PROVE Inv'
  <1> DEFINE x == req.place
  <1>1. /\ req.at = "open" /\ req' = Idle
        /\ x \in FilePlace /\ x \in Place
        /\ req.flags \in SUBSET {"creat", "trunc", "append"} /\ req.trunc \in BOOLEAN
        /\ files \in [FilePlace -> Content \cup {Absent}]
        /\ dirs \subseteq Device \X Dir
        /\ "location" \notin env => x = PlaceOf(x[2])
        /\ UNCHANGED <<backup, dirs, location, saved>>
    BY DEF Inv, OpenFile, TypeOK, Request, RequestPlace, RequestHere, FilePlace
  <1>2. CASE UNCHANGED <<files, table, held>>
    BY <1>1, <1>2, RequestKept DEF table
  <1>3. CASE files' = [files EXCEPT ![x] = Opened(@, req.flags)]
             /\ AddDescriptor(x, req.flags, req.trunc, FALSE)
    <2>1. Opened(files[x], req.flags) \in Content
      BY <1>1, ContentTypes
    <2>2. /\ files' \in [FilePlace -> Content \cup {Absent}]
          /\ \A y \in FilePlace : files[y] # Absent => files'[y] # Absent
          /\ files'[x] # Absent
      BY <1>1, <1>3, <2>1
    <2>3. req'.at = "idle" /\ req' \in Request
      BY <1>1, RequestTypes DEF Idle
    <2>4. FALSE \in BOOLEAN /\ req.at # "fixcopy"
      BY <1>1
    <2>5. UNCHANGED <<env, location, saved>> /\ UNCHANGED <<backup, dirs>>
      BY <1>1
    <2>6. AddDescriptor(x, req.flags, req.trunc, FALSE)
      BY <1>3
    <2>7. x \in Place /\ req.flags \in SUBSET {"creat", "trunc", "append"} /\ req.trunc \in BOOLEAN
      BY <1>1
    <2>8. PICK y \in Place, flags \in SUBSET {"creat", "trunc", "append"} : y = x /\ flags = req.flags
      BY <2>7
    <2>9. Openable(y)'
      BY <1>1, <2>2, <2>5, <2>8 DEF Openable, PlaceOf
    <2>10. CASE req.trunc = TRUE
      <3>1. AddDescriptor(y, flags, TRUE, FALSE)
        BY <2>6, <2>8, <2>10
      <3>2. QED
        BY <2>2, <2>3, <2>4, <2>5, <2>9, <3>1, Added
    <2>11. CASE req.trunc = FALSE
      <3>1. AddDescriptor(y, flags, FALSE, FALSE)
        BY <2>6, <2>8, <2>11
      <3>2. QED
        BY <2>2, <2>3, <2>4, <2>5, <2>9, <3>1, Added
    <2>12. QED
      BY <2>7, <2>10, <2>11
  <1>4. QED
    BY <1>2, <1>3 DEF OpenFile

LEMMA DopenInv == ASSUME Inv, UNCHANGED env, NEW dir \in Dir, Dopen(dir) PROVE Inv'
  <1>1. PlaceOf(dir) \in Place
    BY PlaceTypes DEF Inv, TypeOK
  <1>2. /\ req.at = "idle" /\ UNCHANGED <<req, files, backup, dirs, location, saved>>
        /\ req \in Request /\ files \in [FilePlace -> Content \cup {Absent}]
        /\ AddDescriptor(PlaceOf(dir), {}, FALSE, TRUE)
    BY DEF Dopen, card, Inv, TypeOK, FilePlace
  <1>3. QED
    BY <1>1, <1>2, Added

LEMMA CloseHandleInv ==
    ASSUME Inv, UNCHANGED <<env, files, backup, dirs, leaked, location, saved>>,
           NEW i \in Slots, CloseHandle(i),
           req'.at = "idle", req' \in Request, req.at # "fixcopy"
    PROVE  Inv'
  <1> USE DEF Inv
  <1>1. RequestPlace' /\ RequestHere' /\ RequestSlot' /\ RequestFix' /\ SavedHeld'
    BY DEF RequestPlace, RequestHere, RequestSlot, RequestFix, SavedHeld, Shape
  <1>2. CASE UNCHANGED <<descriptor_list, held>>
    <2>1. TypeOK'
      BY <1>2 DEF TypeOK
    <2>2. OffsetTracks'
      BY <1>2 DEF OffsetTracks, PlaceOf
    <2>3. QED
      BY <1>1, <1>2, <2>1, <2>2, TableKept
  <1>3. CASE /\ descriptor_list' = [descriptor_list EXCEPT ![i] = FreeDescriptor]
             /\ held' = held \ {i}
    <2>1. TypeOK'
      BY <1>3, FreeTypes DEF TypeOK
    <2>2. /\ descriptor_list'[i] = FreeDescriptor
          /\ \A j \in Slots : j # i => descriptor_list'[j] = descriptor_list[j]
      BY <1>3 DEF TypeOK
    <2>3. FreeDescriptor.fd = "free"
      BY DEF FreeDescriptor
    <2>4. SlotsHeld'
      BY <1>3, <2>2, <2>3 DEF SlotsHeld
    <2>5. Shapes' /\ OpenExists' /\ OffsetTracks'
      BY <2>2, <2>3 DEF Shapes, Shape, OpenExists, OffsetTracks, PlaceOf
    <2>6. QED
      BY <1>1, <2>1, <2>4, <2>5
  <1>4. QED
    BY <1>2, <1>3 DEF CloseHandle

LEMMA CloseFileInv == ASSUME Inv, UNCHANGED env, CloseFile PROVE Inv'
  <1>1. req.slot \in Slots /\ req'.at = "idle" /\ req' \in Request
    BY RequestTypes DEF CloseFile, Inv, TypeOK, Request, Idle
  <1>2. PICK i \in Slots : i = req.slot
    BY <1>1
  <1>3. CloseHandle(i)
    BY <1>2 DEF CloseFile
  <1>4. QED
    BY <1>1, <1>3, CloseHandleInv DEF CloseFile, card

LEMMA DcloseInv == ASSUME Inv, UNCHANGED env, NEW i \in held, Dclose(i) PROVE Inv'
  <1>1. i \in Slots /\ req'.at = "idle" /\ req' \in Request
    BY DEF Dclose, Inv, TypeOK
  <1>2. QED
    BY <1>1, CloseHandleInv DEF Dclose, card

-----------------------------------------------------------------------------
(* What happens around the server *)

LEMMA RemountInv == ASSUME Inv, UNCHANGED env, Remount PROVE Inv'
  <1> DEFINE Dead(d) == [d EXCEPT !.fd = IF @ = "live" THEN "dead" ELSE @]
  <1> USE DEF Inv
  <1>1. ASSUME NEW d \in Descriptor
        PROVE  /\ Dead(d) \in Descriptor
               /\ Dead(d).fd # "live" /\ (Dead(d).fd = "free" <=> d.fd = "free")
               /\ Dead(d).path = d.path /\ Dead(d).folder = d.folder /\ Dead(d).trunc = d.trunc
    BY DEF Descriptor
  <1>2. descriptor_list' = [i \in Slots |-> Dead(descriptor_list[i])]
    BY DEF Remount
  <1>3. /\ UNCHANGED <<files, backup, dirs, req, held, location, saved>> /\ leaked' = {}
        /\ descriptor_list \in [Slots -> Descriptor] /\ req.slot \in Slots
    BY DEF Remount, card, TypeOK, Request
  <1> HIDE DEF Dead
  <1>4. \A i \in Slots :
            LET d == descriptor_list'[i]
                c == descriptor_list[i]
            IN  /\ d \in Descriptor
                /\ d.fd # "live" /\ (d.fd = "free" <=> c.fd = "free")
                /\ d.path = c.path /\ d.folder = c.folder /\ d.trunc = c.trunc
    BY <1>1, <1>2, <1>3
  <1>5. TypeOK'
    BY <1>2, <1>3, <1>4 DEF TypeOK
  <1>6. SlotsHeld' /\ Shapes' /\ OpenExists' /\ OffsetTracks'
    BY <1>3, <1>4 DEF SlotsHeld, Shapes, Shape, OpenExists, OffsetTracks
  <1>7. RequestPlace' /\ RequestHere' /\ SavedHeld'
    BY <1>3 DEF RequestPlace, RequestHere, SavedHeld, Shape, PlaceOf
  <1>8. RequestSlot'
    BY <1>3, <1>4 DEF RequestSlot, Descr
  <1>9. RequestFix'
    BY <1>3, <1>4 DEF RequestFix, Descr, PlaceOf
  <1>10. QED
    BY <1>5, <1>6, <1>7, <1>8, <1>9

LEMMA SetLocationInv == ASSUME Inv, UNCHANGED env, NEW d \in Device, SetLocation(d) PROVE Inv'
  <1> USE DEF Inv
  <1>1. /\ "location" \in env /\ location' \in Device
        /\ UNCHANGED <<files, backup, dirs, leaked, descriptor_list, req, held, saved>>
    BY DEF SetLocation, card, table
  <1>2. TypeOK' /\ SlotsHeld' /\ Shapes' /\ OpenExists' /\ OffsetTracks'
    BY <1>1 DEF TypeOK, SlotsHeld, Shapes, Shape, OpenExists, OffsetTracks
  <1>3. RequestPlace' /\ RequestHere' /\ RequestSlot' /\ RequestFix' /\ SavedHeld'
    BY <1>1 DEF RequestPlace, RequestHere, RequestSlot, RequestFix, SavedHeld, Shape, Descr
  <1>4. QED
    BY <1>2, <1>3

LEMMA SaveStateInv == ASSUME Inv, UNCHANGED env, SaveState PROVE Inv'
  <1> USE DEF Inv
  <1>1. /\ saved' = {[list |-> descriptor_list, held |-> held]}
        /\ UNCHANGED <<files, backup, dirs, leaked, descriptor_list, req, held, location>>
    BY DEF SaveState, card, table
  <1>2. TypeOK'
    BY <1>1 DEF TypeOK
  <1>3. SlotsHeld' /\ Shapes' /\ OpenExists' /\ OffsetTracks'
    BY <1>1 DEF SlotsHeld, Shapes, Shape, OpenExists, OffsetTracks, PlaceOf
  <1>4. RequestPlace' /\ RequestHere' /\ RequestSlot' /\ RequestFix'
    BY <1>1 DEF RequestPlace, RequestHere, RequestSlot, RequestFix, PlaceOf, Descr
  <1>5. SavedHeld'
    BY <1>1 DEF SavedHeld, Shapes, SlotsHeld, Shape
  <1>6. QED
    BY <1>2, <1>3, <1>4, <1>5

\* A descriptor with a handle that was opened anew.
Moved(d, x, n) == [d EXCEPT !.fd = "live", !.at = x, !.pos = n]

LEMMA MovedTypes ==
    ASSUME NEW d \in Descriptor, NEW x \in Place, NEW n \in Nat
    PROVE  /\ Moved(d, x, n) \in Descriptor
           /\ Moved(d, x, n).fd = "live" /\ Moved(d, x, n).at = x
           /\ Moved(d, x, n).pos = n /\ Moved(d, x, n).offset = d.offset
           /\ Moved(d, x, n).path = d.path /\ Moved(d, x, n).folder = d.folder
  BY DEF Moved, Descriptor

LEMMA SetFileDescriptorsInv ==
    ASSUME Inv, UNCHANGED env, NEW s \in saved, NEW refused \in SUBSET Slots,
           SetFileDescriptors(s, refused)
    PROVE  Inv'
  <1> USE DEF Inv
  <1> DEFINE list == s.list
             Used(i) == list[i].fd # "free"
             Place1(i) == PlaceOf(list[i].path)
             IsFile(i) == Used(i) /\ ~list[i].folder /\ i \notin refused
             CanOpen1(i) ==
                 IF list[i].folder THEN Place1(i) \in dirs
                 ELSE \/ files[Place1(i)] # Absent
                      \/ \E j \in Slots : /\ j <= i
                                          /\ IsFile(j)
                                          /\ list[j].path = list[i].path
                                          /\ "creat" \in list[j].flags
             Reopens(i) == Used(i) /\ i \notin refused /\ CanOpen1(i)
             Wiped(x) ==
                 \E i \in Slots :
                     /\ Reopens(i) /\ ~list[i].folder /\ Place1(i) = x
                     /\ "trunc" \in list[i].flags \/ files[x] = Absent
             New(i) ==
                 IF Reopens(i)
                 THEN IF list[i].folder
                      THEN [list[i] EXCEPT !.fd = "live", !.at = Place1(i), !.pos = 0]
                      ELSE Reopened(list[i])
                 ELSE IF Used(i) THEN NotReopened(list[i]) ELSE list[i]
  <1>1. /\ list \in [Slots -> Descriptor] /\ s.held \subseteq Slots
        /\ \A i \in Slots : Shape(list[i])
        /\ {i \in Slots : list[i].fd # "free"} = s.held
    BY DEF TypeOK, SavedHeld
  <1>2. /\ req.at = "idle"
        /\ descriptor_list' = [i \in Slots |-> New(i)]
        /\ files' = [x \in Device \X File |-> IF Wiped(x) THEN EmptyFile ELSE files[x]]
        /\ held' = s.held
        /\ UNCHANGED <<backup, dirs, leaked, req, location, saved>>
    BY DEF SetFileDescriptors
  <1>3. ASSUME NEW i \in Slots
        PROVE  /\ New(i) \in Descriptor
               /\ New(i).fd = "free" <=> list[i].fd = "free"
               /\ New(i).path = list[i].path /\ New(i).folder = list[i].folder
               /\ New(i).fd = "live" => Reopens(i) /\ New(i).at = Place1(i)
               /\ New(i).fd = "live" /\ ~New(i).folder => New(i).pos = New(i).offset
    <2>1. list[i] \in Descriptor /\ Place1(i) \in Place
      BY <1>1, PlaceTypes DEF Descriptor, TypeOK
    <2>2. CASE Reopens(i) /\ list[i].folder
      <3>1. New(i) = Moved(list[i], Place1(i), 0)
        BY <2>2 DEF Moved
      <3>2. Reopens(i) /\ list[i].fd # "free"
        BY <2>2
      <3> HIDE DEF New, Reopens, list, Place1
      <3>3. PICK n \in Nat : n = 0
        OBVIOUS
      <3>4. /\ New(i) \in Descriptor
            /\ New(i).fd = "live" /\ New(i).at = Place1(i)
            /\ New(i).path = list[i].path /\ New(i).folder = list[i].folder
        BY <2>1, <3>1, <3>3, MovedTypes
      <3>5. QED
        BY <2>2, <3>2, <3>4
    <2>3. CASE Reopens(i) /\ ~list[i].folder
      <3>1. New(i) = Moved(list[i], Place1(i), list[i].offset)
        BY <2>3 DEF Reopened, Moved
      <3>2. Reopens(i) /\ list[i].fd # "free"
        BY <2>3
      <3> HIDE DEF New, Reopens, list, Place1
      <3>3. list[i].offset \in Nat
        BY <2>1 DEF Descriptor
      <3>4. QED
        BY <2>1, <2>3, <3>1, <3>2, <3>3, MovedTypes
    <2>4. CASE ~Reopens(i) /\ Used(i)
      <3>1. New(i) = [list[i] EXCEPT !.fd = "bad"]
        BY <2>4 DEF NotReopened
      <3>2. list[i].fd # "free"
        BY <2>4
      <3> HIDE DEF New, Reopens, list, Place1
      <3>3. QED
        BY <2>1, <3>1, <3>2 DEF Descriptor
    <2>5. CASE ~Used(i)
      <3>1. New(i) = list[i] /\ list[i].fd = "free"
        BY <2>5
      <3> HIDE DEF New, Reopens, list, Place1
      <3>2. QED
        BY <2>1, <3>1
    <2>6. QED
      BY <2>2, <2>3, <2>4, <2>5
  <1>4. /\ files \in [FilePlace -> Content \cup {Absent}]
        /\ files' \in [FilePlace -> Content \cup {Absent}]
        /\ \A x \in FilePlace : Wiped(x) => files'[x] # Absent
        /\ \A x \in FilePlace : files[x] # Absent => files'[x] # Absent
    <2>1. files \in [FilePlace -> Content \cup {Absent}]
      BY DEF TypeOK, FilePlace
    <2> HIDE DEF Wiped
    <2>2. QED
      BY <1>2, <2>1, ContentTypes DEF FilePlace
  <1>5. ASSUME NEW i \in Slots, Reopens(i), ~list[i].folder
        PROVE  Place1(i) \in FilePlace /\ files'[Place1(i)] # Absent
    <2>1. Place1(i) \in FilePlace
      BY <1>1, <1>5, PlaceTypes DEF Shape, TypeOK
    <2>2. files[Place1(i)] = Absent => Wiped(Place1(i))
      BY <1>5
    <2> HIDE DEF Wiped, Place1
    <2>3. QED
      BY <1>4, <2>1, <2>2
  <1> HIDE DEF New, Reopens, list, Wiped
  <1>6. TypeOK'
    BY <1>1, <1>2, <1>3, <1>4 DEF TypeOK, FilePlace
  <1>7. SlotsHeld' /\ Shapes'
    BY <1>1, <1>2, <1>3 DEF SlotsHeld, Shapes, Shape
  <1>8. OpenExists'
    <2> SUFFICES ASSUME NEW i \in Slots, New(i).fd = "live", ~New(i).folder
                 PROVE  /\ New(i).at \in FilePlace
                        /\ files'[New(i).at] # Absent
                        /\ New(i).at = <<location', New(i).path>>
      BY <1>2 DEF OpenExists, PlaceOf
    <2>1. Reopens(i) /\ ~list[i].folder /\ New(i).at = Place1(i) /\ New(i).path = list[i].path
      BY <1>3
    <2>2. Place1(i) = <<location', list[i].path>>
      BY <1>2 DEF PlaceOf
    <2> HIDE DEF Place1
    <2>3. QED
      BY <1>5, <2>1, <2>2
  <1>9. OffsetTracks'
    BY <1>2, <1>3 DEF OffsetTracks
  <1>10. RequestPlace' /\ RequestHere' /\ RequestSlot' /\ RequestFix' /\ SavedHeld'
    BY <1>2 DEF RequestPlace, RequestHere, RequestSlot, RequestFix, SavedHeld, Shape
  <1>11. QED
    BY <1>6, <1>7, <1>8, <1>9, <1>10

-----------------------------------------------------------------------------
(* The theorems *)

LEMMA NextInv == Inv /\ [Next]_vars => Inv'
  <1> SUFFICES ASSUME Inv, [Next]_vars PROVE Inv'
    OBVIOUS
  <1>1. CASE UNCHANGED vars
    <2>1. dirs \subseteq Device \X Dir
      BY DEF Inv, TypeOK
    <2>2. QED
      BY <1>1, <2>1, RequestKept DEF vars, card, table
  <1>2. CASE Next
    <2> UNCHANGED env
      BY <1>2 DEF Next
    <2>1. CASE CloseAll
      BY <2>1, CloseAllInv
    <2>2. CASE \E f \in UsedFiles, flags \in UsedFlags : Open(f, flags)
      BY <2>2, OpenInv
    <2>3. CASE \E i \in held : Close(i) \/ Read(i) \/ Write(i) \/ Dclose(i) \/ Ioctl(i)
      BY <2>3, CloseInv, ReadInv, WriteInv, DcloseInv, IoctlInv
    <2>4. CASE \E i \in held, offset \in 0 .. UsedLength : Lseek(i, offset)
      BY <2>4, LseekInv
    <2>5. CASE \/ \E f \in UsedFiles : Remove(f)
               \/ \E f, g \in UsedFiles : Rename(f, g)
      BY <2>5, NamesInv
    <2>6. CASE \E dir \in Dir : Mkdir(dir) \/ Rmdir(dir) \/ Dopen(dir)
      BY <2>6, DirsInv, DopenInv
    <2>7. CASE \E i \in held, match \in BOOLEAN : Dread(i, match)
      BY <2>7, DreadStartInv
    <2>8. CASE RequestStep
      BY <2>8, OpenCreateInv, OpenFileInv, TruncateFixOpenInv, TruncateFixCopyInv,
         TruncateFixEndInv, CloseFileInv, DreadInv, DreadEndInv DEF RequestStep
    <2>9. CASE Remount \/ Kill
      BY <2>9, RemountInv, KillInv
    <2>10. CASE \E d \in Device : SetLocation(d)
      BY <2>10, SetLocationInv
    <2>11. CASE SaveState
      BY <2>11, SaveStateInv
    <2>12. CASE \E s \in saved, refused \in SUBSET Slots : SetFileDescriptors(s, refused)
      BY <2>12, SetFileDescriptorsInv
    <2>13. QED
      BY <1>2, <2>1, <2>2, <2>3, <2>4, <2>5, <2>6, <2>7, <2>8, <2>9, <2>10, <2>11, <2>12
      DEF Next
  <1>3. QED
    BY <1>1, <1>2

\* The inductive invariant: what the server has in its table, on the card and in the
\* request that it answers agrees with what the PSP was told (msfs.c).
THEOREM Invariant == Spec => []Inv
  <1>1. QED
    BY InitInv, NextInv, PTL DEF Spec

\* Every variable keeps the shape that the code gives it, in every environment.
THEOREM TypesKept == Spec => []TypeOK
  <1>1. Inv => TypeOK
    BY DEF Inv
  <1>2. QED
    BY <1>1, Invariant, PTL

\* The slots in use are the ones the PSP holds: a descriptor is never lost, given
\* twice or freed under a program.
THEOREM SlotsCorrect == Spec => []SlotsHeld
  <1>1. Inv => SlotsHeld
    BY DEF Inv
  <1>2. QED
    BY <1>1, Invariant, PTL

\* The offset that a reopen restores is where the handle was, but after a failed
\* ScePspemuMsfsTruncateFix, and as long as the location is not changed.
THEOREM OffsetsCorrect == Spec => []OffsetTracks
  <1>1. Inv => OffsetTracks
    BY DEF Inv
  <1>2. QED
    BY <1>1, Invariant, PTL

\* The descriptor that is added.
LEMMA DescriptorAdded ==
    ASSUME Free # {}, NEW x, NEW flags, NEW trunc, NEW folder,
           AddDescriptor(x, flags, trunc, folder)
    PROVE  \E i \in Free : \E e :
               /\ descriptor_list' = [descriptor_list EXCEPT ![i] = e]
               /\ e.fd = "live" /\ e.path = x[2] /\ e.flags = flags /\ e.trunc = trunc
  <1> DEFINE e == [FreeDescriptor EXCEPT
                      !.fd = "live", !.at = x, !.path = x[2], !.flags = flags,
                      !.trunc = trunc, !.folder = folder,
                      !.extra = IF folder /\ x[2] # Root THEN 0 ELSE -1]
  <1>1. PICK i \in Free : i = CHOOSE j \in Free : \A k \in Free : j <= k
    BY FreeSlot
  <1>2. descriptor_list' = [descriptor_list EXCEPT ![i] = e]
    BY <1>1 DEF AddDescriptor
  <1>3. e.fd = "live" /\ e.path = x[2] /\ e.flags = flags /\ e.trunc = trunc
    BY DEF FreeDescriptor
  <1> HIDE DEF e
  <1>4. QED
    BY <1>2, <1>3

LEMMA DreadNextAt ==
    ASSUME Inv, req.at = "dread", NEW match \in BOOLEAN
    PROVE  DreadNext(match).at \in {"idle", "dread"}
  <1>1. [req EXCEPT !.match = match].at = "dread"
    BY DEF Inv, TypeOK, Request
  <1>2. QED
    BY <1>1 DEF DreadNext, Idle

-----------------------------------------------------------------------------
(* The file that was put aside *)

\* What CopyFound rests on: a file has one descriptor that it was put aside for, and
\* a request that has put one aside finds none.
CopyInv ==
    /\ \A i \in Slots : descriptor_list[i].fd \in {"free", "live"}
    /\ \A i \in Slots :
          descriptor_list[i].trunc /\ ~(req.at = "close" /\ req.slot = i)
              => backup[PlaceOf(descriptor_list[i].path)] # Absent
    /\ \A i, j \in Slots :
          /\ descriptor_list[i].trunc /\ descriptor_list[j].trunc
          /\ descriptor_list[i].path = descriptor_list[j].path
          => i = j
    /\ req.at = "create" \/ (req.at = "open" /\ req.trunc) =>
          /\ backup[req.place] # Absent
          /\ \A i \in Slots :
                descriptor_list[i].trunc => PlaceOf(descriptor_list[i].path) # req.place

CopyStep == Inv /\ Calm /\ CopyInv /\ UNCHANGED env

\* A step opens no descriptor in slot i for a file that was put aside.
NoneAdded(i) ==
    /\ descriptor_list'[i].fd \in {"free", "live"}
    /\ descriptor_list'[i].trunc =>
          descriptor_list[i].trunc /\ descriptor_list'[i].path = descriptor_list[i].path

LEMMA OneChanged ==
    ASSUME CopyStep, NEW i \in Slots, NEW e,
           descriptor_list' = [descriptor_list EXCEPT ![i] = e],
           e.fd \in {"free", "live"},
           e.trunc => descriptor_list[i].trunc /\ e.path = descriptor_list[i].path
    PROVE  \A j \in Slots : NoneAdded(j)
  BY DEF CopyStep, Inv, TypeOK, CopyInv, NoneAdded

LEMMA CopyKept ==
    ASSUME CopyStep, UNCHANGED <<backup, location>>, \A i \in Slots : NoneAdded(i),
           req.at = "close" => UNCHANGED req \/ ~descriptor_list'[req.slot].trunc,
           req'.at = "create" \/ (req'.at = "open" /\ req'.trunc) =>
               /\ req.at = "create" \/ (req.at = "open" /\ req.trunc)
               /\ req'.place = req.place
    PROVE  CopyInv'
  <1> USE DEF CopyStep, CopyInv, NoneAdded, PlaceOf
  <1>1. ASSUME NEW i \in Slots, descriptor_list'[i].trunc, ~(req'.at = "close" /\ req'.slot = i)
        PROVE  backup'[PlaceOf(descriptor_list[i].path)] # Absent
    <2>1. ~(req.at = "close" /\ req.slot = i)
      BY <1>1
    <2>2. QED
      BY <1>1, <2>1
  <1>2. QED
    BY <1>1

\* A call on a handle leaves in the descriptor what it was opened for.
LEMMA HandleCopy ==
    ASSUME CopyStep, NEW i \in held,
           Read(i) \/ Write(i) \/ \E offset \in 0 .. UsedLength : Lseek(i, offset)
    PROVE  \A j \in Slots : NoneAdded(j)
  <1> USE DEF CopyStep
  <1> DEFINE d == descriptor_list[i]
  <1>1. i \in Slots /\ d \in Descriptor /\ d.fd = "live"
    <2>1. i \in Slots /\ d \in Descriptor /\ d.fd # "free"
      BY DEF Inv, TypeOK, SlotsHeld
    <2>2. QED
      BY <2>1 DEF CopyInv
  <1>2. \E e : /\ descriptor_list' = [descriptor_list EXCEPT ![i] = e]
               /\ e.fd = d.fd /\ e.trunc = d.trunc /\ e.path = d.path
    <2>1. CASE Read(i)
      <3>1. \/ descriptor_list' = [descriptor_list EXCEPT ![i] = d]
            \/ descriptor_list' = [descriptor_list EXCEPT ![i] = Advance(d)]
        BY <1>1, <2>1 DEF Read, OnHandle
      <3>2. Advance(d).fd = d.fd /\ Advance(d).trunc = d.trunc /\ Advance(d).path = d.path
        BY <1>1, AdvanceTypes
      <3>3. QED
        BY <3>1, <3>2
    <2>2. CASE Write(i)
      <3> DEFINE w == FirstWrite(d)
      <3>1. w \in Descriptor /\ w.fd = d.fd /\ w.trunc = d.trunc /\ w.path = d.path
        <4>1. d.offset \in Offset
          BY <1>1, <2>2, UsedTypes DEF Write, Descriptor
        <4>2. QED
          BY <1>1, <4>1, FirstWriteTypes DEF SameHandle
      <3>2. \/ descriptor_list' = [descriptor_list EXCEPT ![i] = w]
            \/ descriptor_list' = [descriptor_list EXCEPT ![i] = AfterWrite(w, files[w.at])]
        BY <1>1, <2>2, <3>1 DEF Write, OnHandle
      <3> HIDE DEF w
      <3>3. PICK was : was = files[w.at]
        OBVIOUS
      <3>4. /\ AfterWrite(w, was).fd = w.fd /\ AfterWrite(w, was).trunc = w.trunc
            /\ AfterWrite(w, was).path = w.path
        BY <3>1, WrittenTypes
      <3>5. QED
        BY <3>1, <3>2, <3>3, <3>4
    <2>3. CASE \E offset \in 0 .. UsedLength : Lseek(i, offset)
      <3>1. PICK offset \in 0 .. UsedLength : Lseek(i, offset)
        BY <2>3
      <3>2. \/ descriptor_list' = [descriptor_list EXCEPT ![i] = d]
            \/ descriptor_list' =
                   [descriptor_list EXCEPT ![i] = [d EXCEPT !.pos = offset, !.offset = offset]]
        BY <1>1, <3>1 DEF Lseek, OnHandle
      <3> DEFINE e == [d EXCEPT !.pos = offset, !.offset = offset]
      <3>3. e.fd = d.fd /\ e.trunc = d.trunc /\ e.path = d.path
        BY <1>1 DEF Descriptor
      <3>4. QED
        BY <3>2, <3>3
    <2>4. QED
      BY <2>1, <2>2, <2>3
  <1> HIDE DEF d
  <1>3. PICK e : /\ descriptor_list' = [descriptor_list EXCEPT ![i] = e]
                 /\ e.fd = d.fd /\ e.trunc = d.trunc /\ e.path = d.path
    BY <1>2
  <1>4. QED
    BY <1>1, <1>3, OneChanged DEF d

\* Nor does closing it, reading a directory or copying back.
LEMMA StepCopy ==
    ASSUME CopyStep,
           \/ TruncateFixOpen \/ TruncateFixCopy \/ CloseFile
           \/ \E i \in held : Dclose(i) \/ Ioctl(i)
           \/ \E match \in BOOLEAN : DreadExtra(match) \/ DreadEntry(match)
    PROVE  \A j \in Slots : NoneAdded(j)
  <1> USE DEF CopyStep
  <1>1. req.slot \in Slots /\ held \subseteq Slots
    BY DEF Inv, TypeOK, Request
  <1>2. CASE CloseFile \/ \E i \in held : Dclose(i)
    <2>1. PICK i \in Slots : CloseHandle(i)
      BY <1>1, <1>2 DEF CloseFile, Dclose
    <2>2. FreeDescriptor.fd = "free" /\ FreeDescriptor.trunc = FALSE
      BY DEF FreeDescriptor
    <2>3. descriptor_list' = [descriptor_list EXCEPT ![i] = FreeDescriptor]
      BY <2>1 DEF CloseHandle, CopyInv
    <2>4. QED
      BY <2>2, <2>3, OneChanged
  <1>3. CASE \/ TruncateFixOpen \/ TruncateFixCopy \/ \E i \in held : Ioctl(i)
             \/ \E match \in BOOLEAN : DreadExtra(match) \/ DreadEntry(match)
    <2>1. \E i \in Slots : \E v, w, x :
              descriptor_list' \in
                  {[descriptor_list EXCEPT ![i].pos = v], [descriptor_list EXCEPT ![i].extra = w],
                   [descriptor_list EXCEPT ![i].filter = x]}
      BY <1>1, <1>3 DEF TruncateFixOpen, TruncateFixCopy, Ioctl, DreadExtra, DreadEntry, Inv, TypeOK
    <2>2. PICK i \in Slots : \E v, w, x :
              descriptor_list' \in
                  {[descriptor_list EXCEPT ![i].pos = v], [descriptor_list EXCEPT ![i].extra = w],
                   [descriptor_list EXCEPT ![i].filter = x]}
      BY <2>1
    <2>3. PICK v, w, x :
              descriptor_list' \in
                  {[descriptor_list EXCEPT ![i].pos = v], [descriptor_list EXCEPT ![i].extra = w],
                   [descriptor_list EXCEPT ![i].filter = x]}
      BY <2>2
    <2>4. PICK d \in Descriptor : d = descriptor_list[i] /\ d.fd \in {"free", "live"}
      BY DEF Inv, TypeOK, CopyInv
    <2>5. \A e \in {[d EXCEPT !.pos = v], [d EXCEPT !.extra = w], [d EXCEPT !.filter = x]} :
              e.fd = d.fd /\ e.trunc = d.trunc /\ e.path = d.path
      BY DEF Descriptor
    <2>6. PICK e \in {[d EXCEPT !.pos = v], [d EXCEPT !.extra = w], [d EXCEPT !.filter = x]} :
              descriptor_list' = [descriptor_list EXCEPT ![i] = e]
      BY <2>3, <2>4
    <2>7. QED
      BY <2>4, <2>5, <2>6, OneChanged
  <1>4. QED
    BY <1>2, <1>3

\* The file is put aside: no descriptor had it put aside before.
LEMMA OpenCopy ==
    ASSUME CopyStep, NEW f \in UsedFiles, NEW flags \in UsedFlags, Open(f, flags)
    PROVE  CopyInv'
  <1> USE DEF CopyStep
  <1> DEFINE x == PlaceOf(f)
  <1>1. /\ req.at = "idle" /\ UNCHANGED <<descriptor_list, location>>
        /\ \/ /\ backup[x] = Absent /\ files[x] # Absent
              /\ backup' = [backup EXCEPT ![x] = files[x]]
              /\ req'.at = "create" /\ req'.place = x
           \/ backup' = backup /\ req'.at = "open" /\ ~req'.trunc
    <2> DEFINE here == [Idle EXCEPT !.place = x, !.flags = flags]
    <2>1. /\ [here EXCEPT !.at = "create"].at = "create"
          /\ [here EXCEPT !.at = "create"].place = x
          /\ [here EXCEPT !.at = "open"].at = "open"
          /\ [here EXCEPT !.at = "open"].trunc = FALSE
      BY DEF Idle
    <2>2. /\ req.at = "idle" /\ UNCHANGED <<descriptor_list, location>>
          /\ \/ /\ backup[x] = Absent /\ files[x] # Absent
                /\ backup' = [backup EXCEPT ![x] = files[x]]
                /\ req' = [here EXCEPT !.at = "create"]
             \/ backup' = backup /\ req' = [here EXCEPT !.at = "open"]
      BY DEF Open, table
    <2> HIDE DEF here
    <2>3. QED
      BY <2>1, <2>2
  <1>2. \A i \in Slots : NoneAdded(i)
    BY <1>1 DEF NoneAdded, CopyInv
  <1>3. CASE backup' = backup /\ req'.at = "open" /\ ~req'.trunc
    BY <1>1, <1>2, <1>3, CopyKept
  <1>4. CASE /\ backup[x] = Absent /\ files[x] # Absent
             /\ backup' = [backup EXCEPT ![x] = files[x]]
             /\ req'.at = "create" /\ req'.place = x
    <2>1. backup \in [FilePlace -> Content \cup {Absent}] /\ x \in FilePlace
      BY UsedTypes, PlaceTypes DEF Inv, TypeOK, FilePlace
    <2>2. backup'[x] # Absent /\ \A y : y # x => backup'[y] = backup[y]
      BY <1>4, <2>1
    <2> HIDE DEF x
    <2>3. \A i \in Slots : descriptor_list[i].trunc =>
              /\ backup[PlaceOf(descriptor_list[i].path)] # Absent
              /\ PlaceOf(descriptor_list[i].path) # x
      BY <1>1, <1>4 DEF CopyInv
    <2>4. \A i \in Slots : PlaceOf(descriptor_list[i].path)' = PlaceOf(descriptor_list[i].path)
      BY <1>1 DEF PlaceOf
    <2>5. QED
      BY <1>1, <1>4, <2>2, <2>3, <2>4 DEF CopyInv
  <1>5. QED
    BY <1>1, <1>3, <1>4

\* Its descriptor is the first for it.
LEMMA OpenFileCopy == ASSUME CopyStep, OpenFile PROVE CopyInv'
  <1> USE DEF CopyStep
  <1>1. /\ req.at = "open" /\ req'.at = "idle" /\ UNCHANGED <<backup, location>>
        /\ req.place = PlaceOf(req.place[2])
        /\ UNCHANGED descriptor_list \/ AddDescriptor(req.place, req.flags, req.trunc, FALSE)
    BY DEF OpenFile, Idle, Inv, RequestHere, table, Calm
  <1>2. CASE UNCHANGED descriptor_list
    <2>1. \A i \in Slots : NoneAdded(i)
      BY <1>2 DEF NoneAdded, CopyInv
    <2>2. QED
      BY <1>1, <2>1, CopyKept
  <1>3. CASE AddDescriptor(req.place, req.flags, req.trunc, FALSE) /\ Free # {}
    <2>1. PICK i \in Free : \E e :
              /\ descriptor_list' = [descriptor_list EXCEPT ![i] = e]
              /\ e.fd = "live" /\ e.path = req.place[2] /\ e.flags = req.flags
              /\ e.trunc = req.trunc
      <3>1. PICK x, flags, trunc, folder :
                x = req.place /\ flags = req.flags /\ trunc = req.trunc /\ folder = FALSE
        OBVIOUS
      <3>2. AddDescriptor(x, flags, trunc, folder) /\ Free # {}
        BY <1>3, <3>1
      <3> HIDE DEF CopyStep
      <3>3. \E i \in Free : \E e :
                /\ descriptor_list' = [descriptor_list EXCEPT ![i] = e]
                /\ e.fd = "live" /\ e.path = x[2] /\ e.flags = flags /\ e.trunc = trunc
        BY <3>2, DescriptorAdded
      <3>4. QED
        BY <3>1, <3>3
    <2>2. PICK e : /\ descriptor_list' = [descriptor_list EXCEPT ![i] = e]
                   /\ e.fd = "live" /\ e.trunc = req.trunc /\ e.path = req.place[2]
      BY <2>1
    <2>3. i \in Slots
      BY DEF Free
    <2>4. descriptor_list'[i] = e /\ \A j \in Slots : j # i => descriptor_list'[j] = descriptor_list[j]
      BY <2>2, <2>3 DEF Inv, TypeOK
    <2>5. \A p : PlaceOf(p)' = PlaceOf(p)
      BY <1>1 DEF PlaceOf
    <2>6. req.trunc =>
              /\ backup[req.place] # Absent
              /\ \A j \in Slots :
                    descriptor_list[j].trunc => descriptor_list[j].path # req.place[2]
      BY <1>1 DEF CopyInv
    <2>7. QED
      BY <1>1, <2>2, <2>3, <2>4, <2>5, <2>6 DEF CopyInv
  <1>4. CASE AddDescriptor(req.place, req.flags, req.trunc, FALSE) /\ Free = {}
    <2>1. UNCHANGED descriptor_list
      BY <1>4 DEF AddDescriptor
    <2>2. QED
      BY <1>2, <2>1
  <1>5. QED
    BY <1>1, <1>2, <1>3, <1>4

\* Only the close that has used it removes it.
LEMMA RemoveCopy == ASSUME CopyStep, TruncateFixRemove PROVE CopyInv'
  <1> USE DEF CopyStep
  <1>1. /\ req.at = "fixcopy" /\ req.slot \in Slots /\ Descr.trunc
        /\ req.place = PlaceOf(Descr.path)
        /\ UNCHANGED <<descriptor_list, location>>
    BY DEF TruncateFixRemove, Inv, TypeOK, Request, RequestFix, Calm, table
  <1>2. /\ backup' = [backup EXCEPT ![req.place] = Absent]
        /\ req'.at = "close" /\ req'.slot = req.slot
    BY DEF TruncateFixRemove, Inv, TypeOK, Request
  <1>3. \A y : y # req.place => backup'[y] = backup[y]
    BY <1>2 DEF Inv, TypeOK
  <1>4. \A i \in Slots : i # req.slot /\ descriptor_list[i].trunc =>
            PlaceOf(descriptor_list[i].path) # req.place
    BY <1>1 DEF CopyInv, PlaceOf, Descr
  <1>5. \A p : PlaceOf(p)' = PlaceOf(p)
    BY <1>1 DEF PlaceOf
  <1>6. QED
    BY <1>1, <1>2, <1>3, <1>4, <1>5 DEF CopyInv

LEMMA CopyNext == ASSUME CopyStep, Next PROVE CopyInv'
  <1> USE DEF CopyStep
  <1>1. CASE CloseAll \/ Kill
    <2>1. \A i \in Slots : descriptor_list'[i].fd = "free" /\ descriptor_list'[i].trunc = FALSE
      BY <1>1 DEF CloseAll, Kill, FreeTable, FreeDescriptor
    <2>2. req'.at = "idle"
      BY <1>1 DEF CloseAll, Kill, Idle
    <2>3. QED
      BY <2>1, <2>2 DEF CopyInv
  <1>2. CASE \E f \in UsedFiles, flags \in UsedFlags : Open(f, flags)
    BY <1>2, OpenCopy
  <1>3. CASE \E i \in held : Read(i) \/ Write(i) \/ \E offset \in 0 .. UsedLength : Lseek(i, offset)
    <2>1. PICK i \in held : Read(i) \/ Write(i) \/ \E offset \in 0 .. UsedLength : Lseek(i, offset)
      BY <1>3
    <2>2. \A j \in Slots : NoneAdded(j)
      BY <2>1, HandleCopy
    <2>3. req.at = "idle" /\ UNCHANGED <<backup, location, req>>
      BY <2>1 DEF Read, Write, Lseek
    <2>4. QED
      BY <2>2, <2>3, CopyKept
  <1>4. CASE \/ TruncateFixOpen \/ TruncateFixCopy \/ CloseFile
             \/ \E i \in held : Dclose(i) \/ Ioctl(i)
             \/ \E match \in BOOLEAN : DreadExtra(match) \/ DreadEntry(match)
    <2>1. \A j \in Slots : NoneAdded(j)
      BY <1>4, StepCopy
    <2>2. UNCHANGED <<backup, location>>
      BY <1>4 DEF TruncateFixOpen, TruncateFixCopy, CloseFile, Dclose, Ioctl, DreadExtra, DreadEntry,
                  card
    <2>3. CASE CloseFile
      <3>1. /\ req'.at = "idle" /\ req.slot \in Slots
            /\ descriptor_list' = [descriptor_list EXCEPT ![req.slot] = FreeDescriptor]
        BY <2>3 DEF CloseFile, CloseHandle, CopyInv, Idle, Inv, TypeOK, Request
      <3>2. ~descriptor_list'[req.slot].trunc
        BY <3>1 DEF FreeDescriptor, Inv, TypeOK
      <3>3. QED
        BY <2>1, <2>2, <3>1, <3>2, CopyKept
    <2>4. CASE ~CloseFile
      <3>1. req.at \in {"idle", "fixopen", "fixcopy", "dread"}
        BY <1>4, <2>4 DEF TruncateFixOpen, TruncateFixCopy, Dclose, Ioctl, DreadExtra, DreadEntry
      <3>2. req'.at \in {"idle", "fixcopy", "dread"}
        <4>1. CASE TruncateFixOpen
          BY <4>1 DEF TruncateFixOpen, Inv, TypeOK, Request
        <4>2. CASE TruncateFixCopy \/ \E i \in held : Dclose(i) \/ Ioctl(i)
          BY <4>2 DEF TruncateFixCopy, Dclose, Ioctl
        <4>3. CASE \E match \in BOOLEAN : DreadExtra(match) \/ DreadEntry(match)
          BY <4>3, DreadNextAt DEF DreadExtra, DreadEntry
        <4>4. QED
          BY <1>4, <2>4, <4>1, <4>2, <4>3
      <3>3. QED
        BY <2>1, <2>2, <3>1, <3>2, CopyKept
    <2>5. QED
      BY <2>3, <2>4
  <1>5. CASE OpenFile
    BY <1>5, OpenFileCopy
  <1>6. CASE TruncateFixRemove
    BY <1>6, RemoveCopy
  <1>7. ~TruncateFixFails
    <2>1. SUFFICES ASSUME TruncateFixFails PROVE FALSE
      OBVIOUS
    <2>2. /\ req.slot \in Slots /\ Descr.trunc /\ req.place = PlaceOf(Descr.path)
          /\ Descr.fd # "free" /\ req.at \in {"fixopen", "fixcopy"} /\ ~Faulty
      BY <2>1 DEF TruncateFixFails, Inv, TypeOK, Request, RequestFix, RequestSlot, Calm, Faulty
    <2>3. backup[req.place] # Absent /\ Descr.fd = "live"
      BY <2>2 DEF CopyInv, Descr
    <2>4. QED
      BY <2>1, <2>2, <2>3 DEF TruncateFixFails
  <1>8. CASE UNCHANGED descriptor_list /\ req.at \in {"idle", "create", "dread"}
             /\ UNCHANGED <<backup, location>>
             /\ (req'.at = "create" \/ (req'.at = "open" /\ req'.trunc) =>
                    req.at = "create" /\ req'.place = req.place)
    <2>1. \A j \in Slots : NoneAdded(j)
      BY <1>8 DEF NoneAdded, CopyInv
    <2>2. QED
      BY <1>8, <2>1, CopyKept
  <1>9. CASE \/ OpenCreate \/ DreadEnd \/ DreadFails
             \/ \E f \in UsedFiles : Remove(f)
             \/ \E f, g \in UsedFiles : Rename(f, g)
             \/ \E dir \in Dir : Mkdir(dir) \/ Rmdir(dir)
             \/ \E i \in held : Close(i)
             \/ \E i \in held, match \in BOOLEAN : Dread(i, match)
    <2>1. CASE OpenCreate
      <3>1. PICK r \in Request : r = req
        BY DEF Inv, TypeOK
      <3>2. \/ req' = [r EXCEPT !.at = "open", !.trunc = TRUE]
            \/ req' = [r EXCEPT !.at = "open"]
        BY <2>1, <3>1 DEF OpenCreate
      <3>3. req'.place = req.place
        <4>1. /\ [r EXCEPT !.at = "open", !.trunc = TRUE].place = r.place
              /\ [r EXCEPT !.at = "open"].place = r.place
          BY DEF Request
        <4>2. QED
          BY <3>1, <3>2, <4>1
      <3>4. QED
        BY <1>8, <2>1, <3>3 DEF OpenCreate, table
    <2>2. CASE DreadEnd \/ DreadFails
      <3>1. req'.at \in {"idle", "dread"}
        <4>1. CASE DreadEnd
          BY <4>1 DEF DreadEnd, Idle
        <4>2. CASE DreadFails
          <5>1. PICK match \in BOOLEAN : match = req.match
            BY DEF Inv, TypeOK, Request
          <5>2. QED
            BY <4>2, <5>1, DreadNextAt DEF DreadFails
        <4>3. QED
          BY <2>2, <4>1, <4>2
      <3>2. QED
        BY <1>8, <2>2, <3>1 DEF DreadEnd, DreadFails, card, table
    <2>3. CASE \/ \E f \in UsedFiles : Remove(f)
               \/ \E f, g \in UsedFiles : Rename(f, g)
               \/ \E dir \in Dir : Mkdir(dir) \/ Rmdir(dir)
      BY <1>8, <2>3 DEF Remove, Rename, Mkdir, Rmdir, table
    <2>4. CASE \E i \in held : Close(i)
      BY <1>8, <2>4 DEF Close, Idle, card, table
    <2>5. CASE \E i \in held, match \in BOOLEAN : Dread(i, match)
      BY <1>8, <2>5 DEF Dread, Idle, card, table
    <2>6. QED
      BY <1>9, <2>1, <2>2, <2>3, <2>4, <2>5
  <1>10. CASE \E dir \in Dir : Dopen(dir)
    <2>1. PICK dir \in Dir : Dopen(dir)
      BY <1>10
    <2>2. req.at = "idle" /\ UNCHANGED <<backup, location, req>>
          /\ AddDescriptor(PlaceOf(dir), {}, FALSE, TRUE)
      BY <2>1 DEF Dopen, card
    <2>3. CASE Free = {}
      BY <1>8, <2>2, <2>3 DEF AddDescriptor
    <2>4. CASE Free # {}
      <3>1. PICK i \in Free : \E e :
                /\ descriptor_list' = [descriptor_list EXCEPT ![i] = e]
                /\ e.fd = "live" /\ e.trunc = FALSE
        <4>1. PICK x, flags, trunc, folder :
                  x = PlaceOf(dir) /\ flags = {} /\ trunc = FALSE /\ folder = TRUE
          OBVIOUS
        <4>2. AddDescriptor(x, flags, trunc, folder) /\ Free # {}
          BY <2>2, <2>4, <4>1
        <4> HIDE DEF CopyStep
        <4>3. \E i \in Free : \E e :
                  /\ descriptor_list' = [descriptor_list EXCEPT ![i] = e]
                  /\ e.fd = "live" /\ e.path = x[2] /\ e.flags = flags /\ e.trunc = trunc
          BY <4>2, DescriptorAdded
        <4>4. QED
          BY <4>1, <4>3
      <3>2. PICK e : /\ descriptor_list' = [descriptor_list EXCEPT ![i] = e]
                     /\ e.fd = "live" /\ e.trunc = FALSE
        BY <3>1
      <3>3. i \in Slots
        BY DEF Free
      <3>4. \A j \in Slots : NoneAdded(j)
        BY <3>2, <3>3, OneChanged
      <3>5. QED
        BY <2>2, <3>4, CopyKept
    <2>5. QED
      BY <2>3, <2>4
  <1>11. ~Remount /\ ~SaveState
         /\ ~(\E d \in Device : SetLocation(d))
         /\ ~(\E s \in saved, refused \in SUBSET Slots : SetFileDescriptors(s, refused))
    BY DEF Calm, Remount, SaveState, SetLocation, SetFileDescriptors
  <1>12. QED
    BY <1>1, <1>2, <1>3, <1>4, <1>5, <1>6, <1>7, <1>9, <1>10, <1>11 DEF Next, RequestStep

\* A file that was put aside keeps its copy until the close of its own descriptor
\* (ScePspemuMsfsOpen, ScePspemuMsfsTruncateFix), whatever is opened, closed or killed
\* in between, as long as no call on the card fails, no handle becomes invalid, and
\* the location and the table are not replaced.
THEOREM CopyCorrect == Spec => []CopyFound
  <1>1. Init => (Calm => CopyInv)
    <2> SUFFICES ASSUME Init PROVE CopyInv
      OBVIOUS
    <2>1. (\A i \in Slots : descriptor_list[i].fd = "free" /\ descriptor_list[i].trunc = FALSE)
          /\ req.at = "idle"
      BY DEF Init, FreeTable, FreeDescriptor, Idle
    <2>2. QED
      BY <2>1 DEF CopyInv
  <1>2. ASSUME Inv, Calm => CopyInv, [Next]_vars
        PROVE  (Calm => CopyInv)'
    <2>1. CASE UNCHANGED vars
      BY <1>2, <2>1 DEF vars, card, table, Calm, CopyInv, PlaceOf
    <2>2. CASE Next
      <3>1. UNCHANGED env
        BY <2>2 DEF Next
      <3>2. QED
        BY <1>2, <2>2, <3>1, CopyNext DEF CopyStep, Calm
    <2>3. QED
      BY <1>2, <2>1, <2>2
  <1>3. (Calm => CopyInv) => CopyFound
    BY DEF CopyInv, CopyFound
  <1>4. QED
    BY <1>1, <1>2, <1>3, Invariant, PTL DEF Spec

-----------------------------------------------------------------------------
(* What a program wrote *)

\* The program writes a file in sequence, through one handle, and nothing around
\* the server has the file opened again.
Sequential == env \cap {"seek", "share", "append", "remount", "location", "state"} = {}

FileUsed(d) == d.fd # "free" /\ ~d.folder

\* No program appends.
NoAppend ==
    /\ "append" \notin req.flags
    /\ \A i \in Slots : "append" \notin descriptor_list[i].flags

\* Every handle is open and is the only one of its file, which a request to open
\* a file finds without any.
OneHandle ==
    /\ \A i \in Slots : descriptor_list[i].fd \in {"free", "live"}
    /\ \A i, j \in Slots :
          /\ FileUsed(descriptor_list[i]) /\ FileUsed(descriptor_list[j])
          /\ descriptor_list[i].path = descriptor_list[j].path
          => i = j
    /\ req.at \in {"create", "open"} =>
          \A i \in Slots : FileUsed(descriptor_list[i]) => descriptor_list[i].path # req.place[2]

\* A file that was put aside is opened to be truncated.
OpenTruncates ==
    req.at = "create" \/ (req.at = "open" /\ req.trunc) => "trunc" \in req.flags

\* The contents c of a file that was truncated are what was written through d, in
\* sequence from the first write.
InSequence(d, c) ==
    IF d.first_write
    THEN /\ d.first_write_offset <= d.pos
         /\ \A p \in Pos :
               /\ p < d.first_write_offset => c[p] # "new"
               /\ d.first_write_offset <= p /\ p < d.pos => c[p] = "new"
               /\ d.pos <= p => c[p] = "eof"
    ELSE c = EmptyFile /\ d.first_write_offset = 0

WrittenAt(i) ==
    LET d == descriptor_list[i]
    IN  /\ FileUsed(d) /\ d.trunc /\ backup[d.at] # Absent
        /\ ~(req.at = "fixcopy" /\ req.slot = i)
        => InSequence(d, files[d.at])
Written == \A i \in Slots : WrittenAt(i)

\* The contents c of a file into which its old contents b are copied back, as far
\* as the handle of d.
CopiedBack(d, c, b) ==
    /\ d.pos <= d.first_write_offset
    /\ \A p \in Pos :
         /\ p < d.pos => c[p] # "eof" /\ (c[p] = "zero" => b[p] # "old")
         /\ d.pos <= p /\ p < d.first_write_offset => c[p] # "new"
         /\ d.first_write_offset <= p => c[p] # "zero"

Copied == req.at = "fixcopy" => CopiedBack(Descr, files[Descr.at], backup[Descr.at])

SequenceInv == OneHandle /\ OpenTruncates /\ Written /\ Copied

\* What is known of a descriptor of a file.
LEMMA FileInUse ==
    ASSUME Inv, Sequential, NoAppend, SequenceInv,
           NEW i \in Slots, FileUsed(descriptor_list[i])
    PROVE  LET d == descriptor_list[i]
           IN  /\ i \in held /\ d \in Descriptor
               /\ d.fd = "live" /\ d.path \in File /\ "append" \notin d.flags
               /\ d.at = PlaceOf(d.path) /\ d.at \in FilePlace /\ d.at[2] = d.path
               /\ files[d.at] \in Content
               /\ d.trunc /\ backup[d.at] # Absent /\ ~(req.at = "fixcopy" /\ req.slot = i) =>
                      d.pos = d.offset
               /\ \A j \in Slots :
                      j # i /\ FileUsed(descriptor_list[j]) => descriptor_list[j].at # d.at
  <1> USE DEF Inv, SequenceInv
  <1>1. \A j \in Slots : FileUsed(descriptor_list[j]) =>
            /\ descriptor_list[j].fd = "live" /\ ~descriptor_list[j].folder
            /\ descriptor_list[j].path \in File
            /\ descriptor_list[j].at = <<location, descriptor_list[j].path>>
            /\ descriptor_list[j].at \in FilePlace
            /\ files[descriptor_list[j].at] # Absent
    BY DEF Sequential, OneHandle, FileUsed, Shapes, Shape, OpenExists, PlaceOf
  <1>2. /\ i \in held /\ descriptor_list[i] \in Descriptor
        /\ files \in [FilePlace -> Content \cup {Absent}]
    BY DEF SlotsHeld, TypeOK, FileUsed, FilePlace
  <1>3. descriptor_list[i].trunc /\ backup[descriptor_list[i].at] # Absent
        /\ ~(req.at = "fixcopy" /\ req.slot = i) =>
            descriptor_list[i].pos = descriptor_list[i].offset
    BY <1>1 DEF Sequential, NoAppend, OffsetTracks, PlaceOf
  <1>4. \A j \in Slots : j # i /\ FileUsed(descriptor_list[j]) =>
                             descriptor_list[j].at # descriptor_list[i].at
    BY <1>1 DEF OneHandle
  <1>5. QED
    BY <1>1, <1>2, <1>3, <1>4 DEF PlaceOf, NoAppend

\* A step that opens no file: each descriptor is free, of a directory, or of the
\* same file as before.
LEMMA SequenceKept ==
    ASSUME SequenceInv,
           \A i \in Slots :
               LET d == descriptor_list'[i]
               IN  \/ d.fd = "free"
                   \/ d.fd = "live" /\ d.folder
                   \/ /\ d.fd = "live" /\ FileUsed(descriptor_list[i])
                      /\ d.path = descriptor_list[i].path
                      /\ WrittenAt(i)',
           req'.at \in {"create", "open"} =>
               \A i \in Slots :
                   FileUsed(descriptor_list'[i]) => descriptor_list'[i].path # req'.place[2],
           OpenTruncates', Copied'
    PROVE  SequenceInv'
  <1>1. OneHandle'
    BY DEF SequenceInv, OneHandle, FileUsed
  <1>2. Written'
    BY DEF Written, WrittenAt, FileUsed
  <1>3. QED
    BY <1>1, <1>2 DEF SequenceInv

\* One that leaves alone the descriptor, its file, and whether the file is put aside.
LEMMA WrittenKept ==
    ASSUME SequenceInv, NEW i \in Slots,
           UNCHANGED descriptor_list[i],
           LET x == descriptor_list[i].at
           IN  UNCHANGED files[x] /\ (backup[x] = Absent => backup'[x] = Absent),
           ~(req.at = "fixcopy" /\ req.slot = i)
    PROVE  WrittenAt(i)'
  BY DEF SequenceInv, Written, WrittenAt

\* The table without a file.
LEMMA SequenceEmpty ==
    ASSUME descriptor_list' = FreeTable, req'.at = "idle"
    PROVE  SequenceInv'
  <1>1. \A i \in Slots : descriptor_list'[i].fd = "free"
    BY DEF FreeTable, FreeDescriptor
  <1>2. QED
    BY <1>1 DEF SequenceInv, OneHandle, OpenTruncates, Written, WrittenAt, Copied, FileUsed

\* The assumptions of the lemmas below.
SequenceStep == Inv /\ Sequential /\ NoAppend /\ SequenceInv /\ UNCHANGED env

\* A step on a card and a table that it leaves alone.
LEMMA SequenceIdle ==
    ASSUME SequenceStep, UNCHANGED <<files, backup, descriptor_list>>,
           req.at # "fixcopy", req'.at \notin {"create", "open", "fixcopy"}
    PROVE  SequenceInv'
  <1> USE DEF SequenceStep
  <1>1. \A i \in Slots : WrittenAt(i)'
    BY WrittenKept
  <1>2. OpenTruncates' /\ Copied'
    BY DEF OpenTruncates, Copied
  <1>3. \A i \in Slots : \/ descriptor_list[i].fd = "free"
                         \/ descriptor_list[i].fd = "live" /\ descriptor_list[i].folder
                         \/ descriptor_list[i].fd = "live" /\ FileUsed(descriptor_list[i])
    BY DEF SequenceInv, OneHandle, FileUsed
  <1>4. QED
    BY <1>1, <1>2, <1>3, SequenceKept

\* A step on the files that no descriptor is of.
LEMMA SequenceElsewhere ==
    ASSUME SequenceStep, UNCHANGED descriptor_list, req.at # "fixcopy", req'.at # "fixcopy",
           \A i \in Slots :
               LET x == descriptor_list[i].at
               IN  FileUsed(descriptor_list[i]) => UNCHANGED <<files[x], backup[x]>>,
           req'.at \in {"create", "open"} =>
               \A i \in Slots :
                   FileUsed(descriptor_list[i]) => descriptor_list[i].path # req'.place[2],
           OpenTruncates'
    PROVE  SequenceInv'
  <1> USE DEF SequenceStep
  <1>1. \A i \in Slots : FileUsed(descriptor_list[i]) => WrittenAt(i)'
    BY WrittenKept
  <1>2. Copied'
    BY DEF Copied
  <1>3. \A i \in Slots : \/ descriptor_list[i].fd = "free"
                         \/ descriptor_list[i].fd = "live" /\ descriptor_list[i].folder
                         \/ descriptor_list[i].fd = "live" /\ FileUsed(descriptor_list[i])
    BY DEF SequenceInv, OneHandle, FileUsed
  <1>4. QED
    BY <1>1, <1>2, <1>3, SequenceKept

\* A step on one descriptor and its file.
LEMMA SequenceOne ==
    ASSUME SequenceStep, UNCHANGED backup, NEW i \in Slots, NEW e,
           descriptor_list' = [descriptor_list EXCEPT ![i] = e],
           \/ e.fd = "free"
           \/ e.fd = "live" /\ e.folder
           \/ /\ e.fd = "live" /\ FileUsed(descriptor_list[i])
              /\ e.path = descriptor_list[i].path
              /\ WrittenAt(i)',
           \A x \in FilePlace :
               ~(FileUsed(descriptor_list[i]) /\ x = descriptor_list[i].at) =>
                   files'[x] = files[x],
           req.at # "fixcopy" \/ req.slot = i,
           req'.at \notin {"create", "open"},
           Copied'
    PROVE  SequenceInv'
  <1> USE DEF SequenceStep
  <1>1. /\ descriptor_list'[i] = e
        /\ \A j \in Slots : j # i => descriptor_list'[j] = descriptor_list[j]
    BY DEF Inv, TypeOK
  <1>2. ASSUME NEW j \in Slots, j # i, FileUsed(descriptor_list[j])
        PROVE  WrittenAt(j)' /\ descriptor_list[j].fd = "live"
    <2>1. /\ descriptor_list[j].at \in FilePlace /\ descriptor_list[j].fd = "live"
          /\ FileUsed(descriptor_list[i]) => descriptor_list[i].at # descriptor_list[j].at
      BY <1>2, FileInUse
    <2>2. QED
      BY <1>1, <1>2, <2>1, WrittenKept
  <1>3. OpenTruncates'
    BY DEF OpenTruncates
  <1>4. \A j \in Slots : j # i => \/ descriptor_list[j].fd = "free"
                                  \/ descriptor_list[j].fd = "live" /\ descriptor_list[j].folder
                                  \/ FileUsed(descriptor_list[j])
    BY DEF SequenceInv, OneHandle, FileUsed
  <1>5. QED
    BY <1>1, <1>2, <1>3, <1>4, SequenceKept

LEMMA OpenSequence ==
    ASSUME SequenceStep, NEW f \in UsedFiles, NEW flags \in UsedFlags, Open(f, flags)
    PROVE  SequenceInv'
  <1> DEFINE x == PlaceOf(f)
             here == [Idle EXCEPT !.place = x, !.flags = flags]
  <1> USE DEF SequenceStep
  <1>1. /\ req.at = "idle" /\ UNCHANGED descriptor_list
        /\ \/ /\ "trunc" \in flags
              /\ backup' = [backup EXCEPT ![x] = files[x]]
              /\ files' = [files EXCEPT ![x] = Absent]
              /\ req' = [here EXCEPT !.at = "create"]
           \/ UNCHANGED <<files, backup>> /\ req' = [here EXCEPT !.at = "open"]
    BY DEF Open, table
  <1>2. \A i \in held : descriptor_list[i].path # f
    BY DEF Open, Sequential
  <1>3. /\ x \in FilePlace /\ x[2] = f
        /\ files \in [FilePlace -> Content \cup {Absent}]
        /\ backup \in [FilePlace -> Content \cup {Absent}]
    BY UsedTypes, PlaceTypes DEF Inv, TypeOK, FilePlace, PlaceOf
  <1>4. /\ req'.at \in {"create", "open"} /\ req'.place = x
        /\ req'.at = "create" => "trunc" \in req'.flags
        /\ req'.at = "open" => ~req'.trunc
    <2>1. CASE req' = [here EXCEPT !.at = "create"] /\ "trunc" \in flags
      BY <2>1 DEF Idle
    <2>2. CASE req' = [here EXCEPT !.at = "open"]
      BY <2>2 DEF Idle
    <2> HIDE DEF here
    <2>3. QED
      BY <1>1, <2>1, <2>2
  <1>5. \A i \in Slots : FileUsed(descriptor_list[i]) =>
            descriptor_list[i].path # f /\ descriptor_list[i].at # x
    <2> SUFFICES ASSUME NEW i \in Slots, FileUsed(descriptor_list[i])
                 PROVE  descriptor_list[i].path # f /\ descriptor_list[i].at # x
      OBVIOUS
    <2>1. i \in held /\ descriptor_list[i].at[2] = descriptor_list[i].path
      BY FileInUse
    <2>2. QED
      BY <1>2, <1>3, <2>1
  <1> HIDE DEF here, x
  <1>6. \A y \in FilePlace : y # x => UNCHANGED <<files[y], backup[y]>>
    BY <1>1, <1>3
  <1>7. \A i \in Slots : FileUsed(descriptor_list[i]) => descriptor_list[i].at \in FilePlace
    BY FileInUse
  <1>8. OpenTruncates'
    BY <1>4 DEF OpenTruncates
  <1>9. QED
    BY <1>1, <1>3, <1>4, <1>5, <1>6, <1>7, <1>8, SequenceElsewhere

LEMMA OpenCreateSequence == ASSUME SequenceStep, OpenCreate PROVE SequenceInv'
  <1> USE DEF SequenceStep
  <1>1. /\ req.at = "create" /\ req \in Request /\ req.place \in FilePlace
        /\ files \in [FilePlace -> Content \cup {Absent}]
        /\ UNCHANGED <<backup, descriptor_list>>
        /\ files' = files \/ files' = [files EXCEPT ![req.place] = EmptyFile]
        /\ \/ req' = [req EXCEPT !.at = "open", !.trunc = TRUE]
           \/ req' = [req EXCEPT !.at = "open"]
    BY DEF OpenCreate, table, Inv, TypeOK, FilePlace, RequestPlace
  <1>2. req'.at = "open" /\ req'.place = req.place /\ req'.flags = req.flags
    <2>1. CASE req' = [req EXCEPT !.at = "open", !.trunc = TRUE]
      BY <1>1, <2>1 DEF Request
    <2>2. CASE req' = [req EXCEPT !.at = "open"]
      BY <1>1, <2>2 DEF Request
    <2>3. QED
      BY <1>1, <2>1, <2>2
  <1>3. OpenTruncates'
    BY <1>1, <1>2 DEF SequenceInv, OpenTruncates
  <1>4. \A i \in Slots : FileUsed(descriptor_list[i]) =>
            /\ descriptor_list[i].path # req.place[2]
            /\ descriptor_list[i].at \in FilePlace
            /\ descriptor_list[i].at[2] = descriptor_list[i].path
    BY <1>1, FileInUse DEF SequenceInv, OneHandle
  <1>5. \A x \in FilePlace : x # req.place => files'[x] = files[x]
    BY <1>1
  <1>6. QED
    BY <1>1, <1>2, <1>3, <1>4, <1>5, SequenceElsewhere

\* A descriptor of a file that has just been opened is the only one of it, and what
\* was put aside is not in the file any more.
LEMMA OpenFileSequence == ASSUME SequenceStep, OpenFile PROVE SequenceInv'
  <1> DEFINE x == req.place
  <1> USE DEF SequenceStep
  <1>1. /\ req.at = "open" /\ req' = Idle /\ req'.at = "idle" /\ UNCHANGED backup
        /\ x \in FilePlace
        /\ files \in [FilePlace -> Content \cup {Absent}]
    BY DEF OpenFile, Idle, Inv, TypeOK, RequestPlace, FilePlace
  <1>2. CASE UNCHANGED <<files, descriptor_list>>
    BY <1>1, <1>2, SequenceIdle
  <1>3. CASE /\ files' = [files EXCEPT ![x] = Opened(@, req.flags)]
             /\ AddDescriptor(x, req.flags, req.trunc, FALSE)
    <2>1. \A i \in Slots : FileUsed(descriptor_list[i]) =>
              /\ descriptor_list[i].path # x[2]
              /\ descriptor_list[i].at # x /\ descriptor_list[i].at \in FilePlace
              /\ files'[descriptor_list[i].at] = files[descriptor_list[i].at]
      BY <1>1, <1>3, FileInUse DEF SequenceInv, OneHandle
    <2>2. CASE Free = {}
      <3>1. UNCHANGED descriptor_list
        BY <1>3, <2>2 DEF AddDescriptor
      <3>2. OpenTruncates'
        BY <1>1 DEF OpenTruncates
      <3>3. QED
        BY <1>1, <2>1, <3>1, <3>2, SequenceElsewhere
    <2>3. CASE Free # {}
      <3>1. PICK i \in Free : i = CHOOSE j \in Free : \A k \in Free : j <= k
        BY <2>3, FreeSlot
      <3> DEFINE e == [FreeDescriptor EXCEPT
                          !.fd = "live", !.at = x, !.path = x[2], !.flags = req.flags,
                          !.trunc = req.trunc, !.folder = FALSE, !.extra = -1]
      <3>2. i \in Slots /\ descriptor_list' = [descriptor_list EXCEPT ![i] = e]
        BY <1>3, <2>3, <3>1 DEF AddDescriptor, Free
      <3>3. /\ e.fd = "live" /\ e.at = x /\ e.path = x[2] /\ ~e.folder /\ e.trunc = req.trunc
            /\ ~e.first_write /\ e.first_write_offset = 0
        BY DEF FreeDescriptor
      <3> HIDE DEF e
      <3>4. /\ descriptor_list'[i] = e
            /\ \A j \in Slots : j # i => descriptor_list'[j] = descriptor_list[j]
        BY <3>2 DEF Inv, TypeOK
      <3>5. OneHandle'
        BY <1>1, <2>1, <3>3, <3>4 DEF SequenceInv, OneHandle, FileUsed
      <3>6. ASSUME NEW j \in Slots PROVE WrittenAt(j)'
        <4>1. CASE j = i
          <5>1. req.trunc => files'[x] = EmptyFile
            BY <1>1, <1>3 DEF SequenceInv, OpenTruncates, Opened
          <5>2. QED
            BY <3>3, <3>4, <4>1, <5>1 DEF WrittenAt, InSequence
        <4>2. CASE j # i /\ FileUsed(descriptor_list[j])
          BY <1>1, <2>1, <3>4, <4>2, WrittenKept
        <4>3. CASE j # i /\ ~FileUsed(descriptor_list[j])
          BY <3>4, <4>3 DEF WrittenAt
        <4>4. QED
          BY <4>1, <4>2, <4>3
      <3>7. QED
        BY <1>1, <3>5, <3>6 DEF SequenceInv, OpenTruncates, Copied, Written
    <2>4. QED
      BY <2>2, <2>3
  <1>4. QED
    BY <1>2, <1>3 DEF OpenFile, table

\* A read gets nothing: what was written ends where the handle is.
LEMMA ReadSequence == ASSUME SequenceStep, NEW i \in held, Read(i) PROVE SequenceInv'
  <1> DEFINE d == descriptor_list[i]
  <1> USE DEF SequenceStep
  <1>1. /\ req.at = "idle" /\ UNCHANGED <<backup, req>> /\ i \in Slots /\ FileUsed(d)
    BY DEF Read, Inv, TypeOK, SlotsHeld, FileUsed
  <1>2. d.fd = "live" /\ d \in Descriptor /\ d.at \in FilePlace /\ files[d.at] \in Content
    BY <1>1, FileInUse
  <1>3. /\ UNCHANGED files
        /\ \/ descriptor_list' = [descriptor_list EXCEPT ![i] = d]
           \/ /\ d.pos < MaxPos /\ files[d.at][d.pos] # "eof"
              /\ descriptor_list' = [descriptor_list EXCEPT ![i] = Advance(d)]
    BY <1>2 DEF Read, OnHandle
  <1>4. Copied'
    BY <1>1 DEF Copied
  <1>5. CASE descriptor_list' = [descriptor_list EXCEPT ![i] = d]
    <2>1. descriptor_list' = descriptor_list
      BY <1>5 DEF Inv, TypeOK
    <2>2. QED
      BY <1>1, <1>3, <2>1, SequenceIdle
  <1>6. CASE /\ d.pos < MaxPos /\ files[d.at][d.pos] # "eof"
             /\ descriptor_list' = [descriptor_list EXCEPT ![i] = Advance(d)]
    <2>1. d.pos \in Pos
      BY <1>2, <1>6 DEF Pos, Descriptor
    <2>2. ~(d.trunc /\ backup[d.at] # Absent)
      <3>1. SUFFICES ASSUME InSequence(d, files[d.at]) PROVE FALSE
        BY <1>1 DEF SequenceInv, Written, WrittenAt
      <3>2. QED
        BY <1>2, <1>6, <2>1, <3>1 DEF InSequence, EmptyFile, Descriptor
    <2>3. /\ Advance(d).fd = "live" /\ Advance(d).path = d.path /\ Advance(d).trunc = d.trunc
          /\ Advance(d).at = d.at
      BY <1>2, AdvanceTypes
    <2>4. descriptor_list'[i] = Advance(d)
      BY <1>1, <1>6 DEF Inv, TypeOK
    <2>5. WrittenAt(i)'
      BY <1>1, <2>2, <2>3, <2>4 DEF WrittenAt
    <2>6. QED
      BY <1>1, <1>3, <1>4, <1>6, <2>3, <2>5, SequenceOne
  <1>7. QED
    BY <1>3, <1>5, <1>6

\* A write puts its block right after what was written, or leaves a gap before it.
LEMMA WriteSequence == ASSUME SequenceStep, NEW i \in held, Write(i) PROVE SequenceInv'
  <1> DEFINE c == descriptor_list[i]
             d == FirstWrite(c)
             fs == [files EXCEPT ![c.at] = Put(@, c.pos, "new")]
  <1> USE DEF SequenceStep
  <1>1. /\ req.at = "idle" /\ UNCHANGED <<backup, req>> /\ i \in Slots /\ FileUsed(c)
        /\ c.offset < UsedLength
    BY DEF Write, Inv, TypeOK, SlotsHeld, FileUsed
  <1>2. /\ c.fd = "live" /\ c \in Descriptor /\ c.at \in FilePlace /\ files[c.at] \in Content
        /\ c.trunc /\ backup[c.at] # Absent => c.pos = c.offset
        /\ "append" \notin c.flags
    BY <1>1, FileInUse
  <1>3. /\ d \in Descriptor /\ d.fd = "live" /\ d.at = c.at /\ d.pos = c.pos
        /\ d.path = c.path /\ d.folder = c.folder /\ d.trunc = c.trunc
        /\ "append" \notin d.flags
    <2>1. c.offset \in Offset
      BY <1>1, <1>2, UsedTypes DEF Descriptor
    <2>2. QED
      BY <1>2, <2>1, FirstWriteTypes DEF SameHandle
  <1>4. /\ d.first_write
        /\ d.first_write_offset = IF c.first_write THEN c.first_write_offset ELSE c.offset
    BY <1>2 DEF FirstWrite, Descriptor
  <1>5. \/ /\ descriptor_list' = [descriptor_list EXCEPT ![i] = d]
           /\ UNCHANGED files
        \/ /\ descriptor_list' = [descriptor_list EXCEPT ![i] = Advance(d)]
           /\ files' = fs
    <2>1. \/ /\ descriptor_list' = [descriptor_list EXCEPT ![i] = d]
             /\ UNCHANGED files
          \/ /\ descriptor_list' = [descriptor_list EXCEPT ![i] = AfterWrite(d, files[d.at])]
             /\ files' = [files EXCEPT ![d.at] = Put(@, WriteAt(d, @), "new")]
      BY <1>3 DEF Write, OnHandle
    <2> HIDE DEF d
    <2>2. PICK was : was = files[d.at]
      OBVIOUS
    <2>3. WriteAt(d, was) = c.pos /\ AfterWrite(d, was) = Advance(d)
      BY <1>3, WrittenTypes
    <2>4. QED
      BY <1>3, <2>1, <2>2, <2>3
  <1> HIDE DEF d
  <1>6. /\ Advance(d).fd = "live" /\ Advance(d).path = c.path /\ Advance(d).trunc = c.trunc
        /\ Advance(d).at = c.at /\ Advance(d).pos = c.pos + 1
        /\ Advance(d).first_write = d.first_write
        /\ Advance(d).first_write_offset = d.first_write_offset
    BY <1>3, AdvanceTypes DEF Advance, Descriptor
  <1>7. ASSUME c.trunc, backup[c.at] # Absent
        PROVE  InSequence(d, files[c.at]) /\ InSequence(Advance(d), fs[c.at])
    <2>1. InSequence(c, files[c.at]) /\ c.pos = c.offset
      BY <1>1, <1>2, <1>7 DEF SequenceInv, Written, WrittenAt
    <2>2. c.pos \in Nat /\ d.first_write_offset \in Nat
      BY <1>2, <1>3 DEF Descriptor, Offset
    <2>3. InSequence(d, files[c.at])
      BY <1>2, <1>3, <1>4, <2>1, <2>2 DEF InSequence, EmptyFile, Pos
    <2>4. fs[c.at] = Put(files[c.at], c.pos, "new")
      BY <1>2 DEF Inv, TypeOK, FilePlace
    <2> HIDE DEF fs
    <2>5. InSequence(Advance(d), fs[c.at])
      BY <1>3, <1>4, <1>6, <2>2, <2>3, <2>4 DEF InSequence, Put, Pos
    <2>6. QED
      BY <2>3, <2>5
  <1>8. \A x \in FilePlace : x # c.at => fs[x] = files[x]
    BY DEF Inv, TypeOK, FilePlace
  <1>9. Copied'
    BY <1>1 DEF Copied
  <1> HIDE DEF fs
  <1>10. CASE descriptor_list' = [descriptor_list EXCEPT ![i] = d] /\ UNCHANGED files
    <2>1. descriptor_list'[i] = d
      BY <1>1, <1>10 DEF Inv, TypeOK
    <2>2. WrittenAt(i)'
      BY <1>1, <1>3, <1>7, <1>10, <2>1 DEF WrittenAt
    <2>3. QED
      BY <1>1, <1>3, <1>9, <1>10, <2>2, SequenceOne
  <1>11. CASE descriptor_list' = [descriptor_list EXCEPT ![i] = Advance(d)] /\ files' = fs
    <2>1. descriptor_list'[i] = Advance(d)
      BY <1>1, <1>11 DEF Inv, TypeOK
    <2>2. WrittenAt(i)'
      BY <1>1, <1>6, <1>7, <1>11, <2>1 DEF WrittenAt
    <2>3. QED
      BY <1>1, <1>6, <1>8, <1>9, <1>11, <2>2, SequenceOne
  <1>12. QED
    BY <1>5, <1>10, <1>11

\* A program seeks before its first write only.
LEMMA LseekSequence ==
    ASSUME SequenceStep, NEW i \in held, NEW offset \in 0 .. UsedLength, Lseek(i, offset)
    PROVE  SequenceInv'
  <1> DEFINE d == descriptor_list[i]
             e == [d EXCEPT !.pos = offset, !.offset = offset]
  <1> USE DEF SequenceStep
  <1>1. /\ req.at = "idle" /\ UNCHANGED <<backup, req>> /\ i \in Slots /\ FileUsed(d)
        /\ ~d.first_write
    BY DEF Lseek, Inv, TypeOK, SlotsHeld, FileUsed, Sequential
  <1>2. d.fd = "live" /\ d \in Descriptor
    BY <1>1, FileInUse
  <1>3. /\ e.fd = "live" /\ e.path = d.path /\ e.at = d.at /\ e.trunc = d.trunc
        /\ e.folder = d.folder /\ e.first_write = d.first_write
        /\ e.first_write_offset = d.first_write_offset
    BY <1>2 DEF Descriptor
  <1>4. /\ UNCHANGED files
        /\ \/ descriptor_list' = [descriptor_list EXCEPT ![i] = d]
           \/ descriptor_list' = [descriptor_list EXCEPT ![i] = e]
    BY <1>2 DEF Lseek, OnHandle
  <1> HIDE DEF e
  <1>5. descriptor_list'[i] = d \/ descriptor_list'[i] = e
    BY <1>1, <1>4 DEF Inv, TypeOK
  <1>6. WrittenAt(i)'
    BY <1>1, <1>3, <1>4, <1>5 DEF SequenceInv, Written, WrittenAt, InSequence, FileUsed
  <1>7. Copied'
    BY <1>1 DEF Copied
  <1>8. QED
    BY <1>1, <1>2, <1>3, <1>4, <1>6, <1>7, SequenceOne

LEMMA NamesSequence ==
    ASSUME SequenceStep,
           \/ \E f \in UsedFiles : Remove(f)
           \/ \E f, g \in UsedFiles : Rename(f, g)
    PROVE  SequenceInv'
  <1> USE DEF SequenceStep
  <1>1. req.at = "idle" /\ UNCHANGED <<backup, req, descriptor_list>>
    BY DEF Remove, Rename, table
  <1>2. ASSUME NEW i \in Slots, FileUsed(descriptor_list[i])
        PROVE  UNCHANGED files[descriptor_list[i].at]
    <2> DEFINE y == descriptor_list[i].at
    <2>1. y \in FilePlace /\ Busy(y) /\ files[y] # Absent
      <3>1. y \in FilePlace /\ descriptor_list[i].fd = "live" /\ files[y] \in Content
        BY <1>2, FileInUse
      <3>2. QED
        BY <3>1 DEF Busy
    <2>2. files \in [FilePlace -> Content \cup {Absent}]
      BY DEF Inv, TypeOK, FilePlace
    <2> HIDE DEF y
    <2>3. CASE \E f \in UsedFiles : Remove(f)
      <3>1. PICK x : ~Busy(x) /\ files' = [files EXCEPT ![x] = Absent]
        BY <2>3 DEF Remove
      <3>2. x # y
        BY <2>1, <3>1
      <3>3. QED
        BY <1>1, <2>1, <2>2, <3>1, <3>2 DEF y
    <2>4. CASE \E f, g \in UsedFiles : Rename(f, g)
      <3>1. PICK x, z : /\ ~Busy(x) /\ files[z] = Absent
                        /\ files' = [files EXCEPT ![x] = Absent, ![z] = files[x]]
        BY <2>4 DEF Rename
      <3>2. x # y /\ z # y
        BY <2>1, <3>1
      <3>3. QED
        BY <1>1, <2>1, <2>2, <3>1, <3>2 DEF y
    <2>5. QED
      BY <2>3, <2>4
  <1>3. OpenTruncates'
    BY <1>1 DEF OpenTruncates
  <1>4. QED
    BY <1>1, <1>2, <1>3, SequenceElsewhere

\* A round of a directory read is the last one, or not.
\* A directory is opened, read or closed.
LEMMA FolderSequence ==
    ASSUME SequenceStep,
           \/ \E dir \in Dir : Dopen(dir)
           \/ \E i \in held : Dclose(i) \/ Ioctl(i)
           \/ \E match \in BOOLEAN : DreadExtra(match) \/ DreadEntry(match)
    PROVE  SequenceInv'
  <1> USE DEF SequenceStep
  <1>1. /\ UNCHANGED <<files, backup>> /\ req.at \in {"idle", "dread"}
        /\ req'.at \in {"idle", "dread"}
    <2>1. CASE (\E dir \in Dir : Dopen(dir)) \/ \E i \in held : Dclose(i) \/ Ioctl(i)
      BY <2>1 DEF Dopen, Dclose, Ioctl, card
    <2>2. CASE \E match \in BOOLEAN : DreadExtra(match) \/ DreadEntry(match)
      <3>1. PICK match \in BOOLEAN : DreadExtra(match) \/ DreadEntry(match)
        BY <2>2
      <3>2. req.at = "dread" /\ UNCHANGED <<files, backup>> /\ req' = DreadNext(match)
        BY <3>1 DEF DreadExtra, DreadEntry, card
      <3>3. QED
        BY <3>2, DreadNextAt
    <2>3. QED
      BY <2>1, <2>2
  <1>2. \/ UNCHANGED descriptor_list
        \/ \E i \in Slots : \E e :
               /\ descriptor_list' = [descriptor_list EXCEPT ![i] = e]
               /\ \/ e.fd = "free"
                  \/ e.fd \in {descriptor_list[i].fd, "live"} \ {"free"} /\ e.folder
    <2>1. CASE \E dir \in Dir : Dopen(dir)
      <3>1. PICK x \in Place : AddDescriptor(x, {}, FALSE, TRUE)
        BY <2>1, PlaceTypes DEF Dopen, Inv, TypeOK
      <3>2. CASE Free = {}
        BY <3>1, <3>2 DEF AddDescriptor
      <3>3. CASE Free # {}
        <4>1. PICK i \in Free : i = CHOOSE j \in Free : \A k \in Free : j <= k
          BY <3>3, FreeSlot
        <4>2. PICK e : /\ descriptor_list' = [descriptor_list EXCEPT ![i] = e]
                       /\ e = [FreeDescriptor EXCEPT
                                  !.fd = "live", !.at = x, !.path = x[2], !.flags = {},
                                  !.trunc = FALSE, !.folder = TRUE,
                                  !.extra = IF x[2] # Root THEN 0 ELSE -1]
          BY <3>1, <3>3, <4>1 DEF AddDescriptor
        <4>3. e.fd = "live" /\ e.folder
          BY <4>2 DEF FreeDescriptor
        <4>4. QED
          BY <4>1, <4>2, <4>3 DEF Free
      <3>4. QED
        BY <3>2, <3>3
    <2>2. CASE \E i \in held : Dclose(i)
      <3>1. FreeDescriptor.fd = "free"
        BY DEF FreeDescriptor
      <3>2. QED
        BY <2>2, <3>1 DEF Dclose, CloseHandle, Inv, TypeOK
    <2>3. CASE \E i \in held : Ioctl(i)
      <3>1. PICK i \in held : Ioctl(i)
        BY <2>3
      <3>2. PICK e : e = [descriptor_list[i] EXCEPT !.filter = TRUE]
        OBVIOUS
      <3>3. i \in Slots /\ e.fd = descriptor_list[i].fd /\ e.fd # "free" /\ e.folder
        BY <3>1, <3>2 DEF Ioctl, Inv, TypeOK, SlotsHeld, Descriptor
      <3>4. descriptor_list' = [descriptor_list EXCEPT ![i] = e]
        BY <3>1, <3>2 DEF Ioctl
      <3>5. QED
        BY <3>3, <3>4
    <2>4. CASE \E match \in BOOLEAN : DreadExtra(match) \/ DreadEntry(match)
      <3>1. /\ req.slot \in Slots /\ Descr \in Descriptor
            /\ Descr.fd # "free" /\ Descr.folder
        BY <2>4 DEF DreadExtra, DreadEntry, Inv, TypeOK, Request, RequestSlot, Descr
      <3>2. PICK e : /\ descriptor_list' = [descriptor_list EXCEPT ![req.slot] = e]
                     /\ \/ e = [Descr EXCEPT !.extra = IF Descr.extra = 0 THEN 1 ELSE -1]
                        \/ e = [Descr EXCEPT !.pos = @ + 1]
        BY <2>4 DEF DreadExtra, DreadEntry, Descr
      <3>3. e.fd = Descr.fd /\ e.folder = Descr.folder
        <4>1. PICK d \in Descriptor : d = Descr
          BY <3>1
        <4>2. PICK u, v : e \in {[d EXCEPT !.extra = u], [d EXCEPT !.pos = v]}
          BY <3>2, <4>1
        <4>3. \A u1 : /\ [d EXCEPT !.extra = u1].fd = d.fd /\ [d EXCEPT !.pos = u1].fd = d.fd
                      /\ [d EXCEPT !.extra = u1].folder = d.folder
                      /\ [d EXCEPT !.pos = u1].folder = d.folder
          BY DEF Descriptor
        <4>4. QED
          BY <4>1, <4>2, <4>3
      <3>4. QED
        BY <3>1, <3>2, <3>3 DEF Descr
    <2>5. QED
      BY <2>1, <2>2, <2>3, <2>4
  <1>3. Copied'
    BY <1>1 DEF Copied
  <1>4. CASE UNCHANGED descriptor_list
    BY <1>1, <1>4, SequenceIdle
  <1>5. ASSUME NEW i \in Slots, NEW e, descriptor_list' = [descriptor_list EXCEPT ![i] = e],
               \/ e.fd = "free"
               \/ e.fd \in {descriptor_list[i].fd, "live"} \ {"free"} /\ e.folder
        PROVE  SequenceInv'
    <2>1. e.fd = "free" \/ (e.fd = "live" /\ e.folder)
      BY <1>5 DEF SequenceInv, OneHandle
    <2>2. QED
      BY <1>1, <1>3, <1>5, <2>1, SequenceOne
  <1>6. QED
    BY <1>2, <1>4, <1>5

LEMMA TruncateFixOpenSequence == ASSUME SequenceStep, TruncateFixOpen PROVE SequenceInv'
  <1> DEFINE i == req.slot
             e == [Descr EXCEPT !.pos = 0]
  <1> USE DEF SequenceStep
  <1>1. /\ req.at = "fixopen" /\ req \in Request /\ i \in Slots /\ FileUsed(Descr)
        /\ Descr.trunc /\ req.place = PlaceOf(Descr.path) /\ backup[req.place] # Absent
        /\ UNCHANGED <<files, backup>>
        /\ descriptor_list' = [descriptor_list EXCEPT ![i] = e]
        /\ req' = [req EXCEPT !.at = "fixcopy"]
    BY DEF TruncateFixOpen, Inv, TypeOK, Request, RequestSlot, RequestFix, Sequential,
           FileUsed, Descr, card
  <1>2. /\ Descr.fd = "live" /\ Descr \in Descriptor /\ Descr.at = req.place
        /\ Descr.pos = Descr.offset
    BY <1>1, FileInUse DEF Descr
  <1>3. req'.at = "fixcopy" /\ req'.slot = i /\ req'.place = req.place
    BY <1>1 DEF Request
  <1>4. /\ e.fd = "live" /\ e.path = Descr.path /\ e.at = Descr.at /\ e.folder = Descr.folder
        /\ e.pos = 0 /\ e.first_write_offset = Descr.first_write_offset
    BY <1>2 DEF Descriptor
  <1>5. InSequence(Descr, files[Descr.at])
    BY <1>1, <1>2 DEF SequenceInv, Written, WrittenAt, Descr
  <1> HIDE DEF e
  <1>6. Descr' = e
    BY <1>1, <1>3 DEF Descr, Inv, TypeOK
  <1>7. CopiedBack(e, files[Descr.at], backup[Descr.at])
    <2>1. e.first_write_offset \in Nat /\ Descr.pos \in Nat
      BY <1>2, <1>4 DEF Descriptor, Offset
    <2>2. QED
      BY <1>4, <1>5, <2>1 DEF CopiedBack, InSequence, EmptyFile, Pos
  <1>8. Copied'
    BY <1>1, <1>4, <1>6, <1>7 DEF Copied
  <1>9. WrittenAt(i)'
    BY <1>3 DEF WrittenAt
  <1>10. QED
    BY <1>1, <1>3, <1>4, <1>8, <1>9, SequenceOne DEF Descr

\* The block that is copied back goes where the program has not written.
LEMMA CopyPlace ==
    ASSUME Inv, Sequential, NoAppend, SequenceInv, TruncateFixCopy
    PROVE  LET c == files[Descr.at]
               v == files'[Descr.at]
               p == Descr.pos
           IN  /\ req.slot \in Slots /\ FileUsed(Descr)
               /\ Descr.at = req.place /\ req.place \in FilePlace
               /\ p \in Pos /\ p < Descr.first_write_offset /\ c[p] # "new"
               /\ \A q \in Pos : q < p => v[q] = c[q]
               /\ v[p] # "eof" /\ v[p] \in {backup[req.place][p], "junk"}
               /\ \A q \in Pos : p < q => v[q] = c[q]
               /\ \A x \in FilePlace : x # Descr.at => files'[x] = files[x]
  <1> DEFINE block == backup[req.place][Descr.pos]
             w == IF block = "eof" THEN "junk" ELSE block
  <1>1. /\ req.at = "fixcopy" /\ req.slot \in Slots /\ FileUsed(Descr)
        /\ req.place = PlaceOf(Descr.path) /\ req.place \in FilePlace
        /\ Descr.pos < Descr.first_write_offset
        /\ files' = [files EXCEPT ![Descr.at] = Put(@, Descr.pos, w)]
    BY DEF TruncateFixCopy, Inv, TypeOK, Request, RequestPlace, RequestSlot, RequestFix,
           Sequential, FileUsed, Descr
  <1>2. Descr \in Descriptor /\ Descr.at = req.place /\ files[Descr.at] \in Content
    BY <1>1, FileInUse DEF Descr
  <1>3. Descr.pos \in Pos
    BY <1>1, <1>2 DEF Descriptor, Offset, Pos
  <1>4. CopiedBack(Descr, files[Descr.at], backup[Descr.at])
    BY <1>1 DEF SequenceInv, Copied
  <1>5. files \in [FilePlace -> Content \cup {Absent}]
    BY DEF Inv, TypeOK, FilePlace
  <1>6. w # "eof" /\ w \in {block, "junk"}
    OBVIOUS
  <1> HIDE DEF w, block
  <1>7. /\ files'[Descr.at] = Put(files[Descr.at], Descr.pos, w)
        /\ \A x \in FilePlace : x # Descr.at => files'[x] = files[x]
    BY <1>1, <1>2, <1>5
  <1>8. /\ files[Descr.at][Descr.pos] # "new"
        /\ \A q \in Pos : q < Descr.pos => files[Descr.at][q] # "eof"
    BY <1>1, <1>3, <1>4 DEF CopiedBack, Pos
  <1>9. /\ files'[Descr.at][Descr.pos] = w
        /\ \A q \in Pos : q < Descr.pos \/ Descr.pos < q =>
               files'[Descr.at][q] = files[Descr.at][q]
    BY <1>3, <1>7, <1>8 DEF Put, Pos
  <1>10. QED
    BY <1>1, <1>2, <1>3, <1>6, <1>7, <1>8, <1>9 DEF block

LEMMA TruncateFixCopySequence == ASSUME SequenceStep, TruncateFixCopy PROVE SequenceInv'
  <1> DEFINE i == req.slot
             e == [Descr EXCEPT !.pos = @ + 1]
  <1> USE DEF SequenceStep
  <1>1. /\ req.at = "fixcopy" /\ UNCHANGED <<backup, req>> /\ Descr.fd = "live"
        /\ descriptor_list' = [descriptor_list EXCEPT ![i] = e]
    BY DEF TruncateFixCopy, Descr
  <1>2. /\ i \in Slots /\ FileUsed(Descr) /\ Descr \in Descriptor
        /\ \A x \in FilePlace : x # Descr.at => files'[x] = files[x]
    BY CopyPlace, FileInUse DEF Descr
  <1>3. /\ e.fd = "live" /\ e.path = Descr.path /\ e.at = Descr.at /\ e.folder = Descr.folder
        /\ e.pos = Descr.pos + 1 /\ e.first_write_offset = Descr.first_write_offset
    BY <1>1, <1>2 DEF Descriptor
  <1> HIDE DEF e
  <1>4. Descr' = e
    BY <1>1, <1>2 DEF Descr, Inv, TypeOK
  <1>5. CopiedBack(e, files'[Descr.at], backup[Descr.at])
    <2>1. CopiedBack(Descr, files[Descr.at], backup[Descr.at])
      BY <1>1 DEF SequenceInv, Copied
    <2>2. Descr.first_write_offset \in Nat /\ Descr.pos \in Nat
      BY <1>2 DEF Descriptor, Offset
    <2> DEFINE c == files[Descr.at]
               v == files'[Descr.at]
               b == backup[Descr.at]
               p == Descr.pos
    <2>3. /\ p \in Pos /\ p < Descr.first_write_offset
          /\ \A q \in Pos : q < p => v[q] = c[q]
          /\ v[p] # "eof" /\ v[p] \in {b[p], "junk"}
          /\ \A q \in Pos : p < q => v[q] = c[q]
      BY CopyPlace
    <2> HIDE DEF c, v, b
    <2>4. QED
      BY <1>3, <2>1, <2>2, <2>3 DEF CopiedBack, Pos, c, v, b
  <1>6. Copied'
    BY <1>1, <1>3, <1>4, <1>5 DEF Copied
  <1>7. WrittenAt(i)'
    BY <1>1 DEF WrittenAt
  <1>8. QED
    BY <1>1, <1>2, <1>3, <1>6, <1>7, SequenceOne DEF Descr

\* Without the file that was put aside, nothing is asked of the new one.
LEMMA TruncateFixEndSequence ==
    ASSUME SequenceStep, TruncateFixFails \/ TruncateFixRemove PROVE SequenceInv'
  <1> USE DEF SequenceStep
  <1>1. /\ req.at \in {"fixopen", "fixcopy"} /\ req'.at \in {"idle", "close"}
        /\ UNCHANGED <<files, descriptor_list>>
        /\ backup' = [backup EXCEPT ![req.place] = Absent]
        /\ backup \in [FilePlace -> Content \cup {Absent}]
        /\ req.slot \in Slots /\ FileUsed(Descr)
        /\ req.place = PlaceOf(Descr.path) /\ req.place \in FilePlace
    BY DEF TruncateFixFails, TruncateFixRemove, Idle, table, Inv, TypeOK, Request, RequestPlace,
           RequestSlot, RequestFix, Sequential, FileUsed, FilePlace, Descr
  <1>2. ASSUME NEW i \in Slots, FileUsed(descriptor_list[i])
        PROVE  WrittenAt(i)' /\ descriptor_list[i].fd = "live"
    <2>1. /\ descriptor_list[i].at = PlaceOf(descriptor_list[i].path)
          /\ descriptor_list[i].fd = "live" /\ descriptor_list[i].at \in FilePlace
      BY <1>2, FileInUse
    <2>2. CASE i = req.slot
      BY <1>1, <2>1, <2>2 DEF WrittenAt, Descr
    <2>3. CASE i # req.slot
      BY <1>1, <2>1, <2>3, WrittenKept
    <2>4. QED
      BY <2>1, <2>2, <2>3
  <1>3. OpenTruncates' /\ Copied'
    BY <1>1 DEF OpenTruncates, Copied
  <1>4. \A i \in Slots : \/ descriptor_list[i].fd = "free"
                         \/ descriptor_list[i].fd = "live" /\ descriptor_list[i].folder
                         \/ FileUsed(descriptor_list[i])
    BY DEF SequenceInv, OneHandle, FileUsed
  <1>5. QED
    BY <1>1, <1>2, <1>3, <1>4, SequenceKept

LEMMA CloseFileSequence == ASSUME SequenceStep, CloseFile PROVE SequenceInv'
  <1> USE DEF SequenceStep
  <1>1. /\ req.at = "close" /\ req'.at = "idle" /\ UNCHANGED <<files, backup>>
        /\ req.slot \in Slots
        /\ \/ UNCHANGED descriptor_list
           \/ descriptor_list' = [descriptor_list EXCEPT ![req.slot] = FreeDescriptor]
    BY DEF CloseFile, CloseHandle, Idle, card, Inv, TypeOK, Request
  <1>2. Copied' /\ FreeDescriptor.fd = "free"
    BY <1>1 DEF Copied, FreeDescriptor
  <1>3. QED
    BY <1>1, <1>2, SequenceIdle, SequenceOne

LEMMA SequenceNext == ASSUME SequenceStep, Next PROVE SequenceInv'
  <1> USE DEF SequenceStep
  <1>1. CASE CloseAll \/ Kill
    BY <1>1, SequenceEmpty DEF CloseAll, Kill, Idle
  <1>2. CASE \E f \in UsedFiles, flags \in UsedFlags : Open(f, flags)
    BY <1>2, OpenSequence
  <1>3. CASE \/ \E i \in held, match \in BOOLEAN : Close(i) \/ Dread(i, match)
             \/ \E dir \in Dir : Mkdir(dir) \/ Rmdir(dir)
             \/ DreadEnd \/ DreadFails
    <2>1. /\ UNCHANGED <<files, backup, descriptor_list>> /\ req.at \in {"idle", "dread"}
          /\ req'.at \in {"idle", "fixopen", "close", "dread"}
      <3>1. CASE \E i \in held : Close(i)
        BY <3>1 DEF Close, Idle, card, table
      <3>2. CASE \E i \in held, match \in BOOLEAN : Dread(i, match)
        BY <3>2 DEF Dread, Idle, card, table
      <3>3. CASE \E dir \in Dir : Mkdir(dir) \/ Rmdir(dir)
        BY <3>3 DEF Mkdir, Rmdir, table
      <3>4. CASE DreadEnd
        BY <3>4 DEF DreadEnd, Idle, card, table
      <3>5. CASE DreadFails
        <4>1. PICK match \in BOOLEAN : match = req.match
          BY DEF Inv, TypeOK, Request
        <4>2. req.at = "dread" /\ req' = DreadNext(match) /\ UNCHANGED <<card, table>>
          BY <3>5, <4>1 DEF DreadFails
        <4>3. QED
          BY <4>2, DreadNextAt DEF card, table
      <3>6. QED
        BY <1>3, <3>1, <3>2, <3>3, <3>4, <3>5
    <2>2. QED
      BY <2>1, SequenceIdle
  <1>4. CASE \/ \E dir \in Dir : Dopen(dir)
             \/ \E i \in held : Dclose(i) \/ Ioctl(i)
             \/ \E match \in BOOLEAN : DreadExtra(match) \/ DreadEntry(match)
    BY <1>4, FolderSequence
  <1>5. CASE \E i \in held : Read(i) \/ Write(i)
    BY <1>5, ReadSequence, WriteSequence
  <1>6. CASE \E i \in held, offset \in 0 .. UsedLength : Lseek(i, offset)
    BY <1>6, LseekSequence
  <1>7. CASE \/ \E f \in UsedFiles : Remove(f)
             \/ \E f, g \in UsedFiles : Rename(f, g)
    BY <1>7, NamesSequence
  <1>8. CASE OpenCreate \/ OpenFile
    BY <1>8, OpenCreateSequence, OpenFileSequence
  <1>9. CASE TruncateFixOpen \/ TruncateFixCopy \/ TruncateFixFails \/ TruncateFixRemove \/ CloseFile
    BY <1>9, TruncateFixOpenSequence, TruncateFixCopySequence, TruncateFixEndSequence,
       CloseFileSequence
  <1>10. ~Remount /\ ~SaveState
         /\ ~(\E d \in Device : SetLocation(d))
         /\ ~(\E s \in saved, refused \in SUBSET Slots : SetFileDescriptors(s, refused))
    BY DEF Sequential, Remount, SaveState, SetLocation, SetFileDescriptors
  <1>11. QED
    BY <1>1, <1>2, <1>3, <1>4, <1>5, <1>6, <1>7, <1>8, <1>9, <1>10 DEF Next, RequestStep

\* A step keeps the program from appending: every descriptor keeps its flags or gets
\* those of the request.
LEMMA FlagsKept ==
    ASSUME TypeOK, NoAppend, NEW i \in Slots, NEW e, "append" \notin e.flags,
           descriptor_list' = [descriptor_list EXCEPT ![i] = e]
    PROVE  \A j \in Slots : "append" \notin descriptor_list'[j].flags
  BY DEF TypeOK, NoAppend

LEMMA NoAppendNext == ASSUME SequenceStep, Next PROVE NoAppend'
  <1> USE DEF SequenceStep
  <1>1. "append" \notin req'.flags
    <2>1. CASE \E f \in UsedFiles, flags \in UsedFlags : Open(f, flags)
      <3>1. PICK f \in UsedFiles, flags \in UsedFlags : Open(f, flags)
        BY <2>1
      <3>2. "append" \notin flags
        BY DEF UsedFlags, Sequential
      <3>3. req'.flags = flags
        BY <3>1 DEF Open, Idle
      <3>4. QED
        BY <3>2, <3>3
    <2>2. CASE req'.flags \in {{}, req.flags}
      BY <2>2 DEF NoAppend
    <2>3. CASE RequestStep
      <3>1. CASE OpenCreate \/ OpenFile \/ CloseFile
        <4>1. CASE OpenCreate
          <5>1. PICK r \in Request : r = req
            BY DEF Inv, TypeOK
          <5>2. \/ req' = [r EXCEPT !.at = "open", !.trunc = TRUE]
                \/ req' = [r EXCEPT !.at = "open"]
            BY <4>1, <5>1 DEF OpenCreate
          <5>3. /\ [r EXCEPT !.at = "open", !.trunc = TRUE].flags = r.flags
                /\ [r EXCEPT !.at = "open"].flags = r.flags
            BY DEF Request
          <5>4. QED
            BY <5>1, <5>2, <5>3 DEF NoAppend
        <4>2. CASE OpenFile \/ CloseFile
          <5>1. req' = Idle
            BY <4>2 DEF OpenFile, CloseFile
          <5>2. Idle.flags = {}
            BY DEF Idle
          <5>3. QED
            BY <5>1, <5>2
        <4>3. QED
          BY <3>1, <4>1, <4>2
      <3>2. CASE TruncateFixOpen \/ TruncateFixCopy \/ TruncateFixFails \/ TruncateFixRemove
        BY <3>2 DEF TruncateFixOpen, TruncateFixCopy, TruncateFixFails, TruncateFixRemove,
                    Idle, NoAppend, Inv, TypeOK, Request
      <3>3. \A match : DreadNext(match).flags \in {{}, req.flags}
        BY DEF DreadNext, Idle, Inv, TypeOK, Request
      <3>4. CASE \/ \E match \in BOOLEAN : DreadExtra(match) \/ DreadEntry(match)
                 \/ DreadEnd \/ DreadFails
        BY <2>2, <3>3, <3>4 DEF DreadExtra, DreadEntry, DreadEnd, DreadFails, Idle
      <3>5. QED
        BY <2>3, <3>1, <3>2, <3>4 DEF RequestStep
    <2>4. \/ \E f \in UsedFiles, flags \in UsedFlags : Open(f, flags)
          \/ req'.flags \in {{}, req.flags}
          \/ RequestStep
      <3>1. CASE \E i \in held : Close(i)
        BY <3>1 DEF Close, Idle
      <3>2. CASE \E i \in held, match \in BOOLEAN : Dread(i, match)
        BY <3>2 DEF Dread, Idle
      <3>3. CASE Kill
        BY <3>3 DEF Kill, Idle
      <3>4. CASE UNCHANGED req
        BY <3>4
      <3>5. QED
        BY <3>1, <3>2, <3>3, <3>4
        DEF Next, CloseAll, Read, Write, Dclose, Ioctl, Lseek, Remove, Rename, Mkdir, Rmdir,
            Dopen, Remount, SetLocation, SaveState, SetFileDescriptors
    <2>5. QED
      BY <2>1, <2>2, <2>3, <2>4
  <1>2. \A j \in Slots : "append" \notin descriptor_list'[j].flags
    <2>1. FreeDescriptor.flags = {}
      BY DEF FreeDescriptor
    <2>2. \A j \in Slots : descriptor_list[j] \in Descriptor
                          /\ "append" \notin descriptor_list[j].flags
      BY DEF Inv, TypeOK, NoAppend
    <2>3. CASE CloseAll \/ Kill
      BY <2>1, <2>3 DEF CloseAll, Kill, FreeTable
    <2>4. CASE UNCHANGED descriptor_list
      BY <2>2, <2>4
    <2>5. CASE \E i \in held : Read(i) \/ Write(i) \/ \E offset \in 0 .. UsedLength : Lseek(i, offset)
      <3>1. PICK i \in held :
                Read(i) \/ Write(i) \/ \E offset \in 0 .. UsedLength : Lseek(i, offset)
        BY <2>5
      <3> DEFINE d == descriptor_list[i]
      <3>2. i \in Slots /\ d \in Descriptor /\ d.fd = "live"
        <4>1. i \in Slots /\ FileUsed(d)
          BY <3>1 DEF Read, Write, Lseek, Inv, TypeOK, SlotsHeld, FileUsed
        <4>2. QED
          BY <4>1, FileInUse
      <3>3. \E e : "append" \notin e.flags /\ descriptor_list' = [descriptor_list EXCEPT ![i] = e]
        <4>1. CASE Read(i)
          <5>1. \/ descriptor_list' = [descriptor_list EXCEPT ![i] = d]
                \/ descriptor_list' = [descriptor_list EXCEPT ![i] = Advance(d)]
            BY <3>2, <4>1 DEF Read, OnHandle
          <5>2. Advance(d).flags = d.flags
            BY <3>2 DEF Advance, Descriptor
          <5>3. QED
            BY <2>2, <3>2, <5>1, <5>2
        <4>2. CASE Write(i)
          <5> DEFINE w == FirstWrite(d)
          <5>1. w \in Descriptor /\ w.flags = d.flags /\ w.fd = "live"
            <6>1. d.offset \in Offset
              BY <3>2, <4>2, UsedTypes DEF Write, Descriptor
            <6>2. w \in Descriptor /\ w.fd = d.fd
              BY <3>2, <6>1, FirstWriteTypes DEF SameHandle
            <6>3. w.flags = d.flags
              BY <3>2 DEF FirstWrite, Descriptor
            <6>4. QED
              BY <3>2, <6>2, <6>3
          <5>2. \/ descriptor_list' = [descriptor_list EXCEPT ![i] = w]
                \/ descriptor_list' = [descriptor_list EXCEPT ![i] = AfterWrite(w, files[w.at])]
            BY <4>2, <5>1 DEF Write, OnHandle
          <5> HIDE DEF w
          <5>3. PICK was : was = files[w.at]
            OBVIOUS
          <5>4. AfterWrite(w, was).flags = w.flags
            BY <5>1, WrittenTypes
          <5>5. QED
            BY <2>2, <3>2, <5>1, <5>2, <5>3, <5>4
        <4>3. CASE \E offset \in 0 .. UsedLength : Lseek(i, offset)
          <5>1. PICK offset \in 0 .. UsedLength : Lseek(i, offset)
            BY <4>3
          <5>2. \/ descriptor_list' = [descriptor_list EXCEPT ![i] = d]
                \/ descriptor_list' =
                       [descriptor_list EXCEPT ![i] = [d EXCEPT !.pos = offset, !.offset = offset]]
            BY <3>2, <5>1 DEF Lseek, OnHandle
          <5>3. [d EXCEPT !.pos = offset, !.offset = offset].flags = d.flags
            BY <3>2 DEF Descriptor
          <5>4. QED
            BY <2>2, <3>2, <5>2, <5>3
        <4>4. QED
          BY <3>1, <4>1, <4>2, <4>3
      <3>4. QED
        BY <3>2, <3>3, FlagsKept DEF Inv
    <2>6. CASE OpenFile \/ \E dir \in Dir : Dopen(dir)
      <3>1. ASSUME NEW x, NEW flags, NEW trunc, NEW folder, "append" \notin flags,
                   AddDescriptor(x, flags, trunc, folder)
            PROVE  \A j \in Slots : "append" \notin descriptor_list'[j].flags
        <4>1. CASE Free = {}
          BY <2>2, <3>1, <4>1 DEF AddDescriptor
        <4>2. CASE Free # {}
          <5>1. PICK i \in Free : \E e :
                    descriptor_list' = [descriptor_list EXCEPT ![i] = e] /\ e.flags = flags
            BY <3>1, <4>2, DescriptorAdded
          <5>2. PICK e : descriptor_list' = [descriptor_list EXCEPT ![i] = e] /\ e.flags = flags
            BY <5>1
          <5>3. QED
            BY <2>2, <3>1, <5>2 DEF Inv, TypeOK
        <4>3. QED
          BY <4>1, <4>2
      <3>2. CASE OpenFile
        <4>1. \/ AddDescriptor(req.place, req.flags, req.trunc, FALSE)
              \/ UNCHANGED descriptor_list
          BY <3>2 DEF OpenFile, table
        <4>2. QED
          BY <2>2, <3>1, <4>1 DEF NoAppend
      <3>3. CASE \E dir \in Dir : Dopen(dir)
        BY <3>1, <3>3 DEF Dopen
      <3>4. QED
        BY <2>6, <3>2, <3>3
    <2>7. CASE CloseFile \/ \E i \in held : Dclose(i)
      <3>1. PICK i \in Slots : CloseHandle(i)
        BY <2>7 DEF CloseFile, Dclose, Inv, TypeOK, Request
      <3>2. QED
        BY <2>1, <2>2, <3>1, FlagsKept DEF CloseHandle, Inv
    <2>8. CASE \/ TruncateFixOpen \/ TruncateFixCopy \/ \E i \in held : Ioctl(i)
               \/ \E match \in BOOLEAN : DreadExtra(match) \/ DreadEntry(match)
      <3>1. req.slot \in Slots
        BY DEF Inv, TypeOK, Request
      <3>2. \E i \in Slots : \E v, w, x :
                descriptor_list' \in
                    {[descriptor_list EXCEPT ![i].pos = v], [descriptor_list EXCEPT ![i].extra = w],
                     [descriptor_list EXCEPT ![i].filter = x]}
        BY <2>8, <3>1
        DEF TruncateFixOpen, TruncateFixCopy, Ioctl, DreadExtra, DreadEntry, Inv, TypeOK
      <3>3. PICK i \in Slots : \E v, w, x :
                descriptor_list' \in
                    {[descriptor_list EXCEPT ![i].pos = v], [descriptor_list EXCEPT ![i].extra = w],
                     [descriptor_list EXCEPT ![i].filter = x]}
        BY <3>2
      <3>4. PICK d \in Descriptor : d = descriptor_list[i] /\ "append" \notin d.flags
        BY <2>2
      <3> PICK v, w, x :
                descriptor_list' \in
                    {[descriptor_list EXCEPT ![i].pos = v], [descriptor_list EXCEPT ![i].extra = w],
                     [descriptor_list EXCEPT ![i].filter = x]}
        BY <3>3
      <3>5. /\ [d EXCEPT !.pos = v].flags = d.flags /\ [d EXCEPT !.extra = w].flags = d.flags
            /\ [d EXCEPT !.filter = x].flags = d.flags
        BY DEF Descriptor
      <3>6. descriptor_list' \in
                {[descriptor_list EXCEPT ![i] = [d EXCEPT !.pos = v]],
                 [descriptor_list EXCEPT ![i] = [d EXCEPT !.extra = w]],
                 [descriptor_list EXCEPT ![i] = [d EXCEPT !.filter = x]]}
        BY <3>3, <3>4
      <3>7. QED
        BY <3>4, <3>5, <3>6, FlagsKept DEF Inv
    <2>11. QED
      BY <2>3, <2>4, <2>5, <2>6, <2>7, <2>8
      DEF Next, RequestStep, Open, Close, Remove, Rename, Mkdir, Rmdir, Dread, OpenCreate,
          TruncateFixFails, TruncateFixRemove, DreadEnd, DreadFails, SetLocation, SaveState,
          Remount, SetFileDescriptors, Sequential, table, card
  <1>3. QED
    BY <1>1, <1>2 DEF NoAppend

\* A file that is truncated and then written in sequence holds what the program
\* wrote, and a gap that is filled from the file put aside (msfs.c).
THEOREM SequenceCorrect == Spec => [](Sequential => NoAppend /\ SequenceInv)
  <1>1. Init => (Sequential => NoAppend /\ SequenceInv)
    <2> SUFFICES ASSUME Init PROVE NoAppend /\ SequenceInv
      OBVIOUS
    <2>1. (\A i \in Slots : descriptor_list[i].fd = "free" /\ descriptor_list[i].flags = {})
          /\ req.at = "idle" /\ req.flags = {}
      BY DEF Init, FreeTable, FreeDescriptor, Idle
    <2>2. QED
      BY <2>1
      DEF NoAppend, SequenceInv, OneHandle, OpenTruncates, Written, WrittenAt, Copied, FileUsed
  <1>2. ASSUME Inv, Sequential => NoAppend /\ SequenceInv, [Next]_vars
        PROVE  (Sequential => NoAppend /\ SequenceInv)'
    <2>1. CASE UNCHANGED vars
      BY <1>2, <2>1
      DEF vars, card, table, Sequential, NoAppend, SequenceInv, OneHandle, OpenTruncates, Written,
          WrittenAt, Copied, Descr
    <2>2. CASE Next
      <3>1. UNCHANGED env
        BY <2>2 DEF Next
      <3>2. QED
        BY <1>2, <2>2, <3>1, NoAppendNext, SequenceNext DEF SequenceStep, Sequential
    <2>3. QED
      BY <1>2, <2>1, <2>2
  <1>3. QED
    BY <1>1, <1>2, Invariant, PTL DEF Spec

\* The environment is one of Envs.
LEMMA EnvKept == Spec => [](env \in Envs)
  <1>1. Init => env \in Envs
    BY DEF Init
  <1>2. env \in Envs /\ [Next]_vars => (env \in Envs)'
    BY DEF Next, vars
  <1>3. QED
    BY <1>1, <1>2, PTL DEF Spec

\* When a truncated file is closed, copying back replaces nothing that the program
\* wrote and leaves no position of old data as zeros (ScePspemuMsfsTruncateFix), for
\* a program that writes the file in sequence and nothing that reopens it meanwhile.
THEOREM ClosedCorrect ==
    ASSUME \A e \in Envs :
               "data" \in e =>
                   e \cap {"seek", "share", "append", "remount", "location", "state"} = {}
    PROVE  Spec => ClosedAsOnPsp
  <1>1. ASSUME Inv, Sequential => NoAppend /\ SequenceInv, env \in Envs, [Next]_vars
        PROVE  [req.at = "fixcopy" /\ "data" \in env =>
                  /\ \A x \in Device \X File, p \in Pos :
                         files[x] # Absent /\ files[x][p] = "new" => files'[x][p] = "new"
                  /\ req'.at = "close" =>
                         \A p \in Pos : files[Descr.at][p] = "zero" =>
                                            backup[req.place][p] # "old"]_vars
    <2> SUFFICES ASSUME Next, req.at = "fixcopy", "data" \in env
                 PROVE  /\ \A x \in FilePlace, p \in Pos :
                               files[x] # Absent /\ files[x][p] = "new" => files'[x][p] = "new"
                        /\ req'.at = "close" =>
                               \A p \in Pos : files[Descr.at][p] = "zero" =>
                                                  backup[req.place][p] # "old"
      BY <1>1 DEF FilePlace
    <2>1. Inv /\ Sequential /\ NoAppend /\ SequenceInv
      BY <1>1 DEF Sequential
    <2>2. CASE TruncateFixCopy
      <3>1. ASSUME NEW x \in FilePlace, NEW p \in Pos, files[x] # Absent, files[x][p] = "new"
            PROVE  files'[x][p] = "new"
        <4>1. CASE x # Descr.at
          BY <2>1, <2>2, <3>1, <4>1, CopyPlace
        <4>2. CASE x = Descr.at
          <5>1. PICK q \in Pos : q = Descr.pos /\ files[x][q] # "new"
            BY <2>1, <2>2, <4>2, CopyPlace
          <5>2. p < q \/ q < p
            BY <3>1, <5>1 DEF Pos
          <5>3. QED
            BY <2>1, <2>2, <3>1, <4>2, <5>1, <5>2, CopyPlace
        <4>3. QED
          BY <4>1, <4>2
      <3>2. req'.at = "fixcopy"
        BY <2>2 DEF TruncateFixCopy
      <3>3. QED
        BY <3>1, <3>2
    <2>3. CASE TruncateFixRemove
      <3>1. /\ Descr.pos = Descr.first_write_offset /\ UNCHANGED files
            /\ req.slot \in Slots /\ FileUsed(Descr) /\ req.place = PlaceOf(Descr.path)
        BY <2>1, <2>3
        DEF TruncateFixRemove, Inv, TypeOK, Request, RequestSlot, RequestFix, Sequential,
            FileUsed, Descr
      <3>2. Descr \in Descriptor /\ Descr.at = req.place
        BY <2>1, <3>1, FileInUse DEF Descr
      <3>3. CopiedBack(Descr, files[Descr.at], backup[Descr.at])
        BY <2>1 DEF SequenceInv, Copied
      <3>4. QED
        BY <3>1, <3>2, <3>3 DEF CopiedBack, Pos, Descriptor, Offset
    <2>4. CASE UNCHANGED files /\ req'.at # "close"
      BY <2>4
    <2>5. (UNCHANGED files /\ req'.at # "close") \/ TruncateFixCopy \/ TruncateFixRemove
      <3>1. CASE Kill
        BY <3>1 DEF Kill, Idle, card
      <3>2. CASE TruncateFixFails
        BY <3>2 DEF TruncateFixFails, Idle
      <3>3. CASE Remount \/ \E d \in Device : SetLocation(d)
        BY <3>3 DEF Remount, SetLocation, card
      <3>4. QED
        BY <3>1, <3>2, <3>3
        DEF Next, RequestStep, CloseAll, Open, Close, Read, Write, Dclose, Ioctl, Lseek, Remove,
            Rename, Mkdir, Rmdir, Dopen, Dread, OpenCreate, OpenFile, TruncateFixOpen, CloseFile,
            DreadExtra, DreadEntry, DreadEnd, DreadFails, SaveState, SetFileDescriptors
    <2>6. QED
      BY <2>2, <2>3, <2>4, <2>5
  <1>2. QED
    BY <1>1, Invariant, SequenceCorrect, EnvKept, PTL DEF Spec, ClosedAsOnPsp

=============================================================================
