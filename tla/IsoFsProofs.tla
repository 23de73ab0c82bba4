----------------------------- MODULE IsoFsProofs -----------------------------
(***************************************************************************)
(* IsoFs for sectors, tables and files of any size: the handles, that the  *)
(* three parts of a read join to one piece of the file, and that the       *)
(* search of a directory finds what is in it and nothing else.             *)
(*                                                                         *)
(* The search: after k turns that found nothing, k records of the root     *)
(* have been tested, p is behind the last of them (Behind), and the buffer *)
(* has what comes next (Covers).  One turn keeps this: NextTested says     *)
(* which record it tests, AdvanceIs that the window follows, and Stops     *)
(* that it ends where no record can come.                                  *)
(***************************************************************************)
EXTENDS IsoFs, SequenceTheorems, WellFoundedInduction, TLAPS

LEMMA Sizes ==
  /\ SECTOR_SIZE \in Nat \ {0} /\ MAX_HANDLERS \in Nat \ {0}
  /\ FileSize \in Nat /\ IntMax \in Nat
  BY IsoFsAssumption

USE Sizes

-----------------------------------------------------------------------------
(* Sectors *)

LEMMA DivIs ==
  ASSUME NEW a \in Nat
  PROVE  /\ a \div SECTOR_SIZE \in Nat /\ a % SECTOR_SIZE \in 0 .. SECTOR_SIZE - 1
         /\ a = (a \div SECTOR_SIZE) * SECTOR_SIZE + (a % SECTOR_SIZE)
  OBVIOUS

LEMMA TimesMonotone ==
  ASSUME NEW a \in Int, NEW b \in Int, a < b
  PROVE  /\ a * SECTOR_SIZE \in Int /\ b * SECTOR_SIZE \in Int
         /\ a * SECTOR_SIZE + SECTOR_SIZE <= b * SECTOR_SIZE
  <1>1. b * SECTOR_SIZE - (a * SECTOR_SIZE + SECTOR_SIZE) = (b - a - 1) * SECTOR_SIZE
    OBVIOUS
  <1>2. (b - a - 1) * SECTOR_SIZE >= 0
    OBVIOUS
  <1>3. QED
    BY <1>1, <1>2

LEMMA Multiple ==
  ASSUME NEW a \in Nat, NEW k \in Nat, a = k * SECTOR_SIZE
  PROVE  a \div SECTOR_SIZE = k /\ a % SECTOR_SIZE = 0
  <1>1. PICK q \in Nat, r \in 0 .. SECTOR_SIZE - 1 :
          q = a \div SECTOR_SIZE /\ r = a % SECTOR_SIZE /\ k * SECTOR_SIZE = q * SECTOR_SIZE + r
    BY DivIs
  <1>2. ~(q < k)
    BY <1>1, TimesMonotone
  <1>3. ~(k < q)
    BY <1>1, TimesMonotone
  <1>4. QED
    BY <1>1, <1>2, <1>3

LEMMA Distributes ==
  ASSUME NEW a \in Nat, NEW b \in Nat
  PROVE  (a + b) * SECTOR_SIZE = a * SECTOR_SIZE + b * SECTOR_SIZE /\ a * SECTOR_SIZE \in Nat
  OBVIOUS

-----------------------------------------------------------------------------
(* Bytes *)

LEMMA BytesIs ==
  ASSUME NEW b \in Nat, NEW n \in Nat
  PROVE  Bytes(b, n) \in Seq(Nat) /\ Len(Bytes(b, n)) = n
  BY DEF Bytes

\* Two pieces put together.
Join(u, v) == u \o v

LEMMA BytesJoin ==
  ASSUME NEW b \in Nat, NEW m \in Nat, NEW n \in Nat,
         NEW c \in Nat, c = b + m, NEW t \in Nat, t = m + n
  PROVE  Join(Bytes(b, m), Bytes(c, n)) = Bytes(b, t)
  <1>1. PICK u \in Seq(Nat) : u = Bytes(b, m) /\ Len(u) = m
    BY BytesIs
  <1>2. PICK v \in Seq(Nat) : v = Bytes(c, n) /\ Len(v) = n
    BY BytesIs
  <1>3. PICK w \in Seq(Nat) : w = Bytes(b, t) /\ Len(w) = t
    BY BytesIs
  <1>4. PICK x : x = u \o v
    OBVIOUS
  <1>5. /\ x \in Seq(Nat) /\ Len(x) = t
        /\ \A i \in 1 .. t : x[i] = IF i <= m THEN u[i] ELSE v[i - m]
    <2>1. /\ u \o v \in Seq(Nat) /\ Len(u \o v) = Len(u) + Len(v)
          /\ \A i \in 1 .. Len(u) + Len(v) :
               (u \o v)[i] = IF i <= Len(u) THEN u[i] ELSE v[i - Len(u)]
      BY ConcatProperties
    <2>2. QED
      BY <2>1, <1>1, <1>2, <1>4
  <1>6. ASSUME NEW i \in 1 .. t PROVE x[i] = w[i]
    <2>1. w[i] = b + i - 1
      BY <1>3 DEF Bytes
    <2>2. CASE i <= m
      BY <1>1, <1>5, <2>1, <2>2 DEF Bytes
    <2>3. CASE ~(i <= m)
      <3>1. i - m \in 1 .. n
        BY <2>3
      <3>2. v[i - m] = c + (i - m) - 1
        BY <1>2, <3>1 DEF Bytes
      <3>3. QED
        BY <1>5, <2>1, <2>3, <3>2
    <2>4. QED
      BY <2>2, <2>3
  <1>7. x = w
    BY <1>3, <1>5, <1>6, SeqEqual
  <1>8. QED
    BY <1>1, <1>2, <1>3, <1>4, <1>7 DEF Join

-----------------------------------------------------------------------------
(* The parts of a read *)

Handles == [opened : BOOLEAN, lba : Nat, filesize : 0 .. FileSize + 1,
            filepointer : Int]

\* The handles whose pointer is not before the file.
Ahead == [opened : BOOLEAN, lba : Nat, filesize : 0 .. FileSize + 1,
          filepointer : Nat]

Parts == [data : Seq(Nat), ends : BOOLEAN, res : Int]

\* What is delivered is one piece of the file, from the pointer on.
Piece(h, remaining, p) ==
  /\ p \in Parts
  /\ Len(p.data) \in 0 .. remaining
  /\ p.data = Bytes(h.lba * SECTOR_SIZE + h.filepointer, Len(p.data))

\* A part that does not end the read leaves the rest to begin with a sector.
Aligned(h, remaining, p) ==
  ~p.ends => /\ \E k \in Nat : h.filepointer + Len(p.data) = k * SECTOR_SIZE
             /\ Len(p.data) < remaining
             /\ p.res = Len(p.data)

\* A part that ends the read has delivered all of it.
Ended(remaining, p) == p.ends => Len(p.data) = remaining /\ p.res = remaining

LEMMA NoBytes ==
  ASSUME NEW b \in Nat PROVE Bytes(b, 0) = <<>> /\ Len(<<>>) = 0 /\ <<>> \in Seq(Nat)
  <1>1. Bytes(b, 0) \in Seq(Nat) /\ Len(Bytes(b, 0)) = 0
    BY BytesIs
  <1>2. QED
    BY <1>1, EmptySeq

LEMMA FirstIs ==
  ASSUME NEW h \in Ahead, NEW remaining \in Nat \ {0}, NEW first \in -1 .. 1
  PROVE  /\ Piece(h, remaining, FirstPart(h, remaining, first))
         /\ Aligned(h, remaining, FirstPart(h, remaining, first))
         /\ first = 1 => Ended(remaining, FirstPart(h, remaining, first))
  <1>1. PICK lba \in Nat, fp \in Nat : lba = h.lba /\ fp = h.filepointer
    BY DEF Ahead
  <1>2. PICK q \in Nat, at \in 0 .. SECTOR_SIZE - 1 :
          q = fp \div SECTOR_SIZE /\ at = fp % SECTOR_SIZE /\ fp = q * SECTOR_SIZE + at
    BY DivIs
  <1>0. At(h.filepointer) = at
    BY <1>1, <1>2 DEF At
  <1>3. lba * SECTOR_SIZE \in Nat /\ q * SECTOR_SIZE \in Nat
    BY <1>2, Distributes
  <1>4. PICK b \in Nat : b = lba * SECTOR_SIZE + fp
    BY <1>3
  <1>5. PICK p : p = FirstPart(h, remaining, first)
    OBVIOUS
  <1>6. CASE at = 0
    <2>1. p = [data |-> <<>>, ends |-> FALSE, res |-> 0]
      BY <1>0, <1>5, <1>6 DEF FirstPart
    <2>2. Piece(h, remaining, p)
      BY <1>1, <1>4, <2>1, NoBytes DEF Piece, Parts
    <2>3. fp + 0 = q * SECTOR_SIZE
      BY <1>2, <1>3, <1>6
    <2>4. Aligned(h, remaining, p)
      <3>1. Len(p.data) = 0 /\ p.res = 0 /\ h.filepointer + Len(p.data) = q * SECTOR_SIZE
        BY <1>1, <2>1, <2>3, NoBytes
      <3>2. \E k \in Nat : h.filepointer + Len(p.data) = k * SECTOR_SIZE
        BY <3>1
      <3>3. Len(p.data) < remaining /\ p.res = Len(p.data)
        <4>1. Len(p.data) = 0 /\ p.res = 0
          BY <3>1
        <4>2. QED
          BY <4>1
      <3>4. QED
        BY <3>2, <3>3 DEF Aligned
    <2>5. QED
      BY <1>5, <2>1, <2>2, <2>4 DEF Ended
  <1>7. CASE at # 0 /\ first # 1
    <2>1. p = [data |-> <<>>, ends |-> TRUE, res |-> first]
      BY <1>0, <1>5, <1>7 DEF FirstPart
    <2>2. Piece(h, remaining, p)
      BY <1>1, <1>4, <2>1, NoBytes DEF Piece, Parts
    <2>3. QED
      BY <1>5, <1>7, <2>1, <2>2 DEF Aligned
  <1>8. CASE at # 0 /\ first = 1
    <2>1. PICK read \in 1 .. remaining : /\ read = Least(SECTOR_SIZE - at, remaining)
                                         /\ read # remaining => read = SECTOR_SIZE - at
      BY <1>8 DEF Least
    <2>2. p = [data |-> Bytes(b, read), ends |-> read = remaining, res |-> read]
      <3>1. p = [data |-> [i \in 1 .. read |-> IF at + i <= 0 THEN Unknown ELSE b + i - 1],
                 ends |-> read = remaining, res |-> read]
        BY <1>0, <1>1, <1>4, <1>5, <1>8, <2>1 DEF FirstPart
      <3>2. \A i \in 1 .. read : ~(at + i <= 0)
        OBVIOUS
      <3>3. [i \in 1 .. read |-> IF at + i <= 0 THEN Unknown ELSE b + i - 1] = Bytes(b, read)
        BY <3>2 DEF Bytes
      <3>4. QED
        BY <3>1, <3>3
    <2>3. PICK d \in Seq(Nat) : d = Bytes(b, read) /\ Len(d) = read
      BY BytesIs
    <2>4. p.data = d /\ p.ends = (read = remaining) /\ p.res = read /\ p \in Parts
      BY <2>2, <2>3 DEF Parts
    <2>5. Piece(h, remaining, p)
      BY <1>1, <1>4, <2>3, <2>4 DEF Piece
    <2>6. Aligned(h, remaining, p)
      <3>1. CASE read = remaining
        BY <2>4, <3>1 DEF Aligned
      <3>2. CASE read # remaining
        <4>1. PICK k \in Nat : k = q + 1
          OBVIOUS
        <4>2. PICK qs \in Nat, ks \in Nat :
                /\ qs = q * SECTOR_SIZE /\ ks = k * SECTOR_SIZE
                /\ ks = qs + SECTOR_SIZE /\ fp = qs + at
          <5>1. k * SECTOR_SIZE = q * SECTOR_SIZE + SECTOR_SIZE
            BY <4>1, Distributes
          <5>2. q * SECTOR_SIZE \in Nat /\ k * SECTOR_SIZE \in Nat
            BY Distributes
          <5>3. QED
            BY <1>2, <5>1, <5>2
        <4>3. h.filepointer + Len(p.data) = k * SECTOR_SIZE
          <5>1. h.filepointer = fp /\ Len(p.data) = read /\ read = SECTOR_SIZE - at
            BY <1>1, <2>1, <2>3, <2>4, <3>2
          <5>2. fp = qs + at /\ ks = qs + SECTOR_SIZE
            BY <4>2
          <5>3. fp + read = ks
            BY <5>1, <5>2
          <5>4. QED
            BY <4>2, <5>1, <5>3
        <4>4. Len(p.data) < remaining /\ p.res = Len(p.data)
          BY <2>1, <2>3, <2>4, <3>2
        <4>5. QED
          BY <4>3, <4>4 DEF Aligned
      <3>3. QED
        BY <3>1, <3>2
    <2>7. QED
      BY <1>5, <2>3, <2>4, <2>5, <2>6 DEF Ended
  <1>9. QED
    BY <1>6, <1>7, <1>8

\* What a number of bytes is in sectors, without the products.
LEMMA SectorsOf ==
  ASSUME NEW left \in Nat
  PROVE  \E m \in Nat, ms \in Nat, r \in Nat :
           /\ m = left \div SECTOR_SIZE /\ r = left % SECTOR_SIZE
           /\ ms = m * SECTOR_SIZE /\ left = ms + r /\ r < SECTOR_SIZE
  <1>1. PICK m \in Nat, r \in 0 .. SECTOR_SIZE - 1 :
          m = left \div SECTOR_SIZE /\ r = left % SECTOR_SIZE /\ left = m * SECTOR_SIZE + r
    BY DivIs
  <1>2. PICK ms \in Nat : ms = m * SECTOR_SIZE
    BY Distributes
  <1>3. r \in Nat /\ r < SECTOR_SIZE /\ left = ms + r
    BY <1>1, <1>2
  <1>4. QED
    BY <1>1, <1>2, <1>3

\* Where a part that is aligned leaves the pointer.
LEMMA NextSector ==
  ASSUME NEW lba \in Nat, NEW fp \in Nat, NEW l \in Nat, NEW k \in Nat, fp + l = k * SECTOR_SIZE,
         NEW b \in Nat, b = lba * SECTOR_SIZE + fp
  PROVE  (fp + l) \div SECTOR_SIZE = k /\ (lba + k) * SECTOR_SIZE = b + l
  <1>1. PICK x \in Nat : x = fp + l
    OBVIOUS
  <1>2. x \div SECTOR_SIZE = k
    BY <1>1, Multiple
  <1>3. PICK ls \in Nat, ks \in Nat : ls = lba * SECTOR_SIZE /\ ks = k * SECTOR_SIZE
    BY Distributes
  <1>4. (lba + k) * SECTOR_SIZE = ls + ks
    BY <1>3, Distributes
  <1>5. b = ls + fp /\ x = ks /\ x = fp + l
    BY <1>1, <1>3
  <1>6. ls + ks = b + l
    BY <1>5
  <1>7. QED
    BY <1>1, <1>2, <1>4, <1>6

LEMMA MiddleIs ==
  ASSUME NEW h \in Ahead, NEW remaining \in Nat \ {0}, NEW fst, NEW middle \in Int, middle >= -1,
         Piece(h, remaining, fst), Aligned(h, remaining, fst)
  PROVE  /\ Piece(h, remaining, MiddlePart(h, remaining, fst, middle))
         /\ Aligned(h, remaining, MiddlePart(h, remaining, fst, middle))
         /\ Ended(remaining, fst) /\ middle * SECTOR_SIZE + SECTOR_SIZE > remaining =>
              /\ Ended(remaining, MiddlePart(h, remaining, fst, middle))
              /\ remaining - Len(MiddlePart(h, remaining, fst, middle).data) < SECTOR_SIZE
  <1>1. PICK lba \in Nat, fp \in Nat : lba = h.lba /\ fp = h.filepointer
    BY DEF Ahead
  <1>2. PICK b \in Nat : b = lba * SECTOR_SIZE + fp
    BY Distributes
  <1>3. PICK d \in Seq(Nat), l \in Nat :
          /\ d = fst.data /\ l = Len(d) /\ l <= remaining /\ d = Bytes(b, l)
          /\ fst \in Parts
    BY <1>1, <1>2 DEF Piece, Parts
  <1>4. PICK left \in Nat : left = remaining - l
    <2>1. remaining - l \in Nat
      BY <1>3
    <2>2. QED
      BY <2>1
  <1>5. PICK p : p = MiddlePart(h, remaining, fst, middle)
    OBVIOUS
  <1>6. remaining - Len(fst.data) = left
    BY <1>3, <1>4
  <1>7. CASE fst.ends \/ left < SECTOR_SIZE
    <2>1. p = fst
      BY <1>5, <1>6, <1>7 DEF MiddlePart
    <2>2. Ended(remaining, fst) => remaining - l < SECTOR_SIZE
      <3>1. CASE fst.ends
        BY <1>3, <3>1 DEF Ended
      <3>2. CASE left < SECTOR_SIZE
        BY <1>4, <3>2
      <3>3. QED
        BY <1>7, <3>1, <3>2
    <2>3. QED
      BY <1>3, <1>5, <2>1, <2>2
  <1>8. CASE ~(fst.ends \/ left < SECTOR_SIZE)
    <2>1. PICK k \in Nat : fp + l = k * SECTOR_SIZE
      BY <1>1, <1>3, <1>8 DEF Aligned
    <2>2. (fp + l) \div SECTOR_SIZE = k /\ (lba + k) * SECTOR_SIZE = b + l
      BY <1>2, <2>1, NextSector
    <2>3. PICK m \in Nat, ms \in Nat, r \in Nat :
            m = left \div SECTOR_SIZE /\ ms = m * SECTOR_SIZE /\ left = ms + r /\ r < SECTOR_SIZE
      BY SectorsOf
    <2>4. m = left \div SECTOR_SIZE
      BY <2>3
    <2>5. left = ms + r /\ r < SECTOR_SIZE
      BY <2>3
    <2>6. PICK n \in Int : n = Least(middle, m) /\ n >= -1 /\ n <= m
      BY DEF Least
    <2>7. Least(middle, left \div SECTOR_SIZE) = n
      BY <2>4, <2>6
    <2>8. CASE n < 0
      <3>1. p = [fst EXCEPT !.ends = TRUE, !.res = n]
        BY <1>5, <1>6, <1>8, <2>7, <2>8 DEF MiddlePart
      <3>2. p.data = d /\ p.ends = TRUE /\ p \in Parts
        BY <1>3, <3>1 DEF Parts
      <3>3. Piece(h, remaining, p)
        BY <1>1, <1>2, <1>3, <3>2 DEF Piece
      <3>4. middle = -1
        BY <2>6, <2>8 DEF Least
      <3>5. ~(middle * SECTOR_SIZE + SECTOR_SIZE > remaining)
        BY <3>4
      <3>6. QED
        BY <1>5, <3>2, <3>3, <3>5 DEF Aligned
    <2>9. CASE ~(n < 0)
      <3>1. PICK s \in Nat : s = n * SECTOR_SIZE
        BY <2>9, Distributes
      <3>2. s <= ms
        <4>1. CASE n = m
          BY <2>3, <3>1, <4>1
        <4>2. CASE n < m
          <5>1. s + SECTOR_SIZE <= ms
            BY <2>3, <3>1, <4>2, TimesMonotone
          <5>2. QED
            BY <5>1
        <4>3. QED
          BY <2>6, <4>1, <4>2
      <3>3. PICK t \in Nat : t = l + s
        OBVIOUS
      <3>4. t <= remaining
        <4>1. l <= remaining
          BY <1>3
        <4>2. QED
          BY <1>4, <2>5, <3>2, <3>3, <4>1
      <3>5. PICK e \in Seq(Nat) : e = Bytes(b, t) /\ Len(e) = t
        BY BytesIs
      <3>6. PICK c \in Nat : c = b + l
        OBVIOUS
      <3>7. d \o Bytes((lba + k) * SECTOR_SIZE, n * SECTOR_SIZE) = e
        <4>1. Join(Bytes(b, l), Bytes(c, s)) = Bytes(b, t)
          BY <3>3, <3>6, BytesJoin
        <4>2. QED
          BY <1>3, <2>2, <3>1, <3>5, <3>6, <4>1 DEF Join
      <3>8. p = [data |-> e, ends |-> t = remaining, res |-> t]
        <4>1. h.lba + ((h.filepointer + Len(fst.data)) \div SECTOR_SIZE) = lba + k
          BY <1>1, <1>3, <2>2
        <4>2. fst.data \o Bytes((h.lba + ((h.filepointer + Len(fst.data)) \div SECTOR_SIZE)) * SECTOR_SIZE,
                                n * SECTOR_SIZE) = e
          BY <1>3, <3>7, <4>1
        <4>3. p = [data |-> e, ends |-> Len(e) = remaining, res |-> Len(e)]
          BY <1>5, <1>6, <1>8, <2>7, <2>9, <4>2 DEF MiddlePart
        <4>4. QED
          BY <3>5, <4>3
      <3>9. p.data = e /\ p.ends = (t = remaining) /\ p.res = t /\ p \in Parts
        BY <3>5, <3>8 DEF Parts
      <3>10. Piece(h, remaining, p)
        BY <1>1, <1>2, <3>4, <3>5, <3>9 DEF Piece
      <3>11. PICK kn \in Nat : kn = k + n
        BY <2>9
      <3>12. h.filepointer + Len(p.data) = kn * SECTOR_SIZE
        <4>1. PICK ks \in Nat : ks = k * SECTOR_SIZE
          BY Distributes
        <4>2. kn * SECTOR_SIZE = ks + s
          BY <2>9, <3>1, <3>11, <4>1, Distributes
        <4>3. fp + l = ks
          BY <2>1, <4>1
        <4>4. fp + t = ks + s
          BY <3>3, <4>3
        <4>5. QED
          BY <1>1, <3>5, <3>9, <4>2, <4>4
      <3>13. Aligned(h, remaining, p)
        <4>1. ASSUME ~p.ends PROVE Len(p.data) < remaining /\ p.res = Len(p.data)
          <5>1. t # remaining /\ Len(p.data) = t /\ p.res = t
            BY <3>5, <3>9, <4>1
          <5>2. QED
            BY <3>4, <5>1
        <4>2. QED
          BY <3>12, <4>1 DEF Aligned
      <3>14. Ended(remaining, p)
        BY <3>5, <3>9 DEF Ended
      <3>15. ASSUME middle * SECTOR_SIZE + SECTOR_SIZE > remaining
             PROVE  remaining - t < SECTOR_SIZE
        <4>1. ms <= remaining
          <5>1. l <= remaining
            BY <1>3
          <5>2. QED
            BY <1>4, <2>5, <5>1
        <4>2. ~(middle < m)
          <5>1. middle < m => middle * SECTOR_SIZE + SECTOR_SIZE <= ms
            <6>1. middle < m => middle * SECTOR_SIZE + SECTOR_SIZE <= m * SECTOR_SIZE
              BY TimesMonotone
            <6>2. ms = m * SECTOR_SIZE
              BY <2>3
            <6>3. QED
              BY <6>1, <6>2
          <5>2. PICK x \in Int : x = middle * SECTOR_SIZE
            OBVIOUS
          <5>3. QED
            BY <3>15, <4>1, <5>1, <5>2
        <4>3. n = m
          BY <2>6, <4>2 DEF Least
        <4>4. s = ms
          BY <2>3, <3>1, <4>3
        <4>5. QED
          BY <1>4, <2>5, <3>3, <4>4
      <3>16. QED
        BY <1>5, <3>5, <3>9, <3>10, <3>13, <3>14, <3>15
    <2>10. QED
      BY <2>8, <2>9
  <1>9. QED
    BY <1>7, <1>8

\* A piece of the file, and behind it what was in the buffer if the last sector was
\* not read without an error.
Pieces(h, remaining, p, last) ==
  /\ p.data \in Seq(Int)
  /\ Len(p.data) \in 0 .. remaining
  /\ \E n \in Nat, r \in Nat :
       /\ Len(p.data) = n + r
       /\ p.data = Join(Bytes(h.lba * SECTOR_SIZE + h.filepointer, n), Unknowns(r))
       /\ r > 0 => last = 0 /\ r < SECTOR_SIZE

LEMMA UnknownsIs ==
  ASSUME NEW r \in Nat
  PROVE  Unknowns(r) \in Seq(Int) /\ Len(Unknowns(r)) = r
  BY DEF Unknowns, Unknown

LEMMA UnknownsJoin ==
  ASSUME NEW d \in Seq(Int), NEW r \in Nat
  PROVE  Join(d, Unknowns(r)) \in Seq(Int) /\ Len(Join(d, Unknowns(r))) = Len(d) + r
  <1>1. PICK u \in Seq(Int) : u = Unknowns(r) /\ Len(u) = r
    BY UnknownsIs
  <1>2. d \o u \in Seq(Int) /\ Len(d \o u) = Len(d) + Len(u)
    BY ConcatProperties
  <1>3. QED
    BY <1>1, <1>2 DEF Join

LEMMA NoUnknowns ==
  ASSUME NEW d \in Seq(Nat) PROVE d = Join(d, Unknowns(0)) /\ d \in Seq(Int)
  <1>1. Unknowns(0) \in Seq(Int) /\ Len(Unknowns(0)) = 0
    BY UnknownsIs
  <1>2. Unknowns(0) = <<>>
    BY <1>1, EmptySeq
  <1>3. d \o <<>> = d
    BY ConcatEmptySeq
  <1>4. d \in Seq(Int)
    OBVIOUS
  <1>5. QED
    BY <1>2, <1>3, <1>4 DEF Join

LEMMA PieceIs ==
  ASSUME NEW h \in Ahead, NEW remaining \in Nat, NEW p, NEW last, Piece(h, remaining, p)
  PROVE  Pieces(h, remaining, p, last)
  <1>1. PICK d \in Seq(Nat), l \in Nat : d = p.data /\ l = Len(d) /\ l <= remaining
    BY DEF Piece, Parts
  <1>2. d = Bytes(h.lba * SECTOR_SIZE + h.filepointer, l)
    BY <1>1 DEF Piece
  <1>3. d = Join(d, Unknowns(0)) /\ d \in Seq(Int)
    BY NoUnknowns
  <1>4. l = l + 0 /\ ~(0 > 0)
    OBVIOUS
  <1>5. d = Join(Bytes(h.lba * SECTOR_SIZE + h.filepointer, l), Unknowns(0))
    BY <1>2, <1>3
  <1>6. QED
    BY <1>1, <1>3, <1>4, <1>5 DEF Pieces

LEMMA LastIs ==
  ASSUME NEW h \in Ahead, NEW remaining \in Nat \ {0}, NEW mid, NEW last \in -1 .. 1,
         Piece(h, remaining, mid), Aligned(h, remaining, mid)
  PROVE  /\ Pieces(h, remaining, LastPart(h, remaining, mid, last), last)
         /\ last = 1 /\ Ended(remaining, mid) /\ remaining - Len(mid.data) < SECTOR_SIZE =>
              /\ Len(LastPart(h, remaining, mid, last).data) = remaining
              /\ LastPart(h, remaining, mid, last).res = remaining
  <1>1. PICK lba \in Nat, fp \in Nat : lba = h.lba /\ fp = h.filepointer
    BY DEF Ahead
  <1>2. PICK b \in Nat : b = lba * SECTOR_SIZE + fp
    BY Distributes
  <1>3. PICK d \in Seq(Nat), l \in Nat :
          /\ d = mid.data /\ l = Len(d) /\ l <= remaining /\ d = Bytes(b, l)
          /\ mid \in Parts
    BY <1>1, <1>2 DEF Piece, Parts
  <1>4. PICK left \in Nat : left = remaining - l
    <2>1. remaining - l \in Nat
      BY <1>3
    <2>2. QED
      BY <2>1
  <1>5. PICK p : p = LastPart(h, remaining, mid, last)
    OBVIOUS
  <1>6. remaining - Len(mid.data) = left
    BY <1>3, <1>4
  <1>7. CASE mid.ends
    <2>1. p = mid
      BY <1>5, <1>7 DEF LastPart
    <2>2. Pieces(h, remaining, p, last)
      BY <2>1, PieceIs
    <2>3. QED
      BY <1>5, <1>7, <2>1, <2>2 DEF Ended
  <1>8. CASE ~mid.ends /\ last = -1
    <2>1. p = [mid EXCEPT !.res = last]
      BY <1>5, <1>8 DEF LastPart
    <2>2. p.data = d /\ p \in Parts
      <3>1. last \in Int
        OBVIOUS
      <3>2. mid \in [data : Seq(Nat), ends : BOOLEAN, res : Int] /\ mid.data = d
        BY <1>3 DEF Parts
      <3>3. p \in [data : Seq(Nat), ends : BOOLEAN, res : Int] /\ p.data = d
        BY <2>1, <3>1, <3>2
      <3>4. QED
        BY <3>3 DEF Parts
    <2>3. Piece(h, remaining, p)
      BY <1>1, <1>2, <1>3, <2>2 DEF Piece
    <2>4. QED
      BY <1>5, <1>8, <2>3, PieceIs
  <1>0. CASE ~mid.ends /\ last = 0
    <2>1. PICK r \in Nat : r = left % SECTOR_SIZE /\ r < SECTOR_SIZE /\ r <= left
      <3>1. PICK m \in Nat, ms \in Nat, r \in Nat :
              r = left % SECTOR_SIZE /\ left = ms + r /\ r < SECTOR_SIZE
        BY SectorsOf
      <3>2. r <= left
        BY <3>1
      <3>3. QED
        BY <3>1, <3>2
    <2>2. PICK e : e = Join(d, Unknowns(r))
      OBVIOUS
    <2>3. e \in Seq(Int) /\ Len(e) = l + r
      BY <1>3, <2>2, UnknownsJoin
    <2>4. p.data = e
      <3>1. mid.data \o Unknowns(left % SECTOR_SIZE) = e
        BY <1>3, <2>1, <2>2 DEF Join
      <3>2. ~mid.ends /\ ~(last < 0) /\ last # 1
        BY <1>0
      <3>3. p = [data |-> e, ends |-> TRUE, res |-> IF left >= SECTOR_SIZE THEN -1 ELSE Len(e)]
        <4>1. CASE left >= SECTOR_SIZE
          BY <1>5, <1>6, <3>1, <3>2, <4>1 DEF LastPart
        <4>2. CASE ~(left >= SECTOR_SIZE)
          BY <1>5, <1>6, <3>1, <3>2, <4>2 DEF LastPart
        <4>3. QED
          BY <4>1, <4>2
      <3>4. QED
        BY <3>3
    <2>5. l + r <= remaining
      <3>1. left = remaining - l /\ r <= left
        BY <1>4, <2>1
      <3>2. QED
        BY <3>1
    <2>6. l + r - l = r
      OBVIOUS
    <2>7. /\ p.data \in Seq(Int) /\ Len(p.data) = l + r
          /\ p.data = Join(Bytes(h.lba * SECTOR_SIZE + h.filepointer, l), Unknowns(r))
      BY <1>1, <1>2, <1>3, <2>2, <2>3, <2>4
    <2>8. Pieces(h, remaining, p, last)
      BY <1>0, <2>1, <2>5, <2>7 DEF Pieces
    <2>9. QED
      BY <1>0, <1>5, <2>8
  <1>9. CASE ~mid.ends /\ last = 1
    <2>1. PICK k \in Nat : fp + l = k * SECTOR_SIZE
      BY <1>1, <1>3, <1>9 DEF Aligned
    <2>2. (fp + l) \div SECTOR_SIZE = k /\ (lba + k) * SECTOR_SIZE = b + l
      BY <1>2, <2>1, NextSector
    <2>3. PICK m \in Nat, ms \in Nat, r \in Nat :
            r = left % SECTOR_SIZE /\ ms = m * SECTOR_SIZE /\ left = ms + r /\ r < SECTOR_SIZE
      BY SectorsOf
    <2>4. r = left % SECTOR_SIZE
      BY <2>3
    <2>5. left = ms + r
      BY <2>3
    <2>6. PICK t \in Nat : t = l + r
      OBVIOUS
    <2>7. t <= remaining
      BY <1>4, <2>5, <2>6
    <2>8. PICK e \in Seq(Nat) : e = Bytes(b, t) /\ Len(e) = t
      BY BytesIs
    <2>9. PICK c \in Nat : c = b + l
      OBVIOUS
    <2>10. d \o Bytes((lba + k) * SECTOR_SIZE, r) = e
      <3>1. Join(Bytes(b, l), Bytes(c, r)) = Bytes(b, t)
        BY <2>6, <2>9, BytesJoin
      <3>2. QED
        BY <1>3, <2>2, <2>8, <2>9, <3>1 DEF Join
    <2>11. p = [data |-> e, ends |-> TRUE, res |-> IF left >= SECTOR_SIZE THEN -1 ELSE t]
      <3>1. h.lba + ((h.filepointer + Len(mid.data)) \div SECTOR_SIZE) = lba + k
        BY <1>1, <1>3, <2>2
      <3>2. mid.data \o Bytes((h.lba + ((h.filepointer + Len(mid.data)) \div SECTOR_SIZE)) * SECTOR_SIZE,
                              left % SECTOR_SIZE) = e
        BY <1>3, <2>4, <2>10, <3>1
      <3>3. p = [data |-> e, ends |-> TRUE, res |-> IF left >= SECTOR_SIZE THEN -1 ELSE Len(e)]
        <4>1. ~mid.ends /\ ~(last < 0) /\ last = 1
          BY <1>9
        <4>2. CASE left >= SECTOR_SIZE
          BY <1>5, <1>6, <4>1, <4>2, <3>2 DEF LastPart
        <4>3. CASE ~(left >= SECTOR_SIZE)
          BY <1>5, <1>6, <4>1, <4>3, <3>2 DEF LastPart
        <4>4. QED
          BY <4>2, <4>3
      <3>4. QED
        BY <2>8, <3>3
    <2>12. p.data = e /\ p \in Parts /\ (left < SECTOR_SIZE => p.res = t)
      BY <2>8, <2>11 DEF Parts
    <2>13. Piece(h, remaining, p)
      BY <1>1, <1>2, <2>7, <2>8, <2>12 DEF Piece
    <2>14. left < SECTOR_SIZE => t = remaining
      <3>1. 0 * SECTOR_SIZE = 0
        OBVIOUS
      <3>2. 0 < m => SECTOR_SIZE <= ms
        BY <2>3, <3>1, TimesMonotone
      <3>3. m = 0 => ms = 0
        BY <2>3
      <3>4. left < SECTOR_SIZE => ms = 0
        BY <2>5, <3>2, <3>3
      <3>5. QED
        BY <1>4, <2>5, <2>6, <3>4
    <2>15. Pieces(h, remaining, p, last)
      BY <2>13, PieceIs
    <2>16. QED
      BY <1>5, <1>6, <2>8, <2>12, <2>14, <2>15
  <1>10. QED
    BY <1>0, <1>7, <1>8, <1>9

-----------------------------------------------------------------------------
(* A read *)

\* The parts of any read, also of a pointer before the file.
Loose == [data : Seq(Int), ends : BOOLEAN, res : Int]

LEMMA AnyBytes ==
  ASSUME NEW b \in Int, NEW n \in Nat PROVE Bytes(b, n) \in Seq(Int)
  BY DEF Bytes

LEMMA FirstTypes ==
  ASSUME NEW h \in Handles, NEW remaining \in Nat \ {0}, NEW first \in -1 .. 1
  PROVE  FirstPart(h, remaining, first) \in Loose
  <1>1. PICK b \in Int, fp \in Int : b = h.lba * SECTOR_SIZE + h.filepointer /\ fp = h.filepointer
    BY DEF Handles
  <1>2. PICK at \in Int : at = At(h.filepointer) /\ at < SECTOR_SIZE
    <2>1. fp % SECTOR_SIZE \in 0 .. SECTOR_SIZE - 1
      OBVIOUS
    <2>2. QED
      BY <1>1, <2>1 DEF At
  <1>3. PICK p : p = FirstPart(h, remaining, first)
    OBVIOUS
  <1>4. CASE at = 0
    <2>1. p = [data |-> <<>>, ends |-> FALSE, res |-> 0]
      BY <1>2, <1>3, <1>4 DEF FirstPart
    <2>2. QED
      BY <1>3, <2>1 DEF Loose
  <1>5. CASE at # 0 /\ first # 1
    <2>1. p = [data |-> <<>>, ends |-> TRUE, res |-> first]
      BY <1>2, <1>3, <1>5 DEF FirstPart
    <2>2. QED
      BY <1>3, <2>1 DEF Loose
  <1>6. CASE at # 0 /\ first = 1
    <2>1. PICK read \in Nat : read = Least(SECTOR_SIZE - at, remaining)
      BY <1>2 DEF Least
    <2>2. PICK d : d = [i \in 1 .. read |-> IF at + i <= 0 THEN Unknown ELSE b + i - 1]
      OBVIOUS
    <2>3. d \in Seq(Int)
      BY <2>2 DEF Unknown
    <2>4. p = [data |-> d, ends |-> read = remaining, res |-> read]
      BY <1>1, <1>2, <1>3, <1>6, <2>1, <2>2 DEF FirstPart
    <2>5. QED
      BY <1>3, <2>3, <2>4 DEF Loose
  <1>7. QED
    BY <1>4, <1>5, <1>6

LEMMA MiddleTypes ==
  ASSUME NEW h \in Handles, NEW remaining \in Nat \ {0}, NEW fst \in Loose, NEW middle \in Int
  PROVE  MiddlePart(h, remaining, fst, middle) \in Loose
  <1>1. PICK d \in Seq(Int), l \in Nat : d = fst.data /\ l = Len(d)
    BY DEF Loose
  <1>2. PICK left \in Int : left = remaining - l
    OBVIOUS
  <1>3. PICK m \in Int : m = left \div SECTOR_SIZE
    OBVIOUS
  <1>4. PICK n \in Int : n = Least(middle, m)
    BY DEF Least
  <1>5. PICK next \in Int : next = h.lba + (h.filepointer + Len(fst.data)) \div SECTOR_SIZE
    BY <1>1 DEF Handles
  <1>6. PICK p : p = MiddlePart(h, remaining, fst, middle)
    OBVIOUS
  <1>7. CASE fst.ends \/ left < SECTOR_SIZE
    <2>1. p = fst
      BY <1>1, <1>2, <1>6, <1>7 DEF MiddlePart
    <2>2. QED
      BY <1>6, <2>1
  <1>8. CASE ~(fst.ends \/ left < SECTOR_SIZE) /\ n < 0
    <2>1. p = [fst EXCEPT !.ends = TRUE, !.res = n]
      BY <1>1, <1>2, <1>3, <1>4, <1>6, <1>8 DEF MiddlePart
    <2>2. QED
      BY <1>6, <2>1 DEF Loose
  <1>9. CASE ~(fst.ends \/ left < SECTOR_SIZE) /\ ~(n < 0)
    <2>1. PICK b \in Int, k \in Nat : b = next * SECTOR_SIZE /\ k = n * SECTOR_SIZE
      <3>1. n \in Nat
        BY <1>9
      <3>2. n * SECTOR_SIZE \in Nat
        BY <3>1, Distributes
      <3>3. next * SECTOR_SIZE \in Int
        OBVIOUS
      <3>4. QED
        BY <3>2, <3>3
    <2>2. PICK e \in Seq(Int) : e = d \o Bytes(b, k)
      <3>1. Bytes(b, k) \in Seq(Int)
        BY AnyBytes
      <3>2. QED
        BY <3>1, ConcatProperties
    <2>3. p = [data |-> e, ends |-> Len(e) = remaining, res |-> Len(e)]
      BY <1>1, <1>2, <1>3, <1>4, <1>5, <1>6, <1>9, <2>1, <2>2 DEF MiddlePart
    <2>4. QED
      BY <1>6, <2>3 DEF Loose
  <1>10. QED
    BY <1>7, <1>8, <1>9

LEMMA LastTypes ==
  ASSUME NEW h \in Handles, NEW remaining \in Nat \ {0}, NEW mid \in Loose, NEW last \in -1 .. 1
  PROVE  LastPart(h, remaining, mid, last).data \in Seq(Int)
  <1>1. PICK d \in Seq(Int), l \in Nat : d = mid.data /\ l = Len(d)
    BY DEF Loose
  <1>2. PICK left \in Int : left = remaining - l
    OBVIOUS
  <1>3. PICK r \in Nat : r = left % SECTOR_SIZE
    OBVIOUS
  <1>4. PICK next \in Int : next = h.lba + (h.filepointer + Len(mid.data)) \div SECTOR_SIZE
    BY <1>1 DEF Handles
  <1>5. PICK b \in Int : b = next * SECTOR_SIZE
    OBVIOUS
  <1>6. PICK e \in Seq(Int) : e = d \o IF last = 1 THEN Bytes(b, r) ELSE Unknowns(r)
    <2>1. Bytes(b, r) \in Seq(Int) /\ Unknowns(r) \in Seq(Int)
      BY AnyBytes, UnknownsIs
    <2>2. PICK u \in Seq(Int) : u = IF last = 1 THEN Bytes(b, r) ELSE Unknowns(r)
      BY <2>1
    <2>3. d \o u \in Seq(Int)
      BY ConcatProperties
    <2>4. QED
      BY <2>2, <2>3
  <1>7. PICK p : p = LastPart(h, remaining, mid, last)
    OBVIOUS
  <1>8. CASE mid.ends
    BY <1>1, <1>8 DEF LastPart
  <1>9. CASE ~mid.ends /\ last < 0
    <2>1. p = [mid EXCEPT !.res = last]
      BY <1>7, <1>9 DEF LastPart
    <2>2. QED
      BY <1>7, <2>1 DEF Loose
  <1>10. CASE ~mid.ends /\ ~(last < 0)
    <2>1. p = [data |-> e, ends |-> TRUE, res |-> IF left >= SECTOR_SIZE THEN -1 ELSE Len(e)]
      BY <1>1, <1>2, <1>3, <1>4, <1>5, <1>6, <1>7, <1>10 DEF LastPart
    <2>2. QED
      BY <1>7, <2>1
  <1>11. QED
    BY <1>8, <1>9, <1>10

\* What a read of a handle h from its pointer on makes of len, in one record.
Delivered(h, len, whole, last, data, res) ==
  /\ data \in Seq(Int)
  /\ Plain(h.filepointer, len) =>
       /\ Len(data) <= len
       /\ \E n \in Nat, r \in Nat :
            /\ Len(data) = n + r
            /\ data = Join(Bytes(h.lba * SECTOR_SIZE + h.filepointer, n), Unknowns(r))
            /\ r > 0 => last = 0 /\ r < SECTOR_SIZE
       /\ Len(data) > 0 => h.filepointer + Len(data) <= h.filesize
       /\ whole => /\ res = Len(data)
                   /\ Len(data) = Least(len, IF h.filesize > h.filepointer
                                             THEN h.filesize - h.filepointer ELSE 0)

\* The three parts of a read of something, one after the other.
LEMMA PartsIs ==
  ASSUME NEW h \in Ahead, NEW remaining \in Nat \ {0}, NEW first \in -1 .. 1, NEW last \in -1 .. 1,
         NEW middle \in Int, middle >= -1, NEW p,
         p = LastPart(h, remaining,
                      MiddlePart(h, remaining, FirstPart(h, remaining, first), middle), last)
  PROVE  /\ Pieces(h, remaining, p, last)
         /\ first = 1 /\ last = 1 /\ middle * SECTOR_SIZE + SECTOR_SIZE > remaining =>
              Len(p.data) = remaining /\ p.res = remaining
  <1>1. PICK fst : fst = FirstPart(h, remaining, first)
    OBVIOUS
  <1>2. /\ Piece(h, remaining, fst) /\ Aligned(h, remaining, fst)
        /\ first = 1 => Ended(remaining, fst)
    BY <1>1, FirstIs
  <1>3. PICK mid : mid = MiddlePart(h, remaining, fst, middle)
    OBVIOUS
  <1>4. /\ Piece(h, remaining, mid) /\ Aligned(h, remaining, mid)
        /\ Ended(remaining, fst) /\ middle * SECTOR_SIZE + SECTOR_SIZE > remaining =>
             Ended(remaining, mid) /\ remaining - Len(mid.data) < SECTOR_SIZE
    BY <1>2, <1>3, MiddleIs
  <1>5. p = LastPart(h, remaining, mid, last)
    BY <1>1, <1>3
  <1>6. /\ Pieces(h, remaining, p, last)
        /\ last = 1 /\ Ended(remaining, mid) /\ remaining - Len(mid.data) < SECTOR_SIZE =>
             Len(p.data) = remaining /\ p.res = remaining
    BY <1>4, <1>5, LastIs
  <1>7. QED
    BY <1>2, <1>4, <1>6

LEMMA PartsTypes ==
  ASSUME NEW h \in Handles, NEW remaining \in Nat \ {0}, NEW first \in -1 .. 1, NEW last \in -1 .. 1,
         NEW middle \in Int
  PROVE  LastPart(h, remaining,
                  MiddlePart(h, remaining, FirstPart(h, remaining, first), middle), last).data \in Seq(Int)
  <1>1. PICK fst \in Loose : fst = FirstPart(h, remaining, first)
    BY FirstTypes
  <1>2. PICK mid \in Loose : mid = MiddlePart(h, remaining, fst, middle)
    BY MiddleTypes
  <1>3. LastPart(h, remaining, mid, last).data \in Seq(Int)
    BY LastTypes
  <1>4. QED
    BY <1>1, <1>2, <1>3

\* A step that reads, by what it delivers.
ReadStep(fd, len, first, middle, last) ==
  LET whole == first = 1 /\ last = 1 /\ middle * SECTOR_SIZE + SECTOR_SIZE > len IN
  \E data, res :
    /\ handlers' = [handlers EXCEPT ![fd].filepointer = Wrapped(@ + Len(data))]
    /\ answer' = [op |-> "read", fd |-> fd, len |-> len, from |-> handlers[fd].filepointer,
                  data |-> data, res |-> res, last |-> last, whole |-> whole]
    /\ Delivered(handlers[fd], len, whole, last, data, res)
    /\ UNCHANGED <<focus, root, mounted, sectors>>

LEMMA ReadIs ==
  ASSUME TypeOK, NEW fd \in Handle, NEW len \in 0 .. FileSize + 2, NEW first \in Reads(1),
         NEW last \in Reads(1), NEW middle \in Reads(len \div SECTOR_SIZE),
         isofs_read(fd, len, first, middle, last)
  PROVE  ReadStep(fd, len, first, middle, last)
  <1>1. PICK h \in Handles : h = handlers[fd]
    BY DEF TypeOK, Handles
  <1>2. PICK lba \in Nat, fp \in Int, fs \in Nat : lba = h.lba /\ fp = h.filepointer /\ fs = h.filesize
    BY DEF Handles
  <1>5. first \in -1 .. 1 /\ last \in -1 .. 1 /\ middle \in Int /\ middle >= -1
    <2>1. len \div SECTOR_SIZE \in Nat
      BY DivIs
    <2>2. QED
      BY <2>1 DEF Reads
  <1>6. PICK remaining \in Remaining(h, len) : \E done :
          /\ done = IF remaining <= 0
                    THEN [data |-> <<>>, ends |-> TRUE, res |-> 0]
                    ELSE LastPart(h, remaining,
                                  MiddlePart(h, remaining, FirstPart(h, remaining, first), middle), last)
          /\ handlers' = [handlers EXCEPT ![fd].filepointer = Wrapped(@ + Len(done.data))]
          /\ answer' = [op |-> "read", fd |-> fd, len |-> len, from |-> h.filepointer,
                        data |-> done.data, res |-> done.res, last |-> last,
                        whole |-> first = 1 /\ last = 1 /\ middle * SECTOR_SIZE + SECTOR_SIZE > len]
          /\ UNCHANGED <<focus, root, mounted, sectors>>
    BY <1>1 DEF isofs_read
  <1>8. PICK done :
          /\ done = IF remaining <= 0
                    THEN [data |-> <<>>, ends |-> TRUE, res |-> 0]
                    ELSE LastPart(h, remaining,
                                  MiddlePart(h, remaining, FirstPart(h, remaining, first), middle), last)
          /\ handlers' = [handlers EXCEPT ![fd].filepointer = Wrapped(@ + Len(done.data))]
          /\ answer' = [op |-> "read", fd |-> fd, len |-> len, from |-> h.filepointer,
                        data |-> done.data, res |-> done.res, last |-> last,
                        whole |-> first = 1 /\ last = 1 /\ middle * SECTOR_SIZE + SECTOR_SIZE > len]
          /\ UNCHANGED <<focus, root, mounted, sectors>>
    BY <1>6
  <1>3. remaining \in Int
    BY <1>2 DEF Remaining, Least
  <1>7. PICK whole \in BOOLEAN :
          whole <=> first = 1 /\ last = 1 /\ middle * SECTOR_SIZE + SECTOR_SIZE > len
    OBVIOUS
  <1>11. SUFFICES Delivered(h, len, whole, last, done.data, done.res)
    BY <1>1, <1>8, <1>7 DEF ReadStep
  <1>12. done.data \in Seq(Int)
    <2>1. CASE remaining <= 0
      BY <1>8, <2>1
    <2>2. CASE ~(remaining <= 0)
      <3>1. remaining \in Nat \ {0}
        BY <1>3, <2>2
      <3>2. QED
        BY <1>5, <1>8, <2>2, <3>1, PartsTypes
    <2>3. QED
      BY <2>1, <2>2
  <1>13. CASE ~Plain(h.filepointer, len)
    BY <1>12, <1>13 DEF Delivered
  <1>14. CASE Plain(h.filepointer, len)
    <2>a. fp \in Nat /\ h \in Ahead /\ remaining = Least(len, fs - fp)
      <3>1. fp >= 0 /\ ~(len + fp > IntMax)
        <4>1. fp >= 0 /\ fp + len <= IntMax
          BY <1>2, <1>14 DEF Plain
        <4>2. fp \in Int /\ len \in Int /\ IntMax \in Int
          OBVIOUS
        <4>3. QED
          BY <4>1, <4>2
      <3>2. remaining = Least(len, fs - fp)
        BY <1>2, <3>1 DEF Remaining
      <3>3. h \in Ahead
        BY <1>2, <3>1 DEF Handles, Ahead
      <3>4. QED
        BY <3>1, <3>2, <3>3
    <2>b. PICK b \in Nat : b = lba * SECTOR_SIZE + fp
      BY <2>a, Distributes
    <2>8. CASE remaining <= 0
      <3>1. done.data = <<>> /\ done.res = 0
        BY <1>8, <2>8
      <3>2. Bytes(b, 0) = <<>> /\ Len(<<>>) = 0 /\ <<>> \in Seq(Nat)
        BY NoBytes
      <3>3. 0 = Least(len, IF fs > fp THEN fs - fp ELSE 0)
        BY <2>a, <2>8 DEF Least
      <3>4. <<>> = Join(Bytes(b, 0), Unknowns(0))
        BY <3>2, NoUnknowns
      <3>5. \E n \in Nat, r \in Nat :
              /\ Len(done.data) = n + r
              /\ done.data = Join(Bytes(b, n), Unknowns(r))
              /\ r > 0 => last = 0 /\ r < SECTOR_SIZE
        <4>1. Len(done.data) = 0 + 0 /\ done.data = Join(Bytes(b, 0), Unknowns(0))
          BY <3>1, <3>2, <3>4
        <4>2. ~(0 > 0)
          OBVIOUS
        <4>3. QED
          BY <4>1, <4>2
      <3>6. QED
        BY <1>2, <1>12, <2>b, <3>1, <3>2, <3>3, <3>5 DEF Delivered
    <2>9. CASE ~(remaining <= 0)
      <3>1. done = LastPart(h, remaining,
                            MiddlePart(h, remaining, FirstPart(h, remaining, first), middle), last)
        BY <1>8, <2>9
      <3>2. remaining \in Nat \ {0}
        BY <1>3, <2>9
      <3>3. /\ Pieces(h, remaining, done, last)
            /\ first = 1 /\ last = 1 /\ middle * SECTOR_SIZE + SECTOR_SIZE > remaining =>
                 Len(done.data) = remaining /\ done.res = remaining
        BY <1>5, <2>a, <3>1, <3>2, PartsIs
      <3>4. remaining <= len /\ remaining <= fs - fp
            /\ remaining = Least(len, IF fs > fp THEN fs - fp ELSE 0)
        BY <2>a, <2>9 DEF Least
      <3>5. PICK l \in Nat : l = Len(done.data) /\ l <= remaining
        BY <3>3 DEF Pieces
      <3>6. (l > 0 => fp + l <= fs) /\ l <= len
        BY <3>2, <3>4, <3>5
      <3>7. whole => l = remaining /\ done.res = remaining
        <4>1. PICK x \in Int : x = middle * SECTOR_SIZE
          BY <1>5
        <4>2. x + SECTOR_SIZE > len => x + SECTOR_SIZE > remaining
          BY <3>2, <3>4
        <4>3. QED
          BY <1>7, <3>3, <3>5, <4>1, <4>2
      <3>8. \E n \in Nat, r \in Nat :
              /\ Len(done.data) = n + r
              /\ done.data = Join(Bytes(h.lba * SECTOR_SIZE + h.filepointer, n), Unknowns(r))
              /\ r > 0 => last = 0 /\ r < SECTOR_SIZE
        BY <3>3 DEF Pieces
      <3>9. QED
        BY <1>2, <1>12, <3>4, <3>5, <3>6, <3>7, <3>8 DEF Delivered
    <2>10. QED
      BY <2>8, <2>9
  <1>15. QED
    BY <1>13, <1>14

-----------------------------------------------------------------------------
(* Sums and turns of a loop *)

\* A set of numbers that has 0 and with each number the next has them all.
LEMMA Upwards ==
  ASSUME NEW N \in Nat, NEW S, 0 \in S, \A k \in 0 .. N - 1 : k \in S => k + 1 \in S
  PROVE  \A k \in 0 .. N : k \in S
  <1> SUFFICES ASSUME NEW k \in 0 .. N, k \notin S PROVE FALSE
    OBVIOUS
  <1> DEFINE Bad == {i \in Nat : i \in 0 .. N /\ i \notin S}
             Rel == OpToRel(<, Nat)
  <1>1. \A i, j \in Nat : <<j, i>> \in Rel <=> j < i
    BY DEF OpToRel
  <1>2. IsWellFoundedOn(Rel, Nat)
    BY NatLessThanWellFounded
  <1>3. k \in Bad /\ Bad \subseteq Nat
    OBVIOUS
  <1> HIDE DEF Rel
  <1>4. PICK i \in Bad : \A j \in Bad : ~(<<j, i>> \in Rel)
    <2> HIDE DEF Bad
    <2>1. QED
      BY <1>2, <1>3, WFMin, Zenon
  <1>5. i \in Nat /\ i \in 0 .. N /\ i \notin S /\ i # 0
    BY <1>4
  <1>6. i - 1 \in Nat /\ i - 1 \in 0 .. N - 1 /\ i - 1 < i
    BY <1>5
  <1>7. i - 1 \notin Bad
    BY <1>1, <1>4, <1>5, <1>6
  <1>8. i - 1 \in S
    BY <1>6, <1>7
  <1>9. (i - 1) + 1 = i
    BY <1>5
  <1>10. QED
    BY <1>5, <1>6, <1>8, <1>9

LEMMA SumToIs ==
  ASSUME NEW s \in Seq(Nat)
  PROVE  /\ SumTo(s, 0) = 0
         /\ \A k \in 0 .. Len(s) : SumTo(s, k) \in Nat
         /\ \A k \in 1 .. Len(s) : SumTo(s, k) = SumTo(s, k - 1) + s[k]
  <1> DEFINE Sums(n, g) == g = [k \in 0 .. n |-> IF k = 0 THEN 0 ELSE g[k - 1] + s[k]]
             S == {n \in Nat : \E g : Sums(n, g)}
  <1>1. PICK l \in Nat : l = Len(s)
    OBVIOUS
  <1>2. 0 \in S
    <2>1. Sums(0, [k \in 0 .. 0 |-> 0])
      OBVIOUS
    <2>2. QED
      BY <2>1
  <1>3. ASSUME NEW n \in 0 .. l - 1, n \in S PROVE n + 1 \in S
    <2>1. PICK g : Sums(n, g)
      BY <1>3
    <2>2. PICK m \in Nat : m = n + 1
      OBVIOUS
    <2> DEFINE h == [k \in 0 .. m |-> IF k = m THEN g[n] + s[m] ELSE g[k]]
    <2>3. ASSUME NEW k \in 0 .. m PROVE h[k] = IF k = 0 THEN 0 ELSE h[k - 1] + s[k]
      <3>1. CASE k = 0
        BY <2>1, <2>2, <3>1
      <3>2. CASE k = m
        <4>1. h[m] = g[n] + s[m] /\ m - 1 = n /\ h[n] = g[n]
          BY <2>2
        <4>2. QED
          BY <2>2, <3>2, <4>1
      <3>3. CASE k # 0 /\ k # m
        <4>1. k \in 0 .. n /\ k - 1 \in 0 .. m /\ k - 1 # m
          BY <2>2, <3>3
        <4>2. g[k] = g[k - 1] + s[k]
          BY <2>1, <3>3, <4>1
        <4>3. h[k] = g[k] /\ h[k - 1] = g[k - 1]
          BY <3>3, <4>1
        <4>4. QED
          BY <3>3, <4>2, <4>3
      <3>4. QED
        BY <3>1, <3>2, <3>3
    <2>4. h = [k \in 0 .. m |-> IF k = 0 THEN 0 ELSE h[k - 1] + s[k]]
      BY <2>3
    <2> HIDE DEF h
    <2>5. Sums(m, h)
      BY <2>4
    <2>6. QED
      BY <2>2, <2>5
  <1>4. PICK f : Sums(l, f)
    <2>1. l \in 0 .. l
      OBVIOUS
    <2> HIDE DEF S
    <2>2. l \in S
      BY <1>2, <1>3, <2>1, Upwards
    <2>3. QED
      BY <2>2 DEF S
  <1> DEFINE sum == CHOOSE g : Sums(l, g)
  <1>5. Sums(l, sum)
    BY <1>4
  <1>6. \A k : SumTo(s, k) = sum[k]
    BY <1>1 DEF SumTo
  <1> HIDE DEF sum
  <1>7. sum[0] = 0 /\ \A k \in 1 .. l : sum[k] = sum[k - 1] + s[k]
    BY <1>5
  <1> DEFINE T == {k \in Nat : sum[k] \in Nat}
  <1>8. 0 \in T
    BY <1>7
  <1>9. ASSUME NEW k \in 0 .. l - 1, k \in T PROVE k + 1 \in T
    <2>1. PICK j \in 1 .. l : j = k + 1 /\ j - 1 = k
      OBVIOUS
    <2>2. sum[j] = sum[k] + s[j] /\ s[j] \in Nat
      BY <1>1, <1>7, <2>1
    <2>3. QED
      BY <1>9, <2>1, <2>2
  <1>10. \A k \in 0 .. l : k \in T
    <2> HIDE DEF T
    <2>1. QED
      BY <1>8, <1>9, Upwards
  <1>11. QED
    BY <1>1, <1>6, <1>7, <1>10

\* Sums of numbers that are not 0 grow.
LEMMA SumGrows ==
  ASSUME NEW s \in Seq(Nat), \A k \in 1 .. Len(s) : s[k] >= 1,
         NEW i \in 1 .. Len(s), NEW j \in i .. Len(s)
  PROVE  SumTo(s, i - 1) + s[i] <= SumTo(s, j)
  <1>1. PICK l \in Nat : l = Len(s)
    OBVIOUS
  <1> DEFINE S == {d \in Nat : i + d <= l => SumTo(s, i) <= SumTo(s, i + d)}
  <1>2. 0 \in S
    BY <1>1, SumToIs
  <1>3. ASSUME NEW d \in 0 .. l - 1, d \in S PROVE d + 1 \in S
    <2> SUFFICES ASSUME i + (d + 1) <= l PROVE SumTo(s, i) <= SumTo(s, i + (d + 1))
      OBVIOUS
    <2>1. PICK k \in 1 .. l : k = i + (d + 1) /\ k - 1 = i + d
      BY <1>1
    <2>2. SumTo(s, k) = SumTo(s, k - 1) + s[k] /\ s[k] >= 1 /\ s[k] \in Nat
      <3>1. k \in 1 .. Len(s)
        BY <1>1, <2>1
      <3>2. s[k] >= 1 /\ s[k] \in Nat
        BY <3>1
      <3>3. QED
        BY <3>1, <3>2, SumToIs
    <2>3. SumTo(s, i) <= SumTo(s, i + d)
      BY <1>3, <2>1
    <2>4. SumTo(s, i) \in Nat /\ SumTo(s, k - 1) \in Nat
      <3>1. i \in 0 .. Len(s) /\ k - 1 \in 0 .. Len(s)
        BY <1>1, <2>1
      <3>2. QED
        BY <3>1, SumToIs
    <2>5. QED
      BY <2>1, <2>2, <2>3, <2>4
  <1>4. \A d \in 0 .. l : d \in S
    <2> HIDE DEF S
    <2>1. QED
      BY <1>2, <1>3, Upwards
  <1>5. PICK d \in 0 .. l : d = j - i /\ i + d = j /\ j <= l
    BY <1>1
  <1>6. SumTo(s, i) <= SumTo(s, j)
    BY <1>4, <1>5
  <1>7. SumTo(s, i) = SumTo(s, i - 1) + s[i]
    BY SumToIs
  <1>8. QED
    BY <1>6, <1>7

-----------------------------------------------------------------------------
(* The root *)

RootFits ==
  /\ root \in Seq(Seq(Nat)) /\ Len(root) \in 1 .. MaxSectors
  /\ \A s \in 1 .. Len(root) :
       /\ root[s] \in Seq(Nat) /\ Len(root[s]) \in 1 .. SECTOR_SIZE
       /\ \A j \in 1 .. Len(root[s]) : root[s][j] \in 1 .. SECTOR_SIZE - 1 /\ root[s][j] <= Record
       /\ SumTo(root[s], Len(root[s])) <= SECTOR_SIZE

LEMMA LayoutIs ==
  ASSUME NEW q \in Layouts
  PROVE  /\ q \in Seq(Nat) /\ Len(q) \in 1 .. SECTOR_SIZE
         /\ \A j \in 1 .. Len(q) : q[j] \in 1 .. SECTOR_SIZE - 1 /\ q[j] <= Record
         /\ SumTo(q, Len(q)) <= SECTOR_SIZE
  <1>1. PICK m \in 0 .. SECTOR_SIZE : q \in [1 .. m -> Lengths]
    BY DEF Layouts, BoundedSeq, SeqOf
  <1>2. \A l \in Lengths : l \in 1 .. SECTOR_SIZE - 1 /\ l <= Record /\ l \in Nat
    BY IsoFsAssumption
  <1>3. q \in Seq(Nat) /\ Len(q) = m
    <2>1. q \in [1 .. m -> Nat]
      BY <1>1, <1>2
    <2>2. QED
      BY <1>1, <2>1
  <1>4. m # 0
    <2>1. q # <<>>
      BY DEF Layouts
    <2>2. QED
      BY <1>3, <2>1, EmptySeq
  <1>5. SumTo(q, Len(q)) <= SECTOR_SIZE
    BY DEF Layouts, Sum
  <1>6. QED
    BY <1>1, <1>2, <1>3, <1>4, <1>5

LEMMA RootIs == ASSUME root \in Roots PROVE RootFits
  <1>1. PICK n \in 1 .. MaxSectors : root \in [1 .. n -> Layouts]
    BY DEF Roots
  <1>2. MaxSectors \in Nat
    BY IsoFsAssumption
  <1>3. ASSUME NEW s \in 1 .. n
        PROVE /\ root[s] \in Seq(Nat) /\ Len(root[s]) \in 1 .. SECTOR_SIZE
              /\ \A j \in 1 .. Len(root[s]) : root[s][j] \in 1 .. SECTOR_SIZE - 1 /\ root[s][j] <= Record
              /\ SumTo(root[s], Len(root[s])) <= SECTOR_SIZE
    <2>1. root[s] \in Layouts
      BY <1>1
    <2>2. QED
      BY <2>1, LayoutIs
  <1>4. root \in [1 .. n -> Seq(Nat)]
    BY <1>1, <1>3
  <1>5. root \in Seq(Seq(Nat)) /\ Len(root) = n
    BY <1>1, <1>2, <1>4
  <1>6. QED
    BY <1>1, <1>2, <1>3, <1>5 DEF RootFits

\* The root that files are opened from is one of those that are searched.
LEMMA FilesRootIs == FilesRoot \in Roots
  <1> DEFINE q == <<1, 1, 1>>
             r == <<1, 1>>
  <1>1. 1 \in Lengths /\ SECTOR_SIZE >= 3 /\ MaxSectors \in Nat /\ MaxSectors >= 2
    BY IsoFsAssumption
  <1>2. q \in Seq(Nat) /\ Len(q) = 3 /\ r \in Seq(Nat) /\ Len(r) = 2
    OBVIOUS
  <1>3. q[1] = 1 /\ q[2] = 1 /\ q[3] = 1 /\ r[1] = 1 /\ r[2] = 1
    OBVIOUS
  <1>4. q \in [1 .. 3 -> Lengths] /\ r \in [1 .. 2 -> Lengths]
    BY <1>1
  <1>5. q # <<>> /\ r # <<>>
    BY <1>2, EmptySeq
  <1> HIDE DEF q, r
  <1>6. SumTo(q, 3) = 3
    <2>1. /\ SumTo(q, 1) = SumTo(q, 1 - 1) + q[1] /\ SumTo(q, 2) = SumTo(q, 2 - 1) + q[2]
          /\ SumTo(q, 3) = SumTo(q, 3 - 1) + q[3] /\ SumTo(q, 0) = 0
      <3>1. 1 \in 1 .. Len(q) /\ 2 \in 1 .. Len(q) /\ 3 \in 1 .. Len(q)
        BY <1>2
      <3>2. QED
        BY <1>2, <3>1, SumToIs
    <2>2. 1 - 1 = 0 /\ 2 - 1 = 1 /\ 3 - 1 = 2
      OBVIOUS
    <2>3. QED
      BY <1>3, <2>1, <2>2
  <1>7. SumTo(r, 2) = 2
    <2>1. /\ SumTo(r, 1) = SumTo(r, 1 - 1) + r[1] /\ SumTo(r, 2) = SumTo(r, 2 - 1) + r[2]
          /\ SumTo(r, 0) = 0
      <3>1. 1 \in 1 .. Len(r) /\ 2 \in 1 .. Len(r)
        BY <1>2
      <3>2. QED
        BY <1>2, <3>1, SumToIs
    <2>2. 1 - 1 = 0 /\ 2 - 1 = 1
      OBVIOUS
    <2>3. QED
      BY <1>3, <2>1, <2>2
  <1>8. q \in Layouts /\ r \in Layouts
    <2>1. q \in BoundedSeq(Lengths, SECTOR_SIZE) /\ r \in BoundedSeq(Lengths, SECTOR_SIZE)
      <3>1. 3 \in 0 .. SECTOR_SIZE /\ 2 \in 0 .. SECTOR_SIZE
        BY <1>1
      <3>2. QED
        BY <1>4, <3>1 DEF BoundedSeq, SeqOf
    <2>2. Sum(q) <= SECTOR_SIZE /\ Sum(r) <= SECTOR_SIZE
      BY <1>1, <1>2, <1>6, <1>7 DEF Sum
    <2>3. QED
      BY <1>5, <2>1, <2>2 DEF Layouts
  <1>9. FilesRoot = <<q, r>>
    BY DEF FilesRoot, SubRecords, q, r
  <1>10. <<q, r>> \in [1 .. 2 -> Layouts] /\ <<q, r>>[1] = q
    BY <1>8
  <1>11. 2 \in 1 .. MaxSectors
    BY <1>1
  <1>12. <<q, r>> \in UNION {[1 .. n -> Layouts] : n \in 1 .. MaxSectors}
    BY <1>10, <1>11
  <1>13. Len(<<q, r>>[1]) >= 3
    <2>1. Len(q) >= 3
      BY <1>2
    <2>2. QED
      BY <1>10, <2>1
  <1>14. QED
    BY <1>9, <1>12, <1>13 DEF Roots

LEMMA SumsOfRoot ==
  ASSUME RootFits, NEW s \in 1 .. Len(root)
  PROVE  /\ SumTo(root[s], 0) = 0
         /\ \A j \in 0 .. Len(root[s]) : SumTo(root[s], j) \in 0 .. SECTOR_SIZE
         /\ \A j \in 1 .. Len(root[s]) :
              /\ SumTo(root[s], j) = SumTo(root[s], j - 1) + root[s][j]
              /\ SumTo(root[s], j - 1) < SECTOR_SIZE
         /\ \A i \in 1 .. Len(root[s]) : \A j \in i .. Len(root[s]) :
              SumTo(root[s], i - 1) < SumTo(root[s], j)
  <1>1. PICK q : q = root[s]
    OBVIOUS
  <1>2. PICK l \in Nat : l = Len(q) /\ l >= 1
    BY <1>1 DEF RootFits
  <1>3. /\ q \in Seq(Nat) /\ \A j \in 1 .. Len(q) : q[j] \in Nat /\ q[j] >= 1
        /\ SumTo(q, l) <= SECTOR_SIZE
    BY <1>1, <1>2 DEF RootFits
  <1>4. /\ SumTo(q, 0) = 0 /\ \A k \in 0 .. l : SumTo(q, k) \in Nat
        /\ \A k \in 1 .. l : SumTo(q, k) = SumTo(q, k - 1) + q[k]
    BY <1>2, <1>3, SumToIs
  <1>5. ASSUME NEW i \in 1 .. l, NEW j \in i .. l PROVE SumTo(q, i - 1) < SumTo(q, j)
    <2>1. SumTo(q, i - 1) + q[i] <= SumTo(q, j)
      BY <1>2, <1>3, SumGrows
    <2>2. i - 1 \in 0 .. l /\ j \in 0 .. l
      OBVIOUS
    <2>3. SumTo(q, i - 1) \in Nat /\ SumTo(q, j) \in Nat /\ q[i] \in Nat /\ q[i] >= 1
      BY <1>2, <1>3, <1>4, <2>2
    <2>4. QED
      BY <2>1, <2>3
  <1>6. ASSUME NEW j \in 0 .. l PROVE SumTo(q, j) \in 0 .. SECTOR_SIZE
    <2>1. CASE j = l
      BY <1>3, <1>4, <2>1
    <2>2. CASE j < l
      <3>1. PICK i \in 1 .. l : i = j + 1 /\ i - 1 = j
        BY <2>2
      <3>2. SumTo(q, j) < SumTo(q, l)
        BY <1>5, <3>1
      <3>3. SumTo(q, j) \in Nat /\ SumTo(q, l) \in Nat
        BY <1>4
      <3>4. QED
        BY <1>3, <3>2, <3>3
    <2>3. QED
      BY <2>1, <2>2
  <1>7. ASSUME NEW j \in 1 .. l PROVE SumTo(q, j - 1) < SECTOR_SIZE
    <2>1. SumTo(q, j - 1) < SumTo(q, l)
      BY <1>5
    <2>2. j - 1 \in 0 .. l /\ l \in 0 .. l
      OBVIOUS
    <2>3. SumTo(q, j - 1) \in Nat /\ SumTo(q, l) \in Nat
      BY <1>4, <2>2
    <2>4. QED
      BY <1>3, <2>1, <2>3
  <1>8. QED
    BY <1>1, <1>2, <1>4, <1>5, <1>6, <1>7

\* The records of the sectors before, in numbers.
LEMMA BeforeIs ==
  ASSUME RootFits
  PROVE  /\ Before(1) = 0
         /\ \A s \in 1 .. Len(root) : Before(s + 1) = Before(s) + Len(root[s])
         /\ \A s \in 1 .. Len(root) + 1 : Before(s) \in Nat
         /\ \A s \in 1 .. Len(root) : \A j \in 1 .. Len(root[s]) :
              s # Len(root) \/ j # Len(root[s]) => Before(s) + j < Before(Len(root) + 1)
  <1> DEFINE lens == [i \in 1 .. Len(root) |-> Len(root[i])]
  <1>1. PICK m \in Nat : m = Len(root) /\ m >= 1
    BY DEF RootFits
  <1>2. \A i \in 1 .. m : Len(root[i]) \in Nat /\ Len(root[i]) >= 1
    BY <1>1 DEF RootFits
  <1>3. lens \in Seq(Nat) /\ Len(lens) = m
    <2>1. lens \in [1 .. m -> Nat]
      BY <1>1, <1>2
    <2>2. QED
      BY <1>1, <2>1
  <1>4. \A i \in 1 .. m : lens[i] = Len(root[i]) /\ lens[i] \in Nat /\ lens[i] >= 1
    BY <1>1, <1>2
  <1>5. \A k : Before(k) = SumTo(lens, k - 1)
    BY DEF Before
  <1> HIDE DEF lens
  <1>6. /\ SumTo(lens, 0) = 0 /\ \A k \in 0 .. m : SumTo(lens, k) \in Nat
        /\ \A k \in 1 .. m : SumTo(lens, k) = SumTo(lens, k - 1) + lens[k]
    BY <1>3, SumToIs
  <1>7. Before(1) = 0
    <2>1. 1 - 1 = 0
      OBVIOUS
    <2>2. QED
      BY <1>5, <1>6, <2>1
  <1>8. ASSUME NEW s \in 1 .. m PROVE Before(s + 1) = Before(s) + Len(root[s])
    <2>1. (s + 1) - 1 = s
      OBVIOUS
    <2>2. QED
      BY <1>4, <1>5, <1>6, <2>1
  <1>9. ASSUME NEW s \in 1 .. m + 1 PROVE Before(s) \in Nat
    <2>1. s - 1 \in 0 .. m
      OBVIOUS
    <2>2. QED
      BY <1>5, <1>6, <2>1
  <1>10. ASSUME NEW s \in 1 .. m, NEW j \in 1 .. Len(root[s]), s # m \/ j # Len(root[s])
         PROVE  Before(s) + j < Before(m + 1)
    <2>1. PICK b \in Nat, e \in Nat, n \in Nat :
            b = Before(s) /\ e = Before(m + 1) /\ n = Len(root[s]) /\ j \in 1 .. n
      <3>1. s \in 1 .. m + 1 /\ m + 1 \in 1 .. m + 1
        OBVIOUS
      <3>2. Before(s) \in Nat /\ Before(m + 1) \in Nat /\ Len(root[s]) \in Nat
        BY <1>2, <1>9, <3>1
      <3>3. QED
        BY <3>2
    <2>2. CASE s = m
      BY <1>8, <1>10, <2>1, <2>2
    <2>3. CASE s # m
      <3>1. PICK t \in 1 .. m : t = s + 1 /\ t - 1 = s
        BY <2>3
      <3>2. SumTo(lens, t - 1) + lens[t] <= SumTo(lens, m)
        <4>1. t \in 1 .. Len(lens) /\ m \in t .. Len(lens)
          BY <1>3
        <4>2. QED
          BY <1>3, <1>4, <4>1, SumGrows
      <3>3. Before(t) = SumTo(lens, t - 1) /\ e = SumTo(lens, m)
        <4>1. (m + 1) - 1 = m
          OBVIOUS
        <4>2. QED
          BY <1>5, <2>1, <4>1
      <3>4. Before(t) = b + n
        BY <1>8, <2>1, <3>1
      <3>5. lens[t] \in Nat /\ lens[t] >= 1
        BY <1>4
      <3>6. b + n + lens[t] <= e
        BY <3>2, <3>3, <3>4
      <3>7. QED
        BY <2>1, <3>5, <3>6
    <2>4. QED
      BY <2>2, <2>3
  <1>11. QED
    BY <1>1, <1>7, <1>8, <1>9, <1>10

LEMMA NamesFew == ASSUME RootFits PROVE Before(Len(root) + 1) < Turns
  <1>1. PICK m \in Nat, x \in Nat : m = Len(root) /\ x = MaxSectors /\ m <= x
    BY IsoFsAssumption DEF RootFits
  <1> DEFINE S == {k \in Nat : k <= m => Before(k + 1) <= k * SECTOR_SIZE}
  <1>2. 0 \in S
    <2>1. 0 + 1 = 1 /\ 0 * SECTOR_SIZE = 0
      OBVIOUS
    <2>2. QED
      BY <2>1, BeforeIs
  <1>3. ASSUME NEW k \in 0 .. m - 1, k \in S PROVE k + 1 \in S
    <2>1. PICK s \in 1 .. m : s = k + 1
      OBVIOUS
    <2>2. Before(s + 1) = Before(s) + Len(root[s]) /\ Before(s) \in Nat
      <3>1. s \in 1 .. Len(root) + 1 /\ s \in 1 .. Len(root)
        BY <1>1
      <3>2. QED
        BY <3>1, BeforeIs
    <2>3. Len(root[s]) \in 1 .. SECTOR_SIZE
      BY <1>1 DEF RootFits
    <2>4. Before(s) <= k * SECTOR_SIZE
      BY <1>3, <2>1
    <2>5. PICK ks \in Nat : ks = k * SECTOR_SIZE /\ s * SECTOR_SIZE = ks + SECTOR_SIZE
      BY <2>1, Distributes
    <2>6. Before(s + 1) <= s * SECTOR_SIZE
      BY <2>2, <2>3, <2>4, <2>5
    <2>7. QED
      BY <2>1, <2>6
  <1>4. m \in S
    <2> HIDE DEF S
    <2>1. m \in 0 .. m
      OBVIOUS
    <2>2. QED
      BY <1>2, <1>3, <2>1, Upwards
  <1>5. PICK b \in Nat : b = Before(m + 1)
    BY <1>1, BeforeIs
  <1>6. PICK ms \in Nat : ms = m * SECTOR_SIZE /\ b <= ms
    BY <1>4, <1>5, Distributes
  <1>7. PICK xs \in Nat : xs = x * SECTOR_SIZE /\ (x + 1) * SECTOR_SIZE = xs + SECTOR_SIZE
    BY Distributes
  <1>8. ms <= xs
    <2>1. CASE m = x
      BY <1>6, <1>7, <2>1
    <2>2. CASE m < x
      <3>1. ms + SECTOR_SIZE <= xs
        BY <1>6, <1>7, <2>2, TimesMonotone
      <3>2. QED
        BY <3>1
    <2>3. QED
      BY <1>1, <2>1, <2>2
  <1>9. Turns = xs + SECTOR_SIZE + 2
    <2>1. SECTOR_SIZE * (x + 1) = (x + 1) * SECTOR_SIZE
      OBVIOUS
    <2>2. QED
      BY <1>1, <1>7, <2>1 DEF Turns
  <1>10. QED
    BY <1>1, <1>5, <1>6, <1>8, <1>9

\* A place in a sector, in sectors.
LEMMA Place ==
  ASSUME NEW s \in Nat, NEW off \in 0 .. SECTOR_SIZE - 1, NEW b \in Nat, b = s * SECTOR_SIZE + off
  PROVE  b \div SECTOR_SIZE = s /\ b % SECTOR_SIZE = off
  <1>1. PICK q \in Nat, r \in 0 .. SECTOR_SIZE - 1 :
          q = b \div SECTOR_SIZE /\ r = b % SECTOR_SIZE /\ b = q * SECTOR_SIZE + r
    BY DivIs
  <1>2. PICK ss \in Nat, qs \in Nat : ss = s * SECTOR_SIZE /\ qs = q * SECTOR_SIZE
    BY Distributes
  <1>3. ~(q < s)
    <2>1. q < s => qs + SECTOR_SIZE <= ss
      BY <1>2, TimesMonotone
    <2>2. QED
      BY <1>1, <1>2, <2>1
  <1>4. ~(s < q)
    <2>1. s < q => ss + SECTOR_SIZE <= qs
      BY <1>2, TimesMonotone
    <2>2. QED
      BY <1>1, <1>2, <2>1
  <1>5. q = s
    BY <1>3, <1>4
  <1>6. QED
    BY <1>1, <1>2, <1>5

\* A record of the root, and the rest of a sector.
RecordOf(s, j) == [len |-> root[s][j], name |-> Before(s) + j]

LEMMA RecordThere ==
  ASSUME RootFits, NEW s \in 1 .. Len(root), NEW j \in 1 .. Len(root[s]),
         NEW b \in Nat, b = s * SECTOR_SIZE + SumTo(root[s], j - 1)
  PROVE  RecordAt(b) = RecordOf(s, j)
  <1>1. PICK q \in Seq(Nat), l \in Nat : q = root[s] /\ l = Len(q) /\ j \in 1 .. l
    <2>1. root[s] \in Seq(Nat) /\ Len(root[s]) \in 1 .. SECTOR_SIZE
      BY DEF RootFits
    <2>2. QED
      BY <2>1
  <1>2. PICK off \in 0 .. SECTOR_SIZE - 1 : off = SumTo(q, j - 1) /\ b = s * SECTOR_SIZE + off
    <2>1. j - 1 \in 0 .. Len(root[s])
      BY <1>1
    <2>2. SumTo(q, j - 1) \in 0 .. SECTOR_SIZE /\ SumTo(q, j - 1) < SECTOR_SIZE
      BY <1>1, <2>1, SumsOfRoot
    <2>3. QED
      BY <1>1, <2>2
  <1>3. s \in Nat /\ b \div SECTOR_SIZE = s /\ b % SECTOR_SIZE = off
    <2>1. s \in Nat
      BY DEF RootFits
    <2>2. off \in 0 .. SECTOR_SIZE - 1 /\ b = s * SECTOR_SIZE + off
      BY <1>2
    <2>3. b \div SECTOR_SIZE = s /\ b % SECTOR_SIZE = off
      <3> HIDE <1>2
      <3>1. QED
        BY <2>1, <2>2, Place
    <2>4. QED
      BY <2>1, <2>3
  <1> DEFINE js == {i \in DOMAIN q : Start(q, i) = b % SECTOR_SIZE}
  <1>4. DOMAIN q = 1 .. l
    BY <1>1 DEF RootFits
  <1>5. ASSUME NEW i \in 1 .. l, SumTo(q, i - 1) = off PROVE i = j
    <2>1. ASSUME NEW x \in 1 .. l, NEW y \in 1 .. l, x < y
          PROVE  SumTo(q, x - 1) < SumTo(q, y - 1) /\ SumTo(q, x - 1) \in Nat /\ SumTo(q, y - 1) \in Nat
      <3>1. y - 1 \in x .. l /\ y - 1 \in 0 .. l /\ x - 1 \in 0 .. l
        BY <2>1
      <3>2. SumTo(q, x - 1) < SumTo(q, y - 1)
        BY <1>1, <3>1, SumsOfRoot
      <3>3. SumTo(q, x - 1) \in 0 .. SECTOR_SIZE /\ SumTo(q, y - 1) \in 0 .. SECTOR_SIZE
        <4>1. x - 1 \in 0 .. Len(root[s]) /\ y - 1 \in 0 .. Len(root[s])
          BY <1>1, <3>1
        <4>2. QED
          BY <1>1, <4>1, SumsOfRoot
      <3>4. QED
        BY <3>2, <3>3
    <2>2. ~(i < j) /\ ~(j < i)
      <3>1. j \in 1 .. l /\ SumTo(q, j - 1) = off /\ off \in Nat
        BY <1>1, <1>2
      <3>2. CASE i < j
        <4>1. SumTo(q, i - 1) < SumTo(q, j - 1) /\ SumTo(q, j - 1) \in Nat
          BY <2>1, <3>1, <3>2
        <4>2. QED
          BY <1>5, <3>1, <4>1
      <3>3. CASE j < i
        <4>1. SumTo(q, j - 1) < SumTo(q, i - 1) /\ SumTo(q, j - 1) \in Nat
          BY <2>1, <3>1, <3>3
        <4>2. QED
          BY <1>5, <3>1, <4>1
      <3>4. QED
        BY <3>2, <3>3
    <2>3. QED
      BY <1>1, <2>2
  <1>6. js = {j}
    BY <1>1, <1>2, <1>3, <1>4, <1>5 DEF Start
  <1>7. s \in RootLba .. RootLba + Len(root) - 1 /\ s - RootLba + 1 = s
    BY <1>3 DEF RootLba, RootFits
  <1>8. PICK i : i = CHOOSE k \in js : TRUE
    OBVIOUS
  <1>9. i = j
    BY <1>6, <1>8
  <1>10. RecordAt(b) = [len |-> q[i], name |-> Before(s) + i]
    <2>1. js # {}
      BY <1>6
    <2> HIDE DEF js
    <2>2. QED
      BY <1>1, <1>3, <1>7, <1>8, <2>1 DEF RecordAt, js
  <1>11. QED
    BY <1>1, <1>9, <1>10 DEF RecordOf

LEMMA ZeroThere ==
  ASSUME RootFits, NEW s \in 1 .. Len(root), SumTo(root[s], Len(root[s])) < SECTOR_SIZE,
         NEW b \in Nat, b = s * SECTOR_SIZE + SumTo(root[s], Len(root[s]))
  PROVE  RecordAt(b) = Zero
  <1>1. PICK q \in Seq(Nat), l \in Nat : q = root[s] /\ l = Len(q)
    BY DEF RootFits
  <1>2. PICK off \in 0 .. SECTOR_SIZE - 1 : off = SumTo(q, l) /\ b = s * SECTOR_SIZE + off
    <2>1. l \in 0 .. Len(root[s])
      BY <1>1
    <2>2. SumTo(q, l) \in 0 .. SECTOR_SIZE
      BY <1>1, <2>1, SumsOfRoot
    <2>3. QED
      BY <1>1, <2>2
  <1>3. s \in Nat /\ b \div SECTOR_SIZE = s /\ b % SECTOR_SIZE = off
    <2>1. s \in Nat
      BY DEF RootFits
    <2>2. QED
      BY <1>2, <2>1, Place
  <1> DEFINE js == {i \in DOMAIN q : Start(q, i) = b % SECTOR_SIZE}
  <1>4. DOMAIN q = 1 .. l
    BY <1>1 DEF RootFits
  <1>5. ASSUME NEW i \in 1 .. l PROVE SumTo(q, i - 1) # off
    <2>1. l \in i .. l
      OBVIOUS
    <2>2. SumTo(q, i - 1) < off
      BY <1>1, <1>2, <2>1, SumsOfRoot
    <2>3. i - 1 \in 0 .. l
      OBVIOUS
    <2>4. SumTo(q, i - 1) \in Nat
      BY <1>1, <2>3, SumsOfRoot
    <2>5. QED
      BY <2>2, <2>4
  <1>6. js = {}
    BY <1>3, <1>4, <1>5 DEF Start
  <1>7. s \in RootLba .. RootLba + Len(root) - 1 /\ s - RootLba + 1 = s
    BY <1>3 DEF RootLba, RootFits
  <1> HIDE DEF js
  <1>8. QED
    BY <1>1, <1>3, <1>6, <1>7 DEF RecordAt, js

-----------------------------------------------------------------------------
(* One turn of the search of the root *)

States == [pos : Nat, lba : Nat, n : Nat, remaining : Int, oldDirLen : Nat,
           res : {"searching", "found", "ENOENT"}]

\* The buffer has the record that p points to, if it is one of the root, and as long
\* as sectors remain, also the ones that begin in the next Record bytes.
Covers(st) ==
  /\ st.lba >= 1 /\ st.lba * SECTOR_SIZE <= st.pos
  /\ \/ st.remaining <= 0 /\ st.lba + st.n > Len(root)
     \/ /\ st.remaining > 0 /\ st.n = Window
        /\ st.lba + Window + st.remaining = Len(root) + 1
        /\ st.pos - st.lba * SECTOR_SIZE + Record < Window * SECTOR_SIZE
  /\ Len(root) <= Window => st.lba + st.n = Len(root) + 1 /\ st.remaining <= 0

\* The last record was number j of a sector; p is behind it.
Behind(st, s, j) ==
  /\ st.pos = s * SECTOR_SIZE + SumTo(root[s], j)
  /\ j > 0 => st.oldDirLen = root[s][j]

LEMMA WindowIs == Window \in Nat /\ Window >= 2 /\ Record \in 1 .. SECTOR_SIZE
  BY IsoFsAssumption

LEMMA BufferHas ==
  ASSUME RootFits, NEW st \in States, Covers(st), NEW pos \in Nat,
         pos < (Len(root) + 1) * SECTOR_SIZE,
         st.remaining > 0 => pos - st.lba * SECTOR_SIZE < Window * SECTOR_SIZE
  PROVE  Buffered(st, pos) = RecordAt(pos)
  <1>1. PICK lba \in Nat, n \in Nat, m \in Nat : lba = st.lba /\ n = st.n /\ m = Len(root)
    BY DEF States, RootFits
  <1>2. PICK l \in Nat, ns \in Nat :
          l = lba * SECTOR_SIZE /\ ns = n * SECTOR_SIZE /\ (lba + n) * SECTOR_SIZE = l + ns
    BY Distributes
  <1>3. pos - l < ns
    <2>1. CASE st.remaining > 0
      <3>1. n = Window
        BY <1>1, <2>1 DEF Covers, States
      <3>2. QED
        BY <1>1, <1>2, <2>1, <3>1
    <2>2. CASE ~(st.remaining > 0)
      <3>1. lba + n >= m + 1
        BY <1>1, <2>2 DEF Covers, States
      <3>2. PICK e \in Nat : e = (m + 1) * SECTOR_SIZE
        BY Distributes
      <3>3. e <= l + ns
        <4>1. CASE lba + n = m + 1
          BY <1>2, <3>2, <4>1
        <4>2. CASE m + 1 < lba + n
          <5>1. e + SECTOR_SIZE <= l + ns
            BY <1>2, <3>2, <4>2, TimesMonotone
          <5>2. QED
            BY <5>1
        <4>3. QED
          BY <3>1, <4>1, <4>2
      <3>4. pos < e
        BY <1>1, <3>2
      <3>5. QED
        BY <3>3, <3>4
    <2>3. QED
      BY <2>1, <2>2
  <1>4. ~(pos - st.lba * SECTOR_SIZE >= st.n * SECTOR_SIZE)
    BY <1>1, <1>2, <1>3
  <1>5. QED
    BY <1>4 DEF Buffered

\* Behind a root that fits into the window there is nothing.
LEMMA BufferEnds ==
  ASSUME RootFits, NEW st \in States, Covers(st), Len(root) <= Window
  PROVE  Buffered(st, (Len(root) + 1) * SECTOR_SIZE) = Zero
  <1>1. PICK lba \in Nat, n \in Nat, m \in Nat : lba = st.lba /\ n = st.n /\ m = Len(root)
    BY DEF States, RootFits
  <1>2. PICK l \in Nat, ns \in Nat :
          l = lba * SECTOR_SIZE /\ ns = n * SECTOR_SIZE /\ (lba + n) * SECTOR_SIZE = l + ns
    BY Distributes
  <1>3. lba + n = m + 1
    BY <1>1 DEF Covers
  <1>4. PICK e \in Nat : e = (Len(root) + 1) * SECTOR_SIZE /\ e = l + ns
    BY <1>1, <1>2, <1>3
  <1>5. e - st.lba * SECTOR_SIZE >= st.n * SECTOR_SIZE
    <2>1. st.lba * SECTOR_SIZE = l /\ st.n * SECTOR_SIZE = ns
      BY <1>1, <1>2
    <2>2. e = l + ns
      BY <1>4
    <2>3. QED
      BY <2>1, <2>2
  <1>6. QED
    BY <1>4, <1>5 DEF Buffered

\* Where the sectors of the root are.
LEMMA SectorIn ==
  ASSUME RootFits, NEW s \in 1 .. Len(root)
  PROVE  \E ss \in Nat, e \in Nat :
           /\ ss = s * SECTOR_SIZE /\ e = (Len(root) + 1) * SECTOR_SIZE
           /\ (s + 1) * SECTOR_SIZE = ss + SECTOR_SIZE
           /\ ss + SECTOR_SIZE <= e
           /\ s < Len(root) => ss + SECTOR_SIZE < e
  <1>1. PICK m \in Nat, x \in Nat : m = Len(root) /\ x = s /\ x <= m
    BY DEF RootFits
  <1>2. PICK ss \in Nat, e \in Nat : ss = x * SECTOR_SIZE /\ e = (m + 1) * SECTOR_SIZE
    BY Distributes
  <1>3. ss + SECTOR_SIZE <= e
    <2>1. x < m + 1
      BY <1>1
    <2>2. QED
      BY <1>2, <2>1, TimesMonotone
  <1>4. (x + 1) * SECTOR_SIZE = ss + SECTOR_SIZE
    BY <1>2, Distributes
  <1>5. x < m => ss + SECTOR_SIZE < e
    <2>1. ASSUME x < m PROVE ss + SECTOR_SIZE + SECTOR_SIZE <= e
      <3>1. x + 1 < m + 1
        BY <2>1
      <3>2. (x + 1) * SECTOR_SIZE + SECTOR_SIZE <= (m + 1) * SECTOR_SIZE
        BY <3>1, TimesMonotone
      <3>3. QED
        BY <1>2, <1>4, <3>2
    <2>2. QED
      BY <2>1
  <1>6. QED
    BY <1>1, <1>2, <1>3, <1>4, <1>5

\* What a turn tests after record j of sector s, unless the root ends there or the
\* rest of the sector is longer than the record: the next record.
Tests(st, t, i, to) ==
  /\ to = t * SECTOR_SIZE + SumTo(root[t], i - 1)
  /\ SkipRest(st) = to /\ Buffered(st, to) = RecordOf(t, i)
  /\ to >= st.pos
  /\ st.remaining > 0 => to - st.lba * SECTOR_SIZE < Window * SECTOR_SIZE

LEMMA NextTested ==
  ASSUME RootFits, NEW st \in States, Covers(st),
         NEW s \in 1 .. Len(root), NEW j \in 0 .. Len(root[s]), Behind(st, s, j),
         j < Len(root[s]) \/ (s < Len(root) /\ Regular(s))
  PROVE  \E t \in 1 .. Len(root) : \E i \in 1 .. Len(root[t]) : \E to \in Nat :
           Before(t) + i = Before(s) + j + 1 /\ Tests(st, t, i, to)
  <1>1. PICK pos \in Nat, rem \in Int, old \in Nat :
          pos = st.pos /\ rem = st.remaining /\ old = st.oldDirLen
    BY DEF States
  <1>2. PICK n \in Nat : n = Len(root[s]) /\ n >= 1 /\ j \in 0 .. n
    BY DEF RootFits
  <1>3. PICK ss \in Nat, e \in Nat :
           /\ ss = s * SECTOR_SIZE /\ e = (Len(root) + 1) * SECTOR_SIZE
           /\ (s + 1) * SECTOR_SIZE = ss + SECTOR_SIZE
           /\ ss + SECTOR_SIZE <= e
           /\ s < Len(root) => ss + SECTOR_SIZE < e
    BY SectorIn
  <1>4. PICK sum \in 0 .. SECTOR_SIZE : sum = SumTo(root[s], j) /\ pos = ss + sum
    <2>1. SumTo(root[s], j) \in 0 .. SECTOR_SIZE
      BY SumsOfRoot
    <2>2. QED
      BY <1>1, <1>3, <2>1 DEF Behind
  <1>5. PICK l \in Nat, w \in Nat : l = st.lba * SECTOR_SIZE /\ w = Window * SECTOR_SIZE
    <2>1. st.lba \in Nat /\ Window \in Nat
      BY WindowIs DEF States
    <2>2. QED
      BY <2>1, Distributes
  <1>6. rem > 0 => pos - l + Record < w
    BY <1>1, <1>5 DEF Covers
  <1>7. Record \in Nat /\ Record >= 1
    BY WindowIs
  <1>8. rem > 0 => pos - l < w
    BY <1>5, <1>6, <1>7
  <1>9. ASSUME NEW to \in Nat, to < e, rem > 0 => to - l < w
        PROVE  Buffered(st, to) = RecordAt(to)
    <2>1. to < (Len(root) + 1) * SECTOR_SIZE
      BY <1>3, <1>9
    <2>2. st.remaining > 0 => to - st.lba * SECTOR_SIZE < Window * SECTOR_SIZE
      BY <1>1, <1>5, <1>9
    <2>3. QED
      BY <2>1, <2>2, BufferHas
  <1>10. ASSUME NEW t \in 1 .. Len(root), NEW i \in 1 .. Len(root[t]), Buffered(st, pos) = RecordOf(t, i)
         PROVE  SkipRest(st) = pos
    <2>1. root[t][i] >= 1 /\ root[t][i] \in Nat
      <3>1. root[t][i] \in 1 .. SECTOR_SIZE - 1
        BY DEF RootFits
      <3>2. QED
        BY <3>1
    <2>2. Buffered(st, pos).len # 0
      BY <1>10, <2>1 DEF RecordOf
    <2>3. QED
      BY <1>1, <2>2 DEF SkipRest
  <1>11. CASE j < n
    <2>1. PICK i \in 1 .. n : i = j + 1 /\ i - 1 = j
      BY <1>2, <1>11
    <2>2. sum < SECTOR_SIZE
      <3>1. SumTo(root[s], i - 1) < SECTOR_SIZE
        BY <1>2, <2>1, SumsOfRoot
      <3>2. QED
        BY <1>4, <2>1, <3>1
    <2>3. pos < e
      BY <1>3, <1>4, <2>2
    <2>4. pos = s * SECTOR_SIZE + SumTo(root[s], i - 1)
      BY <1>3, <1>4, <2>1
    <2>5. Buffered(st, pos) = RecordOf(s, i)
      <3>1. RecordAt(pos) = RecordOf(s, i)
        BY <1>2, <2>4, RecordThere
      <3>2. QED
        BY <1>8, <1>9, <2>3, <3>1
    <2>6. SkipRest(st) = pos
      BY <1>2, <1>10, <2>5
    <2>7. Tests(st, s, i, pos)
      BY <1>1, <1>5, <1>8, <2>4, <2>5, <2>6 DEF Tests
    <2>8. Before(s) + i = Before(s) + j + 1
      <3>1. Before(s) \in Nat
        <4>1. s \in 1 .. Len(root) + 1
          BY DEF RootFits
        <4>2. QED
          BY <4>1, BeforeIs
      <3>2. QED
        BY <2>1, <3>1
    <2>9. QED
      BY <1>2, <2>7, <2>8
  <1>12. CASE j = n
    <2>1. s < Len(root) /\ Regular(s)
      BY <1>2, <1>12
    <2>2. PICK t \in 1 .. Len(root) : t = s + 1
      <3>1. s + 1 \in 1 .. Len(root)
        BY <2>1 DEF RootFits
      <3>2. QED
        BY <3>1
    <2>3. PICK to \in Nat : to = ss + SECTOR_SIZE
      OBVIOUS
    <2>4. 1 \in 1 .. Len(root[t]) /\ 1 - 1 = 0 /\ SumTo(root[t], 0) = 0
      <3>1. Len(root[t]) \in Nat /\ Len(root[t]) >= 1
        BY DEF RootFits
      <3>2. QED
        BY <3>1, SumsOfRoot
    <2>5. to = t * SECTOR_SIZE + SumTo(root[t], 1 - 1)
      BY <1>3, <2>2, <2>3, <2>4
    <2>6. RecordAt(to) = RecordOf(t, 1)
      BY <2>4, <2>5, RecordThere
    <2>7. to < e
      BY <1>3, <2>1, <2>3
    <2>8. old = root[s][n] /\ old <= Record /\ old < SECTOR_SIZE /\ SECTOR_SIZE - sum <= old
      <3>1. old = root[s][n]
        BY <1>1, <1>2, <1>12 DEF Behind
      <3>2. n \in 1 .. Len(root[s])
        BY <1>2
      <3>3. root[s][n] <= Record /\ root[s][n] \in 1 .. SECTOR_SIZE - 1
        BY <3>2 DEF RootFits
      <3>4. SECTOR_SIZE - sum <= root[s][n]
        BY <1>2, <1>4, <1>12, <2>1 DEF Regular, Rest, Sum
      <3>5. QED
        BY <3>1, <3>3, <3>4
    <2>9. rem > 0 => to - l < w
      <3>1. l \in Nat /\ w \in Nat /\ pos = ss + sum /\ old <= Record /\ SECTOR_SIZE - sum <= old
        BY <1>4, <2>8
      <3>2. to - l <= pos - l + Record
        BY <1>7, <2>3, <3>1
      <3>3. QED
        BY <1>6, <1>7, <3>1, <3>2
    <2>10. Buffered(st, to) = RecordOf(t, 1)
      BY <1>9, <2>6, <2>7, <2>9
    <2>11. to >= pos
      BY <1>4, <2>3
    <2>12. SkipRest(st) = to
      <3>1. CASE sum = SECTOR_SIZE
        <4>1. pos = to
          BY <1>4, <2>3, <3>1
        <4>2. QED
          BY <1>10, <2>4, <2>10, <4>1
      <3>2. CASE sum # SECTOR_SIZE
        <4>1. sum < SECTOR_SIZE
          BY <3>2
        <4>2. RecordAt(pos) = Zero
          <5>1. SumTo(root[s], Len(root[s])) < SECTOR_SIZE
            BY <1>2, <1>4, <1>12, <4>1
          <5>2. pos = s * SECTOR_SIZE + SumTo(root[s], Len(root[s]))
            BY <1>2, <1>3, <1>4, <1>12
          <5>3. QED
            BY <5>1, <5>2, ZeroThere
        <4>3. pos < e
          BY <1>3, <1>4, <4>1
        <4>4. Buffered(st, pos) = Zero
          BY <1>8, <1>9, <4>2, <4>3
        <4>5. pos % SECTOR_SIZE = sum
          <5>1. s \in Nat /\ sum \in 0 .. SECTOR_SIZE - 1 /\ pos = s * SECTOR_SIZE + sum
            BY <1>3, <1>4, <4>1 DEF RootFits
          <5>2. QED
            BY <5>1, Place
        <4>6. Buffered(st, st.pos).len = 0
          BY <1>1, <4>4 DEF Zero
        <4>7. SECTOR_SIZE - (st.pos % SECTOR_SIZE) = SECTOR_SIZE - sum /\ SECTOR_SIZE - sum <= st.oldDirLen
          BY <1>1, <2>8, <4>5
        <4>8. SkipRest(st) = st.pos + (SECTOR_SIZE - sum)
          BY <4>6, <4>7 DEF SkipRest
        <4>9. pos + (SECTOR_SIZE - sum) = to
          <5>1. pos = ss + sum
            BY <1>4
          <5>2. QED
            BY <2>3, <5>1
        <4>10. QED
          BY <1>1, <4>8, <4>9
      <3>3. QED
        BY <3>1, <3>2
    <2>13. Tests(st, t, 1, to)
      BY <1>1, <1>5, <2>5, <2>9, <2>10, <2>11, <2>12 DEF Tests
    <2>14. Before(t) + 1 = Before(s) + j + 1
      <3>1. Before(s + 1) = Before(s) + Len(root[s])
        BY BeforeIs
      <3>2. QED
        BY <1>2, <1>12, <2>2, <3>1
    <2>15. QED
      BY <2>4, <2>13, <2>14
  <1>13. QED
    BY <1>2, <1>11, <1>12

LEMMA AdvanceIs ==
  ASSUME RootFits, NEW st \in States, Covers(st), NEW to \in Nat,
         NEW t \in 1 .. Len(root), NEW i \in 1 .. Len(root[t]), Tests(st, t, i, to)
  PROVE  /\ Advance(st, to, root[t][i]) \in States
         /\ Covers(Advance(st, to, root[t][i]))
         /\ Behind(Advance(st, to, root[t][i]), t, i)
         /\ Advance(st, to, root[t][i]).res = st.res
  <1>1. PICK pos \in Nat, rem \in Int, lba \in Nat, n \in Nat, m \in Nat :
          pos = st.pos /\ rem = st.remaining /\ lba = st.lba /\ n = st.n /\ m = Len(root)
    <2>1. st.pos \in Nat /\ st.remaining \in Int /\ st.lba \in Nat /\ st.n \in Nat
      BY DEF States
    <2>2. Len(root) \in Nat
      BY DEF RootFits
    <2>3. QED
      BY <2>1, <2>2
  <1>2. PICK len \in Nat : len = root[t][i] /\ len >= 1 /\ len <= Record
    <2>1. root[t][i] \in 1 .. SECTOR_SIZE - 1 /\ root[t][i] <= Record
      BY DEF RootFits
    <2>2. QED
      BY <2>1
  <1>3. PICK l \in Nat, w \in Nat, v \in Nat :
          /\ l = lba * SECTOR_SIZE /\ w = Window * SECTOR_SIZE
          /\ v = (Window - 1) * SECTOR_SIZE /\ w = v + SECTOR_SIZE
    <2>1. Window - 1 \in Nat /\ Window = (Window - 1) + 1 /\ Window \in Nat
      BY WindowIs
    <2>2. ((Window - 1) + 1) * SECTOR_SIZE = (Window - 1) * SECTOR_SIZE + SECTOR_SIZE
      BY <2>1, Distributes
    <2>3. QED
      BY <2>1, <2>2, Distributes
  <1>4. Record \in 1 .. SECTOR_SIZE /\ SECTOR_SIZE <= v
    <2>1. Window - 1 \in Int /\ 0 < Window - 1 /\ Record \in 1 .. SECTOR_SIZE
      BY WindowIs
    <2>2. 0 * SECTOR_SIZE + SECTOR_SIZE <= (Window - 1) * SECTOR_SIZE
      BY <2>1, TimesMonotone
    <2>3. 0 * SECTOR_SIZE = 0
      OBVIOUS
    <2>4. QED
      BY <1>3, <2>1, <2>2, <2>3
  <1>5. /\ lba >= 1 /\ l <= pos
        /\ \/ rem <= 0 /\ lba + n > m
           \/ rem > 0 /\ n = Window /\ lba + Window + rem = m + 1 /\ pos - l + Record < w
        /\ m <= Window => lba + n = m + 1 /\ rem <= 0
    BY <1>1, <1>3 DEF Covers
  <1>6. pos <= to /\ (rem > 0 => to - l < w)
    BY <1>1, <1>3 DEF Tests
  <1>7. PICK p \in Nat : p = to + len /\ p = t * SECTOR_SIZE + SumTo(root[t], i)
    <2>1. SumTo(root[t], i) = SumTo(root[t], i - 1) + root[t][i]
      BY SumsOfRoot
    <2>2. PICK ts \in Nat : ts = t * SECTOR_SIZE
      BY SectorIn
    <2>3. PICK x \in Nat, y \in Nat : x = SumTo(root[t], i - 1) /\ y = SumTo(root[t], i)
      <3>1. Len(root[t]) \in Nat
        BY DEF RootFits
      <3>2. i - 1 \in 0 .. Len(root[t]) /\ i \in 0 .. Len(root[t])
        BY <3>1
      <3>3. SumTo(root[t], i - 1) \in 0 .. SECTOR_SIZE /\ SumTo(root[t], i) \in 0 .. SECTOR_SIZE
        BY <3>2, SumsOfRoot
      <3>4. QED
        BY <3>3
    <2>4. to = ts + x /\ y = x + len
      BY <1>2, <2>1, <2>2, <2>3 DEF Tests
    <2>5. to + len = ts + y
      BY <2>4
    <2>6. QED
      BY <2>2, <2>3, <2>5
  <1>8. PICK offset \in Nat : offset = p - l /\ offset = to + len - st.lba * SECTOR_SIZE
    <2>1. st.lba * SECTOR_SIZE = l
      BY <1>1, <1>3
    <2>2. p - l \in Nat
      BY <1>5, <1>6, <1>7
    <2>3. to + len - st.lba * SECTOR_SIZE = p - l
      BY <1>7, <2>1
    <2>4. QED
      BY <2>2, <2>3
  <1> DEFINE moved == rem > 0 /\ offset + Record >= w
             a == Advance(st, to, len)
  <1>9. a = [st EXCEPT
               !.pos = p,
               !.oldDirLen = len,
               !.lba = IF moved THEN @ + offset \div SECTOR_SIZE ELSE @,
               !.n = IF moved THEN Window ELSE @,
               !.remaining = IF ~moved THEN @
                             ELSE IF offset >= w THEN @ - Window ELSE @ - (Window - 1)]
    BY <1>1, <1>3, <1>7, <1>8 DEF Advance
  <1> HIDE DEF a
  <1>10. PICK d \in Nat, r \in 0 .. SECTOR_SIZE - 1, ds \in Nat :
           /\ d = offset \div SECTOR_SIZE /\ ds = d * SECTOR_SIZE /\ offset = ds + r
           /\ (lba + d) * SECTOR_SIZE = l + ds
    <2>1. PICK d \in Nat, r \in 0 .. SECTOR_SIZE - 1 :
             d = offset \div SECTOR_SIZE /\ offset = d * SECTOR_SIZE + r
      BY DivIs
    <2>2. PICK ds \in Nat : ds = d * SECTOR_SIZE /\ (lba + d) * SECTOR_SIZE = l + ds
      BY <1>3, Distributes
    <2>3. offset = ds + r
      BY <2>1, <2>2
    <2>4. QED
      BY <2>1, <2>2, <2>3
  <1>11. CASE ~moved
    <2>1. a = [st EXCEPT !.pos = p, !.oldDirLen = len]
      BY <1>9, <1>11 DEF States
    <2>2. a \in States /\ a.pos = p /\ a.oldDirLen = len /\ a.lba = lba /\ a.n = n
          /\ a.remaining = rem /\ a.res = st.res
      BY <1>1, <2>1 DEF States
    <2>3. l <= p
      BY <1>5, <1>6, <1>7
    <2>4. rem > 0 => p - l + Record < w
      BY <1>4, <1>8, <1>11
    <2>5. Covers(a)
      BY <1>1, <1>3, <1>5, <2>2, <2>3, <2>4 DEF Covers
    <2>6. QED
      BY <1>2, <1>7, <2>2, <2>5 DEF Behind, a
  <1>12. CASE moved
    <2>1. rem > 0 /\ offset + Record >= w /\ n = Window /\ lba + Window + rem = m + 1 /\ ~(m <= Window)
      BY <1>5, <1>12
    <2>2. offset < w + SECTOR_SIZE /\ offset >= v
      <3>1. to - l < w /\ offset = to + len - l /\ len <= Record
        BY <1>2, <1>6, <1>7, <1>8, <2>1
      <3>2. QED
        BY <1>3, <1>4, <2>1, <3>1
    <2>3. PICK rem2 \in Int : rem2 = IF offset >= w THEN rem - Window ELSE rem - (Window - 1)
      <3>1. rem - Window \in Int /\ rem - (Window - 1) \in Int
        BY WindowIs
      <3>2. QED
        BY <3>1
    <2>4. /\ a \in States /\ a.pos = p /\ a.oldDirLen = len /\ a.lba = lba + d /\ a.n = Window
          /\ a.remaining = rem2 /\ a.res = st.res
      <3>1. a = [st EXCEPT !.pos = p, !.oldDirLen = len, !.lba = lba + d, !.n = Window,
                           !.remaining = rem2]
        BY <1>1, <1>9, <1>10, <1>12, <2>3 DEF States
      <3>2. lba + d \in Nat /\ Window \in Nat
        BY WindowIs
      <3>3. QED
        BY <1>1, <3>1, <3>2 DEF States
    <2>5. d = IF offset >= w THEN Window ELSE Window - 1
      <3>1. CASE offset >= w
        <4>1. PICK x \in 0 .. SECTOR_SIZE - 1 : offset = Window * SECTOR_SIZE + x
          <5>1. offset - w \in 0 .. SECTOR_SIZE - 1 /\ offset = w + (offset - w)
            BY <2>2, <3>1
          <5>2. QED
            BY <1>3, <5>1
        <4>2. offset \div SECTOR_SIZE = Window
          BY <4>1, WindowIs, Place
        <4>3. QED
          BY <1>10, <3>1, <4>2
      <3>2. CASE ~(offset >= w)
        <4>1. PICK x \in 0 .. SECTOR_SIZE - 1 : offset = (Window - 1) * SECTOR_SIZE + x
          <5>1. offset - v \in 0 .. SECTOR_SIZE - 1 /\ offset = v + (offset - v)
            BY <1>3, <2>2, <3>2
          <5>2. QED
            BY <1>3, <5>1
        <4>2. Window - 1 \in Nat
          BY WindowIs
        <4>3. offset \div SECTOR_SIZE = Window - 1
          BY <4>1, <4>2, Place
        <4>4. QED
          BY <1>10, <3>2, <4>3
      <3>3. QED
        BY <3>1, <3>2
    <2>6. lba + d + rem2 = lba + rem
      BY <2>3, <2>5, WindowIs
    <2>7. p - (l + ds) = r /\ l + ds <= p /\ r + Record < w
      <3>1. p = l + offset /\ offset = ds + r
        <4>1. offset = p - l
          BY <1>8
        <4>2. p = l + offset
          BY <4>1
        <4>3. QED
          BY <1>10, <4>2
      <3>2. QED
        BY <1>3, <1>4, <3>1
    <2>8. lba + d + Window + rem2 = m + 1
      BY <2>1, <2>6, WindowIs
    <2>9. lba + d >= 1
      BY <1>5
    <2>10. a.lba * SECTOR_SIZE = l + ds
      BY <1>10, <2>4
    <2>11. a.pos - a.lba * SECTOR_SIZE + Record < Window * SECTOR_SIZE /\ a.lba * SECTOR_SIZE <= a.pos
      BY <1>3, <2>4, <2>7, <2>10
    <2>12. rem2 <= 0 => lba + d + Window > m
      BY <2>8, WindowIs
    <2>13. Covers(a)
      <3>1. a.lba >= 1 /\ a.n = Window /\ ~(Len(root) <= Window)
        BY <1>1, <2>1, <2>4, <2>9
      <3>2. CASE rem2 <= 0
        <4>1. a.remaining <= 0 /\ a.lba + a.n > Len(root)
          BY <1>1, <2>4, <2>12, <3>2
        <4>2. QED
          BY <2>11, <3>1, <4>1 DEF Covers
      <3>3. CASE ~(rem2 <= 0)
        <4>1. a.remaining > 0 /\ a.lba + Window + a.remaining = Len(root) + 1
          BY <1>1, <2>4, <2>8, <3>3
        <4>2. QED
          BY <2>11, <3>1, <4>1 DEF Covers
      <3>4. QED
        BY <3>2, <3>3
    <2>14. QED
      BY <1>2, <1>7, <2>4, <2>13 DEF Behind, a
  <1>13. QED
    BY <1>11, <1>12

\* After the last record of a sector that leaves more free than that record is long,
\* or of a root that fits into the window, the search ends.
LEMMA Stops ==
  ASSUME RootFits, NEW st \in States, Covers(st), st.res = "searching",
         NEW s \in 1 .. Len(root), Behind(st, s, Len(root[s])),
         ~Regular(s) \/ (s = Len(root) /\ Len(root) <= Window),
         NEW name
  PROVE  Search(st, name).res = "ENOENT"
  <1>1. PICK pos \in Nat, rem \in Int, old \in Nat :
          pos = st.pos /\ rem = st.remaining /\ old = st.oldDirLen
    BY DEF States
  <1>2. PICK n \in Nat : n = Len(root[s]) /\ n >= 1 /\ n \in 1 .. Len(root[s])
    <2>1. Len(root[s]) \in Nat /\ Len(root[s]) >= 1
      BY DEF RootFits
    <2>2. QED
      BY <2>1
  <1>3. PICK ss \in Nat, e \in Nat :
           /\ ss = s * SECTOR_SIZE /\ e = (Len(root) + 1) * SECTOR_SIZE
           /\ (s + 1) * SECTOR_SIZE = ss + SECTOR_SIZE
           /\ ss + SECTOR_SIZE <= e
    BY SectorIn
  <1>4. PICK sum \in 0 .. SECTOR_SIZE : sum = SumTo(root[s], n) /\ pos = ss + sum
    <2>1. n \in 0 .. Len(root[s])
      BY <1>2
    <2>2. SumTo(root[s], n) \in 0 .. SECTOR_SIZE
      BY <2>1, SumsOfRoot
    <2>3. QED
      BY <1>1, <1>2, <1>3, <2>2 DEF Behind
  <1>5. old = root[s][n] /\ old \in 1 .. SECTOR_SIZE - 1
    <2>1. root[s][n] \in 1 .. SECTOR_SIZE - 1
      BY <1>2 DEF RootFits
    <2>2. QED
      BY <1>1, <1>2, <2>1 DEF Behind
  <1>6. Regular(s) <=> SECTOR_SIZE - sum <= old
    BY <1>2, <1>4, <1>5 DEF Regular, Rest, Sum
  <1>7. ASSUME Buffered(st, SkipRest(st)) = Zero PROVE Search(st, name).res = "ENOENT"
    <2>1. Buffered(st, SkipRest(st)).len = 0
      BY <1>7 DEF Zero
    <2>2. Search(st, name) = [st EXCEPT !.res = "ENOENT"]
      BY <2>1 DEF Search
    <2>3. QED
      BY <2>2 DEF States
  <1>8. ASSUME Len(root) <= Window PROVE Buffered(st, e) = Zero
    BY <1>3, <1>8, BufferEnds
  <1>9. CASE sum = SECTOR_SIZE
    <2>1. s = Len(root) /\ Len(root) <= Window
      BY <1>5, <1>6, <1>9
    <2>2. pos = e
      BY <1>3, <1>4, <1>9, <2>1
    <2>3. Buffered(st, pos) = Zero
      BY <1>8, <2>1, <2>2
    <2>4. pos % SECTOR_SIZE = 0
      <3>1. Len(root) + 1 \in Nat /\ 0 \in 0 .. SECTOR_SIZE - 1 /\ e = (Len(root) + 1) * SECTOR_SIZE + 0
        BY <1>3 DEF RootFits
      <3>2. QED
        BY <2>2, <3>1, Place
    <2>5. SkipRest(st) = pos
      <3>1. ~(SECTOR_SIZE - (st.pos % SECTOR_SIZE) <= st.oldDirLen)
        <4>1. st.pos % SECTOR_SIZE = 0 /\ st.oldDirLen = old
          BY <1>1, <2>4
        <4>2. SECTOR_SIZE - 0 = SECTOR_SIZE /\ ~(SECTOR_SIZE <= old)
          BY <1>5
        <4>3. QED
          BY <4>1, <4>2
      <3>2. QED
        BY <1>1, <3>1 DEF SkipRest
    <2>6. QED
      BY <1>7, <2>3, <2>5
  <1>10. CASE sum # SECTOR_SIZE
    <2>1. sum < SECTOR_SIZE /\ pos < e
      BY <1>3, <1>4, <1>10
    <2>2. RecordAt(pos) = Zero
      <3>1. SumTo(root[s], Len(root[s])) < SECTOR_SIZE
        BY <1>2, <1>4, <2>1
      <3>2. pos = s * SECTOR_SIZE + SumTo(root[s], Len(root[s]))
        BY <1>2, <1>3, <1>4
      <3>3. QED
        BY <3>1, <3>2, ZeroThere
    <2>3. Buffered(st, pos) = Zero
      <3>1. pos < (Len(root) + 1) * SECTOR_SIZE
        BY <1>3, <2>1
      <3>2. PICK l \in Nat, w \in Nat : l = st.lba * SECTOR_SIZE /\ w = Window * SECTOR_SIZE
        <4>1. st.lba \in Nat /\ Window \in Nat
          BY WindowIs DEF States
        <4>2. QED
          BY <4>1, Distributes
      <3>3. rem > 0 => pos - l + Record < w
        BY <1>1, <3>2 DEF Covers
      <3>4. rem > 0 => pos - l < w
        <4>1. Record \in Nat
          BY WindowIs
        <4>2. QED
          BY <3>3, <4>1
      <3>5. st.remaining > 0 => pos - st.lba * SECTOR_SIZE < Window * SECTOR_SIZE
        BY <1>1, <3>2, <3>4
      <3>6. QED
        BY <2>2, <3>1, <3>5, BufferHas
    <2>4. pos % SECTOR_SIZE = sum
      <3>1. s \in Nat /\ sum \in 0 .. SECTOR_SIZE - 1 /\ pos = s * SECTOR_SIZE + sum
        BY <1>3, <1>4, <2>1 DEF RootFits
      <3>2. QED
        BY <3>1, Place
    <2>5. Buffered(st, st.pos).len = 0
      BY <1>1, <2>3 DEF Zero
    <2>6. CASE ~Regular(s)
      <3>1. ~(SECTOR_SIZE - (st.pos % SECTOR_SIZE) <= st.oldDirLen)
        BY <1>1, <1>6, <2>4, <2>6
      <3>2. SkipRest(st) = pos
        BY <1>1, <3>1 DEF SkipRest
      <3>3. QED
        BY <1>7, <2>3, <3>2
    <2>7. CASE Regular(s)
      <3>1. s = Len(root) /\ Len(root) <= Window
        BY <2>7
      <3>2. SECTOR_SIZE - (st.pos % SECTOR_SIZE) = SECTOR_SIZE - sum /\ SECTOR_SIZE - sum <= st.oldDirLen
        BY <1>1, <1>6, <2>4, <2>7
      <3>3. SkipRest(st) = st.pos + (SECTOR_SIZE - sum)
        BY <2>5, <3>2 DEF SkipRest
      <3>4. ss + SECTOR_SIZE = e
        BY <1>3, <3>1
      <3>5. pos + (SECTOR_SIZE - sum) = e
        <4>1. pos = ss + sum
          BY <1>4
        <4>2. QED
          BY <3>4, <4>1
      <3>6. SkipRest(st) = e
        BY <1>1, <3>3, <3>5
      <3>7. QED
        BY <1>7, <1>8, <3>1, <3>6
    <2>8. QED
      BY <2>6, <2>7
  <1>11. QED
    BY <1>9, <1>10

\* k records of the root have been tested, none was the one, and p is behind them.
Reached(st, k) ==
  /\ st \in States /\ st.res = "searching" /\ Covers(st)
  /\ \E s \in 1 .. Len(root) : \E j \in 0 .. Len(root[s]) :
       Before(s) + j = k /\ Behind(st, s, j)

LEMMA FirstReached == ASSUME RootFits PROVE Reached(Record0(Root), 0)
  <1>1. PICK m \in Nat, w \in Nat : m = Len(root) /\ m >= 1 /\ w = Window /\ w >= 2
    BY WindowIs DEF RootFits
  <1>2. PICK st : st = Record0(Root)
    OBVIOUS
  <1>3. 1 * SECTOR_SIZE = SECTOR_SIZE
    OBVIOUS
  <1>4. st = [pos |-> SECTOR_SIZE, lba |-> 1, n |-> IF m <= w THEN m ELSE w,
              remaining |-> IF m <= w THEN 0 ELSE m - w, oldDirLen |-> 0, res |-> "searching"]
    BY <1>1, <1>2, <1>3 DEF Record0, Root, RootLba
  <1>5. st \in States
    <2>1. (IF m <= w THEN m ELSE w) \in Nat /\ (IF m <= w THEN 0 ELSE m - w) \in Int
      BY <1>1
    <2>2. QED
      BY <1>4, <2>1 DEF States
  <1>6. Covers(st)
    <2>1. st.lba = 1 /\ st.pos = SECTOR_SIZE /\ st.lba * SECTOR_SIZE = SECTOR_SIZE
      BY <1>3, <1>4
    <2>2. PICK ws \in Nat : ws = Window * SECTOR_SIZE /\ SECTOR_SIZE + SECTOR_SIZE <= ws
      <3>1. 1 * SECTOR_SIZE + SECTOR_SIZE <= Window * SECTOR_SIZE /\ Window * SECTOR_SIZE \in Int
        BY <1>1, TimesMonotone
      <3>2. QED
        BY <1>3, <3>1
    <2>3. st.pos - st.lba * SECTOR_SIZE + Record < Window * SECTOR_SIZE
      <3>1. Record < ws
        BY <2>2, WindowIs
      <3>2. Record \in Nat
        BY WindowIs
      <3>3. SECTOR_SIZE - SECTOR_SIZE + Record < ws
        BY <3>1, <3>2
      <3>4. QED
        BY <2>1, <2>2, <3>3
    <2>4. CASE m <= w
      BY <1>1, <1>4, <2>1, <2>4 DEF Covers
    <2>5. CASE ~(m <= w)
      <3>1. st.n = w /\ st.remaining = m - w /\ m - w > 0 /\ 1 + w + (m - w) = m + 1
        BY <1>1, <1>4, <2>5
      <3>2. QED
        BY <1>1, <2>1, <2>3, <2>5, <3>1 DEF Covers
    <2>6. QED
      BY <2>4, <2>5
  <1>7. Behind(st, 1, 0) /\ Before(1) + 0 = 0
    <2>1. 1 \in 1 .. Len(root)
      BY <1>1
    <2>2. SumTo(root[1], 0) = 0
      BY <2>1, SumsOfRoot
    <2>3. st.pos = 1 * SECTOR_SIZE + SumTo(root[1], 0)
      BY <1>3, <1>4, <2>2
    <2>4. QED
      BY <2>3, BeforeIs DEF Behind
  <1>8. 1 \in 1 .. Len(root) /\ 0 \in 0 .. Len(root[1])
    BY <1>1 DEF RootFits
  <1>9. st.res = "searching"
    BY <1>4
  <1>10. QED
    BY <1>2, <1>5, <1>6, <1>7, <1>8, <1>9 DEF Reached

LEMMA TurnTests ==
  ASSUME RootFits, NEW st \in States, st.res = "searching", Covers(st), NEW name,
         NEW t \in 1 .. Len(root), NEW i \in 1 .. Len(root[t]), NEW to \in Nat, Tests(st, t, i, to)
  PROVE  /\ Before(t) + i = name => Search(st, name).res = "found"
         /\ Before(t) + i # name => Reached(Search(st, name), Before(t) + i)
  <1>1. Buffered(st, SkipRest(st)) = RecordOf(t, i) /\ SkipRest(st) = to
    BY DEF Tests
  <1>2. RecordOf(t, i).len = root[t][i] /\ RecordOf(t, i).name = Before(t) + i
    BY DEF RecordOf
  <1>3. root[t][i] # 0
    <2>1. root[t][i] \in 1 .. SECTOR_SIZE - 1
      BY DEF RootFits
    <2>2. QED
      BY <2>1
  <1>4. CASE Before(t) + i = name
    <2>1. Search(st, name) = [st EXCEPT !.res = "found"]
      BY <1>1, <1>2, <1>3, <1>4 DEF Search
    <2>2. QED
      BY <1>4, <2>1 DEF States
  <1>5. CASE Before(t) + i # name
    <2>1. Search(st, name) = Advance(st, to, root[t][i])
      BY <1>1, <1>2, <1>3, <1>5 DEF Search
    <2>2. i \in 0 .. Len(root[t])
      BY DEF RootFits
    <2>3. QED
      BY <1>5, <2>1, <2>2, AdvanceIs DEF Reached
  <1>6. QED
    BY <1>4, <1>5

\* A root of regular sectors: the next record is tested, whichever it is.
LEMMA TurnOfRegular ==
  ASSUME RootFits, \A k \in 1 .. Len(root) - 1 : Regular(k), NEW st, NEW k \in Nat, Reached(st, k),
         k < Before(Len(root) + 1), NEW name
  PROVE  /\ name = k + 1 => Search(st, name).res = "found"
         /\ name # k + 1 => Reached(Search(st, name), k + 1)
  <1>1. st \in States /\ st.res = "searching" /\ Covers(st)
    BY DEF Reached
  <1>2. PICK s \in 1 .. Len(root) : \E j \in 0 .. Len(root[s]) : Before(s) + j = k /\ Behind(st, s, j)
    BY DEF Reached
  <1>3. PICK j \in 0 .. Len(root[s]) : Before(s) + j = k /\ Behind(st, s, j)
    BY <1>2
  <1>4. j < Len(root[s]) \/ (s < Len(root) /\ Regular(s))
    <2>1. PICK m \in Nat, n \in Nat : m = Len(root) /\ n = Len(root[s]) /\ s \in 1 .. m /\ j \in 0 .. n
      BY DEF RootFits
    <2>2. CASE j < n
      BY <2>1, <2>2
    <2>3. CASE j = n /\ s < m
      <3>1. s \in 1 .. Len(root) - 1
        BY <2>1, <2>3
      <3>2. QED
        BY <2>1, <2>3, <3>1
    <2>4. CASE j = n /\ s = m
      <3>1. Before(s + 1) = Before(s) + Len(root[s])
        BY BeforeIs
      <3>2. FALSE
        BY <1>3, <2>1, <2>4, <3>1
      <3>3. QED
        BY <3>2
    <2>5. QED
      BY <2>1, <2>2, <2>3, <2>4
  <1>5. PICK t \in 1 .. Len(root) : \E i \in 1 .. Len(root[t]) : \E to \in Nat :
          Before(t) + i = Before(s) + j + 1 /\ Tests(st, t, i, to)
    BY <1>1, <1>3, <1>4, NextTested
  <1>6. PICK i \in 1 .. Len(root[t]) : \E to \in Nat :
          Before(t) + i = Before(s) + j + 1 /\ Tests(st, t, i, to)
    BY <1>5
  <1>7. PICK to \in Nat : Before(t) + i = k + 1 /\ Tests(st, t, i, to)
    BY <1>3, <1>6
  <1>8. QED
    BY <1>1, <1>7, TurnTests

\* A root that fits into the window, or that ends in a sector that is not regular:
\* nothing behind it is tested.
LEMMA TurnInRoot ==
  ASSUME RootFits, Len(root) <= Window \/ ~Regular(Len(root)),
         NEW st, NEW k \in Nat, Reached(st, k), NEW name, name \notin Nat
  PROVE  Search(st, name).res = "ENOENT" \/ Reached(Search(st, name), k + 1)
  <1>1. st \in States /\ st.res = "searching" /\ Covers(st)
    BY DEF Reached
  <1>2. PICK s \in 1 .. Len(root) : \E j \in 0 .. Len(root[s]) : Before(s) + j = k /\ Behind(st, s, j)
    BY DEF Reached
  <1>3. PICK j \in 0 .. Len(root[s]) : Before(s) + j = k /\ Behind(st, s, j)
    BY <1>2
  <1>4. PICK m \in Nat, n \in Nat : m = Len(root) /\ n = Len(root[s]) /\ s \in 1 .. m /\ j \in 0 .. n
    <2>1. Len(root) \in Nat /\ Len(root[s]) \in Nat
      BY DEF RootFits
    <2>2. QED
      BY <2>1
  <1>5. CASE j < n \/ (s < m /\ Regular(s))
    <2>1. PICK t \in 1 .. Len(root) : \E i \in 1 .. Len(root[t]) : \E to \in Nat :
            Before(t) + i = Before(s) + j + 1 /\ Tests(st, t, i, to)
      BY <1>1, <1>3, <1>4, <1>5, NextTested
    <2>2. PICK i \in 1 .. Len(root[t]) : \E to \in Nat :
            Before(t) + i = Before(s) + j + 1 /\ Tests(st, t, i, to)
      BY <2>1
    <2>3. PICK to \in Nat : Before(t) + i = k + 1 /\ Tests(st, t, i, to)
      BY <1>3, <2>2
    <2>4. Before(t) + i # name
      BY <2>3
    <2>5. QED
      BY <1>1, <2>3, <2>4, TurnTests
  <1>6. CASE ~(j < n \/ (s < m /\ Regular(s)))
    <2>1. j = n /\ (s = m \/ ~Regular(s))
      BY <1>4, <1>6
    <2>2. ~Regular(s) \/ (s = Len(root) /\ Len(root) <= Window)
      BY <1>4, <2>1
    <2>3. Behind(st, s, Len(root[s]))
      BY <1>3, <1>4, <2>1
    <2>4. QED
      BY <1>1, <2>2, <2>3, Stops
  <1>7. QED
    BY <1>5, <1>6

LEMMA TurnsAre ==
  ASSUME NEW dir, NEW name
  PROVE  \E turn : /\ turn[0] = Record0(dir)
                   /\ \A k \in 1 .. Turns : turn[k] = Search(turn[k - 1], name)
                   /\ FindFileLBA(dir, name) <=> turn[Turns].res = "found"
  <1> DEFINE Loop(n, g) == g = [k \in 0 .. n |->
                                  IF k = 0 THEN Record0(dir) ELSE Search(g[k - 1], name)]
             S == {n \in Nat : \E g : Loop(n, g)}
  <1>1. PICK l \in Nat : l = Turns
    <2>1. PICK x \in Nat : x = MaxSectors + 1
      BY IsoFsAssumption
    <2>2. SECTOR_SIZE * x = x * SECTOR_SIZE /\ x * SECTOR_SIZE \in Nat
      BY <2>1, Distributes
    <2>3. QED
      BY <2>1, <2>2 DEF Turns
  <1>2. 0 \in S
    <2>1. Loop(0, [k \in 0 .. 0 |-> Record0(dir)])
      OBVIOUS
    <2>2. QED
      BY <2>1
  <1>3. ASSUME NEW n \in 0 .. l - 1, n \in S PROVE n + 1 \in S
    <2>1. PICK g : Loop(n, g)
      BY <1>3
    <2>2. PICK m \in Nat : m = n + 1
      OBVIOUS
    <2> DEFINE h == [k \in 0 .. m |-> IF k = m THEN Search(g[n], name) ELSE g[k]]
    <2>3. ASSUME NEW k \in 0 .. m
          PROVE  h[k] = IF k = 0 THEN Record0(dir) ELSE Search(h[k - 1], name)
      <3>1. CASE k = 0
        BY <2>1, <2>2, <3>1
      <3>2. CASE k = m
        <4>1. h[m] = Search(g[n], name) /\ m - 1 = n /\ h[n] = g[n]
          BY <2>2
        <4>2. QED
          BY <2>2, <3>2, <4>1
      <3>3. CASE k # 0 /\ k # m
        <4>1. k \in 0 .. n /\ k - 1 \in 0 .. m /\ k - 1 # m
          BY <2>2, <3>3
        <4>2. g[k] = Search(g[k - 1], name)
          BY <2>1, <3>3, <4>1
        <4>3. h[k] = g[k] /\ h[k - 1] = g[k - 1]
          BY <3>3, <4>1
        <4>4. QED
          BY <3>3, <4>2, <4>3
      <3>4. QED
        BY <3>1, <3>2, <3>3
    <2>4. h = [k \in 0 .. m |-> IF k = 0 THEN Record0(dir) ELSE Search(h[k - 1], name)]
      BY <2>3
    <2> HIDE DEF h
    <2>5. Loop(m, h)
      BY <2>4
    <2>6. QED
      BY <2>2, <2>5
  <1>4. PICK f : Loop(l, f)
    <2>1. l \in 0 .. l
      OBVIOUS
    <2> HIDE DEF S
    <2>2. l \in S
      BY <1>2, <1>3, <2>1, Upwards
    <2>3. QED
      BY <2>2 DEF S
  <1> DEFINE turn == CHOOSE g : Loop(l, g)
  <1>5. Loop(l, turn)
    BY <1>4
  <1>6. FindFileLBA(dir, name) <=> turn[l].res = "found"
    BY <1>1 DEF FindFileLBA
  <1> HIDE DEF turn
  <1>7. turn[0] = Record0(dir) /\ \A k \in 1 .. l : turn[k] = Search(turn[k - 1], name)
    BY <1>5
  <1>8. QED
    BY <1>1, <1>6, <1>7

LEMMA Rests ==
  ASSUME NEW st, NEW name, st.res # "searching" PROVE Search(st, name) = st
  BY DEF Search

\* Every record of a root of regular sectors is found, wherever it is.
LEMMA FindsPresent ==
  ASSUME RootFits, \A k \in 1 .. Len(root) - 1 : Regular(k), NEW name \in Names
  PROVE  FindFileLBA(Root, name)
  <1>1. PICK turn : /\ turn[0] = Record0(Root)
                    /\ \A k \in 1 .. Turns : turn[k] = Search(turn[k - 1], name)
                    /\ FindFileLBA(Root, name) <=> turn[Turns].res = "found"
    BY TurnsAre
  <1>2. PICK e \in Nat, l \in Nat : e = Before(Len(root) + 1) /\ l = Turns /\ e < l
    <2>1. Before(Len(root) + 1) \in Nat
      <3>1. Len(root) + 1 \in 1 .. Len(root) + 1
        BY DEF RootFits
      <3>2. QED
        BY <3>1, BeforeIs
    <2>2. Turns \in Nat
      <3>1. PICK x \in Nat : x = MaxSectors + 1
        BY IsoFsAssumption
      <3>2. SECTOR_SIZE * x = x * SECTOR_SIZE /\ x * SECTOR_SIZE \in Nat
        BY <3>1, Distributes
      <3>3. QED
        BY <3>1, <3>2 DEF Turns
    <2>3. QED
      BY <2>1, <2>2, NamesFew
  <1>3. name \in 1 .. e
    BY <1>2 DEF Names
  <1> DEFINE S == {k \in Nat : turn[k].res = "found" \/ (k < name /\ Reached(turn[k], k))}
  <1>4. 0 \in S
    BY <1>1, <1>3, FirstReached
  <1>5. ASSUME NEW k \in 0 .. l - 1, k \in S PROVE k + 1 \in S
    <2>1. PICK j \in 1 .. l : j = k + 1 /\ j - 1 = k
      OBVIOUS
    <2>2. turn[j] = Search(turn[k], name)
      BY <1>1, <1>2, <2>1
    <2>3. CASE turn[k].res = "found"
      BY <2>1, <2>2, <2>3, Rests
    <2>4. CASE k < name /\ Reached(turn[k], k)
      <3>1. k < Before(Len(root) + 1) /\ k \in Nat
        BY <1>2, <1>3, <2>4
      <3>2. /\ name = k + 1 => Search(turn[k], name).res = "found"
            /\ name # k + 1 => Reached(Search(turn[k], name), k + 1)
        BY <2>4, <3>1, TurnOfRegular
      <3>3. CASE name = k + 1
        BY <2>1, <2>2, <3>2, <3>3
      <3>4. CASE name # k + 1
        <4>1. k + 1 < name
          BY <1>3, <2>4, <3>4
        <4>2. QED
          BY <2>1, <2>2, <3>2, <3>4, <4>1
      <3>5. QED
        BY <3>3, <3>4
    <2>5. QED
      BY <1>5, <2>3, <2>4
  <1>6. l \in S
    <2> HIDE DEF S
    <2>1. l \in 0 .. l
      OBVIOUS
    <2>2. QED
      BY <1>4, <1>5, <2>1, Upwards
  <1>7. turn[l].res = "found"
    BY <1>2, <1>3, <1>6
  <1>8. QED
    BY <1>1, <1>2, <1>7

\* What is behind the root is not found.
LEMMA MissesAbsent ==
  ASSUME RootFits, Len(root) <= Window \/ ~Regular(Len(root))
  PROVE  ~FindFileLBA(Root, Elsewhere)
  <1>1. PICK turn : /\ turn[0] = Record0(Root)
                    /\ \A k \in 1 .. Turns : turn[k] = Search(turn[k - 1], Elsewhere)
                    /\ FindFileLBA(Root, Elsewhere) <=> turn[Turns].res = "found"
    BY TurnsAre
  <1>2. PICK l \in Nat : l = Turns
    <2>1. PICK x \in Nat : x = MaxSectors + 1
      BY IsoFsAssumption
    <2>2. SECTOR_SIZE * x = x * SECTOR_SIZE /\ x * SECTOR_SIZE \in Nat
      BY <2>1, Distributes
    <2>3. QED
      BY <2>1, <2>2 DEF Turns
  <1>3. Elsewhere \notin Nat
    BY DEF Elsewhere
  <1> DEFINE S == {k \in Nat : turn[k].res = "ENOENT" \/ Reached(turn[k], k)}
  <1>4. 0 \in S
    BY <1>1, FirstReached
  <1>5. ASSUME NEW k \in 0 .. l - 1, k \in S PROVE k + 1 \in S
    <2>1. PICK j \in 1 .. l : j = k + 1 /\ j - 1 = k
      OBVIOUS
    <2>2. turn[j] = Search(turn[k], Elsewhere)
      BY <1>1, <1>2, <2>1
    <2>3. CASE turn[k].res = "ENOENT"
      BY <2>1, <2>2, <2>3, Rests
    <2>4. CASE Reached(turn[k], k)
      BY <1>3, <2>1, <2>2, <2>4, TurnInRoot
    <2>5. QED
      BY <1>5, <2>3, <2>4
  <1>6. l \in S
    <2> HIDE DEF S
    <2>1. l \in 0 .. l
      OBVIOUS
    <2>2. QED
      BY <1>4, <1>5, <2>1, Upwards
  <1>7. turn[l].res # "found"
    <2>1. turn[l].res = "ENOENT" \/ Reached(turn[l], l)
      BY <1>6
    <2>2. QED
      BY <2>1 DEF Reached
  <1>8. QED
    BY <1>1, <1>2, <1>7

-----------------------------------------------------------------------------
(* The search of a path *)

LEMMA FindsName == ASSUME NEW n PROVE Finds(<<n>>) <=> FindFileLBA(Root, n)
  <1>1. Front(<<n>>) = <<>> /\ Last(<<n>>) = n
    BY DEF Front, Last
  <1>2. GetPathAndName(<<n>>).path = <<>> /\ GetPathAndName(<<n>>).name = n
    BY <1>1 DEF GetPathAndName
  <1> DEFINE Step(g, k) == IF k = 0 THEN Root
                           ELSE IF /\ g[k - 1] # NoDirectory
                                   /\ FindFileLBA(g[k - 1], <<>>[k])
                                   /\ IsDir(<<>>[k])
                           THEN Target(g[k - 1], <<>>[k]) ELSE NoDirectory
             Loop(g) == g = [k \in 0 .. Len(<<>>) |-> Step(g, k)]
  <1>3. Len(<<>>) = 0
    OBVIOUS
  <1>4. Loop([k \in 0 .. 0 |-> Root])
    BY <1>3
  <1> DEFINE dir == CHOOSE g : Loop(g)
  <1>5. Loop(dir)
    BY <1>4
  <1>6. FindPathLBA(<<>>) = dir[Len(<<>>)]
    BY DEF FindPathLBA
  <1>7. dir[0] = Root
    <2> HIDE DEF dir
    <2>1. QED
      BY <1>3, <1>5
  <1>8. FindPathLBA(<<>>) = Root
    BY <1>3, <1>6, <1>7
  <1>9. Root # NoDirectory
    <2>1. Root.lba = 1 /\ NoDirectory.lba = -1
      BY DEF Root, NoDirectory, RootLba
    <2>2. QED
      BY <2>1
  <1>10. QED
    BY <1>2, <1>8, <1>9 DEF Finds

\* The paths of one name, and the ones with a name that is not in the root.
LEMMA ShortPath ==
  ASSUME NEW path \in Paths
  PROVE  /\ Len(path) = 1 => path = <<path[1]>>
         /\ focus = "search" /\ Elsewhere \in Range(path) => path = <<Elsewhere>>
  <1>1. ASSUME NEW n, path = <<n>>
        PROVE  /\ Len(path) = 1 => path = <<path[1]>>
               /\ Elsewhere \in Range(path) => path = <<Elsewhere>>
    BY <1>1 DEF Range
  <1>2. ASSUME NEW a \in {1, 3, 4}, NEW b \in {2, 3, 4, SubFile}, path = <<a, b>>
        PROVE  Len(path) # 1 /\ Elsewhere \notin Range(path)
    BY <1>2 DEF Range, Elsewhere, SubFile
  <1>3. ASSUME NEW a \in {1, 3}, NEW b \in {1, 2, 3}, NEW c \in {2, 4, 5}, path = <<a, b, c>>
        PROVE  Len(path) # 1 /\ Elsewhere \notin Range(path)
    BY <1>3 DEF Range, Elsewhere
  <1>4. \/ \E n : path = <<n>>
        \/ \E a \in {1, 3, 4}, b \in {2, 3, 4, SubFile} : path = <<a, b>>
        \/ \E a \in {1, 3}, b \in {1, 2, 3}, c \in {2, 4, 5} : path = <<a, b, c>>
    <2>1. CASE focus = "files"
      BY <2>1 DEF Paths
    <2>2. CASE focus # "files"
      BY <2>2 DEF Paths
    <2>3. QED
      BY <2>1, <2>2
  <1>5. QED
    BY <1>1, <1>2, <1>3, <1>4

LEMMA SearchIs ==
  ASSUME root \in Roots, UNCHANGED root, NEW path \in Paths, answer'.path = path,
         answer'.op = "ENOENT" => ~Finds(path),
         answer'.op = "found" => Finds(path) /\ focus = "search"
  PROVE  SearchExact'
  <1>1. RootFits
    BY RootIs
  <1>2. PresentFound'
    <2> SUFFICES ASSUME answer'.op = "ENOENT", Len(path) = 1, path[1] \in Names,
                        \A k \in 1 .. Len(root) - 1 : Regular(k)
                 PROVE  FALSE
      BY DEF PresentFound, Names, Before, Regular, Rest
    <2>1. path = <<path[1]>>
      BY ShortPath
    <2>2. FindFileLBA(Root, path[1])
      BY <1>1, FindsPresent
    <2>3. QED
      BY <2>1, <2>2, FindsName
  <1>3. AbsentRefused'
    <2> SUFFICES ASSUME answer'.op = "found", Elsewhere \in Range(path),
                        ~(Len(root) > Window /\ Regular(Len(root)))
                 PROVE  FALSE
      BY DEF AbsentRefused, Regular, Rest
    <2>1. path = <<Elsewhere>>
      BY ShortPath
    <2>2. Len(root) <= Window \/ ~Regular(Len(root))
      BY <1>1, WindowIs DEF RootFits
    <2>3. ~FindFileLBA(Root, Elsewhere)
      BY <1>1, <2>2, MissesAbsent
    <2>4. QED
      BY <2>1, <2>3, FindsName
  <1>4. QED
    BY <1>2, <1>3 DEF SearchExact

-----------------------------------------------------------------------------
(* The theorems *)

LEMMA NextType ==
  ASSUME TypeOK, [Next]_vars PROVE TypeOK'
  <1>1. mounted \in BOOLEAN /\ sectors \in BOOLEAN /\ handlers \in [Handle -> Handles] /\ ~handlers[0].opened
    BY DEF TypeOK, Handles
  <1>2. 0 \in Handle /\ Closed \in Handles /\ ~Closed.opened
    BY DEF Handle, Closed, Handles
  <1>3. ASSUME mounted' \in BOOLEAN, sectors' \in BOOLEAN, handlers' \in [Handle -> Handles], ~handlers'[0].opened
        PROVE  TypeOK'
    BY <1>3 DEF TypeOK, Handles
  <1>4. CASE UNCHANGED vars
    BY <1>1, <1>3, <1>4 DEF vars
  <1>5. CASE isofs_init \/ isofs_fastinit \/ isofs_exit \/ isofs_reset
    BY <1>1, <1>2, <1>3, <1>5 DEF isofs_init, isofs_fastinit, isofs_exit, isofs_reset
  <1>6. ASSUME NEW lba \in Nat, NEW filesize \in 0 .. FileSize + 1, Opens(lba, filesize), UNCHANGED <<mounted, sectors>>
        PROVE  TypeOK'
    <2>1. CASE handlers' = handlers
      BY <1>1, <1>3, <1>6, <2>1
    <2>2. CASE handlers' # handlers
      <3>1. PICK i \in GetFreeHandle :
              handlers' = [handlers EXCEPT ![i] =
                [opened |-> TRUE, lba |-> lba, filesize |-> filesize, filepointer |-> 0]]
        BY <1>6, <2>2 DEF Opens
      <3>2. i \in Handle /\ i # 0
        BY DEF GetFreeHandle
      <3>3. [opened |-> TRUE, lba |-> lba, filesize |-> filesize, filepointer |-> 0] \in Handles
        BY DEF Handles
      <3>4. handlers' \in [Handle -> Handles] /\ handlers'[0] = handlers[0]
        BY <1>1, <1>2, <3>1, <3>2, <3>3
      <3>5. QED
        BY <1>1, <1>3, <1>6, <3>4
    <2>3. QED
      BY <2>1, <2>2
  <1>7. ASSUME NEW path \in Paths, NEW readable \in BOOLEAN, isofs_open(path, readable)
        PROVE  TypeOK'
    <2>1. CASE readable /\ Finds(path)
      <3>1. Opens(FileLba + Last(path), FileSize) /\ UNCHANGED <<mounted, sectors>>
        BY <1>7, <2>1 DEF isofs_open
      <3>2. FileLba + Last(path) \in Nat
        <4>1. path \in {<<4>>, <<3, SubFile>>, <<Elsewhere>>}
          BY <1>7 DEF isofs_open, Paths
        <4>2. Last(path) \in {4, 103, -1}
          <5>1. CASE path = <<4>>
            BY <5>1 DEF Last
          <5>2. CASE path = <<3, SubFile>>
            BY <5>2 DEF Last, SubFile
          <5>3. CASE path = <<Elsewhere>>
            BY <5>3 DEF Last, Elsewhere
          <5>4. QED
            BY <4>1, <5>1, <5>2, <5>3
        <4>3. QED
          BY <4>2 DEF FileLba
      <3>3. QED
        BY <1>6, <3>1, <3>2
    <2>2. CASE ~(readable /\ Finds(path))
      BY <1>1, <1>3, <1>7, <2>2 DEF isofs_open
    <2>3. QED
      BY <2>1, <2>2
  <1>8. ASSUME NEW path \in Paths, NEW readable \in BOOLEAN, isofs_getstat(path, readable)
        PROVE  TypeOK'
    BY <1>1, <1>3, <1>8 DEF isofs_getstat
  <1>9. CASE isofs_open_lbn
    <2>1. Opens(FileLba, FileSize + 1) /\ UNCHANGED <<mounted, sectors>> /\ FileLba \in Nat
      BY <1>9 DEF isofs_open_lbn, FileLba
    <2>2. QED
      BY <1>6, <2>1
  <1>10. ASSUME NEW fd \in Handle, isofs_close(fd) PROVE TypeOK'
    <2>1. handlers' = [handlers EXCEPT ![fd].opened = FALSE] /\ UNCHANGED <<mounted, sectors>>
      BY <1>10 DEF isofs_close
    <2>2. handlers' \in [Handle -> Handles] /\ ~handlers'[0].opened
      BY <1>1, <1>2, <2>1 DEF Handles
    <2>3. QED
      BY <1>1, <1>3, <2>1, <2>2
  <1>11. ASSUME NEW fd \in Handle, NEW fp \in Int, UNCHANGED <<mounted, sectors>>,
                handlers' = [handlers EXCEPT ![fd].filepointer = fp]
         PROVE  TypeOK'
    <2>1. handlers' \in [Handle -> Handles] /\ ~handlers'[0].opened
      BY <1>1, <1>2, <1>11 DEF Handles
    <2>2. QED
      BY <1>1, <1>3, <1>11, <2>1
  <1>12. ASSUME NEW fd \in Handle, NEW ofs \in -2 .. 2, NEW whence \in {"SET", "CUR", "END"},
                isofs_lseek(fd, ofs, whence)
         PROVE  TypeOK'
    <2>1. PICK to : /\ to = CASE whence = "SET" -> ofs
                              [] whence = "CUR" -> handlers[fd].filepointer + ofs
                              [] whence = "END" -> handlers[fd].filesize - ofs
                    /\ handlers' = [handlers EXCEPT ![fd].filepointer = to]
                    /\ UNCHANGED <<mounted, sectors>>
      BY <1>12 DEF isofs_lseek
    <2>2. handlers[fd].filesize \in Int /\ handlers[fd].filepointer \in Int
      BY <1>1 DEF Handles
    <2>3. to \in Int
      BY <2>1, <2>2
    <2>4. QED
      BY <1>11, <2>1, <2>3
  <1>13. ASSUME NEW fd \in Handle, NEW len \in 0 .. FileSize + 2, NEW first \in Reads(1),
                NEW last \in Reads(1), NEW middle \in Reads(len \div SECTOR_SIZE),
                isofs_read(fd, len, first, middle, last)
         PROVE  TypeOK'
    <2>1. PICK data, res :
            /\ handlers' = [handlers EXCEPT ![fd].filepointer = Wrapped(@ + Len(data))]
            /\ data \in Seq(Int)
            /\ UNCHANGED <<focus, root, mounted, sectors>>
      <3>1. ReadStep(fd, len, first, middle, last)
        BY <1>13, ReadIs
      <3>2. QED
        BY <3>1 DEF ReadStep, Delivered
    <2>2. PICK l \in Nat : l = Len(data)
      BY <2>1
    <2>3. PICK fp \in Int : fp = Wrapped(handlers[fd].filepointer + l)
      BY <1>1 DEF Handles, Wrapped
    <2>4. handlers' = [handlers EXCEPT ![fd].filepointer = fp]
      BY <1>1, <2>1, <2>2, <2>3
    <2>5. QED
      BY <1>11, <2>1, <2>4
  <1>14. QED
    BY <1>4, <1>5, <1>7, <1>8, <1>9, <1>10, <1>12, <1>13 DEF Next

LEMMA InitType == Init => TypeOK
  <1> SUFFICES ASSUME Init PROVE TypeOK
    OBVIOUS
  <1>1. Closed \in Handles /\ ~Closed.opened
    BY DEF Closed, Handles
  <1>2. mounted \in BOOLEAN /\ sectors \in BOOLEAN /\ handlers = [i \in Handle |-> Closed]
    BY DEF Init
  <1>3. handlers \in [Handle -> Handles] /\ ~handlers[0].opened
    <2>1. 0 \in Handle
      BY DEF Handle
    <2>2. QED
      BY <1>1, <1>2, <2>1
  <1>4. QED
    BY <1>2, <1>3 DEF TypeOK, Handles

\* Every handle of the table stays well formed, wherever its pointer is, and handle 0
\* is never given out (isofs_open).
THEOREM TypesKept == Spec => []TypeOK
  BY InitType, NextType, PTL DEF Spec

\* A call that opens a file gives out no handle that is open and changes no other
\* one, also when the table is full (GetFreeHandle).
THEOREM HandlesStay == Spec => HandlesKept
  <1> DEFINE Stays == \A fd \in Handle :
                        answer'.op \in {"open", "EMFILE"} /\ handlers[fd].opened =>
                          handlers'[fd] = handlers[fd]
  <1>1. TypeOK /\ [Next]_vars => [Stays]_vars
    <2> SUFFICES ASSUME TypeOK, [Next]_vars, NEW fd \in Handle,
                        answer'.op \in {"open", "EMFILE"}, handlers[fd].opened
                 PROVE  handlers'[fd] = handlers[fd]
      BY DEF vars
    <2>1. ASSUME NEW lba, NEW filesize, Opens(lba, filesize) PROVE handlers'[fd] = handlers[fd]
      <3>1. CASE handlers' = handlers
        BY <3>1
      <3>2. ASSUME NEW i \in GetFreeHandle,
                   handlers' = [handlers EXCEPT ![i] =
                     [opened |-> TRUE, lba |-> lba, filesize |-> filesize, filepointer |-> 0]]
            PROVE  handlers'[fd] = handlers[fd]
        <4>1. i # fd
          BY DEF GetFreeHandle
        <4>2. QED
          BY <3>2, <4>1 DEF TypeOK
      <3>3. QED
        BY <2>1, <3>1, <3>2 DEF Opens
    <2>2. CASE UNCHANGED vars
      BY <2>2 DEF vars
    <2>3. CASE isofs_init \/ isofs_fastinit \/ isofs_exit \/ isofs_reset
      BY <2>3 DEF isofs_init, isofs_fastinit, isofs_exit, isofs_reset, Nothing
    <2>4. ASSUME NEW path \in Paths, NEW readable \in BOOLEAN, isofs_open(path, readable)
          PROVE  handlers'[fd] = handlers[fd]
      <3>1. CASE readable /\ Finds(path)
        BY <2>1, <2>4, <3>1 DEF isofs_open
      <3>2. CASE ~(readable /\ Finds(path))
        BY <2>4, <3>2 DEF isofs_open
      <3>3. QED
        BY <3>1, <3>2
    <2>5. CASE \E path \in Paths, readable \in BOOLEAN : isofs_getstat(path, readable)
      BY <2>5 DEF isofs_getstat
    <2>6. CASE isofs_open_lbn
      BY <2>1, <2>6 DEF isofs_open_lbn
    <2>7. ASSUME NEW f \in Handle, isofs_close(f) PROVE FALSE
      BY <2>7 DEF isofs_close, Nothing
    <2>8. ASSUME NEW f \in Handle, NEW ofs \in -2 .. 2, NEW whence \in {"SET", "CUR", "END"},
                 isofs_lseek(f, ofs, whence)
          PROVE  FALSE
      BY <2>8 DEF isofs_lseek, Nothing
    <2>9. ASSUME NEW f \in Handle, NEW len \in 0 .. FileSize + 2, NEW first \in Reads(1),
                 NEW last \in Reads(1), NEW middle \in Reads(len \div SECTOR_SIZE),
                 isofs_read(f, len, first, middle, last)
          PROVE  FALSE
      <3>1. answer'.op = "read"
        BY <2>9 DEF isofs_read
      <3>2. QED
        BY <3>1
    <2>10. QED
      BY <2>2, <2>3, <2>4, <2>5, <2>6, <2>7, <2>8, <2>9 DEF Next
  <1>2. QED
    BY TypesKept, <1>1, PTL DEF Spec, HandlesKept

\* What a read from a pointer that is not before the file delivers begins at the
\* pointer, ends where the pointer then is, and is one piece of the file, but for a last
\* sector of which nothing was read without an error; it is all that was asked for of
\* the file when every sector could be read: the three parts of isofs_read neither leave
\* out nor repeat a byte, for any size of sectors and any request an int can hold.
THEOREM ReadCorrect == Spec => []ReadReturnsFile
  <1>1. Init => ReadReturnsFile
    BY DEF Init, Nothing, ReadReturnsFile, ReadContiguous, ReadComplete
  <1>2. TypeOK /\ ReadReturnsFile /\ [Next]_vars => ReadReturnsFile'
    <2> SUFFICES ASSUME TypeOK, ReadReturnsFile, [Next]_vars PROVE ReadReturnsFile'
      OBVIOUS
    <2>1. ASSUME answer'.op # "read" PROVE ReadReturnsFile'
      BY <2>1 DEF ReadReturnsFile, ReadContiguous, ReadComplete
    <2>2. CASE UNCHANGED vars
      BY <2>2 DEF vars, ReadReturnsFile, ReadContiguous, ReadComplete
    <2>3. CASE isofs_init \/ isofs_fastinit \/ isofs_exit \/ isofs_reset
      BY <2>1, <2>3 DEF isofs_init, isofs_fastinit, isofs_exit, isofs_reset, Nothing
    <2>4. ASSUME NEW lba, NEW filesize, Opens(lba, filesize) PROVE ReadReturnsFile'
      BY <2>1, <2>4 DEF Opens
    <2>5. ASSUME NEW path \in Paths, NEW readable \in BOOLEAN, isofs_open(path, readable)
          PROVE  ReadReturnsFile'
      <3>1. CASE readable /\ Finds(path)
        BY <2>4, <2>5, <3>1 DEF isofs_open
      <3>2. CASE ~(readable /\ Finds(path))
        BY <2>1, <2>5, <3>2 DEF isofs_open
      <3>3. QED
        BY <3>1, <3>2
    <2>6. CASE \E path \in Paths, readable \in BOOLEAN : isofs_getstat(path, readable)
      BY <2>1, <2>6 DEF isofs_getstat
    <2>7. CASE isofs_open_lbn
      BY <2>4, <2>7 DEF isofs_open_lbn
    <2>8. ASSUME NEW f \in Handle, isofs_close(f) PROVE ReadReturnsFile'
      BY <2>1, <2>8 DEF isofs_close, Nothing
    <2>9. ASSUME NEW f \in Handle, NEW ofs \in -2 .. 2, NEW whence \in {"SET", "CUR", "END"},
                 isofs_lseek(f, ofs, whence)
          PROVE  ReadReturnsFile'
      BY <2>1, <2>9 DEF isofs_lseek, Nothing
    <2>10. ASSUME NEW fd \in Handle, NEW len \in 0 .. FileSize + 2, NEW first \in Reads(1),
                  NEW last \in Reads(1), NEW middle \in Reads(len \div SECTOR_SIZE),
                  isofs_read(fd, len, first, middle, last)
           PROVE  ReadReturnsFile'
      <3>1. PICK data, res :
              /\ handlers' = [handlers EXCEPT ![fd].filepointer = Wrapped(@ + Len(data))]
              /\ answer' = [op |-> "read", fd |-> fd, len |-> len, from |-> handlers[fd].filepointer,
                            data |-> data, res |-> res, last |-> last,
                            whole |-> first = 1 /\ last = 1 /\ middle * SECTOR_SIZE + SECTOR_SIZE > len]
              /\ Delivered(handlers[fd], len,
                           first = 1 /\ last = 1 /\ middle * SECTOR_SIZE + SECTOR_SIZE > len, last, data, res)
        <4>1. ReadStep(fd, len, first, middle, last)
          BY <2>10, ReadIs
        <4>2. QED
          BY <4>1 DEF ReadStep
      <3>2. PICK h \in Handles : h = handlers[fd]
        BY DEF TypeOK, Handles
      <3>3. /\ answer'.fd = fd /\ answer'.data = data /\ answer'.res = res /\ answer'.len = len
            /\ answer'.from = h.filepointer /\ answer'.last = last
            /\ answer'.whole = (first = 1 /\ last = 1 /\ middle * SECTOR_SIZE + SECTOR_SIZE > len)
        BY <3>1, <3>2
      <3>4. CASE ~Plain(h.filepointer, len)
        BY <3>3, <3>4 DEF ReadReturnsFile, ReadContiguous, ReadComplete, Plain
      <3>5. CASE Plain(h.filepointer, len)
        <4>1. PICK l \in Nat : l = Len(data)
          BY <3>1 DEF Delivered
        <4>2. Wrapped(h.filepointer + l) = h.filepointer + l
          <5>1. PICK fp \in Int : fp = h.filepointer
            BY DEF Handles
          <5>2. fp + len <= IntMax
            BY <3>5, <5>1 DEF Plain
          <5>3. l <= len
            BY <3>1, <3>2, <3>5, <4>1 DEF Delivered
          <5>4. ~(fp + l > IntMax)
            BY <5>2, <5>3
          <5>5. QED
            BY <5>1, <5>4 DEF Wrapped
        <4>3. PICK g : /\ g = handlers'[fd] /\ g.lba = h.lba /\ g.filesize = h.filesize
                       /\ g.filepointer = h.filepointer + l
          <5>1. handlers'[fd] = [h EXCEPT !.filepointer = h.filepointer + l]
            BY <3>1, <3>2, <4>1, <4>2 DEF TypeOK
          <5>2. QED
            BY <5>1 DEF Handles
        <4>4. Delivered(h, len, answer'.whole, last, data, res)
          BY <3>1, <3>2, <3>3
        <4>5. ReadContiguous'
          <5>1. data # <<>> => l > 0
            BY <4>1, <4>4, EmptySeq DEF Delivered
          <5>2. data # <<>> => g.filepointer <= g.filesize
            BY <3>5, <4>1, <4>3, <4>4, <5>1 DEF Delivered
          <5>3. PICK n \in Nat, r \in Nat :
                  /\ l = n + r
                  /\ data = Join(Bytes(g.lba * SECTOR_SIZE + h.filepointer, n), Unknowns(r))
                  /\ r > 0 => last = 0 /\ r < SECTOR_SIZE
            BY <3>5, <4>1, <4>3, <4>4 DEF Delivered
          <5>4. n \in 0 .. l /\ l - n = r /\ (n < l => r > 0)
            BY <5>3
          <5>5. /\ data = Bytes(g.lba * SECTOR_SIZE + h.filepointer, n) \o Unknowns(l - n)
                /\ n < l => last = 0 /\ l - n < SECTOR_SIZE
            BY <5>3, <5>4 DEF Join
          <5>6. QED
            BY <3>3, <4>1, <4>3, <5>2, <5>4, <5>5 DEF ReadContiguous
        <4>6. ReadComplete'
          BY <3>3, <3>5, <4>1, <4>3, <4>4 DEF ReadComplete, Delivered
        <4>7. QED
          BY <4>5, <4>6 DEF ReadReturnsFile
      <3>6. QED
        BY <3>4, <3>5
    <2>11. QED
      BY <2>2, <2>3, <2>5, <2>6, <2>7, <2>8, <2>9, <2>10 DEF Next
  <1>3. QED
    BY TypesKept, <1>1, <1>2, PTL DEF Spec

\* A name of the root is found, wherever its record lies in its sectors and however
\* often the window of FindFileLBA has moved, if every sector but the last is regular;
\* and what is behind the root is not found, unless the root is larger than the window
\* and ends in a regular sector.  Nothing is said of the paths of several names.
THEOREM SearchCorrect == Spec => []SearchExact
  <1> DEFINE Exact == root \in Roots /\ SearchExact
  <1>1. Init => Exact
    <2> SUFFICES ASSUME Init PROVE Exact
      OBVIOUS
    <2>1. root \in Roots
      BY FilesRootIs DEF Init
    <2>2. answer.op = "none"
      BY DEF Init, Nothing
    <2>3. QED
      BY <2>1, <2>2 DEF SearchExact, PresentFound, AbsentRefused
  <1>2. Exact /\ [Next]_vars => Exact'
    <2> SUFFICES ASSUME Exact, [Next]_vars PROVE SearchExact' /\ UNCHANGED root
      OBVIOUS
    <2>1. ASSUME answer'.op \notin {"ENOENT", "found"} PROVE SearchExact'
      BY <2>1 DEF SearchExact, PresentFound, AbsentRefused
    <2>2. CASE UNCHANGED vars
      BY <2>2 DEF vars, SearchExact, PresentFound, AbsentRefused, Names, Before, Regular, Rest
    <2>3. CASE isofs_init \/ isofs_fastinit \/ isofs_exit \/ isofs_reset
      BY <2>1, <2>3 DEF isofs_init, isofs_fastinit, isofs_exit, isofs_reset, Nothing
    <2>4. ASSUME NEW lba, NEW filesize, Opens(lba, filesize) PROVE SearchExact'
      BY <2>1, <2>4 DEF Opens
    <2>5. ASSUME NEW path \in Paths, NEW readable \in BOOLEAN, isofs_open(path, readable)
          PROVE  SearchExact' /\ UNCHANGED root
      <3>1. CASE readable /\ Finds(path)
        BY <2>4, <2>5, <3>1 DEF isofs_open
      <3>2. CASE ~(readable /\ Finds(path))
        <4>1. /\ answer' = [op |-> IF readable THEN "ENOENT" ELSE "error", path |-> path]
              /\ UNCHANGED root
          BY <2>5, <3>2 DEF isofs_open
        <4>2. /\ answer'.path = path /\ answer'.op # "found"
              /\ answer'.op = "ENOENT" => readable
          BY <4>1
        <4>3. answer'.op = "ENOENT" => ~Finds(path)
          BY <3>2, <4>2
        <4>4. QED
          BY <4>1, <4>2, <4>3, SearchIs
      <3>3. QED
        BY <3>1, <3>2
    <2>6. ASSUME NEW path \in Paths, NEW readable \in BOOLEAN, isofs_getstat(path, readable)
          PROVE  SearchExact' /\ UNCHANGED root
      <3>1. /\ answer' = [op |-> IF ~readable THEN "error"
                                 ELSE IF Finds(path) THEN "found" ELSE "ENOENT",
                          path |-> path]
            /\ UNCHANGED root /\ focus = "search"
        BY <2>6 DEF isofs_getstat
      <3>2. /\ answer'.path = path
            /\ answer'.op = IF ~readable THEN "error" ELSE IF Finds(path) THEN "found" ELSE "ENOENT"
        BY <3>1
      <3>3. (answer'.op = "ENOENT" => ~Finds(path)) /\ (answer'.op = "found" => Finds(path))
        BY <3>2
      <3>4. QED
        BY <3>1, <3>2, <3>3, SearchIs
    <2>7. CASE isofs_open_lbn
      BY <2>4, <2>7 DEF isofs_open_lbn
    <2>8. ASSUME NEW f \in Handle, isofs_close(f) PROVE SearchExact' /\ UNCHANGED root
      BY <2>1, <2>8 DEF isofs_close, Nothing
    <2>9. ASSUME NEW f \in Handle, NEW ofs \in -2 .. 2, NEW whence \in {"SET", "CUR", "END"},
                 isofs_lseek(f, ofs, whence)
          PROVE  SearchExact' /\ UNCHANGED root
      BY <2>1, <2>9 DEF isofs_lseek, Nothing
    <2>10. ASSUME NEW f \in Handle, NEW len \in 0 .. FileSize + 2, NEW first \in Reads(1),
                  NEW last \in Reads(1), NEW middle \in Reads(len \div SECTOR_SIZE),
                  isofs_read(f, len, first, middle, last)
           PROVE  SearchExact' /\ UNCHANGED root
      <3>1. answer'.op = "read" /\ UNCHANGED root
        BY <2>10 DEF isofs_read
      <3>2. QED
        BY <2>1, <3>1
    <2>11. QED
      BY <2>2, <2>3, <2>5, <2>6, <2>7, <2>8, <2>9, <2>10 DEF Next
  <1>3. QED
    BY <1>1, <1>2, PTL DEF Spec

=============================================================================
