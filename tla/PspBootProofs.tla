---------------------------- MODULE PspBootProofs ----------------------------
(***************************************************************************)
(* PspBoot for any stored settings and any number of boots: what the two   *)
(* copies of the rebootex configuration agree about from a LoadExec to the *)
(* program it boots, and what the order of the modules' starts gives.      *)
(***************************************************************************)
EXTENDS PspBoot, FiniteSetTheorems, SequenceTheorems, TLAPS

USE MaxBootsAssumption

-----------------------------------------------------------------------------
(* The order of the starts *)

Entries == [name : Names, modes : SUBSET Modes]

\* The settings are read at the first start, and the codec wrapper starts before
\* sceMediaSync, also when a module has been inserted.
Ordered(t) ==
  /\ t \in Seq(Entries)
  /\ \A i \in 1..Len(t) :
       /\ t[i].name = "power" <=> i = 1
       /\ t[i].name = "mediasync" => \E j \in 1..i : t[j].name = "mecodec"

LEMMA EntryIs ==
  ASSUME NEW name \in Names, NEW modes \in SUBSET Modes
  PROVE  Entry(name, modes) \in Entries /\ Entry(name, modes).name = name
  BY DEF Entry, Entries

LEMMA BootTableOrdered ==
  ASSUME NEW i \in Lists
  PROVE  Ordered(BootTable(i)) /\ Len(BootTable(i)) = 6
  <1> DEFINE e1 == Entry("power", Modes)
             e2 == Entry("npdrm", IF i = "booter" THEN {"V", "P"} ELSE {"V", "P", "E"})
             e3 == Entry(IF i \in {"inferno", "march33"} THEN "isodriver" ELSE "np9660",
                         IF i = "booter" THEN {} ELSE {"E"})
             e4 == Entry("mecodec", Modes)
             e5 == Entry("mediasync", Modes)
             e6 == Entry("program", Modes)
  <1>1. /\ e1 \in Entries /\ e2 \in Entries /\ e3 \in Entries
        /\ e4 \in Entries /\ e5 \in Entries /\ e6 \in Entries
        /\ e1.name = "power" /\ e2.name = "npdrm" /\ e3.name \in {"isodriver", "np9660"}
        /\ e4.name = "mecodec" /\ e5.name = "mediasync" /\ e6.name = "program"
    <2>1. /\ {"V", "P"} \in SUBSET Modes /\ {"V", "P", "E"} \in SUBSET Modes
          /\ {} \in SUBSET Modes /\ {"E"} \in SUBSET Modes /\ Modes \in SUBSET Modes
      BY DEF Modes
    <2>2. {"power", "npdrm", "isodriver", "np9660", "mecodec", "mediasync", "program"} \subseteq Names
      BY DEF Names
    <2>3. e1 \in Entries /\ e1.name = "power"
      BY <2>1, <2>2, EntryIs
    <2>4. e2 \in Entries /\ e2.name = "npdrm"
      BY <2>1, <2>2, EntryIs
    <2>5. e3 \in Entries /\ e3.name \in {"isodriver", "np9660"}
      BY <2>1, <2>2, EntryIs
    <2>6. e4 \in Entries /\ e4.name = "mecodec"
      BY <2>1, <2>2, EntryIs
    <2>7. e5 \in Entries /\ e5.name = "mediasync"
      BY <2>1, <2>2, EntryIs
    <2>8. e6 \in Entries /\ e6.name = "program"
      BY <2>1, <2>2, EntryIs
    <2>9. QED
      BY <2>3, <2>4, <2>5, <2>6, <2>7, <2>8
  <1> HIDE DEF e1, e2, e3, e4, e5, e6
  <1>2. PICK t : t = <<e1, e2, e3, e4, e5, e6>>
    OBVIOUS
  <1>3. t \in Seq(Entries) /\ Len(t) = 6
    BY <1>1, <1>2
  <1>4. t[1] = e1 /\ t[2] = e2 /\ t[3] = e3 /\ t[4] = e4 /\ t[5] = e5 /\ t[6] = e6
    BY <1>2
  <1>5. ASSUME NEW k \in 1..6
        PROVE  /\ t[k].name = "power" <=> k = 1
               /\ t[k].name = "mediasync" => \E j \in 1..k : t[j].name = "mecodec"
    <2>1. t[k].name = "power" <=> k = 1
      BY <1>1, <1>4
    <2>2. t[k].name = "mediasync" => k = 5
      BY <1>1, <1>4
    <2>3. 4 \in 1..5 /\ t[4].name = "mecodec"
      BY <1>1, <1>4
    <2>4. QED
      BY <2>1, <2>2, <2>3
  <1>6. BootTable(i) = t
    BY <1>2 DEF BootTable, e1, e2, e3, e4, e5, e6
  <1>7. QED
    BY <1>3, <1>5, <1>6 DEF Ordered

LEMMA InsertOrdered ==
  ASSUME NEW t, Ordered(t), NEW p \in 1..Len(t), t[p].name # "power"
  PROVE  /\ Ordered(InsertAt(t, p, Entry("rtm", Modes)))
         /\ Len(InsertAt(t, p, Entry("rtm", Modes))) = Len(t) + 1
  <1>1. PICK n \in Nat : n = Len(t)
    BY LenProperties DEF Ordered
  <1>2. /\ t \in Seq(Entries)
        /\ \A i \in 1..n : t[i] \in Entries
        /\ \A i \in 1..n : t[i].name = "power" <=> i = 1
        /\ \A i \in 1..n : t[i].name = "mediasync" => \E j \in 1..i : t[j].name = "mecodec"
    BY <1>1, ElementOfSeq DEF Ordered
  <1>3. PICK e : e = Entry("rtm", Modes)
    OBVIOUS
  <1>4. e \in Entries /\ e.name = "rtm"
    BY <1>3, EntryIs DEF Names
  <1>5. p \in 2..n
    BY <1>1, <1>2
  <1>6. PICK a : a = SubSeq(t, 1, p - 1)
    OBVIOUS
  <1>7. PICK b : b = SubSeq(t, p, n)
    OBVIOUS
  <1>8. a \in Seq(Entries) /\ Len(a) = p - 1 /\ \A i \in 1..(p - 1) : a[i] = t[i]
    <2>1. 1 \in Int /\ p - 1 \in Int /\ \A i \in 1..(p - 1) : t[i] \in Entries
      BY <1>2, <1>5
    <2>2. /\ SubSeq(t, 1, p - 1) \in Seq(Entries)
          /\ Len(SubSeq(t, 1, p - 1)) = IF 1 <= p - 1 THEN p - 1 - 1 + 1 ELSE 0
          /\ \A i \in 1..(p - 1 - 1 + 1) : SubSeq(t, 1, p - 1)[i] = t[1 + i - 1]
      BY <2>1, SubSeqProperties
    <2>3. \A i \in 1..(p - 1) : 1 + i - 1 = i
      OBVIOUS
    <2>4. 1 <= p - 1 /\ p - 1 - 1 + 1 = p - 1
      BY <1>5
    <2>5. QED
      BY <2>2, <2>3, <2>4, <1>6
  <1>9. b \in Seq(Entries) /\ Len(b) = n - p + 1 /\ \A i \in 1..(n - p + 1) : b[i] = t[p + i - 1]
    <2>1. p \in Int /\ n \in Int /\ \A i \in p..n : t[i] \in Entries
      BY <1>2, <1>5
    <2>2. /\ SubSeq(t, p, n) \in Seq(Entries)
          /\ Len(SubSeq(t, p, n)) = IF p <= n THEN n - p + 1 ELSE 0
          /\ \A i \in 1..(n - p + 1) : SubSeq(t, p, n)[i] = t[p + i - 1]
      BY <2>1, SubSeqProperties
    <2>3. QED
      BY <2>2, <1>5, <1>7
  <1>10. PICK c : c = a \o <<e>>
    OBVIOUS
  <1>11. c \in Seq(Entries) /\ Len(c) = p /\ \A i \in 1..p : c[i] = IF i = p THEN e ELSE t[i]
    <2>1. <<e>> \in Seq(Entries) /\ Len(<<e>>) = 1 /\ <<e>>[1] = e
      BY <1>4
    <2>2. /\ c \in Seq(Entries) /\ Len(c) = p - 1 + 1
          /\ \A i \in 1..(p - 1 + 1) : c[i] = IF i <= p - 1 THEN a[i] ELSE <<e>>[i - (p - 1)]
      BY <2>1, <1>8, <1>10, ConcatProperties
    <2>3. p - 1 + 1 = p /\ \A i \in 1..p : (i <= p - 1 <=> i # p) /\ (i = p => i - (p - 1) = 1)
      BY <1>5
    <2>4. ASSUME NEW i \in 1..p PROVE c[i] = IF i = p THEN e ELSE t[i]
      <3>1. CASE i = p
        BY <2>1, <2>2, <2>3, <3>1
      <3>2. CASE i # p
        <4>1. i \in 1..(p - 1)
          BY <3>2
        <4>2. QED
          BY <2>2, <2>3, <3>2, <4>1, <1>8
      <3>3. QED
        BY <3>1, <3>2
    <2>5. QED
      BY <2>2, <2>3, <2>4
  <1>12. PICK r : r = c \o b
    OBVIOUS
  <1>13. /\ r \in Seq(Entries) /\ Len(r) = n + 1
         /\ \A i \in 1..(n + 1) : r[i] = IF i < p THEN t[i] ELSE IF i = p THEN e ELSE t[i - 1]
    <2>1. /\ r \in Seq(Entries) /\ Len(r) = p + (n - p + 1)
          /\ \A i \in 1..(p + (n - p + 1)) : r[i] = IF i <= p THEN c[i] ELSE b[i - p]
      <3>1. /\ c \o b \in Seq(Entries) /\ Len(c \o b) = Len(c) + Len(b)
            /\ \A i \in 1..(Len(c) + Len(b)) :
                 (c \o b)[i] = IF i <= Len(c) THEN c[i] ELSE b[i - Len(c)]
        BY <1>9, <1>11, ConcatProperties
      <3>2. Len(c) = p /\ Len(b) = n - p + 1
        BY <1>9, <1>11
      <3>3. QED
        BY <3>1, <3>2, <1>12
    <2>2. p + (n - p + 1) = n + 1
      BY <1>5
    <2>3. ASSUME NEW i \in 1..(n + 1) PROVE r[i] = IF i < p THEN t[i] ELSE IF i = p THEN e ELSE t[i - 1]
      <3>1. CASE i <= p
        <4>1. r[i] = c[i] /\ i \in 1..p
          BY <2>1, <2>2, <3>1
        <4>2. QED
          BY <3>1, <4>1, <1>11
      <3>2. CASE ~(i <= p)
        <4>1. i - p \in 1..(n - p + 1) /\ p + (i - p) - 1 = i - 1
          BY <3>2
        <4>2. r[i] = b[i - p] /\ b[i - p] = t[i - 1]
          BY <2>1, <2>2, <3>2, <4>1, <1>9
        <4>3. QED
          BY <3>2, <4>2
      <3>3. QED
        BY <3>1, <3>2
    <2>4. QED
      BY <2>1, <2>2, <2>3
  <1>14. ASSUME NEW i \in 1..(n + 1)
         PROVE  /\ r[i].name = "power" <=> i = 1
                /\ r[i].name = "mediasync" => \E j \in 1..i : r[j].name = "mecodec"
    <2>1. CASE i < p
      <3>1. i \in 1..n /\ \A j \in 1..i : j \in 1..(n + 1) /\ j < p
        BY <2>1, <1>5
      <3>2. \A j \in 1..i : r[j] = t[j]
        BY <3>1, <1>13
      <3>3. QED
        BY <3>1, <3>2, <1>2
    <2>2. CASE i = p
      BY <2>2, <1>4, <1>5, <1>13
    <2>3. CASE i > p
      <3>1. i - 1 \in 1..n /\ i - 1 # 1 /\ i # 1 /\ r[i] = t[i - 1]
        BY <2>3, <1>5, <1>13
      <3>2. ASSUME NEW j \in 1..(i - 1), t[j].name = "mecodec" PROVE \E k \in 1..i : r[k].name = "mecodec"
        <4>1. CASE j < p
          <5>1. r[j] = t[j] /\ j \in 1..i
            BY <4>1, <1>13
          <5>2. QED
            BY <5>1, <3>2
        <4>2. CASE ~(j < p)
          <5>1. j + 1 \in 1..i /\ j + 1 \in 1..(n + 1) /\ ~(j + 1 < p) /\ j + 1 # p /\ j + 1 - 1 = j
            BY <4>2
          <5>2. r[j + 1] = t[j]
            BY <5>1, <1>13
          <5>3. QED
            BY <5>1, <5>2, <3>2
        <4>3. QED
          BY <4>1, <4>2
      <3>3. QED
        BY <3>1, <3>2, <1>2
    <2>4. QED
      BY <2>1, <2>2, <2>3
  <1>15. InsertAt(t, p, Entry("rtm", Modes)) = r
    BY <1>1, <1>3, <1>6, <1>7, <1>10, <1>12 DEF InsertAt
  <1>16. QED
    BY <1>1, <1>13, <1>14, <1>15 DEF Ordered

-----------------------------------------------------------------------------
(* The inductive invariant *)

Words == 0..(WordSize - 1)

Configs == [index : Lists, umd : {"none", "iso"}, ram2 : Words, ram11 : Words,
            module_after : {"none", "npdrm", "missing"}]

\* A request that is still kept has passed the test of sctrlHENSetMemory.
Fits(c) == c.ram2 # 0 => MemorySum(<<c.ram2, c.ram11>>) <= 52

ConfigTypes ==
  /\ shared \in Configs /\ Fits(shared)
  /\ rebootex \in Configs /\ Fits(rebootex)
  /\ boot \in [mode : Modes, disc : BOOLEAN, index : Lists,
               loader : {"none", "payloadex", "rebootex"}]
  /\ published \in [index : DiscLists \cup {"normal"}, umd : {"none", "iso"}]

BootTypes ==
  /\ phase \in {"off", "reboot", "btcnf", "config", "sysctl", "init", "program"}
  /\ files \in SUBSET UNION Stored /\ config \in SUBSET UNION Stored
  /\ plugindone \in BOOLEAN /\ idle \in BOOLEAN /\ user \in 1..(WordSize - 1)
  /\ clock \in {"default", "program", "menu"}
  /\ boots \in 0..MaxBoots /\ asked \in 0..boots /\ granted \in SUBSET (1..boots)
  /\ runs \in Nat /\ wanted \in BOOLEAN
  /\ phase # "off" => boots > 0

TableTypes ==
  /\ Ordered(table)
  /\ maxsearch \in Nat /\ maxsearch <= Len(table)
  /\ pos \in 0..maxsearch

\* What the plugins that have run relied on has been started before them, and the
\* settings have not been read again.
Plugins ==
  /\ ~Booted => pos = 0
  /\ pos = 0 => runs = 0 /\ ~plugindone
  /\ runs > 0 =>
       /\ runs = 1 /\ plugindone
       /\ NotUsed \notin config
       /\ Key # "VSH" => "plugins2" \notin config
       /\ Key = "VSH" => \E i \in 1..pos : "V" \in table[i].modes /\ table[i].name = "npdrm"
       /\ \E i \in 1..pos : table[i].name = "mecodec"

\* The idle work comes after the settings have been read, and fixes the clock.
ClockKept ==
  /\ phase = "program" => pos # 0
  /\ pos = 0 => ~idle
  /\ ClockFixed

\* A disc is booted with what the booter published, anything else without a disc.
Matches(index, umd) ==
  IF boot.disc THEN index = published.index /\ umd = published.umd
               ELSE index \notin DiscLists /\ umd = "none"

\* The two copies of the configuration from a LoadExec to the program it boots.
ListAsked ==
  /\ boot.disc <=> boot.mode = "E"
  /\ phase = "off" => ~boot.disc
  /\ phase = "reboot" => Matches(rebootex.index, rebootex.umd)
  /\ phase = "btcnf" => Matches(shared.index, shared.umd)
  /\ phase \in {"config", "sysctl", "init"} => Matches(boot.index, shared.umd)
  /\ phase \in {"config", "sysctl"} =>
       shared.index = IF boot.index = "recovery" THEN "normal" ELSE boot.index
  /\ phase \in {"init", "program"} =>
       /\ boot.disc => rebootex.index = published.index /\ rebootex.umd = published.umd
       /\ rebootex.index = "recovery" => wanted

\* A request that is still in the configuration has changed no later boot yet.
MemoryAsked ==
  /\ \E b \in Nat : granted \subseteq {asked, b}
  /\ phase \in {"btcnf", "config", "sysctl"} /\ shared.ram2 # 0 => granted \subseteq {asked}
  /\ phase \in {"reboot", "init", "program"} /\ rebootex.ram2 # 0 => granted \subseteq {asked}

Types == ConfigTypes /\ BootTypes /\ TableTypes

Inv == Types /\ Plugins /\ ClockKept /\ ListAsked /\ MemoryAsked

-----------------------------------------------------------------------------
(* The memory of a boot *)

LEMMA FreshConfig ==
  ASSUME NEW i \in Lists
  PROVE  /\ RebootexConfig(i) \in Configs /\ Fits(RebootexConfig(i))
         /\ RebootexConfig(i).index = i /\ RebootexConfig(i).umd = "none"
         /\ RebootexConfig(i).ram2 = 0
  <1>1. 0 \in Words
    BY WordSizeAssumption DEF Words
  <1>2. QED
    BY <1>1 DEF RebootexConfig, Configs, Fits

LEMMA SumIs ==
  ASSUME NEW a \in Words, NEW b \in Words
  PROVE  /\ MemorySum(<<a, b>>) = (a + b) % WordSize
         /\ ValidMemory(<<a, b>>) <=> a # 0 /\ MemorySum(<<a, b>>) <= 52
  BY DEF MemorySum, ValidMemory

LEMMA SetMemoryIs ==
  ASSUME NEW c \in Configs, Fits(c), NEW ram \in Requests \cup {<<52, 0>>}
  PROVE  /\ SetMemory(c, ram) \in Configs /\ Fits(SetMemory(c, ram))
         /\ SetMemory(c, ram).index = c.index /\ SetMemory(c, ram).umd = c.umd
         /\ ~ValidMemory(ram) => SetMemory(c, ram) = c
  <1>1. PICK a \in Words, b \in Words : ram = <<a, b>>
    <2>1. {0, 8, 52, 60, WordSize - 16} \subseteq Words
      BY WordSizeAssumption DEF Words
    <2>2. QED
      BY <2>1 DEF Requests
  <1>2. ram[1] = a /\ ram[2] = b
    BY <1>1
  <1>3. CASE ValidMemory(ram)
    <2>1. MemorySum(<<a, b>>) <= 52
      BY <1>1, <1>3, SumIs
    <2>2. SetMemory(c, ram) = [c EXCEPT !.ram2 = a, !.ram11 = b]
      BY <1>2, <1>3 DEF SetMemory
    <2>3. PICK d : d = SetMemory(c, ram)
      OBVIOUS
    <2>4. d \in Configs /\ d.ram2 = a /\ d.ram11 = b /\ d.index = c.index /\ d.umd = c.umd
      BY <2>2, <2>3 DEF Configs
    <2>5. QED
      BY <2>1, <2>3, <2>4, <1>3 DEF Fits
  <1>4. CASE ~ValidMemory(ram)
    BY <1>4 DEF SetMemory
  <1>5. QED
    BY <1>3, <1>4

LEMMA ApplyMemoryIs ==
  ASSUME NEW c \in Configs, user \in 1..(WordSize - 1)
  PROVE  ApplyMemory(c) \in 1..(WordSize - 1)
  <1>1. PICK a \in Words, b \in Words : a = c.ram2 /\ b = c.ram11
    BY DEF Configs
  <1>2. ValidMemory(<<a, b>>) => a # 0
    BY SumIs
  <1>3. CASE ValidMemory(<<a, b>>)
    <2>1. ApplyMemory(c) = a
      BY <1>1, <1>3 DEF ApplyMemory
    <2>2. QED
      BY <1>2, <1>3, <2>1 DEF Words
  <1>4. CASE ~ValidMemory(<<a, b>>)
    BY <1>1, <1>4 DEF ApplyMemory
  <1>5. QED
    BY <1>3, <1>4

\* What the start of a module does to the requests for memory.
MemoryStep ==
  \/ UNCHANGED <<rebootex, user, asked, granted>>
  \/ /\ rebootex' = SetMemory(rebootex, <<52, 0>>)
     /\ user' = ApplyMemory(rebootex')
     /\ asked' = boots /\ granted' = {boots}
  \/ /\ rebootex.ram2 # 0
     /\ rebootex' = [rebootex EXCEPT !.ram2 = 0]
     /\ user' = ApplyMemory(rebootex)
     /\ granted' = granted \cup {boots}
     /\ asked' = asked

LEMMA GetIndexIs ==
  ASSUME NEW memsize \in BOOLEAN, GetIndex(memsize) PROVE MemoryStep
  <1>1. CASE rebootex.ram2 = 0
    <2>1. CASE memsize
      BY <1>1, <2>1 DEF GetIndex, MemoryStep
    <2>2. CASE ~memsize
      BY <1>1, <2>2 DEF GetIndex, MemoryStep
    <2>3. QED
      BY <2>1, <2>2
  <1>2. CASE rebootex.ram2 # 0
    BY <1>2 DEF GetIndex, MemoryStep
  <1>3. QED
    BY <1>1, <1>2

\* A start as the invariants see it.
StartIs ==
  /\ phase = "init" /\ pos < maxsearch /\ pos' = pos + 1
  /\ UNCHANGED <<shared, boot, table, maxsearch, files, boots, published, wanted>>
  /\ phase' \in {"init", "program"}
  /\ MemoryStep
  /\ config' \in {config, files, files \cap AdrenalineOptions, files \ AdrenalineOptions, {}}
  /\ table[pos + 1].name # "power" => config' = config
  /\ \/ UNCHANGED <<idle, clock>>
     \/ table[pos + 1].name # "power" /\ idle' = TRUE /\ SystemStatusIdle
  /\ \/ UNCHANGED <<plugindone, runs>>
     \/ StartPlugins(table[pos + 1].name, pos + 1)

LEMMA StartModuleIs ==
  ASSUME StartModule PROVE StartIs
  <1>1. PICK entry : entry = table[pos + 1]
    OBVIOUS
  <1>2. /\ phase = "init" /\ pos < maxsearch /\ pos' = pos + 1
        /\ UNCHANGED <<shared, boot, table, maxsearch, files>>
    BY DEF StartModule
  <1>3. CASE boot.mode \notin entry.modes
    <2>1. UNCHANGED <<phase, rebootex, config, plugindone, idle, user, clock, history>>
      BY <1>1, <1>3 DEF StartModule
    <2>2. QED
      BY <1>2, <2>1 DEF StartIs, MemoryStep, history
  <1>4. CASE boot.mode \in entry.modes
    <2>1. /\ StartPlugins(entry.name, pos + 1)
          /\ IdleCheck(entry.name)
          /\ phase' = IF entry.name = "program" THEN "program" ELSE phase
          /\ UNCHANGED <<boots, published, wanted>>
      BY <1>1, <1>4 DEF StartModule
    <2>2. \/ entry.name = "power" /\ StartPower
          \/ /\ entry.name = "mediasync" /\ UNCHANGED config
             /\ \/ \E memsize \in BOOLEAN : GetIndex(memsize)
                \/ boot.mode # "G" /\ UNCHANGED <<rebootex, user, asked, granted>>
          \/ /\ entry.name \notin {"power", "mediasync"}
             /\ UNCHANGED <<config, rebootex, user, asked, granted>>
      BY <1>1, <1>4 DEF StartModule
    <2>3. \/ UNCHANGED <<idle, clock>>
          \/ entry.name # "power" /\ idle' = TRUE /\ SystemStatusIdle
      BY <2>1 DEF IdleCheck
    <2>4. /\ MemoryStep
          /\ config' \in {config, files, files \cap AdrenalineOptions, files \ AdrenalineOptions, {}}
          /\ entry.name # "power" => config' = config
      <3>1. CASE entry.name = "power" /\ StartPower
        BY <3>1 DEF StartPower, MemoryStep
      <3>2. CASE entry.name = "mediasync"
        BY <2>2, <3>2, GetIndexIs DEF MemoryStep
      <3>3. CASE entry.name \notin {"power", "mediasync"}
        BY <2>2, <3>3 DEF MemoryStep
      <3>4. QED
        BY <2>2, <3>1, <3>2, <3>3
    <2>5. phase' \in {"init", "program"}
      BY <1>2, <2>1
    <2>6. QED
      BY <1>1, <1>2, <2>1, <2>3, <2>4, <2>5 DEF StartIs
  <1>5. QED
    BY <1>3, <1>4

-----------------------------------------------------------------------------
(* The invariants are kept *)

\* The actions by what they change, those of the loaders by their callbacks.
LEMMA NextIs ==
  ASSUME [Next]_vars
  PROVE  \/ UNCHANGED vars
         \/ \E i \in Lists : ColdStart(i)
         \/ LoadBtcnf \/ CheckPspConfig \/ SystemControlStart \/ StartIs \/ DecodeKL4E
         \/ \E mode \in Modes : ProgramLoadExec(mode)
         \/ \E content \in DiscLists \cup {"npdrm", "pbp", "ps1"} : Launch(content)
         \/ AskRecovery
         \/ \E ram \in Requests : ProgramSetMemory(ram)
         \/ \E name \in {"npdrm", "missing"} : ModuleOnReboot(name)
         \/ \E options \in Stored : SetConfig(options)
         \/ ProgramSetClock
         \/ ProgramModule
         \/ Kill
  BY StartModuleIs DEF Next, BootStep, Payloadex, Rebootex

\* RunRebootPatched on the configuration that a program leaves.
LEMMA RunRebootIs ==
  ASSUME NEW c \in Configs, Fits(c), NEW disc \in BOOLEAN
  PROVE  /\ RunReboot(c, disc) \in Configs /\ Fits(RunReboot(c, disc))
         /\ disc => RunReboot(c, disc) = c
         /\ ~disc => RunReboot(c, disc).index \notin DiscLists /\ RunReboot(c, disc).umd = "none"
         /\ RunReboot(c, disc).ram2 = c.ram2
  BY DEF RunReboot, Configs, Fits, Lists, DiscLists

LEMMA PublishedIs ==
  ASSUME rebootex \in Configs, NEW content \in DiscLists \cup {"npdrm", "pbp", "ps1"}
  PROVE  /\ Published(content) \in [index : Lists, umd : {"none", "iso"}]
         /\ BooterMode(content) \in Modes
         /\ BooterMode(content) = "E" => Published(content).index \in DiscLists
         /\ BooterMode(content) # "E" =>
              Published(content).index = rebootex.index /\ Published(content).umd = rebootex.umd
  BY DEF Published, BooterMode, Configs, Lists, DiscLists, Modes

\* The configuration that the booter publishes.
Chosen(content) ==
  [rebootex EXCEPT !.index = Published(content).index, !.umd = Published(content).umd]

LEMMA LaunchIs ==
  ASSUME ConfigTypes, NEW content \in DiscLists \cup {"npdrm", "pbp", "ps1"}, Launch(content)
  PROVE  /\ Running /\ UNCHANGED <<shared, files, asked, granted, wanted>>
         /\ Chosen(content) \in Configs /\ Fits(Chosen(content))
         /\ Chosen(content).ram2 = rebootex.ram2
         /\ Chosen(content).index = Published(content).index
         /\ Chosen(content).umd = Published(content).umd
         /\ published' = IF BooterMode(content) = "E" THEN Published(content) ELSE published
         /\ published' \in [index : DiscLists \cup {"normal"}, umd : {"none", "iso"}]
         /\ BooterMode(content) = "E" => Published(content).index \in DiscLists
         /\ BooterMode(content) # "E" =>
              Chosen(content).index = rebootex.index /\ Chosen(content).umd = rebootex.umd
         /\ BooterMode(content) \in Modes
         /\ \/ LoadExec(Chosen(content), BooterMode(content))
            \/ rebootex' = Chosen(content) /\ UNCHANGED <<boot, phase, boots, runs, machine>>
  <1>1. PICK p \in [index : Lists, umd : {"none", "iso"}] : p = Published(content)
    BY PublishedIs DEF ConfigTypes
  <1>2. /\ BooterMode(content) \in Modes
        /\ BooterMode(content) = "E" => p.index \in DiscLists
        /\ BooterMode(content) # "E" => p.index = rebootex.index /\ p.umd = rebootex.umd
    BY <1>1, PublishedIs DEF ConfigTypes
  <1>3. PICK c : c = Chosen(content)
    OBVIOUS
  <1>4. c = [rebootex EXCEPT !.index = p.index, !.umd = p.umd]
    BY <1>1, <1>3 DEF Chosen
  <1>5. c \in Configs /\ Fits(c) /\ c.ram2 = rebootex.ram2 /\ c.index = p.index /\ c.umd = p.umd
    BY <1>4 DEF ConfigTypes, Configs, Fits
  <1>6. /\ Running /\ UNCHANGED <<shared, files, asked, granted, wanted>>
        /\ published' = IF BooterMode(content) = "E" THEN p ELSE published
        /\ \/ LoadExec(c, BooterMode(content))
           \/ rebootex' = c /\ UNCHANGED <<boot, phase, boots, runs, machine>>
    BY <1>1, <1>3 DEF Launch, Chosen
  <1>7. published' \in [index : DiscLists \cup {"normal"}, umd : {"none", "iso"}]
    BY <1>2, <1>6 DEF ConfigTypes
  <1>8. QED
    BY <1>1, <1>2, <1>3, <1>5, <1>6, <1>7

\* What a reboot and the end of the process leave.
LEMMA ForgetIs ==
  ASSUME Forget
  PROVE  /\ config' \in SUBSET UNION Stored /\ plugindone' \in BOOLEAN /\ idle' \in BOOLEAN
         /\ user' \in 1..(WordSize - 1) /\ clock' \in {"default", "program", "menu"} /\ runs' \in Nat
         /\ TableTypes' /\ Plugins'
  <1>1. /\ table' = <<>> /\ maxsearch' = 0 /\ pos' = 0 /\ config' = {}
        /\ plugindone' = FALSE /\ idle' = FALSE /\ user' = 24 /\ clock' = "default" /\ runs' = 0
    BY DEF Forget
  <1>2. config' \in SUBSET UNION Stored
    BY <1>1
  <1>3. user' \in 1..(WordSize - 1)
    BY <1>1, WordSizeAssumption
  <1>4. TableTypes'
    <2>1. Ordered(<<>>) /\ Len(<<>>) = 0
      BY EmptySeq DEF Ordered
    <2>2. QED
      BY <1>1, <2>1 DEF TableTypes
  <1>5. Plugins'
    BY <1>1 DEF Plugins, Booted
  <1>6. QED
    BY <1>1, <1>2, <1>3, <1>4, <1>5

LEMMA LoadExecTypes ==
  ASSUME ConfigTypes, BootTypes, NEW c \in Configs, Fits(c), NEW mode \in Modes, LoadExec(c, mode), Running,
         UNCHANGED <<shared, files, asked, granted, wanted>>,
         published' \in [index : DiscLists \cup {"normal"}, umd : {"none", "iso"}]
  PROVE  ConfigTypes' /\ BootTypes' /\ TableTypes' /\ Plugins'
  <1>1. /\ rebootex' = RunReboot(c, mode = "E") /\ phase' = "reboot" /\ boots' = boots + 1
        /\ boot' = [boot EXCEPT !.mode = mode, !.disc = (mode = "E"), !.loader = "rebootex"]
        /\ Forget
    BY DEF LoadExec
  <1>2. rebootex' \in Configs /\ Fits(rebootex')
    BY <1>1, RunRebootIs
  <1>3. boot' \in [mode : Modes, disc : BOOLEAN, index : Lists,
                   loader : {"none", "payloadex", "rebootex"}]
    BY <1>1 DEF ConfigTypes
  <1>4. ConfigTypes'
    BY <1>2, <1>3 DEF ConfigTypes, Fits
  <1>5. boots + 1 \in 0..MaxBoots /\ boots + 1 > 0 /\ asked \in 0..(boots + 1) /\ granted \in SUBSET (1..(boots + 1))
    BY DEF BootTypes, Running
  <1>6. BootTypes'
    <2>1. /\ files' \in SUBSET UNION Stored /\ wanted' \in BOOLEAN
      BY DEF BootTypes
    <2>2. /\ phase' = "reboot" /\ boots' \in 0..MaxBoots /\ boots' > 0 /\ asked' \in 0..boots'
          /\ granted' \in SUBSET (1..boots')
      BY <1>1, <1>5
    <2>3. QED
      BY <1>1, <2>1, <2>2, ForgetIs DEF BootTypes
  <1>7. QED
    BY <1>1, <1>4, <1>6, ForgetIs

LEMMA ConfigTypesNext ==
  ASSUME Types, [Next]_vars PROVE ConfigTypes'
  <1> USE DEF Types
  <1>1. ASSUME UNCHANGED <<boot, published>>, shared' = rebootex \/ shared' = shared,
               rebootex' \in Configs, Fits(rebootex')
        PROVE  ConfigTypes'
    BY <1>1 DEF ConfigTypes, Fits
  <1>2. CASE UNCHANGED vars
    BY <1>2 DEF vars, ConfigTypes, Fits
  <1>3. ASSUME NEW i \in Lists, ColdStart(i) PROVE ConfigTypes'
    <2>1. /\ shared' = RebootexConfig(i) /\ UNCHANGED <<rebootex, published>>
          /\ boot' = [mode |-> "V", disc |-> FALSE, index |-> i, loader |-> "payloadex"]
      BY <1>3 DEF ColdStart
    <2>2. shared' \in Configs /\ Fits(shared')
      BY <2>1, FreshConfig
    <2>3. QED
      BY <2>1, <2>2 DEF ConfigTypes, Modes, Fits
  <1>4. CASE LoadBtcnf
    <2>1. /\ boot' = [boot EXCEPT !.index = shared.index] /\ UNCHANGED <<rebootex, published>>
          /\ shared' = [shared EXCEPT !.index = IF @ = "recovery" THEN "normal" ELSE @]
      BY <1>4 DEF LoadBtcnf, history
    <2>2. shared' \in Configs /\ Fits(shared')
      BY <2>1 DEF ConfigTypes, Configs, Fits, Lists
    <2>3. boot' \in [mode : Modes, disc : BOOLEAN, index : Lists,
                     loader : {"none", "payloadex", "rebootex"}]
      BY <2>1 DEF ConfigTypes, Configs
    <2>4. QED
      BY <2>1, <2>2, <2>3 DEF ConfigTypes, Fits
  <1>5. CASE CheckPspConfig
    <2>1. /\ boot' = [boot EXCEPT !.loader = "none"] /\ UNCHANGED <<shared, rebootex, published>>
      BY <1>5 DEF CheckPspConfig, history
    <2>2. QED
      BY <2>1 DEF ConfigTypes, Fits
  <1>6. CASE SystemControlStart
    BY <1>6 DEF SystemControlStart, ConfigTypes, Fits
  <1>7. CASE StartIs
    <2>1. rebootex' \in Configs /\ Fits(rebootex')
      <3>1. CASE rebootex' = rebootex
        BY <3>1 DEF ConfigTypes
      <3>2. CASE rebootex' = SetMemory(rebootex, <<52, 0>>)
        BY <3>2, SetMemoryIs DEF ConfigTypes
      <3>3. CASE rebootex' = [rebootex EXCEPT !.ram2 = 0]
        <4>1. 0 \in Words
          BY WordSizeAssumption DEF Words
        <4>2. QED
          BY <3>3, <4>1 DEF ConfigTypes, Configs, Fits
      <3>4. QED
        BY <1>7, <3>1, <3>2, <3>3 DEF StartIs, MemoryStep
    <2>2. QED
      BY <1>1, <1>7, <2>1 DEF StartIs
  <1>8. CASE DecodeKL4E
    BY <1>8, <1>1 DEF DecodeKL4E, history, ConfigTypes
  <1>9. ASSUME NEW mode \in Modes, ProgramLoadExec(mode) PROVE ConfigTypes'
    <2>1. LoadExec(rebootex, mode) /\ Running /\ UNCHANGED <<shared, files, asked, granted, published, wanted>>
      BY <1>9 DEF ProgramLoadExec
    <2>2. QED
      BY <2>1, LoadExecTypes DEF ConfigTypes
  <1>10. ASSUME NEW content \in DiscLists \cup {"npdrm", "pbp", "ps1"}, Launch(content) PROVE ConfigTypes'
    <2>1. CASE LoadExec(Chosen(content), BooterMode(content))
      BY <1>10, <2>1, LaunchIs, LoadExecTypes
    <2>2. CASE rebootex' = Chosen(content) /\ UNCHANGED boot
      BY <1>10, <2>2, LaunchIs DEF ConfigTypes, Fits
    <2>3. QED
      BY <1>10, <2>1, <2>2, LaunchIs
  <1>11. CASE AskRecovery
    <2>1. rebootex' = [rebootex EXCEPT !.index = "recovery"] /\ UNCHANGED <<shared, boot, published>>
      BY <1>11 DEF AskRecovery
    <2>2. rebootex' \in Configs /\ Fits(rebootex')
      BY <2>1 DEF ConfigTypes, Configs, Fits, Lists
    <2>3. QED
      BY <1>1, <2>1, <2>2
  <1>12. ASSUME NEW ram \in Requests, ProgramSetMemory(ram) PROVE ConfigTypes'
    <2>1. rebootex' = SetMemory(rebootex, ram) /\ UNCHANGED <<shared, boot, published>>
      BY <1>12 DEF ProgramSetMemory
    <2>2. QED
      BY <1>1, <2>1, SetMemoryIs DEF ConfigTypes
  <1>13. ASSUME NEW name \in {"npdrm", "missing"}, ModuleOnReboot(name) PROVE ConfigTypes'
    <2>1. rebootex' = [rebootex EXCEPT !.module_after = name] /\ UNCHANGED <<shared, boot, published>>
      BY <1>13 DEF ModuleOnReboot, history
    <2>2. rebootex' \in Configs /\ Fits(rebootex')
      BY <2>1 DEF ConfigTypes, Configs, Fits
    <2>3. QED
      BY <1>1, <2>1, <2>2
  <1>14. CASE ProgramSetClock \/ ProgramModule \/ \E options \in Stored : SetConfig(options)
    BY <1>14, <1>1 DEF ProgramSetClock, ProgramModule, SetConfig, history, ConfigTypes
  <1>15. CASE Kill
    <2>1. /\ shared' = RebootexConfig("normal") /\ rebootex' = shared'
          /\ boot' = [mode |-> "V", disc |-> FALSE, index |-> "normal", loader |-> "none"]
          /\ published' = [index |-> "normal", umd |-> "none"]
      BY <1>15 DEF Kill
    <2>2. "normal" \in Lists
      BY DEF Lists
    <2>3. QED
      BY <2>1, <2>2, FreshConfig DEF ConfigTypes, Modes, Fits
  <1>16. QED
    BY <1>2, <1>3, <1>4, <1>5, <1>6, <1>7, <1>8, <1>9, <1>10, <1>11, <1>12, <1>13, <1>14, <1>15, NextIs

LEMMA BootTypesNext ==
  ASSUME Types, [Next]_vars PROVE BootTypes'
  <1> USE DEF Types
  <1>1. ASSUME NEW name, NEW n, StartPlugins(name, n) PROVE plugindone' \in BOOLEAN /\ runs' \in Nat
    <2>1. runs \in Nat /\ runs + 1 \in Nat /\ plugindone \in BOOLEAN
      BY DEF BootTypes
    <2>2. CASE PluginsDue(name, n)
      <3>1. plugindone' = TRUE /\ (runs' = runs + 1 \/ runs' = runs)
        BY <1>1, <2>2 DEF StartPlugins
      <3>2. QED
        BY <2>1, <3>1
    <2>3. CASE ~PluginsDue(name, n)
      BY <1>1, <2>1, <2>3 DEF StartPlugins
    <2>4. QED
      BY <2>2, <2>3
  <1>2. CASE UNCHANGED vars
    BY <1>2 DEF vars, BootTypes
  <1>3. ASSUME NEW i \in Lists, ColdStart(i) PROVE BootTypes'
    <2>1. /\ boots < MaxBoots /\ phase' = "btcnf" /\ boots' = boots + 1 /\ asked' = 0 /\ granted' = {}
          /\ wanted' = (i = "recovery") /\ UNCHANGED <<machine, files, runs>>
      BY <1>3 DEF ColdStart
    <2>2. boots + 1 \in 0..MaxBoots /\ boots + 1 > 0 /\ 0 \in 0..(boots + 1)
      BY <2>1 DEF BootTypes
    <2>3. QED
      BY <2>1, <2>2 DEF BootTypes, machine
  <1>4. CASE LoadBtcnf \/ CheckPspConfig
    BY <1>4 DEF LoadBtcnf, CheckPspConfig, history, BootTypes
  <1>5. CASE SystemControlStart \/ DecodeKL4E
    BY <1>5 DEF SystemControlStart, DecodeKL4E, history, machine, BootTypes
  <1>6. CASE StartIs
    <2>1. rebootex \in Configs /\ rebootex' \in Configs
      BY ConfigTypesNext DEF ConfigTypes
    <2>2. user \in 1..(WordSize - 1) /\ boots \in 1..MaxBoots /\ asked \in 0..boots /\ granted \in SUBSET (1..boots)
      BY <1>6 DEF BootTypes, StartIs
    <2>3. user' \in 1..(WordSize - 1) /\ asked' \in 0..boots /\ granted' \in SUBSET (1..boots)
      <3>1. CASE UNCHANGED <<rebootex, user, asked, granted>>
        BY <2>2, <3>1
      <3>2. CASE user' = ApplyMemory(rebootex') /\ asked' = boots /\ granted' = {boots}
        BY <2>1, <2>2, <3>2, ApplyMemoryIs
      <3>3. CASE user' = ApplyMemory(rebootex) /\ asked' = asked /\ granted' = granted \cup {boots}
        BY <2>1, <2>2, <3>3, ApplyMemoryIs
      <3>4. QED
        BY <1>6, <3>1, <3>2, <3>3 DEF StartIs, MemoryStep
    <2>4. config' \in SUBSET UNION Stored
      BY <1>6 DEF StartIs, BootTypes
    <2>5. plugindone' \in BOOLEAN /\ runs' \in Nat
      BY <1>1, <1>6 DEF StartIs, BootTypes
    <2>6. /\ phase' \in {"init", "program"} /\ UNCHANGED <<files, boots, wanted>>
          /\ idle' \in BOOLEAN /\ clock' \in {"default", "program", "menu"}
      BY <1>6 DEF StartIs, BootTypes, SystemStatusIdle
    <2>7. QED
      BY <2>2, <2>3, <2>4, <2>5, <2>6 DEF BootTypes
  <1>7. ASSUME NEW mode \in Modes, ProgramLoadExec(mode) PROVE BootTypes'
    <2>1. LoadExec(rebootex, mode) /\ Running /\ UNCHANGED <<shared, files, asked, granted, published, wanted>>
      BY <1>7 DEF ProgramLoadExec
    <2>2. QED
      BY <2>1, LoadExecTypes DEF ConfigTypes
  <1>8. ASSUME NEW content \in DiscLists \cup {"npdrm", "pbp", "ps1"}, Launch(content) PROVE BootTypes'
    <2>1. CASE LoadExec(Chosen(content), BooterMode(content))
      BY <1>8, <2>1, LaunchIs, LoadExecTypes
    <2>2. CASE rebootex' = Chosen(content) /\ UNCHANGED <<boot, phase, boots, runs, machine>>
      BY <1>8, <2>2, LaunchIs DEF BootTypes, machine
    <2>3. QED
      BY <1>8, <2>1, <2>2, LaunchIs
  <1>9. CASE AskRecovery \/ \E name \in {"npdrm", "missing"} : ModuleOnReboot(name)
    BY <1>9 DEF AskRecovery, ModuleOnReboot, machine, history, BootTypes
  <1>10. ASSUME NEW ram \in Requests, ProgramSetMemory(ram) PROVE BootTypes'
    <2>1. /\ UNCHANGED <<machine, phase, files, boots, runs, wanted>>
          /\ (asked' = boots /\ granted' = {}) \/ UNCHANGED <<asked, granted>>
      BY <1>10 DEF ProgramSetMemory
    <2>2. asked' \in 0..boots /\ granted' \in SUBSET (1..boots)
      <3>1. CASE asked' = boots /\ granted' = {}
        BY <3>1 DEF BootTypes
      <3>2. CASE UNCHANGED <<asked, granted>>
        BY <3>2 DEF BootTypes
      <3>3. QED
        BY <2>1, <3>1, <3>2
    <2>3. QED
      BY <2>1, <2>2 DEF BootTypes, machine
  <1>11. CASE ProgramSetClock
    BY <1>11 DEF ProgramSetClock, history, BootTypes
  <1>12. ASSUME NEW options_ \in Stored, SetConfig(options_) PROVE BootTypes'
    BY <1>12 DEF SetConfig, machine, history, BootTypes
  <1>13. CASE Kill
    <2>1. /\ phase' = "off" /\ Forget /\ files' = files /\ boots' = boots
          /\ wanted' = FALSE /\ asked' = 0 /\ granted' = {}
      BY <1>13 DEF Kill
    <2>2. boots' \in 0..MaxBoots /\ asked' \in 0..boots' /\ granted' \in SUBSET (1..boots')
      BY <2>1 DEF BootTypes
    <2>3. files' \in SUBSET UNION Stored
      BY <2>1 DEF BootTypes
    <2>4. QED
      BY <2>1, <2>2, <2>3, ForgetIs DEF BootTypes
  <1>14. CASE ProgramModule
    <2>1. /\ UNCHANGED <<phase, files, config, user, boots, asked, granted, wanted>>
          /\ StartPlugins("module", pos) /\ IdleCheck("module")
      BY <1>14 DEF ProgramModule
    <2>2. idle' \in BOOLEAN /\ clock' \in {"default", "program", "menu"}
      BY <2>1 DEF IdleCheck, SystemStatusIdle, BootTypes
    <2>3. QED
      BY <1>1, <2>1, <2>2 DEF BootTypes
  <1>15. QED
    BY <1>2, <1>3, <1>4, <1>5, <1>6, <1>7, <1>8, <1>9, <1>10, <1>11, <1>12, <1>13, <1>14, NextIs

\* When the plugins are due the drivers that they wait for have been loaded.
LEMMA PluginsDueIs ==
  ASSUME TableTypes, NEW n \in 0..Len(table), NEW name, PluginsDue(name, n)
  PROVE  /\ ~plugindone /\ n > 1
         /\ \E i \in 1..n : table[i].name = "mecodec"
  <1>1. PICK l \in Nat : l = Len(table) /\ n \in Nat /\ n <= l
    BY LenProperties DEF TableTypes, Ordered
  <1>2. \A i \in 1..l : /\ table[i].name = "power" <=> i = 1
                        /\ table[i].name = "mediasync" => \E j \in 1..i : table[j].name = "mecodec"
    BY <1>1 DEF TableTypes, Ordered
  <1>3. ~plugindone /\ WaitModule(n) \in Loaded(n)
    BY DEF PluginsDue
  <1>4. PICK i \in 1..n : table[i].name \in {"mecodec", "mediasync"}
    <2>1. PICK i \in {j \in 1..n : boot.mode \in table[j].modes} : table[i].name = WaitModule(n)
      BY <1>3 DEF Loaded
    <2>2. WaitModule(n) \in {"mecodec", "mediasync"}
      BY DEF WaitModule
    <2>3. QED
      BY <2>1, <2>2
  <1>5. i \in 1..l /\ i # 1
    BY <1>1, <1>2, <1>4
  <1>6. PICK j \in 1..i : table[j].name = "mecodec"
    BY <1>2, <1>4, <1>5
  <1>7. QED
    BY <1>1, <1>3, <1>4, <1>5, <1>6

\* The plugins are gone through as the settings allow, at any start.
LEMMA StartPluginsIs ==
  ASSUME Types, Plugins, Booted', UNCHANGED <<boot, table>>, pos' # 0,
         NEW n \in 0..Len(table), n = pos', pos \in 0..n,
         config' = config \/ pos = 0, n > 1 => config' = config,
         UNCHANGED <<plugindone, runs>> \/ \E name : StartPlugins(name, n)
  PROVE  Plugins'
  <1> USE DEF Types
  <1>1. runs \in Nat /\ plugindone \in BOOLEAN /\ (runs > 0 => plugindone /\ runs = 1)
    BY DEF BootTypes, Plugins
  <1>2. Key' = Key /\ (config' = config => (NotUsed \notin config)' = (NotUsed \notin config))
    BY DEF Key, NotUsed
  <1>3. ASSUME UNCHANGED <<plugindone, runs>> PROVE Plugins'
    <2>1. CASE runs = 0
      BY <1>3, <2>1 DEF Plugins
    <2>2. CASE runs > 0
      <3>1. pos > 0 /\ config' = config
        BY <2>2 DEF Plugins
      <3>2. \A i \in 1..pos : i \in 1..pos'
        OBVIOUS
      <3>3. (Key = "VSH" => \E i \in 1..pos' : "V" \in table'[i].modes /\ table'[i].name = "npdrm")
        BY <2>2, <3>2 DEF Plugins
      <3>4. \E i \in 1..pos' : table'[i].name = "mecodec"
        BY <2>2, <3>2 DEF Plugins
      <3>5. /\ runs = 1 /\ plugindone
            /\ NotUsed \notin config
            /\ Key # "VSH" => "plugins2" \notin config
        BY <2>2 DEF Plugins
      <3>6. QED
        BY <1>2, <1>3, <3>1, <3>3, <3>4, <3>5 DEF Plugins
    <2>3. QED
      BY <1>1, <2>1, <2>2
  <1>4. ASSUME NEW name, PluginsDue(name, n), StartPlugins(name, n), runs' # runs
        PROVE  Plugins'
    <2>1. plugindone' = TRUE /\ runs' = runs + 1 /\ HasPluginFile(n)
      BY <1>4 DEF StartPlugins
    <2>2. ~plugindone /\ n > 1 /\ \E i \in 1..n : table[i].name = "mecodec"
      BY <1>4, PluginsDueIs
    <2>3. runs' = 1 /\ config' = config
      BY <1>1, <2>1, <2>2
    <2>4. ASSUME Key = "VSH"
          PROVE  \E i \in 1..n : "V" \in table[i].modes /\ table[i].name = "npdrm"
      <3>1. "npdrm" \in Loaded(n)
        BY <2>1, <2>4 DEF HasPluginFile
      <3>2. boot.mode = "V"
        BY <2>4 DEF Key, KeyConfig
      <3>3. QED
        BY <3>1, <3>2 DEF Loaded
    <2>5. NotUsed \notin config /\ (Key # "VSH" => "plugins2" \notin config)
      BY <2>1 DEF HasPluginFile
    <2>6. QED
      BY <1>2, <2>1, <2>2, <2>3, <2>4, <2>5 DEF Plugins
  <1>5. ASSUME NEW name, StartPlugins(name, n) PROVE Plugins'
    <2>1. CASE ~PluginsDue(name, n)
      BY <1>3, <1>5, <2>1 DEF StartPlugins
    <2>2. CASE PluginsDue(name, n) /\ runs' = runs
      <3>1. runs = 0
        BY <1>1, <2>2, PluginsDueIs
      <3>2. QED
        BY <2>2, <3>1 DEF Plugins
    <2>3. QED
      BY <1>4, <1>5, <2>1, <2>2
  <1>6. QED
    BY <1>3, <1>5

LEMMA StartPluginsKept ==
  ASSUME Types, Plugins, StartIs PROVE Plugins'
  <1> USE DEF Types
  <1>1. /\ pos < maxsearch /\ pos' = pos + 1 /\ pos \in Nat
        /\ UNCHANGED <<boot, table>> /\ Booted' /\ Booted
    BY DEF StartIs, TableTypes, Booted
  <1>2. Len(table) \in Nat /\ pos + 1 \in 0..Len(table) /\ pos \in 0..(pos + 1) /\ pos' # 0
    BY <1>1, LenProperties DEF TableTypes, Ordered
  <1>3. pos + 1 # 1 => config' = config
    <2>1. pos + 1 # 1 => table[pos + 1].name # "power"
      BY <1>1, <1>2 DEF TableTypes, Ordered
    <2>2. QED
      BY <2>1 DEF StartIs
  <1>4. (config' = config \/ pos = 0) /\ (pos + 1 > 1 => config' = config)
    BY <1>1, <1>3
  <1>5. UNCHANGED <<plugindone, runs>> \/ \E name : StartPlugins(name, pos + 1)
    BY DEF StartIs
  <1>6. QED
    BY <1>1, <1>2, <1>4, <1>5, StartPluginsIs

LEMMA TableNext ==
  ASSUME Types, Plugins, ClockKept, [Next]_vars PROVE TableTypes' /\ Plugins'
  <1> USE DEF Types
  <1>1. ASSUME UNCHANGED <<pos, runs, plugindone, config, table, maxsearch, boot>>, Booted <=> Booted'
        PROVE  TableTypes' /\ Plugins'
    <2>1. TableTypes'
      BY <1>1 DEF TableTypes
    <2>2. Key' = Key /\ NotUsed' = NotUsed
      BY <1>1 DEF Key, NotUsed
    <2>3. Plugins'
      BY <1>1, <2>2 DEF Plugins
    <2>4. QED
      BY <2>1, <2>3
  <1>2. ASSUME ~Booted, pos' = 0, UNCHANGED <<runs, plugindone>> PROVE Plugins'
    BY <1>2 DEF Plugins
  <1>3. CASE UNCHANGED vars
    BY <1>1, <1>3 DEF vars, Booted
  <1>4. ASSUME NEW i \in Lists, ColdStart(i) PROVE TableTypes' /\ Plugins'
    <2>1. ~Booted /\ UNCHANGED <<machine, runs>>
      BY <1>4 DEF ColdStart, Booted
    <2>2. pos = 0
      BY <2>1 DEF Plugins
    <2>3. TableTypes'
      BY <2>1 DEF machine, TableTypes
    <2>4. QED
      BY <1>2, <2>1, <2>2, <2>3 DEF machine
  <1>5. CASE LoadBtcnf
    <2>1. /\ ~Booted /\ table' = BootTable(shared.index) /\ maxsearch' = Len(table') /\ pos' = 0
          /\ UNCHANGED <<runs, plugindone>>
      BY <1>5 DEF LoadBtcnf, Booted, history
    <2>2. shared.index \in Lists
      BY DEF ConfigTypes, Configs
    <2>3. Ordered(table') /\ maxsearch' = 6 /\ Len(table') = 6
      BY <2>1, <2>2, BootTableOrdered
    <2>4. TableTypes'
      BY <2>1, <2>3 DEF TableTypes
    <2>5. QED
      BY <1>2, <2>1, <2>4
  <1>6. CASE CheckPspConfig
    <2>1. ~Booted /\ UNCHANGED <<pos, runs, plugindone>>
      BY <1>6 DEF CheckPspConfig, Booted, history
    <2>2. pos = 0
      BY <2>1 DEF Plugins
    <2>3. CASE UNCHANGED <<table, maxsearch>>
      BY <1>2, <2>1, <2>2, <2>3 DEF TableTypes
    <2>4. CASE ~UNCHANGED <<table, maxsearch>>
      <3>1. PICK name \in {"npdrm", "missing"} : name = shared.module_after
        BY <1>6, <2>4 DEF CheckPspConfig, ConfigTypes, Configs
      <3>2. InsertModule(name) /\ name # "power"
        BY <1>6, <2>4, <3>1 DEF CheckPspConfig
      <3>3. \E i \in 1..Len(table) : table[i].name = name
        BY <2>4, <3>2 DEF InsertModule
      <3>4. PICK p : p = Position(name)
        OBVIOUS
      <3>5. p \in 1..Len(table) /\ table[p].name = name
        BY <3>3, <3>4 DEF Position
      <3>6. table' = InsertAt(table, p, Entry("rtm", Modes)) /\ maxsearch' = maxsearch + 1
        BY <3>2, <3>3, <3>4 DEF InsertModule
      <3>7. Ordered(table)
        BY DEF TableTypes
      <3>8. Ordered(table') /\ Len(table') = Len(table) + 1
        BY <3>2, <3>5, <3>6, <3>7, InsertOrdered
      <3>9. Len(table) \in Nat /\ maxsearch \in Nat /\ maxsearch <= Len(table)
        BY <3>7, LenProperties DEF TableTypes, Ordered
      <3>10. TableTypes'
        BY <2>1, <2>2, <3>6, <3>8, <3>9 DEF TableTypes
      <3>11. QED
        BY <1>2, <2>1, <2>2, <3>10
    <2>5. QED
      BY <2>3, <2>4
  <1>7. CASE SystemControlStart \/ DecodeKL4E
    <2>1. ~Booted /\ UNCHANGED <<table, maxsearch, pos, runs, plugindone>>
      BY <1>7 DEF SystemControlStart, DecodeKL4E, Booted, machine, history
    <2>2. pos = 0
      BY <2>1 DEF Plugins
    <2>3. QED
      BY <1>2, <2>1, <2>2 DEF TableTypes
  <1>8. CASE StartIs
    <2>1. UNCHANGED <<table, maxsearch>> /\ pos' = pos + 1 /\ pos < maxsearch
      BY <1>8 DEF StartIs
    <2>2. TableTypes'
      BY <2>1 DEF TableTypes
    <2>3. QED
      BY <1>8, <2>2, StartPluginsKept
  <1>9. ASSUME NEW mode \in Modes, ProgramLoadExec(mode) PROVE TableTypes' /\ Plugins'
    BY <1>9, ForgetIs DEF ProgramLoadExec, LoadExec
  <1>10. ASSUME NEW content \in DiscLists \cup {"npdrm", "pbp", "ps1"}, Launch(content)
         PROVE  TableTypes' /\ Plugins'
    <2>1. CASE LoadExec(Chosen(content), BooterMode(content))
      BY <2>1, ForgetIs DEF LoadExec
    <2>2. CASE UNCHANGED <<boot, phase, boots, runs, machine>>
      BY <1>1, <2>2 DEF machine, Booted
    <2>3. QED
      BY <1>10, <2>1, <2>2, LaunchIs
  <1>11. CASE AskRecovery \/ \E name \in {"npdrm", "missing"} : ModuleOnReboot(name)
    BY <1>1, <1>11 DEF AskRecovery, ModuleOnReboot, machine, history, Booted
  <1>12. CASE \E ram \in Requests : ProgramSetMemory(ram)
    BY <1>1, <1>12 DEF ProgramSetMemory, machine, Booted
  <1>13. CASE ProgramSetClock \/ \E options \in Stored : SetConfig(options)
    BY <1>1, <1>13 DEF ProgramSetClock, SetConfig, machine, history, Booted
  <1>14. CASE Kill
    BY <1>14, ForgetIs DEF Kill
  <1>15. CASE ProgramModule
    <2>1. /\ phase = "program" /\ StartPlugins("module", pos)
          /\ UNCHANGED <<phase, boot, table, maxsearch, pos, config>>
      BY <1>15 DEF ProgramModule
    <2>2. TableTypes'
      BY <2>1 DEF TableTypes
    <2>3. Len(table) \in Nat /\ pos \in 0..Len(table) /\ pos \in 0..pos
      BY LenProperties DEF TableTypes, Ordered
    <2>4. Booted' /\ pos' = pos /\ pos' # 0 /\ \E name : StartPlugins(name, pos)
      BY <2>1 DEF Booted, ClockKept
    <2>5. Plugins'
      BY <2>1, <2>3, <2>4, StartPluginsIs
    <2>6. QED
      BY <2>2, <2>5
  <1>16. QED
    BY <1>3, <1>4, <1>5, <1>6, <1>7, <1>8, <1>9, <1>10, <1>11, <1>12, <1>13, <1>14, <1>15, NextIs

-----------------------------------------------------------------------------
(* The clock *)

LEMMA ClockNext ==
  ASSUME Types, Plugins, ClockKept, [Next]_vars PROVE ClockKept'
  <1> USE DEF Types
  <1>1. ASSUME UNCHANGED <<idle, clock, pos, config, boot, phase>> PROVE ClockKept'
    BY <1>1 DEF ClockKept, ClockFixed
  <1>2. ASSUME ~idle', phase' # "program" \/ pos' # 0 PROVE ClockKept'
    BY <1>2 DEF ClockKept, ClockFixed
  <1>3. ~Booted => ~idle
    BY DEF Plugins, ClockKept, Booted
  <1>4. CASE UNCHANGED vars
    BY <1>1, <1>4 DEF vars
  <1>5. CASE (\E i \in Lists : ColdStart(i)) \/ LoadBtcnf \/ CheckPspConfig
             \/ SystemControlStart \/ DecodeKL4E
    BY <1>2, <1>3, <1>5
       DEF ColdStart, LoadBtcnf, CheckPspConfig, SystemControlStart, DecodeKL4E, machine, Booted
  <1>6. CASE StartIs
    <2>1. pos' = pos + 1 /\ pos' # 0 /\ boot' = boot
      BY <1>6 DEF StartIs, TableTypes
    <2>2. CASE UNCHANGED <<idle, clock>>
      <3>1. CASE pos = 0
        BY <1>2, <2>1, <2>2, <3>1 DEF ClockKept
      <3>2. CASE pos # 0
        <4>1. config' = config
          <5>1. Len(table) \in Nat /\ pos + 1 \in 1..Len(table) /\ pos + 1 # 1
            BY <1>6, <3>2, LenProperties DEF StartIs, TableTypes, Ordered
          <5>2. table[pos + 1].name # "power"
            BY <5>1 DEF TableTypes, Ordered
          <5>3. QED
            BY <1>6, <5>2 DEF StartIs
        <4>2. QED
          BY <2>1, <2>2, <4>1 DEF ClockKept, ClockFixed
      <3>3. QED
        BY <3>1, <3>2
    <2>3. CASE table[pos + 1].name # "power" /\ SystemStatusIdle
      <3>1. config' = config
        BY <1>6, <2>3 DEF StartIs
      <3>2. QED
        BY <2>1, <2>3, <3>1 DEF ClockKept, ClockFixed, SystemStatusIdle
    <2>4. QED
      BY <1>6, <2>2, <2>3 DEF StartIs
  <1>7. CASE \E mode \in Modes : ProgramLoadExec(mode)
    BY <1>2, <1>7 DEF ProgramLoadExec, LoadExec, Forget
  <1>8. ASSUME NEW content \in DiscLists \cup {"npdrm", "pbp", "ps1"}, Launch(content) PROVE ClockKept'
    <2>1. CASE LoadExec(Chosen(content), BooterMode(content))
      BY <1>2, <2>1 DEF LoadExec, Forget
    <2>2. CASE UNCHANGED <<boot, phase, boots, runs, machine>>
      BY <1>1, <2>2 DEF machine
    <2>3. QED
      BY <1>8, <2>1, <2>2, LaunchIs
  <1>9. CASE AskRecovery \/ \E name \in {"npdrm", "missing"} : ModuleOnReboot(name)
    BY <1>1, <1>9 DEF AskRecovery, ModuleOnReboot, machine
  <1>10. CASE (\E ram \in Requests : ProgramSetMemory(ram)) \/ \E options \in Stored : SetConfig(options)
    BY <1>1, <1>10 DEF ProgramSetMemory, SetConfig, machine
  <1>11. CASE ProgramSetClock
    BY <1>11 DEF ProgramSetClock, ClockKept, ClockFixed
  <1>12. CASE ProgramModule
    <2>1. UNCHANGED <<pos, config, boot, phase>> /\ phase = "program" /\ IdleCheck("module")
      BY <1>12 DEF ProgramModule
    <2>2. QED
      BY <2>1 DEF ClockKept, ClockFixed, IdleCheck, SystemStatusIdle
  <1>13. CASE Kill
    BY <1>2, <1>13 DEF Kill, Forget
  <1>14. QED
    BY <1>4, <1>5, <1>6, <1>7, <1>8, <1>9, <1>10, <1>11, <1>12, <1>13, NextIs

-----------------------------------------------------------------------------
(* The lists and the discs *)

\* A LoadExec leaves a configuration that fits the program it starts.
LEMMA LoadExecList ==
  ASSUME ConfigTypes, NEW c \in Configs, Fits(c), NEW mode \in Modes, LoadExec(c, mode),
         mode = "E" => c.index = published'.index /\ c.umd = published'.umd
  PROVE  ListAsked'
  <1>1. /\ rebootex' = RunReboot(c, mode = "E") /\ phase' = "reboot"
        /\ boot' = [boot EXCEPT !.mode = mode, !.disc = (mode = "E"), !.loader = "rebootex"]
    BY DEF LoadExec
  <1>2. boot'.mode = mode /\ boot'.disc = (mode = "E")
    BY <1>1 DEF ConfigTypes
  <1>3. CASE mode = "E"
    <2>1. rebootex' = c
      BY <1>1, <1>3, RunRebootIs
    <2>2. QED
      BY <1>1, <1>2, <1>3, <2>1 DEF ListAsked, Matches
  <1>4. CASE mode # "E"
    <2>1. rebootex'.index \notin DiscLists /\ rebootex'.umd = "none"
      BY <1>1, <1>4, RunRebootIs
    <2>2. QED
      BY <1>1, <1>2, <1>4, <2>1 DEF ListAsked, Matches
  <1>5. QED
    BY <1>3, <1>4

LEMMA ListAskedNext ==
  ASSUME Types, ListAsked, [Next]_vars PROVE ListAsked'
  <1> USE DEF Types
  <1>0. ConfigTypes
    BY DEF BootTypes
  <1>1. ASSUME UNCHANGED <<boot, phase, shared, published, wanted>>,
               rebootex'.index = rebootex.index, rebootex'.umd = rebootex.umd
        PROVE  ListAsked'
    BY <1>1 DEF ListAsked, Matches
  <1>2. CASE UNCHANGED vars
    BY <1>1, <1>2 DEF vars
  <1>3. ASSUME NEW i \in Lists, ColdStart(i) PROVE ListAsked'
    <2>1. /\ i \in {"normal", "booter", "recovery"} /\ phase' = "btcnf"
          /\ shared' = RebootexConfig(i)
          /\ boot' = [mode |-> "V", disc |-> FALSE, index |-> i, loader |-> "payloadex"]
      BY <1>3 DEF ColdStart
    <2>2. shared'.index \notin DiscLists /\ shared'.umd = "none"
      BY <2>1, FreshConfig DEF DiscLists
    <2>3. QED
      BY <2>1, <2>2 DEF ListAsked, Matches
  <1>4. CASE LoadBtcnf
    <2>1. /\ boot' = [boot EXCEPT !.index = shared.index] /\ UNCHANGED <<rebootex, published, wanted>>
          /\ shared' = [shared EXCEPT !.index = IF @ = "recovery" THEN "normal" ELSE @]
          /\ phase = "btcnf" /\ phase' = "config"
      BY <1>4 DEF LoadBtcnf, history
    <2>2. boot'.index = shared.index /\ boot'.mode = boot.mode /\ boot'.disc = boot.disc
      BY <2>1 DEF ConfigTypes
    <2>3. /\ shared'.umd = shared.umd
          /\ shared'.index = IF shared.index = "recovery" THEN "normal" ELSE shared.index
      BY <2>1 DEF ConfigTypes, Configs
    <2>4. QED
      BY <2>1, <2>2, <2>3 DEF ListAsked, Matches
  <1>5. CASE CheckPspConfig
    <2>1. /\ boot' = [boot EXCEPT !.loader = "none"] /\ UNCHANGED <<shared, rebootex, published, wanted>>
          /\ phase = "config" /\ phase' = "sysctl"
      BY <1>5 DEF CheckPspConfig, history
    <2>2. boot'.index = boot.index /\ boot'.mode = boot.mode /\ boot'.disc = boot.disc
      BY <2>1 DEF ConfigTypes
    <2>3. QED
      BY <2>1, <2>2 DEF ListAsked, Matches
  <1>6. CASE SystemControlStart
    <2>1. /\ phase = "sysctl" /\ phase' = "init" /\ rebootex' = shared
          /\ UNCHANGED <<boot, shared, published>>
      BY <1>6 DEF SystemControlStart
    <2>2. shared.index = IF boot.index = "recovery" THEN "normal" ELSE boot.index
      BY <2>1 DEF ListAsked
    <2>3. Matches(boot.index, shared.umd)
      BY <2>1 DEF ListAsked
    <2>4. published.index # "recovery"
      BY DEF ConfigTypes, DiscLists
    <2>5. boot.disc => shared.index = published.index /\ shared.umd = published.umd
      BY <2>2, <2>3, <2>4 DEF Matches
    <2>6. rebootex'.index # "recovery"
      BY <2>1, <2>2
    <2>7. QED
      BY <2>1, <2>3, <2>5, <2>6 DEF ListAsked, Matches
  <1>7. CASE StartIs
    <2>1. rebootex'.index = rebootex.index /\ rebootex'.umd = rebootex.umd
      <3>1. CASE rebootex' = rebootex
        BY <3>1
      <3>2. CASE rebootex' = SetMemory(rebootex, <<52, 0>>)
        BY <3>2, SetMemoryIs DEF ConfigTypes
      <3>3. CASE rebootex' = [rebootex EXCEPT !.ram2 = 0]
        BY <3>3 DEF ConfigTypes, Configs
      <3>4. QED
        BY <1>7, <3>1, <3>2, <3>3 DEF StartIs, MemoryStep
    <2>2. /\ phase = "init" /\ phase' \in {"init", "program"}
          /\ UNCHANGED <<boot, shared, published, wanted>>
      BY <1>7 DEF StartIs
    <2>3. QED
      BY <2>1, <2>2 DEF ListAsked, Matches
  <1>8. CASE DecodeKL4E
    <2>1. /\ phase = "reboot" /\ phase' = "btcnf" /\ shared' = rebootex
          /\ UNCHANGED <<boot, rebootex, published, wanted>>
      BY <1>8 DEF DecodeKL4E, history
    <2>2. QED
      BY <2>1 DEF ListAsked, Matches
  <1>9. ASSUME NEW mode \in Modes, ProgramLoadExec(mode) PROVE ListAsked'
    <2>1. /\ LoadExec(rebootex, mode) /\ phase = "program" /\ published' = published
          /\ mode \in {boot.mode, "V"} \cup (IF boot.mode = "V" THEN {"G", "P"} ELSE {})
      BY <1>9 DEF ProgramLoadExec, Running
    <2>2. mode = "E" => boot.disc
      BY <2>1 DEF ListAsked
    <2>3. mode = "E" => rebootex.index = published'.index /\ rebootex.umd = published'.umd
      BY <2>1, <2>2 DEF ListAsked
    <2>4. QED
      BY <1>0, <2>1, <2>3, LoadExecList DEF ConfigTypes
  <1>10. ASSUME NEW content \in DiscLists \cup {"npdrm", "pbp", "ps1"}, Launch(content)
         PROVE  ListAsked'
    <2>1. PICK c \in Configs : c = Chosen(content) /\ Fits(c)
      BY <1>0, <1>10, LaunchIs
    <2>2. PICK mode \in Modes : mode = BooterMode(content)
      BY <1>0, <1>10, LaunchIs
    <2>3. /\ Running /\ UNCHANGED <<shared, wanted>>
          /\ mode = "E" => /\ c.index = published'.index /\ c.umd = published'.umd
                           /\ c.index # "recovery"
          /\ mode # "E" => /\ c.index = rebootex.index /\ c.umd = rebootex.umd
                           /\ published' = published
          /\ \/ LoadExec(c, mode)
             \/ rebootex' = c /\ UNCHANGED <<boot, phase>>
      BY <1>0, <1>10, <2>1, <2>2, LaunchIs DEF DiscLists
    <2>4. CASE LoadExec(c, mode)
      BY <1>0, <2>1, <2>3, <2>4, LoadExecList
    <2>5. CASE rebootex' = c /\ UNCHANGED <<boot, phase>>
      <3>1. phase = "program" /\ phase' = "program"
        BY <2>3, <2>5 DEF Running
      <3>2. boot.disc => rebootex'.index = published'.index /\ rebootex'.umd = published'.umd
        BY <2>3, <2>5, <3>1 DEF ListAsked
      <3>3. rebootex'.index = "recovery" => wanted
        BY <2>3, <2>5, <3>1 DEF ListAsked
      <3>4. QED
        BY <2>3, <2>5, <3>1, <3>2, <3>3 DEF ListAsked
    <2>6. QED
      BY <2>3, <2>4, <2>5
  <1>11. CASE AskRecovery
    <2>1. /\ phase = "program" /\ phase' = "program" /\ boot.mode = "V" /\ wanted' = TRUE
          /\ UNCHANGED <<shared, boot, published>>
      BY <1>11 DEF AskRecovery, Running
    <2>2. ~boot.disc
      BY <2>1 DEF ListAsked
    <2>3. QED
      BY <2>1, <2>2 DEF ListAsked
  <1>12. ASSUME NEW ram \in Requests, ProgramSetMemory(ram) PROVE ListAsked'
    <2>1. rebootex' = SetMemory(rebootex, ram) /\ UNCHANGED <<boot, phase, shared, published, wanted>>
      BY <1>12 DEF ProgramSetMemory
    <2>2. rebootex'.index = rebootex.index /\ rebootex'.umd = rebootex.umd
      BY <2>1, SetMemoryIs DEF ConfigTypes
    <2>3. QED
      BY <1>1, <2>1, <2>2
  <1>13. ASSUME NEW name \in {"npdrm", "missing"}, ModuleOnReboot(name) PROVE ListAsked'
    <2>1. /\ rebootex' = [rebootex EXCEPT !.module_after = name]
          /\ UNCHANGED <<boot, phase, shared, published, wanted>>
      BY <1>13 DEF ModuleOnReboot, history
    <2>2. rebootex'.index = rebootex.index /\ rebootex'.umd = rebootex.umd
      BY <2>1 DEF ConfigTypes, Configs
    <2>3. QED
      BY <1>1, <2>1, <2>2
  <1>14. CASE ProgramSetClock \/ ProgramModule \/ \E options \in Stored : SetConfig(options)
    BY <1>1, <1>14 DEF ProgramSetClock, ProgramModule, SetConfig, history
  <1>15. CASE Kill
    <2>1. /\ phase' = "off"
          /\ boot' = [mode |-> "V", disc |-> FALSE, index |-> "normal", loader |-> "none"]
      BY <1>15 DEF Kill
    <2>2. QED
      BY <2>1 DEF ListAsked
  <1>16. QED
    BY <1>0, <1>2, <1>3, <1>4, <1>5, <1>6, <1>7, <1>8, <1>9, <1>10, <1>11, <1>12, <1>13, <1>14,
       <1>15, NextIs

-----------------------------------------------------------------------------
(* The requests for memory *)

LEMMA MemoryAskedNext ==
  ASSUME Types, MemoryAsked, [Next]_vars PROVE MemoryAsked'
  <1> USE DEF Types
  <1>0. ConfigTypes /\ boots \in Nat /\ asked \in Nat
    BY DEF BootTypes
  <1>1. ASSUME UNCHANGED <<asked, granted>>,
               phase' \in {"btcnf", "config", "sysctl"} /\ shared'.ram2 # 0 => granted \subseteq {asked},
               phase' \in {"reboot", "init", "program"} /\ rebootex'.ram2 # 0 => granted \subseteq {asked}
        PROVE  MemoryAsked'
    BY <1>1 DEF MemoryAsked
  <1>2. ASSUME granted' \subseteq {asked'} PROVE MemoryAsked'
    <2>1. \E b \in Nat : granted' \subseteq {asked', b}
      BY <1>2
    <2>2. QED
      BY <1>2, <2>1 DEF MemoryAsked
  <1>3. CASE UNCHANGED vars
    BY <1>1, <1>3 DEF vars, MemoryAsked
  <1>4. CASE (\E i \in Lists : ColdStart(i)) \/ Kill
    BY <1>2, <1>4 DEF ColdStart, Kill
  <1>5. CASE LoadBtcnf
    <2>1. /\ phase = "btcnf" /\ phase' = "config" /\ UNCHANGED <<asked, granted>>
          /\ shared' = [shared EXCEPT !.index = IF @ = "recovery" THEN "normal" ELSE @]
      BY <1>5 DEF LoadBtcnf, history
    <2>2. shared'.ram2 = shared.ram2
      BY <2>1 DEF ConfigTypes, Configs
    <2>3. QED
      BY <1>1, <2>1, <2>2 DEF MemoryAsked
  <1>6. CASE CheckPspConfig \/ SystemControlStart
    BY <1>1, <1>6 DEF CheckPspConfig, SystemControlStart, history, MemoryAsked
  <1>7. CASE StartIs
    <2>1. phase = "init" /\ phase' \in {"init", "program"}
      BY <1>7 DEF StartIs
    <2>2. CASE UNCHANGED <<rebootex, asked, granted>>
      BY <1>1, <2>1, <2>2 DEF MemoryAsked
    <2>3. CASE asked' = boots /\ granted' = {boots}
      BY <1>2, <2>3
    <2>4. CASE /\ rebootex.ram2 # 0 /\ rebootex' = [rebootex EXCEPT !.ram2 = 0]
               /\ granted' = granted \cup {boots} /\ asked' = asked
      <3>1. granted \subseteq {asked}
        BY <2>1, <2>4 DEF MemoryAsked
      <3>2. granted' \subseteq {asked', boots}
        BY <2>4, <3>1
      <3>3. rebootex'.ram2 = 0
        BY <2>4 DEF ConfigTypes, Configs
      <3>4. QED
        BY <1>0, <2>1, <3>2, <3>3 DEF MemoryAsked
    <2>5. QED
      BY <1>7, <2>2, <2>3, <2>4 DEF StartIs, MemoryStep
  <1>8. CASE DecodeKL4E
    BY <1>1, <1>8 DEF DecodeKL4E, history, MemoryAsked
  <1>9. ASSUME NEW c \in Configs, Fits(c), c.ram2 = rebootex.ram2, NEW mode \in Modes,
               LoadExec(c, mode), phase = "program", UNCHANGED <<asked, granted>>
        PROVE  MemoryAsked'
    <2>1. phase' = "reboot" /\ rebootex' = RunReboot(c, mode = "E")
      BY <1>9 DEF LoadExec
    <2>2. rebootex'.ram2 = rebootex.ram2
      BY <1>9, <2>1, RunRebootIs
    <2>3. QED
      BY <1>1, <1>9, <2>1, <2>2 DEF MemoryAsked
  <1>10. ASSUME NEW mode \in Modes, ProgramLoadExec(mode) PROVE MemoryAsked'
    <2>1. LoadExec(rebootex, mode) /\ phase = "program" /\ UNCHANGED <<asked, granted>>
      BY <1>10 DEF ProgramLoadExec, Running
    <2>2. QED
      BY <1>9, <2>1 DEF ConfigTypes
  <1>11. ASSUME NEW content \in DiscLists \cup {"npdrm", "pbp", "ps1"}, Launch(content)
         PROVE  MemoryAsked'
    <2>1. PICK c \in Configs : c = Chosen(content) /\ Fits(c) /\ c.ram2 = rebootex.ram2
      BY <1>0, <1>11, LaunchIs
    <2>2. PICK mode \in Modes : mode = BooterMode(content)
      BY <1>0, <1>11, LaunchIs
    <2>3. /\ phase = "program" /\ UNCHANGED <<asked, granted>>
          /\ \/ LoadExec(c, mode)
             \/ rebootex' = c /\ UNCHANGED phase
      BY <1>0, <1>11, <2>1, <2>2, LaunchIs DEF Running
    <2>4. CASE LoadExec(c, mode)
      BY <1>9, <2>1, <2>3, <2>4
    <2>5. CASE rebootex' = c /\ UNCHANGED phase
      BY <1>1, <2>1, <2>3, <2>5 DEF MemoryAsked
    <2>6. QED
      BY <2>3, <2>4, <2>5
  <1>12. CASE AskRecovery
    <2>1. rebootex' = [rebootex EXCEPT !.index = "recovery"] /\ UNCHANGED <<phase, shared, asked, granted>>
      BY <1>12 DEF AskRecovery
    <2>2. rebootex'.ram2 = rebootex.ram2
      BY <2>1 DEF ConfigTypes, Configs
    <2>3. QED
      BY <1>1, <2>1, <2>2 DEF MemoryAsked
  <1>13. ASSUME NEW ram \in Requests, ProgramSetMemory(ram) PROVE MemoryAsked'
    <2>1. CASE ValidMemory(ram)
      BY <1>2, <1>13, <2>1 DEF ProgramSetMemory
    <2>2. CASE ~ValidMemory(ram)
      <3>1. rebootex' = rebootex
        BY <1>13, <2>2 DEF ProgramSetMemory, SetMemory
      <3>2. UNCHANGED <<phase, shared, asked, granted>>
        BY <1>13, <2>2 DEF ProgramSetMemory
      <3>3. QED
        BY <1>1, <3>1, <3>2 DEF MemoryAsked
    <2>3. QED
      BY <2>1, <2>2
  <1>14. ASSUME NEW name \in {"npdrm", "missing"}, ModuleOnReboot(name) PROVE MemoryAsked'
    <2>1. rebootex' = [rebootex EXCEPT !.module_after = name] /\ UNCHANGED <<phase, shared, asked, granted>>
      BY <1>14 DEF ModuleOnReboot, history
    <2>2. rebootex'.ram2 = rebootex.ram2
      BY <2>1 DEF ConfigTypes, Configs
    <2>3. QED
      BY <1>1, <2>1, <2>2 DEF MemoryAsked
  <1>15. CASE ProgramSetClock \/ ProgramModule \/ \E options \in Stored : SetConfig(options)
    BY <1>1, <1>15 DEF ProgramSetClock, ProgramModule, SetConfig, history, MemoryAsked
  <1>16. QED
    BY <1>0, <1>3, <1>4, <1>5, <1>6, <1>7, <1>8, <1>10, <1>11, <1>12, <1>13, <1>14, <1>15, NextIs

-----------------------------------------------------------------------------
(* The theorems *)

LEMMA InitInv ==
  Init => Inv
  <1> SUFFICES ASSUME Init PROVE Inv
    OBVIOUS
  <1>1. /\ phase = "off" /\ boots = 0 /\ shared = RebootexConfig("normal") /\ rebootex = shared
        /\ boot = [mode |-> "V", disc |-> FALSE, index |-> "normal", loader |-> "none"]
        /\ files \in Stored /\ table = <<>> /\ maxsearch = 0 /\ pos = 0 /\ config = {}
        /\ plugindone = FALSE /\ idle = FALSE /\ user = 24 /\ clock = "default"
        /\ runs = 0 /\ asked = 0 /\ granted = {}
        /\ published = [index |-> "normal", umd |-> "none"] /\ wanted = FALSE
    BY DEF Init
  <1>2. ConfigTypes
    <2>1. "normal" \in Lists
      BY DEF Lists
    <2>2. QED
      BY <1>1, <2>1, FreshConfig DEF ConfigTypes, Modes
  <1>3. BootTypes
    <2>1. files \in SUBSET UNION Stored /\ config \in SUBSET UNION Stored
      BY <1>1
    <2>2. boots \in 0..MaxBoots /\ asked \in 0..boots /\ granted \in SUBSET (1..boots) /\ user \in 1..(WordSize - 1)
      BY <1>1, WordSizeAssumption
    <2>3. QED
      BY <1>1, <2>1, <2>2 DEF BootTypes
  <1>4. TableTypes
    <2>1. Ordered(<<>>) /\ Len(<<>>) = 0
      BY EmptySeq DEF Ordered
    <2>2. QED
      BY <1>1, <2>1 DEF TableTypes
  <1>5. Plugins /\ ClockKept /\ ListAsked
    BY <1>1 DEF Plugins, ClockKept, ClockFixed, ListAsked
  <1>6. MemoryAsked
    <2>1. granted \subseteq {asked, 0}
      BY <1>1
    <2>2. QED
      BY <1>1, <2>1 DEF MemoryAsked
  <1>7. QED
    BY <1>2, <1>3, <1>4, <1>5, <1>6 DEF Inv, Types

\* The types, the plugins' prerequisites, the agreement of the two copies of the
\* configuration with what was asked for, and the requests for memory always hold.
THEOREM Invariant == Spec => []Inv
  <1>1. Inv /\ [Next]_vars => Inv'
    <2> SUFFICES ASSUME Inv, [Next]_vars PROVE Inv'
      OBVIOUS
    <2>1. Types'
      BY ConfigTypesNext, BootTypesNext, TableNext DEF Inv, Types
    <2>2. Plugins' /\ ClockKept' /\ ListAsked' /\ MemoryAsked'
      BY TableNext, ClockNext, ListAskedNext, MemoryAskedNext DEF Inv
    <2>3. QED
      BY <2>1, <2>2 DEF Inv
  <1>2. QED
    BY <1>1, InitInv, PTL DEF Spec

\* The variables keep their types, and a request that is still kept has passed the
\* test of sctrlHENSetMemory on the u32 sum, which does not bound what is asked for.
THEOREM TypesKept == Spec => []TypeOK
  <1>1. Inv => TypeOK
    <2> SUFFICES ASSUME Inv PROVE TypeOK
      OBVIOUS
    <2> USE DEF Inv, Types
    <2>1. \A c \in {shared, rebootex} :
            /\ c.index \in Lists /\ c.umd \in {"none", "iso"}
            /\ c.ram2 \in 0..(WordSize - 1) /\ c.ram11 \in 0..(WordSize - 1)
            /\ c.ram2 # 0 => MemorySum(<<c.ram2, c.ram11>>) <= 52
            /\ c.module_after \in {"none", "npdrm", "missing"}
      BY DEF ConfigTypes, Configs, Fits, Words
    <2>2. boot \in [mode : Modes, disc : BOOLEAN, index : Lists,
                    loader : {"none", "payloadex", "rebootex"}]
      BY DEF ConfigTypes
    <2>3. \A i \in 1..Len(table) : table[i].name \in Names /\ table[i].modes \subseteq Modes
      <3>1. \A i \in 1..Len(table) : table[i] \in Entries
        BY ElementOfSeq DEF TableTypes, Ordered
      <3>2. QED
        BY <3>1 DEF Entries
    <2>4. maxsearch <= Len(table) /\ pos \in 0..maxsearch
      BY DEF TableTypes
    <2>5. /\ phase \in {"off", "reboot", "btcnf", "config", "sysctl", "init", "program"}
          /\ files \in SUBSET UNION Stored /\ config \subseteq UNION Stored
          /\ plugindone \in BOOLEAN /\ idle \in BOOLEAN /\ user \in 1..(WordSize - 1)
          /\ clock \in {"default", "program", "menu"}
          /\ boots \in 0..MaxBoots /\ asked \in 0..boots /\ granted \subseteq 1..boots
      BY DEF BootTypes
    <2>6. QED
      BY <2>1, <2>2, <2>3, <2>4, <2>5 DEF TypeOK
  <1>2. QED
    BY <1>1, Invariant, PTL

\* In every boot the plugin list is gone through at most once, as the settings of
\* this boot allow, after the codec wrapper and in the VSH after npdrm, also when a
\* module has been inserted before one of them (sceKernelStartModulePatched).
THEOREM PluginsCorrect == Spec => []PluginsOnce
  <1>1. Inv => PluginsOnce
    <2> SUFFICES ASSUME Inv, Booted, runs > 0 PROVE PluginsOnce
      BY DEF PluginsOnce
    <2>1. /\ runs = 1 /\ plugindone
          /\ \E i \in 1..pos : table[i].name = "mecodec"
      BY DEF Inv, Plugins
    <2>4. /\ boot.mode = "V" => "notusexmbplugins" \notin config
          /\ boot.mode \in {"G", "E"} => {"notusegameplugins", "plugins2"} \cap config = {}
          /\ boot.mode = "P" => {"notusepopsplugins", "plugins2"} \cap config = {}
      <3>1. NotUsed \notin config /\ (Key # "VSH" => "plugins2" \notin config)
        BY DEF Inv, Plugins
      <3>2. QED
        BY <3>1 DEF NotUsed, Key, KeyConfig
    <2>2. Key = "VSH" =>
            "npdrm" \in {table[i].name : i \in {j \in 1..pos : "V" \in table[j].modes}}
      BY DEF Inv, Plugins
    <2>3. QED
      BY <2>1, <2>2, <2>4 DEF PluginsOnce
  <1>2. QED
    BY <1>1, Invariant, PTL

\* A request for memory changes one boot after the one it was made in, at most,
\* however often the configuration is copied (sceSystemFileGetIndexPatched).
THEOREM MemoryOnce == Spec => []OneBootPerRequest
  <1>1. Inv => OneBootPerRequest
    <2> SUFFICES ASSUME Inv PROVE OneBootPerRequest
      OBVIOUS
    <2>1. PICK b \in Nat : granted \subseteq {asked, b}
      BY DEF Inv, MemoryAsked
    <2>2. granted \ {asked} = {} \/ granted \ {asked} = {b}
      BY <2>1
    <2>3. Cardinality({}) = 0 /\ Cardinality({b}) = 1
      BY FS_EmptySet, FS_Singleton
    <2>4. Cardinality(granted \ {asked}) \in {0, 1}
      BY <2>2, <2>3
    <2>5. QED
      BY <2>4 DEF OneBootPerRequest
  <1>2. QED
    BY <1>1, Invariant, PTL

\* Every boot uses the list and the disc that were asked for, and recovery only when
\* it was, through failed LoadExecs, restarts and the reset of sceKernelBootLoadFile's
\* patch (RebootexConfig.bootfileindex).
THEOREM ListsCorrect == Spec => []BootMatchesRequest
  <1>1. Inv => BootMatchesRequest
    <2> SUFFICES ASSUME Inv PROVE BootMatchesRequest
      OBVIOUS
    <2>1. DiscMatchesList
      BY DEF Inv, ListAsked, Matches, DiscMatchesList
    <2>2. RecoveryAsked
      BY DEF Inv, ListAsked, RecoveryAsked
    <2>3. QED
      BY <2>1, <2>2 DEF BootMatchesRequest
  <1>2. QED
    BY <1>1, Invariant, PTL

\* Once the idle work is done, at a start of the boot or of the running program, a
\* disc stays at the clock of the settings, whatever programs set (SetSpeed).
THEOREM ClockCorrect == Spec => []ClockFixed
  <1>1. Inv => ClockFixed
    BY DEF Inv, ClockKept
  <1>2. QED
    BY <1>1, Invariant, PTL

=============================================================================
