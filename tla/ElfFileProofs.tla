--------------------------- MODULE ElfFileProofs ---------------------------
(***************************************************************************)
(* Proofs about ElfFile, for every file, whatever it contains, and every   *)
(* order of calls.                                                         *)
(*                                                                         *)
(* First, an ELF file is a source of sections (RefinesSectionSource).  The *)
(* argument: what is in the caches is what reading it again would give, so *)
(* what a call finds is what it would find if nobody had called before     *)
(* (IInv).                                                                 *)
(*                                                                         *)
(* Second, the mapping lives as long as anything refers to it, and types   *)
(* are kept.  The argument: the references are those of the constructor or *)
(* the client, of segments, sections and iterators, counted one by one     *)
(* (LifeInv); what is read of a file are natural numbers.                  *)
(*                                                                         *)
(* Third, in a sound file nothing outside of it is read (InsideTheFile).   *)
(* The argument: tables, data and strings of a sound file are in it, and   *)
(* an iterator over symbols stays at a whole symbol of one (PlaceInv).     *)
(***************************************************************************)
EXTENDS ElfFile, NumberLemmas, FiniteSetTheorems, TLAPS

NamesRight ==
  /\ DOMAIN names = DOMAIN sections
  /\ \A i \in DOMAIN sections : names[i] # NoName => names[i] = FreshNames[i]

DatasRight ==
  /\ DOMAIN datas = DOMAIN sections
  /\ \A i \in DOMAIN sections : datas[i] # 0 =>
       sections[i].type # Nobits /\ FreshData(i) = Found(datas[i], sections[i].size)

\* As long as there is a file, its sections have numbers, what is settled is
\* what the headers say, and the caches are right.
IInv ==
  /\ pc \in {"map", "header", "segments", "sections", "idle", "failed", "wild"}
  /\ pc \notin {"idle", "wild"} => answer = [Constructing EXCEPT !.status = answer.status]
  /\ pc = "idle" =>
       /\ DOMAIN sections \subseteq Nat
       /\ settled = Contents
       /\ NamesRight
       /\ DatasRight

-----------------------------------------------------------------------------
(* What the definitions give.                                              *)

\* Strings and data are found at a place or not at all.
Shaped(r) == r = [status |-> r.status, at |-> r.at, len |-> r.len]

LEMMA DataShaped == ASSUME NEW i PROVE Shaped(FreshData(i))
  BY DEF FreshData, Load, Found, Thrown, Shaped

LEMMA StringShaped == ASSUME NEW strs, Shaped(strs), NEW offset PROVE Shaped(StrGet(strs, offset))
<1>1. ASSUME NEW start, NEW end PROVE Shaped(StringAt(start, end))
  BY DEF StringAt, Found, Thrown, Shaped
<1> QED
  BY <1>1 DEF StrGet

LEMMA NameShaped ==
  ASSUME NEW i \in DOMAIN sections PROVE Shaped(FreshNames[i])
<1>1. Shaped(AsStrtab(hdr.shstrndx, FreshData(hdr.shstrndx)))
  BY DataShaped DEF AsStrtab, Thrown, Shaped
<1> QED
  BY <1>1, StringShaped DEF FreshNames

\* What is settled, without the bound variables.
LEMMA ContentsAre == Contents = SettledBy(FreshNames)
  BY DEF Contents

\* There is always something to settle.
LEMMA ContentsAreSomething == Contents # << >>
<1>1. DOMAIN Contents = Wanted
  BY ContentsAre DEF SettledBy
<1>2. DOMAIN << >> = {}
  OBVIOUS
<1> QED
  BY <1>1, <1>2, ClientAssumption

-----------------------------------------------------------------------------
(* Right caches do not show.                                               *)

LEMMA DataSettled ==
  ASSUME DatasRight, NEW i \in DOMAIN sections
  PROVE  DataOf(i) = FreshData(i)
  BY DEF DatasRight, DataOf

LEMMA StrtabSettled ==
  ASSUME DatasRight, NEW i
  PROVE  AsStrtab(i, DataOf(i)) = AsStrtab(i, FreshData(i))
  BY DataSettled DEF AsStrtab

LEMMA NameSettled ==
  ASSUME NamesRight, DatasRight, NEW i \in DOMAIN sections
  PROVE  NameOf(i) = FreshNames[i]
  BY StrtabSettled DEF NamesRight, NameOf, FreshNames

LEMMA NamesSettled ==
  ASSUME NamesRight, DatasRight
  PROVE  NamesNow = FreshNames
  BY NameSettled DEF NamesNow, FreshNames

-----------------------------------------------------------------------------
(* The caches stay right.                                                  *)

LEMMA DataStays ==
  ASSUME UNCHANGED <<file, hdr, sections>>, NEW i
  PROVE  FreshData(i)' = FreshData(i)
  BY DEF FreshData, Load, lim

LEMMA FreshStays ==
  ASSUME UNCHANGED <<file, hdr, sections>>
  PROVE  FreshNames' = FreshNames /\ Contents' = Contents
<1>1. file' = file /\ hdr' = hdr /\ sections' = sections /\ lim' = lim
  BY DEF lim
<1>2. ASSUME NEW i PROVE FreshData(i)' = FreshData(i)
  BY DataStays
<1>3. ASSUME NEW start, NEW end PROVE StringAt(start, end)' = StringAt(start, end)
  BY <1>1 DEF StringAt, InFile, Stops, Byte
<1>4. ASSUME NEW strs, NEW offset PROVE StrGet(strs, offset)' = StrGet(strs, offset)
  BY <1>3 DEF StrGet
<1>5. ASSUME NEW i, NEW data PROVE AsStrtab(i, data)' = AsStrtab(i, data)
  BY <1>1 DEF AsStrtab
<1>6. FreshNames' = FreshNames
  <2>1. AsStrtab(hdr.shstrndx, FreshData(hdr.shstrndx))' =
        AsStrtab(hdr.shstrndx, FreshData(hdr.shstrndx))
    BY <1>1, <1>2, <1>5 DEF AsStrtab
  <2> QED
    BY <1>1, <1>4, <2>1 DEF FreshNames
<1>7. ASSUME NEW named, NEW name PROVE Hits(named, name)' = Hits(named, name)
  BY <1>1 DEF Hits, Bytes
<1>8. ASSUME NEW named, NEW hits PROVE Settled(named, hits)' = Settled(named, hits)
  BY <1>2 DEF Settled
<1>9. ASSUME NEW named PROVE SettledBy(named)' = SettledBy(named)
  BY <1>7, <1>8 DEF SettledBy
<1>10. Contents' = Contents
  BY <1>6, <1>9 DEF Contents
<1> QED
  BY <1>6, <1>10

LEMMA KeepDataOK ==
  ASSUME DatasRight, UNCHANGED <<file, hdr, sections>>, NEW S, KeepData(S)
  PROVE  DatasRight'
<1>1. DOMAIN datas' = DOMAIN sections'
  BY DEF KeepData, DatasRight
<1>2. ASSUME NEW i \in DOMAIN sections', datas'[i] # 0
      PROVE  sections'[i].type # Nobits /\ FreshData(i)' = Found(datas'[i], sections'[i].size)
  <2>1. FreshData(i)' = FreshData(i)
    BY DataStays
  <2>2. CASE i \in S /\ DataOf(i).status = "ok"
    <3>1. DataOf(i) = FreshData(i)
      BY DataSettled
    <3>2. datas'[i] = FreshData(i).at
      BY <2>2, <3>1 DEF KeepData, DatasRight
    <3>3. sections[i].type # Nobits
      BY <1>2, <3>2 DEF FreshData, Found
    <3>4. FreshData(i) = Found(FreshData(i).at, sections[i].size)
      BY <2>2, <3>1, <3>3 DEF FreshData, Load, Found, Thrown
    <3> QED
      BY <2>1, <3>2, <3>3, <3>4
  <2>3. CASE ~(i \in S /\ DataOf(i).status = "ok")
    <3>1. datas'[i] = datas[i]
      BY <2>3 DEF KeepData, DatasRight
    <3> QED
      BY <1>2, <2>1, <3>1 DEF DatasRight, Found
  <2> QED
    BY <2>2, <2>3
<1> QED
  BY <1>1, <1>2 DEF DatasRight, Found

LEMMA KeepNamesOK ==
  ASSUME NamesRight, DatasRight, UNCHANGED <<file, hdr, sections>>, NEW S, KeepNames(S)
  PROVE  NamesRight'
<1>1. DOMAIN names' = DOMAIN sections'
  BY DEF KeepNames, NamesRight
<1>2. ASSUME NEW i \in DOMAIN sections', names'[i] # NoName
      PROVE  names'[i] = FreshNames[i]
  <2>1. CASE i \in S /\ NameOf(i).status = "ok"
    BY <2>1, NameSettled DEF KeepNames, NamesRight
  <2>2. CASE ~(i \in S /\ NameOf(i).status = "ok")
    BY <1>2, <2>2 DEF KeepNames, NamesRight
  <2> QED
    BY <2>1, <2>2
<1> QED
  BY <1>1, <1>2, FreshStays DEF NamesRight, NoName

\* Calls that keep the headers and fill the caches.
LEMMA CallOK ==
  ASSUME IInv, pc = "idle", pc' \in {"idle", "wild"},
         UNCHANGED <<file, hdr, sections, settled>>,
         UNCHANGED names \/ \E S : KeepNames(S),
         UNCHANGED datas \/ \E S : KeepData(S)
  PROVE  IInv'
<1>1. FreshNames' = FreshNames /\ Contents' = Contents
  BY FreshStays
<1>2. NamesRight'
  <2>1. CASE UNCHANGED names
    BY <2>1, <1>1 DEF IInv, NamesRight, NoName
  <2>2. CASE \E S : KeepNames(S)
    BY <2>2, KeepNamesOK DEF IInv
  <2> QED
    BY <2>1, <2>2
<1>3. DatasRight'
  <2>1. CASE UNCHANGED datas
    <3>1. ASSUME NEW i PROVE FreshData(i)' = FreshData(i)
      BY DataStays
    <3> QED
      BY <2>1, <3>1 DEF IInv, DatasRight, Found
  <2>2. CASE \E S : KeepData(S)
    BY <2>2, KeepDataOK DEF IInv
  <2> QED
    BY <2>1, <2>2
<1> QED
  BY <1>1, <1>2, <1>3 DEF IInv

-----------------------------------------------------------------------------
(* Every step keeps the invariant.                                         *)

LEMMA InitIInv == Init => IInv
  BY DEF Init, IInv, Constructing, Asked

LEMMA RefuseOK ==
  ASSUME IInv, pc \in {"map", "header", "segments", "sections"}, NEW status, Refuse(status)
  PROVE  IInv' /\ pc' \in {"wild", "failed"}
  BY DEF IInv, Refuse, Constructing, Asked

LEMMA NumbersAreNatural == ASSUME NEW n PROVE 0..(n - 1) \subseteq Nat
<1> SUFFICES ASSUME NEW i \in 0..(n - 1) PROVE i \in Nat
  BY Zenon
<1> QED
  OBVIOUS

\* The constructor goes on, throws, or ends with a file nobody has asked yet.
LEMMA ConstructorOK ==
  ASSUME IInv, Constructor
  PROVE  /\ IInv'
         /\ pc # "idle"
         /\ pc' = "idle" => answer'.op = "elf" /\ settled' # << >>
<1>1. CASE Map
  BY <1>1 DEF IInv, Map, Constructing, Asked
<1>2. CASE Header
  BY <1>2, RefuseOK DEF IInv, Header, Constructing, Asked
<1>3. CASE Segments
  BY <1>3, RefuseOK DEF IInv, Segments, Constructing, Asked
<1>4. CASE Sections
  <2>1. PICK size \in TableBytes(hdr.shentsize, hdr.shnum) :
        \E table \in {Load(hdr.shoff, size)} :
          \/ \E status : Refuse(status)
          \/ /\ sections' = [i \in 0..(hdr.shnum - 1) |->
                   CanonShdr(file.bytes, Order(hdr.ei_data),
                             Entry(table.at, hdr.shentsize, i) - Mapped, hdr.ei_class)]
             /\ names' = [i \in 0..(hdr.shnum - 1) |-> NoName]
             /\ datas' = [i \in 0..(hdr.shnum - 1) |-> 0]
             /\ pc' = "idle"
             /\ settled' = Contents'
             /\ answer' = [answer EXCEPT !.status = "ok"]
    BY <1>4 DEF Sections
  <2>2. CASE \E status : Refuse(status)
    BY <1>4, <2>2, RefuseOK DEF Sections
  <2>3. CASE ~\E status : Refuse(status)
    <3>1. NamesRight'
      BY <2>1, <2>3 DEF NamesRight, NoName
    <3>2. DatasRight'
      BY <2>1, <2>3 DEF DatasRight
    <3>3. DOMAIN sections' \subseteq Nat
      <4>1. DOMAIN sections' = 0..(hdr.shnum - 1)
        BY <2>1, <2>3, Zenon
      <4> QED
        BY <4>1, NumbersAreNatural, Zenon
    <3>4. settled' # << >>
      <4>1. (Contents # << >>)'
        BY ContentsAreSomething, PTL
      <4> QED
        BY <2>1, <2>3, <4>1
    <3> QED
      BY <1>4, <2>1, <2>3, <3>1, <3>2, <3>3, <3>4 DEF IInv, Sections, Constructing, Asked
  <2> QED
    BY <2>2, <2>3
<1> QED
  BY <1>1, <1>2, <1>3, <1>4 DEF Constructor

-----------------------------------------------------------------------------
(* Steps of a source of sections.                                          *)

\* What the client's calls have in common.
Called ==
  /\ pc = "idle" /\ pc' \in {"idle", "wild"}
  /\ UNCHANGED <<file, hdr, sections, settled>>
  /\ UNCHANGED names \/ \E S : KeepNames(S)
  /\ UNCHANGED datas \/ \E S : KeepData(S)

\* Calls that load no section.
LEMMA OthersOK ==
  ASSUME IInv, Client
  PROVE  /\ Called
         /\ \/ \E t \in Wanted : LoadSection(t)
            \/ answer'.op # "load"
<1>1. CASE \E i \in Indexes :
             GetSectionByIndex(i) \/ GetSegmentByIndex(i) \/ GetSegmentData(i) \/ NotSymtab(i)
  BY <1>1 DEF Called, GetSectionByIndex, GetSegmentByIndex, GetSegmentData, NotSymtab, Ready,
     Answer, With, Asked, headers, caches
<1>2. CASE \E i \in Indexes : GetName(i)
  BY <1>2 DEF Called, GetName, Ready, Answer, With, Asked, headers
<1>3. CASE \E i \in Indexes : GetData(i) \/ \E offset \in Offsets : GetString(i, offset)
  BY <1>3 DEF Called, GetData, GetString, Ready, Answer, With, Asked, headers
<1>4. CASE \E name \in Names : GetSection(name)
  BY <1>4 DEF Called, GetSection, Ready, Answer, Asked, headers
<1>5. CASE \E t \in Wanted : LoadSection(t)
  BY <1>5 DEF Called, LoadSection, Ready, Answer, headers
<1>6. CASE \E i \in Indexes : BeginSymbols(i)
  BY <1>6 DEF Called, BeginSymbols, Ready, Answer, Asked, headers
<1>7. CASE NextSymbol
  BY <1>7 DEF Called, NextSymbol, Ready, Answer, With, Asked, headers, caches
<1>8. CASE PreviousSymbol \/ DropSymbols \/ DropElf
  BY <1>8 DEF Called, PreviousSymbol, DropSymbols, DropElf, Ready, Asked, headers, caches
<1> QED
  BY <1>1, <1>2, <1>3, <1>4, <1>5, <1>6, <1>7, <1>8 DEF Client

\* The first of the sections at which a search stops is one of them.
LEMMA FirstHit ==
  ASSUME DOMAIN sections \subseteq Nat, NEW name, Hits(FreshNames, name) # {}
  PROVE  Min(Hits(FreshNames, name)) \in DOMAIN sections
<1>1. Hits(FreshNames, name) \subseteq DOMAIN sections
  BY DEF Hits, FreshNames
<1>2. PICK i \in Hits(FreshNames, name) : \A j \in Hits(FreshNames, name) : i <= j
  BY <1>1, Least
<1>3. Min(Hits(FreshNames, name)) \in Hits(FreshNames, name)
  BY <1>2, Zenon DEF Min
<1> QED
  BY <1>1, <1>3

\* What is loaded is what was settled.
LEMMA LoadOK ==
  ASSUME IInv, NEW t \in Wanted, LoadSection(t)
  PROVE  /\ answer'.op = "load" /\ answer'.about = <<t>>
         /\ [status |-> answer'.status, at |-> answer'.at, len |-> answer'.len] = settled[t]
<1> DEFINE hits == Hits(FreshNames, Spelling[SectionName[t]])
<1>1. pc = "idle" /\ NamesRight /\ DatasRight /\ DOMAIN sections \subseteq Nat
  BY DEF LoadSection, Ready, IInv
<1>2. NamesNow = FreshNames
  BY <1>1, NamesSettled
<1>3. settled[t] = Settled(FreshNames, hits)
  BY <1>1, ContentsAre DEF IInv, SettledBy
<1>4. CASE hits = {}
  <2>1. answer' = Asked("load", 0, <<t>>)
    BY <1>2, <1>4 DEF LoadSection, Answer
  <2> QED
    BY <1>3, <1>4, <2>1 DEF Asked, Settled, Found
<1>5. CASE hits # {}
  <2>1. Min(hits) \in DOMAIN sections
    BY <1>1, <1>5, FirstHit
  <2>2. DataOf(Min(hits)) = FreshData(Min(hits))
    BY <1>1, <2>1, DataSettled
  <2>3. answer' = With(Asked("load", Min(hits), <<t>>), Settled(FreshNames, hits))
    BY <1>2, <1>5, <2>2 DEF LoadSection, Answer, Settled
  <2>4. Shaped(Settled(FreshNames, hits))
    BY <1>5, <2>1, DataShaped, NameShaped DEF Settled
  <2> QED
    BY <1>3, <2>3, <2>4 DEF With, Asked, Shaped
<1> QED
  BY <1>4, <1>5

\* Every step keeps the invariant and is a step of SectionSource or changes
\* nothing that SectionSource can see.
LEMMA NextOK == IInv /\ [Next]_vars => IInv' /\ [Source!Next]_<<contents, reply>>
<1> SUFFICES ASSUME IInv, [Next]_vars
             PROVE  IInv' /\ [Source!Next]_<<contents, reply>>
  OBVIOUS
<1>1. CASE UNCHANGED vars
  <2>1. FreshNames' = FreshNames /\ Contents' = Contents
    BY <1>1, FreshStays DEF vars
  <2>2. ASSUME NEW i PROVE FreshData(i)' = FreshData(i)
    BY <1>1, DataStays DEF vars
  <2> QED
    BY <1>1, <2>1, <2>2 DEF vars, IInv, NamesRight, DatasRight, contents, reply, Found,
       NoName, Constructing, Asked, NoReply
<1>2. CASE Constructor
  <2>1. /\ IInv' /\ pc # "idle"
        /\ pc' = "idle" => answer'.op = "elf" /\ settled' # << >>
    BY <1>2, ConstructorOK
  <2>2. contents = << >> /\ reply = NoReply /\ reply' = NoReply
    BY <2>1 DEF contents, reply, NoReply, NoName
  <2> QED
    BY <2>1, <2>2 DEF contents, Source!Next, Source!Open
<1>3. CASE Client
  <2>1. Called
    BY <1>3, OthersOK
  <2>2. IInv'
    BY <2>1, CallOK DEF Called
  <2>3. contents = settled /\ settled # << >>
    BY <2>1, ContentsAreSomething DEF Called, IInv, contents
  <2>4. CASE pc' = "wild"
    <3>1. contents' = << >> /\ reply' = NoReply
      BY <2>4 DEF contents, reply, NoReply, NoName
    <3> QED
      BY <2>2, <2>3, <3>1 DEF Source!Next, Source!Close
  <2>5. CASE pc' = "idle"
    <3>1. contents' = contents
      BY <2>1, <2>5 DEF Called, contents
    <3>2. CASE \E t \in Wanted : LoadSection(t)
      <4>1. PICK t \in Wanted : LoadSection(t)
        BY <3>2
      <4>2. reply' = [type |-> t, data |-> settled[t]]
        BY <2>5, <4>1, LoadOK DEF reply
      <4>3. Source!Load(t)
        BY <2>3, <3>1, <4>2 DEF Source!Load
      <4> QED
        BY <2>2, <4>3 DEF Source!Next
    <3>3. CASE answer'.op # "load"
      <4>1. reply' = NoReply
        BY <3>3 DEF reply, NoReply, NoName
      <4> QED
        BY <2>2, <3>1, <4>1 DEF Source!Next, Source!Return
    <3> QED
      BY <1>3, <3>2, <3>3, OthersOK
  <2> QED
    BY <2>1, <2>4, <2>5 DEF Called
<1>4. CASE Stopped
  BY <1>1, <1>4 DEF Stopped
<1> QED
  BY <1>1, <1>2, <1>3, <1>4 DEF Next

\* What an ELF file answers for a section of DWARF is settled when it is opened
\* (elf.cc:139-146, 245-271 and dwarf/elf.cc:39-49).
THEOREM Refinement == Spec => RefinesSectionSource
<1>1. Init => Source!Init
  BY DEF Init, Source!Init, contents, reply
<1> QED
  BY <1>1, InitIInv, NextOK, PTL DEF Spec, RefinesSectionSource, Source!Spec, Source!vars

-----------------------------------------------------------------------------
(* Numbers and structures of a file: their fields are natural, and follow   *)
(* one another.                                                            *)

LEMMA WordsAreNatural ==
  /\ Base \in Nat /\ Base > 1
  /\ Half \in Nat /\ Half > Base
  /\ Word \in Nat /\ Word > Half
  /\ Xword \in Nat /\ Xword > Word
<1>1. \A n \in Nat : n > 1 => n * n \in Nat /\ n * n > n
  OBVIOUS
<1>2. Base \in Nat /\ Base > 1
  BY ElfBaseAssumption
<1>3. Half \in Nat /\ Half > Base
  BY <1>1, <1>2 DEF Half
<1>4. Half > 1
  BY <1>2, <1>3
<1>5. Word \in Nat /\ Word > Half
  BY <1>1, <1>3, <1>4 DEF Word
<1>6. Word > 1
  BY <1>3, <1>4, <1>5
<1>7. Xword \in Nat /\ Xword > Word
  BY <1>1, <1>5, <1>6 DEF Xword
<1> QED
  BY <1>2, <1>3, <1>5, <1>7

LEMMA WordsAreLarge == Half >= 4 /\ Word >= 16 /\ Xword >= 256
<1>1. \A n, m \in Nat : n >= m => n * n >= m * m
  <2> SUFFICES ASSUME NEW n \in Nat, NEW m \in Nat, n >= m PROVE n * n >= m * m
    OBVIOUS
  <2>1. n * n >= n * m /\ n * m >= m * m
    OBVIOUS
  <2> QED
    BY <2>1
<1>2. Half >= 4
  BY <1>1, WordsAreNatural DEF Half
<1>3. Word >= 16
  BY <1>1, <1>2, WordsAreNatural DEF Word
<1>4. Xword >= 256
  BY <1>1, <1>3, WordsAreNatural DEF Xword
<1> QED
  BY <1>2, <1>3, <1>4

\* What the layouts have in common.
IsLayout(layout) ==
  /\ Len(layout) \in 0..20 /\ DOMAIN layout = 1..Len(layout)
  /\ \A k \in 1..Len(layout) : layout[k][2] \in 0..8

\* The header: its class is the second of its fields.
LEMMA EhdrOK ==
  ASSUME NEW class \in ElfClass
  PROVE  /\ IsLayout(Ehdr(class))
         /\ Index(Ehdr(class), "ei_class") = 2
         /\ Ehdr(class)[1][2] = 4 /\ Ehdr(class)[2] = <<"ei_class", 1>>
<1>1. Long(class) \in 0..8
  BY DEF Long
<1>2. Len(Ehdr(class)) = 20 /\ DOMAIN Ehdr(class) = 1..20
  BY DEF Ehdr
<1>3. /\ Ehdr(class)[1] = <<"pad", 4>> /\ Ehdr(class)[2] = <<"ei_class", 1>>
      /\ Ehdr(class)[3] = <<"ei_data", 1>> /\ Ehdr(class)[4] = <<"ei_version", 1>>
  BY DEF Ehdr
<1>4. /\ Ehdr(class)[5] = <<"ei_osabi", 1>> /\ Ehdr(class)[6] = <<"ei_abiversion", 1>>
      /\ Ehdr(class)[7] = <<"pad", 7>> /\ Ehdr(class)[8] = <<"type", 2>>
  BY DEF Ehdr
<1>5. /\ Ehdr(class)[9] = <<"machine", 2>> /\ Ehdr(class)[10] = <<"version", 4>>
      /\ Ehdr(class)[11] = <<"entry", Long(class)>> /\ Ehdr(class)[12] = <<"phoff", Long(class)>>
  BY DEF Ehdr
<1>6. /\ Ehdr(class)[13] = <<"shoff", Long(class)>> /\ Ehdr(class)[14] = <<"flags", 4>>
      /\ Ehdr(class)[15] = <<"ehsize", 2>> /\ Ehdr(class)[16] = <<"phentsize", 2>>
  BY DEF Ehdr
<1>7. /\ Ehdr(class)[17] = <<"phnum", 2>> /\ Ehdr(class)[18] = <<"shentsize", 2>>
      /\ Ehdr(class)[19] = <<"shnum", 2>> /\ Ehdr(class)[20] = <<"shstrndx", 2>>
  BY DEF Ehdr
<1>8. ASSUME NEW k \in 1..20
      PROVE  /\ Ehdr(class)[k][2] \in 0..8
             /\ Ehdr(class)[k][1] = "ei_class" => k = 2
  <2>1. CASE k \in {1, 2, 3, 4}
    BY <1>1, <1>3, <2>1
  <2>2. CASE k \in {5, 6, 7, 8}
    BY <1>1, <1>4, <2>2
  <2>3. CASE k \in {9, 10, 11, 12}
    BY <1>1, <1>5, <2>3
  <2>4. CASE k \in {13, 14, 15, 16}
    BY <1>1, <1>6, <2>4
  <2>5. CASE k \in {17, 18, 19, 20}
    BY <1>1, <1>7, <2>5
  <2> QED
    BY <2>1, <2>2, <2>3, <2>4, <2>5
<1>9. Ehdr(class)[1][2] = 4 /\ Ehdr(class)[2] = <<"ei_class", 1>> /\ Ehdr(class)[2][1] = "ei_class"
  BY <1>3
<1>10. Index(Ehdr(class), "ei_class") = 2
  BY <1>2, <1>8, <1>9 DEF Index
<1> QED
  BY <1>2, <1>8, <1>9, <1>10 DEF IsLayout

\* Sections and symbols begin with the offset of their name.
LEMMA LayoutsOK ==
  ASSUME NEW class \in ElfClass
  PROVE  /\ IsLayout(Phdr(class))
         /\ IsLayout(Shdr(class)) /\ Index(Shdr(class), "name") = 1 /\ Shdr(class)[1][2] = 4
         /\ IsLayout(Sym(class)) /\ Index(Sym(class), "name") = 1 /\ Sym(class)[1][2] = 4
<1>1. Long(class) \in 0..8
  BY DEF Long
<1>2. IsLayout(Phdr(class))
  BY <1>1 DEF Phdr, IsLayout
<1>3. IsLayout(Shdr(class))
  BY <1>1 DEF Shdr, IsLayout
<1>4. IsLayout(Sym(class))
  BY DEF Sym, IsLayout
<1>5. /\ Shdr(class)[1] = <<"name", 4>> /\ DOMAIN Shdr(class) = 1..10
      /\ \A k \in 2..10 : Shdr(class)[k][1] # "name"
  BY DEF Shdr
<1>6. /\ Sym(class)[1] = <<"name", 4>> /\ DOMAIN Sym(class) = 1..6
      /\ \A k \in 2..6 : Sym(class)[k][1] # "name"
  BY DEF Sym
<1>7. Index(Shdr(class), "name") = 1
  BY <1>5 DEF Index
<1>8. Index(Sym(class), "name") = 1
  BY <1>6 DEF Index
<1> QED
  BY <1>2, <1>3, <1>4, <1>5, <1>6, <1>7, <1>8

\* Fields follow one another, and the last ends where the structure does.
LEMMA Places ==
  ASSUME NEW layout, IsLayout(layout), NEW k \in DOMAIN layout
  PROVE  /\ Place(layout, k) \in Nat /\ Size(layout) \in Nat /\ layout[k][2] \in Nat
         /\ Place(layout, k) + layout[k][2] <= Size(layout) /\ Size(layout) < Xword
         /\ Place(layout, k + 1) = Place(layout, k) + layout[k][2]
         /\ k = 1 => Place(layout, k) = 0
<1> DEFINE sizes == [j \in 1..Len(layout) |-> layout[j][2]]
           n == Len(layout)
<1>1. /\ sizes \in Seq(Nat) /\ Len(sizes) = n /\ n \in Nat /\ n <= 20
      /\ \A j \in 1..n : sizes[j] <= 8
  <2>1. n \in Nat /\ n <= 20
    BY DEF IsLayout
  <2>2. ASSUME NEW j \in 1..n PROVE layout[j][2] \in Nat /\ layout[j][2] <= 8
    BY DEF IsLayout
  <2>3. sizes \in Seq(Nat) /\ Len(sizes) = n
    BY <2>1, <2>2
  <2>4. ASSUME NEW j \in 1..n PROVE sizes[j] <= 8
    BY <2>2
  <2> QED
    BY <2>1, <2>3, <2>4
<1>2. ASSUME NEW j \in 1..(n + 1)
      PROVE  Place(layout, j) = NumberOf(1, SubSeq(sizes, 1, j - 1)) /\ Place(layout, j) \in Nat
  <2>1. [i \in 1..(j - 1) |-> layout[i][2]] = SubSeq(sizes, 1, j - 1)
    BY <1>1
  <2>2. SubSeq(sizes, 1, j - 1) \in Seq(Nat)
    BY <1>1
  <2> QED
    BY <2>1, <2>2, NumberIsNatural DEF Place, TotalOf
<1>3. ASSUME NEW j \in 1..n
      PROVE  Place(layout, j + 1) = Place(layout, j) + sizes[j]
  <2>1. NumberOf(1, SubSeq(sizes, 1, j)) = 1 * NumberOf(1, SubSeq(sizes, 1, j - 1)) + sizes[j]
    BY <1>1, NumberStep
  <2>2. /\ j + 1 \in 1..(n + 1) /\ j \in 1..(n + 1) /\ (j + 1) - 1 = j
        /\ sizes[j] \in Nat
    BY <1>1
  <2> QED
    BY <1>2, <2>1, <2>2
<1> DEFINE T == {j \in (k + 1)..(n + 1) : Place(layout, j) < Place(layout, k + 1)}
<1>4. /\ k \in 1..n /\ n + 1 \in (k + 1)..(n + 1) /\ k + 1 \in 1..(n + 1)
      /\ n + 1 \in 1..(n + 1) /\ k \in 1..(n + 1) /\ n \in Nat
  BY DEF IsLayout
<1>5. ASSUME T # {} PROVE FALSE
  <2>1. PICK j \in T : \A i \in T : j <= i
    <3>1. T \in SUBSET Nat
      BY <1>4
    <3> HIDE DEF T
    <3> QED
      BY <1>5, <3>1, Least
  <2>2. j # k + 1
    <3>1. Place(layout, k + 1) \in Nat
      BY <1>2, <1>4, Zenon
    <3> QED
      BY <2>1, <3>1
  <2>3. j - 1 \in (k + 1)..(n + 1) /\ j - 1 \in 1..n /\ j - 1 \notin T /\ (j - 1) + 1 = j
    BY <1>4, <2>1, <2>2
  <2>4. sizes[j - 1] \in Nat
    BY <1>1, <2>3
  <2>5. Place(layout, j) = Place(layout, j - 1) + sizes[j - 1]
    BY <1>3, <2>3
  <2>6. Place(layout, j - 1) \in Nat /\ Place(layout, k + 1) \in Nat /\ Place(layout, j) \in Nat
    <3>1. j \in 1..(n + 1) /\ j - 1 \in 1..(n + 1)
      BY <1>4, <2>1, <2>3
    <3> QED
      BY <1>2, <1>4, <3>1, Zenon
  <2>7. Place(layout, k + 1) <= Place(layout, j - 1)
    BY <2>3, <2>6
  <2>8. Place(layout, j) < Place(layout, k + 1)
    BY <2>1
  <2> HIDE DEF sizes, T
  <2> QED
    BY <2>4, <2>5, <2>6, <2>7, <2>8
<1>6. Place(layout, k + 1) <= Place(layout, n + 1)
  <2>1. n + 1 \notin T
    BY <1>5
  <2>2. Place(layout, k + 1) \in Nat /\ Place(layout, n + 1) \in Nat
    BY <1>2, <1>4, Zenon
  <2> QED
    BY <1>4, <2>1, <2>2
<1>7. Place(layout, 1) = 0
  <2>1. SubSeq(sizes, 1, 1 - 1) = << >>
    BY <1>1
  <2>2. 1 \in 1..(n + 1)
    BY <1>1
  <2> QED
    BY <1>2, <2>1, <2>2, NumberOfNone, Zenon
<1> DEFINE U == {j \in 1..(n + 1) : Place(layout, j) > 8 * (j - 1)}
<1>8. ASSUME U # {} PROVE FALSE
  <2>1. PICK j \in U : \A i \in U : j <= i
    <3>1. U \in SUBSET Nat
      BY <1>1
    <3> HIDE DEF U
    <3> QED
      BY <1>8, <3>1, Least
  <2>2. Place(layout, 1) = 0
    BY <1>7
  <2>3. j # 1
    BY <2>1, <2>2
  <2>4. j - 1 \in 1..n /\ j - 1 \in 1..(n + 1) /\ j - 1 \notin U /\ (j - 1) + 1 = j /\ j \in 1..(n + 1)
    BY <1>1, <2>1, <2>3
  <2>5. Place(layout, j) = Place(layout, j - 1) + sizes[j - 1]
    BY <1>3, <2>4
  <2>6. Place(layout, j - 1) \in Nat /\ Place(layout, j) \in Nat
    BY <1>2, <2>4, Zenon
  <2>7. sizes[j - 1] \in Nat /\ sizes[j - 1] <= 8
    BY <1>1, <2>4
  <2>8. Place(layout, j - 1) <= 8 * ((j - 1) - 1)
    BY <2>4, <2>6
  <2>9. Place(layout, j) > 8 * (j - 1)
    BY <2>1
  <2> HIDE DEF sizes, U
  <2> QED
    BY <2>4, <2>5, <2>6, <2>7, <2>8, <2>9
<1>9. Place(layout, n + 1) < Xword
  <2>1. n + 1 \notin U /\ n + 1 \in 1..(n + 1) /\ Place(layout, n + 1) \in Nat
    <3>1. n + 1 \in 1..(n + 1)
      BY <1>1
    <3>2. n + 1 \notin U
      BY <1>8
    <3> QED
      BY <1>2, <3>1, <3>2, Zenon
  <2>2. Place(layout, n + 1) <= 160
    BY <1>1, <2>1
  <2> QED
    BY <2>1, <2>2, WordsAreLarge, WordsAreNatural
<1>10. /\ Place(layout, k) \in Nat /\ Place(layout, k + 1) \in Nat /\ Place(layout, n + 1) \in Nat
      /\ sizes[k] \in Nat
  <2>1. sizes[k] \in Nat
    BY <1>1, <1>4
  <2> QED
    BY <1>2, <1>4, <2>1, Zenon
<1>11. Place(layout, k + 1) = Place(layout, k) + sizes[k] /\ sizes[k] = layout[k][2]
  BY <1>3, <1>4
<1> HIDE DEF sizes
<1> HIDE DEF U
<1> QED
  BY <1>6, <1>10, <1>11, <1>9, <1>7 DEF Size
\* Numbers that do not wrap around.
LEMMA NoWrap == \A m, x \in Nat : x < m => x % m = x
  OBVIOUS

\* The fields the library looks at.
LEMMA FieldsAre ==
  ASSUME NEW class \in ElfClass
  PROVE  /\ {"ei_class", "version", "phoff", "shoff", "phentsize", "phnum", "shentsize", "shnum", "shstrndx"}
              \subseteq Fields(Ehdr(class))
         /\ {"offset", "filesz"} \subseteq Fields(Phdr(class))
         /\ {"name", "type", "offset", "size", "link"} \subseteq Fields(Shdr(class))
         /\ "name" \in Fields(Sym(class))
<1>1. /\ Ehdr(class)[2] = <<"ei_class", 1>> /\ Ehdr(class)[10] = <<"version", 4>>
      /\ Ehdr(class)[12][1] = "phoff" /\ Ehdr(class)[13][1] = "shoff"
      /\ Ehdr(class)[16][1] = "phentsize" /\ Ehdr(class)[17][1] = "phnum"
      /\ Ehdr(class)[18][1] = "shentsize" /\ Ehdr(class)[19][1] = "shnum"
      /\ Ehdr(class)[20][1] = "shstrndx" /\ DOMAIN Ehdr(class) = 1..20
  BY DEF Ehdr
<1>2. {"ei_class", "version", "phoff", "shoff", "phentsize", "phnum", "shentsize", "shnum", "shstrndx"}
              \subseteq Fields(Ehdr(class))
  BY <1>1 DEF Fields
<1>3. {"offset", "filesz"} \subseteq Fields(Phdr(class))
  BY DEF Fields, Phdr
<1>4. {"name", "type", "offset", "size", "link"} \subseteq Fields(Shdr(class))
  BY DEF Fields, Shdr
<1>5. "name" \in Fields(Sym(class))
  BY DEF Fields, Sym
<1> QED
  BY <1>2, <1>3, <1>4, <1>5

\* The digits of a number are bytes of the file.
LEMMA NumberDigits ==
  ASSUME NEW bytes \in Seq(0..(Base - 1)), NEW order, NEW at \in Nat, NEW n \in Nat,
         at + n <= Len(bytes)
  PROVE  [k \in 1..n |-> bytes[at + (IF order = "msb" THEN k ELSE n + 1 - k)]] \in Seq(0..(Base - 1))
<1>1. ASSUME NEW k \in 1..n
      PROVE  bytes[at + (IF order = "msb" THEN k ELSE n + 1 - k)] \in 0..(Base - 1)
  BY ElfBaseAssumption
<1> QED
  BY <1>1

LEMMA NumberNatural ==
  ASSUME NEW bytes \in Seq(0..(Base - 1)), NEW order, NEW at \in Nat, NEW n \in Nat,
         at + n <= Len(bytes)
  PROVE  Number(bytes, order, at, n) \in Nat
<1> DEFINE digits == [k \in 1..n |-> bytes[at + (IF order = "msb" THEN k ELSE n + 1 - k)]]
<1>1. digits \in Seq(0..(Base - 1))
  BY NumberDigits
<1> HIDE DEF digits
<1>2. digits \in Seq(Nat)
  BY <1>1, ElfBaseAssumption
<1>3. NumberOf(Base, digits) \in Nat
  BY <1>2, NumberIsNatural, WordsAreNatural
<1> QED
  BY <1>3 DEF Number, digits

\* One digit is its own number, and four make a Word.
LEMMA NumberSmall ==
  ASSUME NEW digits \in Seq(0..(Base - 1))
  PROVE  /\ Len(digits) = 1 => NumberOf(Base, digits) = digits[1]
         /\ Len(digits) = 4 => NumberOf(Base, digits) < Word
<1> DEFINE first(k) == NumberOf(Base, SubSeq(digits, 1, k))
<1>1. /\ Base \in Nat /\ Base > 1 /\ digits \in Seq(Nat)
      /\ \A k \in 1..Len(digits) : digits[k] \in Nat /\ digits[k] < Base
  BY WordsAreNatural
<1>2. \A k \in 1..Len(digits) : first(k) = Base * first(k - 1) + digits[k]
  BY <1>1, NumberStep, Zenon
<1>3. first(0) = 0
  <2>1. SubSeq(digits, 1, 0) = << >>
    BY <1>1
  <2> QED
    BY <2>1, NumberOfNone
<1>4. NumberOf(Base, digits) = first(Len(digits))
  <2>1. SubSeq(digits, 1, Len(digits)) = digits
    BY <1>1
  <2> QED
    BY <2>1
<1> HIDE DEF first
<1>5. Len(digits) >= 1 => first(1) = digits[1]
  <2> SUFFICES ASSUME Len(digits) >= 1 PROVE first(1) = digits[1]
    OBVIOUS
  <2>1. 1 \in 1..Len(digits) /\ 1 - 1 = 0
    BY <1>1
  <2>2. first(1) = Base * 0 + digits[1]
    BY <1>2, <1>3, <2>1
  <2> QED
    BY <1>1, <2>1, <2>2
<1>6. ASSUME Len(digits) = 4 PROVE first(4) < Word
  <2>1. \A k \in 1..4 : digits[k] \in Nat /\ digits[k] < Base
    BY <1>1, <1>6
  <2>2. first(2) = Base * first(1) + digits[2] /\ first(3) = Base * first(2) + digits[3]
        /\ first(4) = Base * first(3) + digits[4] /\ first(1) = digits[1]
    BY <1>2, <1>5, <1>6
  <2>3. \A limit, n, d \in Nat : n < limit /\ d < Base => Base * n + d \in Nat /\ Base * n + d < limit * Base
    <3> SUFFICES ASSUME NEW limit \in Nat, NEW n \in Nat, NEW d \in Nat, n < limit, d < Base
                 PROVE  Base * n + d \in Nat /\ Base * n + d < limit * Base
      OBVIOUS
    <3>1. Base * (n + 1) <= Base * limit
      BY <1>1
    <3>2. Base * (n + 1) = Base * n + Base /\ Base * n \in Nat /\ Base * limit = limit * Base
      BY <1>1
    <3> QED
      BY <1>1, <3>1, <3>2
  <2>4. /\ first(1) \in Nat /\ first(1) < Base /\ digits[2] \in Nat /\ digits[2] < Base
        /\ digits[3] \in Nat /\ digits[3] < Base /\ digits[4] \in Nat /\ digits[4] < Base
        /\ Base \in Nat /\ Half \in Nat /\ Half * Base \in Nat
    BY <1>1, <2>1, <2>2, WordsAreNatural, ProductIsNatural
  <2>5. first(2) \in Nat /\ first(2) < Half
    <3>1. first(2) \in Nat /\ first(2) < Base * Base
      BY <2>2, <2>3, <2>4, Zenon
    <3> QED
      BY <3>1 DEF Half
  <2>6. first(3) \in Nat /\ first(3) < Half * Base
    <3>1. Base * first(2) + digits[3] \in Nat /\ Base * first(2) + digits[3] < Half * Base
      BY <2>3, <2>4, <2>5, Zenon
    <3> QED
      BY <2>2, <3>1
  <2>7. first(4) < (Half * Base) * Base
    <3>1. Base * first(3) + digits[4] < (Half * Base) * Base
      BY <2>3, <2>4, <2>6, Zenon
    <3> QED
      BY <2>2, <3>1
  <2>8. (Half * Base) * Base = Half * (Base * Base)
    BY <1>1, <2>4
  <2> QED
    BY <2>8, <2>7 DEF Half, Word
<1>7. ASSUME Len(digits) = 1 PROVE NumberOf(Base, digits) = digits[1]
  BY <1>4, <1>5, <1>7
<1>8. ASSUME Len(digits) = 4 PROVE NumberOf(Base, digits) < Word
  BY <1>4, <1>6, <1>8
<1> QED
  BY <1>7, <1>8

LEMMA NumberFits ==
  ASSUME NEW bytes \in Seq(0..(Base - 1)), NEW order, NEW at \in Nat, NEW n \in Nat,
         at + n <= Len(bytes)
  PROVE  /\ n = 1 => Number(bytes, order, at, n) = bytes[at + 1]
         /\ n = 4 => Number(bytes, order, at, n) < Word
<1> DEFINE digits == [k \in 1..n |-> bytes[at + (IF order = "msb" THEN k ELSE n + 1 - k)]]
<1>1. digits \in Seq(0..(Base - 1)) /\ Len(digits) = n
  <2>1. digits \in Seq(0..(Base - 1))
    BY NumberDigits
  <2> QED
    BY <2>1
<1>2. n = 1 => digits[1] = bytes[at + 1]
  OBVIOUS
<1> HIDE DEF digits
<1>3. /\ n = 1 => NumberOf(Base, digits) = digits[1]
      /\ n = 4 => NumberOf(Base, digits) < Word
  BY <1>1, NumberSmall
<1> QED
  BY <1>2, <1>3 DEF Number, digits

\* The fields of a structure that is in the file.
LEMMA CanonNatural ==
  ASSUME NEW bytes \in Seq(0..(Base - 1)), NEW order, NEW at \in Nat, NEW layout, IsLayout(layout),
         at + Size(layout) <= Len(bytes), NEW field \in Fields(layout)
  PROVE  /\ Canon(bytes, order, at, layout)[field] \in Nat
         /\ layout[Index(layout, field)][2] = 4 => Canon(bytes, order, at, layout)[field] < Word
<1> DEFINE k == Index(layout, field)
<1>1. k \in DOMAIN layout
  <2>1. \E j \in DOMAIN layout : layout[j][1] = field
    BY DEF Fields
  <2> QED
    BY <2>1 DEF Index
<1> HIDE DEF k
<1>2. /\ Place(layout, k) \in Nat /\ Size(layout) \in Nat /\ layout[k][2] \in Nat
      /\ Place(layout, k) + layout[k][2] <= Size(layout)
  BY <1>1, Places
<1>3. Canon(bytes, order, at, layout)[field] = Number(bytes, order, at + Place(layout, k), layout[k][2])
  BY DEF Canon, k
<1>4. at + Place(layout, k) \in Nat /\ (at + Place(layout, k)) + layout[k][2] <= Len(bytes)
  <2>1. Len(bytes) \in Nat
    OBVIOUS
  <2> QED
    BY <1>2, <2>1
<1>5. Number(bytes, order, at + Place(layout, k), layout[k][2]) \in Nat
  BY <1>2, <1>4, NumberNatural
<1>6. layout[k][2] = 4 => Number(bytes, order, at + Place(layout, k), layout[k][2]) < Word
  BY <1>2, <1>4, NumberFits
<1> QED
  BY <1>3, <1>5, <1>6 DEF k

-----------------------------------------------------------------------------
(* Types, and the life of the mapping.                                     *)

\* The references there are: one of the constructor or the client's, one of each
\* segment and section, those of an iterator.
Counted ==
  /\ owners = Cardinality(DOMAIN segments) + Cardinality(DOMAIN sections)
              + (IF pc \in {"header", "segments", "sections"} \/ "elf" \in held THEN 1 ELSE 0)
              + (IF "symbols" \in held THEN IteratorOwners ELSE 0)
  /\ mapped \in BOOLEAN /\ (mapped <=> owners > 0)
  /\ pc \notin {"idle", "wild"} => held = {}

\* The fields the library looks at are numbers, and the tables have as many
\* entries as the header says.
HeaderTyped ==
  /\ hdr.ei_class \in ElfClass
  /\ hdr.phoff \in Nat /\ hdr.phentsize \in Nat /\ hdr.phnum \in Nat
  /\ hdr.shoff \in Nat /\ hdr.shentsize \in Nat /\ hdr.shnum \in Nat
  /\ hdr.shstrndx \in Nat /\ HdrOK(hdr)
SegmentsTyped ==
  /\ \E n \in Nat : DOMAIN segments = 0..(n - 1)
  /\ \A i \in DOMAIN segments : segments[i].offset \in Nat /\ segments[i].filesz \in Nat
SectionsTyped ==
  /\ \E n \in Nat : DOMAIN sections = 0..(n - 1)
  /\ \A i \in DOMAIN sections :
       /\ sections[i].name \in Nat /\ sections[i].name < Word
       /\ sections[i].type \in Nat /\ sections[i].offset \in Nat /\ sections[i].size \in Nat
       /\ sections[i].link \in Nat
HeadersTyped ==
  /\ pc \in {"segments", "sections", "idle"} => HeaderTyped
  /\ pc \in {"map", "header", "segments"} => segments = << >>
  /\ pc \notin {"idle", "wild"} => sections = << >>
  /\ pc = "idle" => DOMAIN sections = 0..(hdr.shnum - 1)
  /\ SegmentsTyped /\ SectionsTyped

\* The data of segments is what loading it again would give.
SegdatasRight ==
  \A i \in DOMAIN segments : segdatas[i] # 0 =>
    Load(segments[i].offset, segments[i].filesz) = Found(segdatas[i], segments[i].filesz)

LifeInv == TypeOK /\ Counted /\ HeadersTyped /\ SegdatasRight

-----------------------------------------------------------------------------
(* What is read of a file.                                                 *)

LEMMA FileIs == ASSUME TypeOK PROVE file.bytes \in Seq(0..(Base - 1)) /\ lim \in Nat
                                    /\ Mapped \in Nat /\ Mapped > 0 /\ Mapped + lim + Word <= Xword
  BY FilesAssumption, MappedAssumption, WordsAreNatural DEF TypeOK, lim

\* A place is a number of 64 bits.
LEMMA LoadTyped ==
  ASSUME TypeOK, NEW offset \in Nat, NEW size \in Nat
  PROVE  /\ Load(offset, size).at \in 0..(Xword - 1)
         /\ Load(offset, size).status \in {"ok", "range_error"}
         /\ Load(offset, size).status = "ok" => Load(offset, size) = Found(Load(offset, size).at, size)
  BY FileIs, WordsAreNatural DEF Load, Found, Thrown

LEMMA FreshDataTyped ==
  ASSUME TypeOK, SectionsTyped, NEW i \in DOMAIN sections
  PROVE  FreshData(i).at \in 0..(Xword - 1) /\ FreshData(i).status \in {"ok", "range_error"}
<1>1. sections[i].offset \in Nat /\ sections[i].size \in Nat
  BY DEF SectionsTyped
<1> QED
  BY <1>1, LoadTyped, WordsAreNatural DEF FreshData, Found

LEMMA DataTyped ==
  ASSUME TypeOK, SectionsTyped, NEW i \in DOMAIN sections
  PROVE  DataOf(i).at \in 0..(Xword - 1)
  BY FreshDataTyped DEF DataOf, Found, TypeOK

LEMMA KeepDataTyped ==
  ASSUME TypeOK, SectionsTyped, NEW S, KeepData(S)
  PROVE  /\ DOMAIN datas' = DOMAIN datas
         /\ \A i \in DOMAIN datas' : datas'[i] \in 0..(Xword - 1)
<1>1. DOMAIN datas' = DOMAIN datas
  BY DEF KeepData
<1>2. ASSUME NEW i \in DOMAIN datas' PROVE datas'[i] \in 0..(Xword - 1)
  <2>1. i \in DOMAIN sections /\ datas[i] \in 0..(Xword - 1)
    BY <1>1 DEF TypeOK
  <2> QED
    BY <1>1, <2>1, DataTyped DEF KeepData
<1> QED
  BY <1>1, <1>2

\* Structures that are in the file.
LEMMA HeaderIs ==
  ASSUME TypeOK, HeaderStatus = "ok"
  PROVE  /\ ReadHdr.ei_class \in ElfClass
         /\ ReadHdr.phoff \in Nat /\ ReadHdr.phentsize \in Nat /\ ReadHdr.phnum \in Nat
         /\ ReadHdr.shoff \in Nat /\ ReadHdr.shentsize \in Nat /\ ReadHdr.shnum \in Nat
         /\ ReadHdr.shstrndx \in Nat /\ HdrOK(ReadHdr)
<1>1. /\ Class \in ElfClass /\ HdrOK(ReadHdr)
      /\ Load(0, 7).status = "ok" /\ Load(0, Size(Ehdr(Class))).status = "ok"
  BY DEF HeaderStatus, CoreOK
<1>2. IsLayout(Ehdr(Class)) /\ 2 \in DOMAIN Ehdr(Class)
  BY <1>1, EhdrOK DEF Ehdr
<1>3. Size(Ehdr(Class)) \in Nat /\ Size(Ehdr(Class)) < Xword
  BY <1>2, Places
<1>4. /\ file.bytes \in Seq(0..(Base - 1)) /\ 0 \in Nat /\ 4 \in Nat /\ 1 \in Nat
      /\ 0 + Size(Ehdr(Class)) <= Len(file.bytes) /\ 4 + 1 <= Len(file.bytes)
  <2>1. 7 <= lim
    <3>1. (0 + 7) % Xword = 7
      BY NoWrap, WordsAreLarge, WordsAreNatural
    <3> QED
      BY <1>1, <3>1, FileIs DEF Load, Thrown
  <2>2. Size(Ehdr(Class)) <= lim
    <3>1. (0 + Size(Ehdr(Class))) % Xword = Size(Ehdr(Class))
      BY <1>3, NoWrap, WordsAreNatural
    <3> QED
      BY <1>1, <1>3, <3>1, FileIs DEF Load, Thrown
  <2> QED
    BY <1>3, <2>1, <2>2, FileIs DEF lim
<1>5. \A field \in Fields(Ehdr(Class)) : ReadHdr[field] \in Nat
  BY <1>2, <1>4, CanonNatural DEF ReadHdr
<1>6. ReadHdr.ei_class = Class
  <2>1. ReadHdr.ei_class = Number(file.bytes, Order(Data), 0 + Place(Ehdr(Class), 2), 1)
    BY <1>1, EhdrOK, FieldsAre DEF ReadHdr, Canon
  <2>2. Place(Ehdr(Class), 2) = 4
    <3>1. 1 \in DOMAIN Ehdr(Class) /\ 2 = 1 + 1
      BY <1>2 DEF IsLayout
    <3> QED
      BY <1>1, <1>2, <3>1, EhdrOK, Places
  <2>3. Number(file.bytes, Order(Data), 4, 1) = file.bytes[4 + 1]
    BY <1>4, NumberFits
  <2> QED
    BY <2>1, <2>2, <2>3 DEF Class
<1> QED
  BY <1>1, <1>5, <1>6, FieldsAre

LEMMA PlaceInFile ==
  ASSUME TypeOK, NEW at \in Nat, NEW layout, IsLayout(layout), DOMAIN layout # {}, InFile(at, Size(layout))
  PROVE  at - Mapped \in Nat /\ (at - Mapped) + Size(layout) <= Len(file.bytes)
<1>1. Size(layout) \in Nat
  BY Places
<1> QED
  BY <1>1, FileIs DEF InFile, lim

LEMMA SegmentIs ==
  ASSUME TypeOK, NEW order, NEW class \in ElfClass, NEW at \in Nat, InFile(at, Size(Phdr(class)))
  PROVE  LET segment == Canon(file.bytes, order, at - Mapped, Phdr(class))
         IN  segment.offset \in Nat /\ segment.filesz \in Nat
<1>1. IsLayout(Phdr(class)) /\ DOMAIN Phdr(class) # {}
  BY LayoutsOK, FieldsAre DEF Fields
<1>2. at - Mapped \in Nat /\ (at - Mapped) + Size(Phdr(class)) <= Len(file.bytes)
  BY <1>1, PlaceInFile
<1> QED
  BY <1>1, <1>2, FileIs, CanonNatural, FieldsAre

LEMMA SectionIs ==
  ASSUME TypeOK, NEW order, NEW class \in ElfClass, NEW at \in Nat, InFile(at, Size(Shdr(class)))
  PROVE  LET section == CanonShdr(file.bytes, order, at - Mapped, class)
         IN  /\ section.name \in Nat /\ section.name < Word
             /\ section.type \in Nat /\ section.offset \in Nat /\ section.size \in Nat
             /\ section.link \in Nat
<1> DEFINE canon == Canon(file.bytes, order, at - Mapped, Shdr(class))
<1>1. IsLayout(Shdr(class)) /\ DOMAIN Shdr(class) # {}
  BY LayoutsOK, FieldsAre DEF Fields
<1>2. at - Mapped \in Nat /\ (at - Mapped) + Size(Shdr(class)) <= Len(file.bytes)
  BY <1>1, PlaceInFile
<1>3. \A field \in Fields(Shdr(class)) : canon[field] \in Nat
  BY <1>1, <1>2, FileIs, CanonNatural
<1>4. canon.name < Word
  BY <1>1, <1>2, FileIs, CanonNatural, LayoutsOK, FieldsAre
<1>5. DOMAIN canon = Fields(Shdr(class))
  BY DEF Canon
<1> HIDE DEF canon
<1>6. canon.link % Half \in Nat
  BY <1>3, FieldsAre, WordsAreNatural
<1> QED
  BY <1>3, <1>4, <1>5, <1>6, FieldsAre DEF CanonShdr, canon

LEMMA SymbolIs ==
  ASSUME TypeOK, NEW order, NEW class \in ElfClass, NEW at \in Nat, InFile(at, Size(Sym(class)))
  PROVE  LET sym == Canon(file.bytes, order, at - Mapped, Sym(class))
         IN  sym.name \in Nat /\ sym.name < Word
<1>1. IsLayout(Sym(class)) /\ DOMAIN Sym(class) # {}
  BY LayoutsOK, FieldsAre DEF Fields
<1>2. at - Mapped \in Nat /\ (at - Mapped) + Size(Sym(class)) <= Len(file.bytes)
  BY <1>1, PlaceInFile
<1> QED
  BY <1>1, <1>2, FileIs, CanonNatural, LayoutsOK, FieldsAre

\* There are as many references as members of a table.
LEMMA TableSize ==
  /\ \A n \in Nat : Cardinality(0..(n - 1)) = n /\ (0..(n - 1) = {} <=> n = 0)
  /\ DOMAIN << >> = 0..(0 - 1) 
  /\ \A f : f = << >> => Cardinality(DOMAIN f) = 0
<1>1. ASSUME NEW n \in Nat PROVE Cardinality(0..(n - 1)) = n /\ (0..(n - 1) = {} <=> n = 0)
  <2>1. 0 \in Int /\ n - 1 \in Int
    OBVIOUS
  <2>2. Cardinality(0..(n - 1)) = IF 0 > n - 1 THEN 0 ELSE (n - 1) - 0 + 1
    BY <2>1, FS_Interval, Zenon
  <2> QED
    BY <2>2
<1>2. DOMAIN << >> = 0..(0 - 1)
  OBVIOUS
<1> QED
  BY <1>1, <1>2
-----------------------------------------------------------------------------
(* Types and references are kept.                                          *)

LEMMA CountedTyped ==
  ASSUME SegmentsTyped, SectionsTyped
  PROVE  Cardinality(DOMAIN segments) \in Nat /\ Cardinality(DOMAIN sections) \in Nat
  BY TableSize DEF SegmentsTyped, SectionsTyped

\* What the references say of the types.
LEMMA LifeTyped == HeadersTyped /\ Counted => owners \in Nat /\ mapped \in BOOLEAN
<1> SUFFICES ASSUME HeadersTyped, Counted PROVE owners \in Nat /\ mapped \in BOOLEAN
  OBVIOUS
<1>1. Cardinality(DOMAIN segments) \in Nat /\ Cardinality(DOMAIN sections) \in Nat
  BY CountedTyped DEF HeadersTyped
<1> QED
  BY <1>1 DEF Counted, IteratorOwners

LEMMA InitLife == Init => LifeInv
<1> SUFFICES ASSUME Init PROVE LifeInv
  OBVIOUS
<1>1. SegmentsTyped /\ SectionsTyped
  BY TableSize DEF Init, SegmentsTyped, SectionsTyped
<1>2. Cardinality(DOMAIN segments) = 0 /\ Cardinality(DOMAIN sections) = 0
  BY TableSize, Zenon DEF Init
<1>3. Counted
  <2>1. owners = 0 /\ mapped = FALSE /\ held = {} /\ pc = "map"
    BY DEF Init
  <2>2. ~(owners > 0)
    BY <2>1
  <2>3. mapped \in BOOLEAN /\ (mapped <=> owners > 0)
    BY <2>1, <2>2, Zenon
  <2> QED
    BY <1>2, <2>1, <2>3 DEF Counted
<1>4. HeadersTyped
  BY <1>1 DEF Init, HeadersTyped
<1>5. SegdatasRight
  BY DEF Init, SegdatasRight
<1>6. TypeOK
  <2>1. DOMAIN datas = {}
    BY DEF Init
  <2>2. mapped \in BOOLEAN
    BY Zenon DEF Init
  <2> QED
    BY <2>1, <2>2 DEF Init, TypeOK
<1> QED
  BY <1>3, <1>4, <1>5, <1>6 DEF LifeInv

\* An exception leaves the constructor.
LEMMA RefuseLife ==
  ASSUME LifeInv, pc \in {"header", "segments", "sections"}, NEW status, Refuse(status),
         UNCHANGED <<file, hdr, segments, sections, names, datas, segdatas>>
  PROVE  LifeInv'
<1>1. HeadersTyped' /\ SegdatasRight'
  BY DEF LifeInv, HeadersTyped, SegmentsTyped, SectionsTyped, HeaderTyped, SegdatasRight, Refuse,
     Load, lim, Found, Thrown, HdrOK
<1>2. Counted'
  <2>1. Cardinality(DOMAIN segments) \in Nat /\ Cardinality(DOMAIN sections) \in Nat
    BY CountedTyped DEF LifeInv, HeadersTyped
  <2>2. held = {} /\ owners = Cardinality(DOMAIN segments) + Cardinality(DOMAIN sections) + 1
    BY <2>1 DEF LifeInv, Counted
  <2>3. owners' = owners - 1 /\ mapped' = (owners > 1) /\ held' = {} /\ pc' \in {"wild", "failed"}
    BY <2>2 DEF Refuse, Release
  <2>4. owners' = Cardinality(DOMAIN segments) + Cardinality(DOMAIN sections)
        /\ (mapped' <=> owners' > 0) /\ mapped' \in BOOLEAN
    <3>1. owners' = Cardinality(DOMAIN segments) + Cardinality(DOMAIN sections)
          /\ (owners > 1 <=> owners' > 0)
      BY <2>1, <2>2, <2>3
    <3>2. mapped' \in BOOLEAN
      BY <2>3
    <3>3. mapped' <=> owners' > 0
      BY <2>3, <3>1, Zenon
    <3> QED
      BY <3>1, <3>2, <3>3
  <2> QED
    BY <2>1, <2>3, <2>4 DEF Counted
<1>3. (owners \in Nat /\ mapped \in BOOLEAN)'
  BY <1>1, <1>2, LifeTyped, PTL
<1> QED
  BY <1>1, <1>2, <1>3 DEF LifeInv, TypeOK, Refuse

LEMMA MapLife == ASSUME LifeInv, Map PROVE LifeInv'
<1>1. CASE lim > 0
  <2>1. HeadersTyped' /\ SegdatasRight'
    BY <1>1 DEF Map, headers, caches, LifeInv, HeadersTyped, SegmentsTyped, SectionsTyped, HeaderTyped,
       SegdatasRight, Load, lim, Found, Thrown
  <2>2. Counted'
    <3>1. segments' = << >> /\ sections' = << >>
      BY DEF Map, headers, LifeInv, HeadersTyped
    <3>2. Cardinality(DOMAIN segments') = 0 /\ Cardinality(DOMAIN sections') = 0
      BY <3>1, TableSize, Zenon
    <3> QED
      BY <1>1, <3>2 DEF Map, LifeInv, Counted
  <2> QED
    BY <1>1, <2>1, <2>2 DEF Map, headers, caches, LifeInv, TypeOK
<1>2. CASE ~(lim > 0)
  <2>1. HeadersTyped' /\ SegdatasRight'
    BY <1>2 DEF Map, headers, caches, LifeInv, HeadersTyped, SegmentsTyped, SectionsTyped, HeaderTyped,
       SegdatasRight, Load, lim, Found, Thrown
  <2>2. Counted'
    BY <1>2 DEF Map, headers, caches, LifeInv, Counted
  <2> QED
    BY <1>2, <2>1, <2>2 DEF Map, headers, caches, LifeInv, TypeOK
<1> QED
  BY <1>1, <1>2

LEMMA HeaderLife == ASSUME LifeInv, Header PROVE LifeInv'
<1>1. CASE HeaderStatus = "ok"
  <2>1. HeaderTyped'
    <3>1. hdr' = ReadHdr /\ TypeOK
      BY <1>1 DEF Header, LifeInv
    <3> QED
      BY <1>1, <3>1, HeaderIs DEF HeaderTyped, HdrOK
  <2>2. HeadersTyped' /\ SegdatasRight'
    BY <1>1, <2>1 DEF Header, caches, LifeInv, HeadersTyped, SegmentsTyped, SectionsTyped,
       SegdatasRight, Load, lim, Found, Thrown
  <2>3. Counted'
    BY <1>1 DEF Header, life, LifeInv, Counted
  <2> QED
    BY <1>1, <2>2, <2>3 DEF Header, caches, life, LifeInv, TypeOK
<1>2. CASE HeaderStatus # "ok"
  BY <1>2, RefuseLife DEF Header, caches
<1> QED
  BY <1>1, <1>2

\* The entries of a table are at natural places.
LEMMA EntryNatural ==
  ASSUME NEW table \in Nat, NEW i \in Nat, NEW entsize \in Nat
  PROVE  Entry(table, entsize, i) \in Nat
<1>1. i * entsize \in Nat
  BY ProductIsNatural
<1> QED
  BY <1>1, WordsAreNatural DEF Entry

LEMMA SegmentsLife == ASSUME LifeInv, Segments PROVE LifeInv'
<1>1. /\ TypeOK /\ HeaderTyped /\ pc = "segments" /\ segments = << >> /\ sections = << >>
  BY DEF LifeInv, HeadersTyped, Segments
<1>2. PICK size \in TableBytes(hdr.phentsize, hdr.phnum) :
        \/ \E status : Refuse(status) /\ UNCHANGED <<segments, segdatas>>
        \/ \E table \in {Load(hdr.phoff, size)} :
             /\ table.status = "ok"
             /\ \A i \in 0..(hdr.phnum - 1) :
                  InFile(Entry(table.at, hdr.phentsize, i), Size(Phdr(hdr.ei_class)))
             /\ segments' = [i \in 0..(hdr.phnum - 1) |->
                  Canon(file.bytes, Order(hdr.ei_data),
                        Entry(table.at, hdr.phentsize, i) - Mapped, Phdr(hdr.ei_class))]
             /\ segdatas' = [i \in 0..(hdr.phnum - 1) |-> 0]
             /\ pc' = "sections" /\ Acquire(hdr.phnum)
             /\ UNCHANGED <<answer, held>>
  BY DEF Segments
<1>3. CASE \E status : Refuse(status) /\ UNCHANGED <<segments, segdatas>>
  BY <1>1, <1>3, RefuseLife DEF Segments
<1>4. CASE \E table \in {Load(hdr.phoff, size)} :
             /\ table.status = "ok"
             /\ \A i \in 0..(hdr.phnum - 1) :
                  InFile(Entry(table.at, hdr.phentsize, i), Size(Phdr(hdr.ei_class)))
             /\ segments' = [i \in 0..(hdr.phnum - 1) |->
                  Canon(file.bytes, Order(hdr.ei_data),
                        Entry(table.at, hdr.phentsize, i) - Mapped, Phdr(hdr.ei_class))]
             /\ segdatas' = [i \in 0..(hdr.phnum - 1) |-> 0]
             /\ pc' = "sections" /\ Acquire(hdr.phnum)
             /\ UNCHANGED <<answer, held>>
  <2> DEFINE at == Load(hdr.phoff, size).at
  <2>1. at \in Nat
    <3>1. size \in Nat
      BY <1>1, ProductIsNatural, WordsAreNatural DEF TableBytes, HeaderTyped
    <3> QED
      BY <1>1, <3>1, LoadTyped, WordsAreNatural DEF HeaderTyped
  <2>2. segments' = [i \in 0..(hdr.phnum - 1) |->
                  Canon(file.bytes, Order(hdr.ei_data),
                        Entry(at, hdr.phentsize, i) - Mapped, Phdr(hdr.ei_class))]
    BY <1>4
  <2>3. ASSUME NEW i \in DOMAIN segments'
        PROVE  segments'[i].offset \in Nat /\ segments'[i].filesz \in Nat
    <3>1. i \in 0..(hdr.phnum - 1) /\ i \in Nat /\ hdr.phentsize \in Nat /\ hdr.ei_class \in ElfClass
      BY <1>1, <2>2 DEF HeaderTyped
    <3>2. Entry(at, hdr.phentsize, i) \in Nat
      BY <2>1, <3>1, EntryNatural
    <3>3. InFile(Entry(at, hdr.phentsize, i), Size(Phdr(hdr.ei_class)))
      BY <1>4, <3>1
    <3> QED
      BY <1>1, <2>2, <3>1, <3>2, <3>3, SegmentIs
  <2>4. SegmentsTyped' /\ SectionsTyped'
    <3>1. DOMAIN segments' = 0..(hdr.phnum - 1) /\ hdr.phnum \in Nat
      BY <1>1, <2>2 DEF HeaderTyped
    <3>2. sections' = sections
      BY DEF Segments
    <3> QED
      BY <2>3, <3>1, <3>2 DEF SegmentsTyped, SectionsTyped, LifeInv, HeadersTyped
  <2>5. HeadersTyped'
    BY <1>1, <1>4, <2>4 DEF HeadersTyped, HeaderTyped, Segments, HdrOK
  <2>6. Counted'
    <3>1. DOMAIN segments' = 0..(hdr.phnum - 1) /\ hdr.phnum \in Nat /\ sections' = << >> /\ held' = {}
      BY <1>1, <1>4, <2>2 DEF HeaderTyped, LifeInv, Counted, Segments
    <3>2. Cardinality(DOMAIN segments') = hdr.phnum /\ Cardinality(DOMAIN sections') = 0
      <4>1. Cardinality(DOMAIN sections') = 0
        BY <3>1, TableSize, Zenon
      <4>2. Cardinality(0..(hdr.phnum - 1)) = hdr.phnum
        BY <3>1, TableSize
      <4> QED
        BY <3>1, <4>1, <4>2
    <3>3. owners = 1 /\ mapped = TRUE
      <4>1. Cardinality(DOMAIN segments) = 0 /\ Cardinality(DOMAIN sections) = 0 /\ held = {}
        BY <1>1, TableSize, Zenon DEF LifeInv, Counted
      <4> QED
        BY <1>1, <4>1 DEF LifeInv, Counted
    <3> QED
      BY <1>4, <3>1, <3>2, <3>3 DEF Counted, Acquire
  <2>7. SegdatasRight' /\ DOMAIN segdatas' = DOMAIN segments'
    BY <1>4, <2>2 DEF SegdatasRight
  <2>8. (owners \in Nat /\ mapped \in BOOLEAN)'
    BY <2>5, <2>6, LifeTyped, PTL
  <2> QED
    BY <1>1, <1>4, <2>5, <2>6, <2>7, <2>8 DEF LifeInv, TypeOK, Segments
<1> QED
  BY <1>2, <1>3, <1>4

LEMMA SectionsLife == ASSUME LifeInv, Sections PROVE LifeInv'
<1>1. /\ TypeOK /\ HeaderTyped /\ pc = "sections" /\ sections = << >>
  BY DEF LifeInv, HeadersTyped, Sections
<1>2. PICK size \in TableBytes(hdr.shentsize, hdr.shnum) :
        \/ \E status : Refuse(status) /\ UNCHANGED <<sections, settled, names, datas>>
        \/ \E table \in {Load(hdr.shoff, size)} :
             /\ table.status = "ok"
             /\ \A i \in 0..(hdr.shnum - 1) :
                  InFile(Entry(table.at, hdr.shentsize, i), Size(Shdr(hdr.ei_class)))
             /\ sections' = [i \in 0..(hdr.shnum - 1) |->
                  CanonShdr(file.bytes, Order(hdr.ei_data),
                            Entry(table.at, hdr.shentsize, i) - Mapped, hdr.ei_class)]
             /\ names' = [i \in 0..(hdr.shnum - 1) |-> NoName]
             /\ datas' = [i \in 0..(hdr.shnum - 1) |-> 0]
             /\ pc' = "idle" /\ held' = {"elf"} /\ Acquire(hdr.shnum)
  BY DEF Sections
<1>3. CASE \E status : Refuse(status) /\ UNCHANGED <<sections, settled, names, datas>>
  BY <1>1, <1>3, RefuseLife DEF Sections
<1>4. CASE \E table \in {Load(hdr.shoff, size)} :
             /\ table.status = "ok"
             /\ \A i \in 0..(hdr.shnum - 1) :
                  InFile(Entry(table.at, hdr.shentsize, i), Size(Shdr(hdr.ei_class)))
             /\ sections' = [i \in 0..(hdr.shnum - 1) |->
                  CanonShdr(file.bytes, Order(hdr.ei_data),
                            Entry(table.at, hdr.shentsize, i) - Mapped, hdr.ei_class)]
             /\ names' = [i \in 0..(hdr.shnum - 1) |-> NoName]
             /\ datas' = [i \in 0..(hdr.shnum - 1) |-> 0]
             /\ pc' = "idle" /\ held' = {"elf"} /\ Acquire(hdr.shnum)
  <2> DEFINE at == Load(hdr.shoff, size).at
  <2>1. at \in Nat
    <3>1. size \in Nat
      BY <1>1, ProductIsNatural, WordsAreNatural DEF TableBytes, HeaderTyped
    <3> QED
      BY <1>1, <3>1, LoadTyped, WordsAreNatural DEF HeaderTyped
  <2>2. sections' = [i \in 0..(hdr.shnum - 1) |->
                  CanonShdr(file.bytes, Order(hdr.ei_data),
                            Entry(at, hdr.shentsize, i) - Mapped, hdr.ei_class)]
    BY <1>4
  <2>3. ASSUME NEW i \in DOMAIN sections'
        PROVE  /\ sections'[i].name \in Nat /\ sections'[i].name < Word
               /\ sections'[i].type \in Nat /\ sections'[i].offset \in Nat
               /\ sections'[i].size \in Nat /\ sections'[i].link \in Nat
    <3>1. i \in 0..(hdr.shnum - 1) /\ i \in Nat /\ hdr.shentsize \in Nat /\ hdr.ei_class \in ElfClass
      BY <1>1, <2>2 DEF HeaderTyped
    <3>2. Entry(at, hdr.shentsize, i) \in Nat
      BY <2>1, <3>1, EntryNatural
    <3>3. InFile(Entry(at, hdr.shentsize, i), Size(Shdr(hdr.ei_class)))
      BY <1>4, <3>1
    <3> QED
      BY <1>1, <2>2, <3>1, <3>2, <3>3, SectionIs
  <2>4. DOMAIN sections' = 0..(hdr.shnum - 1) /\ hdr.shnum \in Nat
    BY <1>1, <2>2 DEF HeaderTyped
  <2>5. SegmentsTyped' /\ SectionsTyped'
    <3>1. segments' = segments
      BY DEF Sections
    <3> QED
      BY <2>3, <2>4, <3>1 DEF SegmentsTyped, SectionsTyped, LifeInv, HeadersTyped
  <2>6. HeadersTyped'
    BY <1>1, <1>4, <2>5, <2>4 DEF HeadersTyped, HeaderTyped, Sections, HdrOK
  <2>7. Counted'
    <3>1. segments' = segments /\ held = {} /\ held' = {"elf"} /\ pc' = "idle"
      BY <1>1, <1>4 DEF LifeInv, Counted, Sections
    <3>2. Cardinality(DOMAIN sections) = 0 /\ Cardinality(DOMAIN segments) \in Nat
      BY <1>1, TableSize, CountedTyped DEF LifeInv, HeadersTyped
    <3>3. Cardinality(DOMAIN sections') = hdr.shnum
      <4>1. Cardinality(0..(hdr.shnum - 1)) = hdr.shnum
        BY <2>4, TableSize
      <4> QED
        BY <2>4, <4>1
    <3>4. owners = Cardinality(DOMAIN segments) + 1 /\ mapped = TRUE
      BY <1>1, <3>1, <3>2 DEF LifeInv, Counted
    <3> QED
      BY <1>4, <2>4, <3>1, <3>2, <3>3, <3>4 DEF Counted, Acquire
  <2>8. SegdatasRight'
    BY DEF SegdatasRight, Sections, LifeInv, Load, lim, Found, Thrown
  <2>9. (owners \in Nat /\ mapped \in BOOLEAN)'
    BY <2>6, <2>7, LifeTyped, PTL
  <2>10. \A i \in DOMAIN datas' : datas'[i] \in 0..(Xword - 1)
    BY <1>4, WordsAreNatural
  <2> QED
    BY <1>1, <1>4, <2>6, <2>7, <2>8, <2>9, <2>4, <2>10 DEF LifeInv, TypeOK, Sections
<1> QED
  BY <1>2, <1>3, <1>4


\* What the client's calls do to the references, and to the data of segments.
Borrows ==
  \/ UNCHANGED life
  \/ /\ "elf" \in held /\ "symbols" \notin held
     /\ held' = held \cup {"symbols"} /\ Acquire(IteratorOwners)
  \/ "symbols" \in held /\ Drop("symbols", IteratorOwners)
  \/ "elf" \in held /\ Drop("elf", 1)
LoadsSegment ==
  \/ UNCHANGED segdatas
  \/ \E i \in DOMAIN segments :
       segdatas' = [segdatas EXCEPT ![i] =
         IF segdatas[i] # 0 THEN segdatas[i] ELSE Load(segments[i].offset, segments[i].filesz).at]

LEMMA CallCounted ==
  ASSUME LifeInv, pc = "idle", pc' \in {"idle", "wild"}, UNCHANGED <<segments, sections>>, Borrows
  PROVE  Counted'
<1> DEFINE members == Cardinality(DOMAIN segments) + Cardinality(DOMAIN sections)
<1>1. members \in Nat
  BY CountedTyped DEF LifeInv, HeadersTyped
<1>2. members' = members
  OBVIOUS
<1>3. /\ owners = members + (IF "elf" \in held THEN 1 ELSE 0)
                  + (IF "symbols" \in held THEN IteratorOwners ELSE 0)
      /\ mapped \in BOOLEAN /\ (mapped <=> owners > 0)
  BY DEF LifeInv, Counted
<1> HIDE DEF members
<1>4. /\ owners' = members + (IF "elf" \in held' THEN 1 ELSE 0)
                   + (IF "symbols" \in held' THEN IteratorOwners ELSE 0)
      /\ mapped' \in BOOLEAN /\ (mapped' <=> owners' > 0)
  <2>1. CASE UNCHANGED life
    <3>1. owners' = owners /\ held' = held /\ mapped' = mapped
      BY <2>1 DEF life
    <3> QED
      BY <1>3, <3>1
  <2>2. CASE /\ "elf" \in held /\ "symbols" \notin held
             /\ held' = held \cup {"symbols"} /\ Acquire(IteratorOwners)
    <3>1. owners' = members + 1 + IteratorOwners
      BY <1>1, <1>3, <2>2 DEF Acquire, IteratorOwners
    <3>2. mapped = TRUE
      BY <1>1, <1>3, <2>2
    <3> QED
      BY <1>1, <2>2, <3>1, <3>2 DEF Acquire, IteratorOwners
  <2>3. CASE "symbols" \in held /\ Drop("symbols", IteratorOwners)
    <3>1. held' = held \ {"symbols"} /\ owners' = owners - 4 /\ mapped' = (owners > 4)
      BY <2>3 DEF Drop, Release, IteratorOwners
    <3>2. owners' = members + (IF "elf" \in held THEN 1 ELSE 0) /\ (owners > 4 <=> owners' > 0)
      BY <1>1, <1>3, <2>3, <3>1 DEF IteratorOwners
    <3>3. mapped' \in BOOLEAN
      BY <3>1
    <3>4. mapped' <=> owners' > 0
      BY <3>1, <3>2, Zenon
    <3> QED
      BY <1>1, <3>1, <3>2, <3>3, <3>4
  <2>4. CASE "elf" \in held /\ Drop("elf", 1)
    <3>1. held' = held \ {"elf"} /\ owners' = owners - 1 /\ mapped' = (owners > 1)
      BY <2>4 DEF Drop, Release
    <3>2. owners' = members + (IF "symbols" \in held THEN IteratorOwners ELSE 0)
          /\ (owners > 1 <=> owners' > 0)
      BY <1>1, <1>3, <2>4, <3>1 DEF IteratorOwners
    <3>3. mapped' \in BOOLEAN
      BY <3>1
    <3>4. mapped' <=> owners' > 0
      BY <3>1, <3>2, Zenon
    <3> QED
      BY <1>1, <3>1, <3>2, <3>3, <3>4
  <2> QED
    BY <2>1, <2>2, <2>3, <2>4 DEF Borrows
<1> QED
  BY <1>1, <1>2, <1>4 DEF Counted, members

LEMMA CallLife ==
  ASSUME LifeInv, Called, UNCHANGED segments, Borrows, LoadsSegment
  PROVE  LifeInv'
<1>1. TypeOK /\ HeadersTyped /\ SegdatasRight /\ SectionsTyped
  BY DEF LifeInv, HeadersTyped
<1>2. Counted'
  BY CallCounted DEF Called
<1>3. HeadersTyped'
  BY <1>1 DEF Called, HeadersTyped, HeaderTyped, SegmentsTyped, SectionsTyped, HdrOK
<1>4. (owners \in Nat /\ mapped \in BOOLEAN)'
  BY <1>2, <1>3, LifeTyped, PTL
<1>5. DOMAIN segdatas' = DOMAIN segments' /\ SegdatasRight'
  <2>1. \A offset, size : Load(offset, size)' = Load(offset, size)
    BY DEF Called, Load, lim
  <2>2. CASE UNCHANGED segdatas
    BY <1>1, <2>1, <2>2 DEF TypeOK, SegdatasRight, Found
  <2>3. CASE ~UNCHANGED segdatas
    <3>1. PICK i \in DOMAIN segments : segdatas' = [segdatas EXCEPT ![i] =
             IF segdatas[i] # 0 THEN segdatas[i] ELSE Load(segments[i].offset, segments[i].filesz).at]
      BY <2>3 DEF LoadsSegment
    <3>2. DOMAIN segdatas' = DOMAIN segments'
      BY <1>1, <3>1 DEF TypeOK
    <3>3. ASSUME NEW j \in DOMAIN segments', segdatas'[j] # 0
          PROVE  Load(segments[j].offset, segments[j].filesz) = Found(segdatas'[j], segments[j].filesz)
      <4>1. CASE j = i /\ segdatas[i] = 0
        <5>1. segdatas'[j] = Load(segments[j].offset, segments[j].filesz).at
          BY <1>1, <3>1, <4>1 DEF TypeOK
        <5>2. segments[j].offset \in Nat /\ segments[j].filesz \in Nat
          BY <1>1 DEF HeadersTyped, SegmentsTyped
        <5>3. Load(segments[j].offset, segments[j].filesz).status = "ok"
          BY <3>3, <5>1 DEF Load, Found, Thrown
        <5> QED
          BY <1>1, <5>1, <5>2, <5>3, LoadTyped
      <4>2. CASE ~(j = i /\ segdatas[i] = 0)
        BY <1>1, <3>1, <3>3, <4>2 DEF TypeOK, SegdatasRight
      <4> QED
        BY <4>1, <4>2
    <3> QED
      BY <2>1, <3>2, <3>3 DEF SegdatasRight, Found
  <2> QED
    BY <2>2, <2>3
<1>6. DOMAIN names' = DOMAIN sections'
  BY <1>1 DEF Called, TypeOK, KeepNames
<1>7. DOMAIN datas' = DOMAIN sections' /\ \A i \in DOMAIN datas' : datas'[i] \in 0..(Xword - 1)
  <2>1. CASE UNCHANGED datas
    BY <1>1, <2>1 DEF Called, TypeOK
  <2>2. CASE \E S : KeepData(S)
    BY <1>1, <2>2, KeepDataTyped DEF Called, TypeOK
  <2> QED
    BY <2>1, <2>2 DEF Called
<1>8. held' \subseteq {"elf", "symbols"}
  BY <1>1 DEF Borrows, TypeOK, life, Drop
<1> QED
  BY <1>1, <1>2, <1>3, <1>4, <1>5, <1>6, <1>7, <1>8 DEF LifeInv, TypeOK, Called

\* The client's calls are such calls.
LEMMA ClientLife == ASSUME LifeInv, IInv, Client PROVE LifeInv'
<1>1. Called
  BY OthersOK
<1>2. UNCHANGED segments /\ Borrows /\ LoadsSegment
  <2>1. CASE \E i \in Indexes :
               GetSectionByIndex(i) \/ GetSegmentByIndex(i) \/ NotSymtab(i)
    BY <2>1 DEF GetSectionByIndex, GetSegmentByIndex, NotSymtab, headers, caches, Borrows, LoadsSegment
  <2>2. CASE \E i \in Indexes : GetSegmentData(i)
    <3>1. PICK i \in DOMAIN segments :
            segdatas' = [segdatas EXCEPT ![i] =
              (IF segdatas[i] # 0 THEN Found(segdatas[i], segments[i].filesz)
               ELSE Load(segments[i].offset, segments[i].filesz)).at]
      BY <2>2 DEF GetSegmentData
    <3>2. (IF segdatas[i] # 0 THEN Found(segdatas[i], segments[i].filesz)
           ELSE Load(segments[i].offset, segments[i].filesz)).at =
          IF segdatas[i] # 0 THEN segdatas[i] ELSE Load(segments[i].offset, segments[i].filesz).at
      BY DEF Found
    <3>3. LoadsSegment
      BY <3>1, <3>2, Zenon DEF LoadsSegment
    <3> QED
      BY <2>2, <3>3 DEF GetSegmentData, headers, Borrows
  <2>3. CASE \E i \in Indexes : GetName(i) \/ GetData(i) \/ \E offset \in Offsets : GetString(i, offset)
    BY <2>3 DEF GetName, GetData, GetString, headers, Borrows, LoadsSegment
  <2>4. CASE \E name \in Names : GetSection(name)
    BY <2>4 DEF GetSection, headers, Borrows, LoadsSegment
  <2>5. CASE \E t \in Wanted : LoadSection(t)
    BY <2>5 DEF LoadSection, headers, Borrows, LoadsSegment
  <2>6. CASE \E i \in Indexes : BeginSymbols(i)
    BY <2>6 DEF BeginSymbols, Ready, headers, Borrows, LoadsSegment
  <2>7. CASE NextSymbol
    BY <2>7 DEF NextSymbol, headers, caches, Borrows, LoadsSegment
  <2>8. CASE PreviousSymbol \/ DropSymbols \/ DropElf
    BY <2>8 DEF PreviousSymbol, DropSymbols, DropElf, Ready, headers, caches, Borrows, LoadsSegment
  <2> QED
    BY <2>1, <2>2, <2>3, <2>4, <2>5, <2>6, <2>7, <2>8 DEF Client
<1> QED
  BY <1>1, <1>2, CallLife

LEMMA UnchangedLife == ASSUME LifeInv, UNCHANGED vars PROVE LifeInv'
  BY DEF LifeInv, vars, TypeOK, Counted, HeadersTyped, HeaderTyped, SegmentsTyped, SectionsTyped,
     SegdatasRight, Load, lim, Found, Thrown, HdrOK

LEMMA NextLife == LifeInv /\ IInv /\ [Next]_vars => LifeInv'
<1> SUFFICES ASSUME LifeInv, IInv, [Next]_vars PROVE LifeInv'
  OBVIOUS
<1>1. CASE Constructor
  BY <1>1, MapLife, HeaderLife, SegmentsLife, SectionsLife DEF Constructor
<1>2. CASE Client
  BY <1>2, ClientLife
<1>3. CASE Stopped \/ UNCHANGED vars
  BY <1>3, UnchangedLife DEF Stopped
<1> QED
  BY <1>1, <1>2, <1>3 DEF Next

LEMMA Invariant == Spec => [](IInv /\ LifeInv)
  BY InitIInv, InitLife, NextOK, NextLife, PTL DEF Spec

\* What the members of elf::impl and its friends hold has its type, however the
\* constructor ends and whatever the client calls (elf.cc:17-331).
THEOREM TypeCorrect == Spec => []TypeOK
<1>1. LifeInv => TypeOK
  BY DEF LifeInv
<1> QED
  BY <1>1, Invariant, PTL

\* What the client holds keeps the file mapped; when it holds nothing, also after
\* an exception of the constructor, the mapping is gone exactly if there are
\* neither segments nor sections (elf++.hh:46-50, elf.cc:108-111).
THEOREM MappingLives == Spec => []MappedWhileHeld
<1>1. LifeInv => MappedWhileHeld
  <2> SUFFICES ASSUME LifeInv PROVE MappedWhileHeld
    OBVIOUS
  <2>1. PICK n \in Nat : DOMAIN segments = 0..(n - 1)
    BY DEF LifeInv, HeadersTyped, SegmentsTyped
  <2>2. PICK m \in Nat : DOMAIN sections = 0..(m - 1)
    BY DEF LifeInv, HeadersTyped, SectionsTyped
  <2>3. /\ Cardinality(DOMAIN segments) = n /\ (DOMAIN segments = {} <=> n = 0)
        /\ Cardinality(DOMAIN sections) = m /\ (DOMAIN sections = {} <=> m = 0)
    BY <2>1, <2>2, TableSize
  <2>4. ASSUME held # {} PROVE mapped
    <3>1. "elf" \in held \/ "symbols" \in held
      BY <2>4 DEF LifeInv, TypeOK
    <3>2. owners > 0
      BY <2>3, <3>1 DEF LifeInv, Counted, IteratorOwners
    <3> QED
      BY <3>2 DEF LifeInv, Counted
  <2>5. ASSUME pc = "failed" \/ (pc = "idle" /\ held = {})
        PROVE  mapped <=> DOMAIN segments \cup DOMAIN sections # {}
    <3>1. owners = n + m
      BY <2>3, <2>5 DEF LifeInv, Counted
    <3>2. mapped <=> owners > 0
      BY DEF LifeInv, Counted
    <3>3. owners > 0 <=> n # 0 \/ m # 0
      BY <3>1
    <3>4. n # 0 \/ m # 0 <=> DOMAIN segments \cup DOMAIN sections # {}
      BY <2>3
    <3> QED
      BY <3>2, <3>3, <3>4, Zenon
  <2> QED
    BY <2>4, <2>5 DEF MappedWhileHeld
<1> QED
  BY <1>1, Invariant, PTL

-----------------------------------------------------------------------------
(* Nothing outside of the file is read.                                    *)

\* The iterator is at a whole symbol of a section that is in the file, and so is
\* its table of strings.
IteratorInside ==
  \E a, b \in Nat :
    /\ DOMAIN it = {"data", "pos", "end", "strs"}
    /\ a <= b /\ it.data \in Nat
    /\ it.pos = it.data + a * Stride(hdr.ei_class)
    /\ it.end = it.data + b * Stride(hdr.ei_class)
    /\ Mapped <= it.data /\ it.end <= Mapped + lim
    /\ it.strs = Found(it.strs.at, it.strs.len) /\ it.strs.at \in Nat /\ it.strs.len \in Nat
    /\ InFile(it.strs.at, it.strs.len)
PlaceInv ==
  /\ InsideTheFile
  /\ pc = "idle" /\ "symbols" \in held /\ Sound => IteratorInside

\* What is found is in the file.
Inside(r) ==
  /\ r.status # "wild"
  /\ r.status = "ok" /\ r.at # 0 => InFile(r.at, r.len)

LEMMA LoadInside ==
  ASSUME TypeOK, NEW offset \in Nat, NEW size \in Nat, ~Wraps(offset, size),
         Load(offset, size).status = "ok"
  PROVE  /\ Load(offset, size) = Found(Mapped + offset, size)
         /\ InFile(Mapped + offset, size) /\ offset + size <= lim
<1>1. offset + size < Xword
  BY WordsAreNatural DEF Wraps
<1>2. (offset + size) % Xword = offset + size
  <2>1. offset + size \in Nat /\ Xword \in Nat
    BY WordsAreNatural
  <2> QED
    BY <1>1, <2>1, NoWrap, Zenon
<1>3. offset + size <= lim
  BY <1>2, FileIs DEF Load, Thrown
<1>4. Mapped + offset \in Nat /\ Mapped + offset < Xword /\ Xword \in Nat
  BY <1>3, FileIs, WordsAreNatural
<1>5. (Mapped + offset) % Xword = Mapped + offset
  BY <1>4, NoWrap, Zenon
<1>6. Load(offset, size) = Found((Mapped + offset) % Xword, size)
  BY DEF Load, Thrown
<1>7. InFile(Mapped + offset, size)
  BY <1>3, FileIs DEF InFile
<1> QED
  BY <1>3, <1>5, <1>6, <1>7

LEMMA EntriesApart == \A num, entsize, i \in Nat : i < num => i * entsize + entsize <= num * entsize
<1> SUFFICES ASSUME NEW num \in Nat, NEW entsize \in Nat, NEW i \in Nat, i < num
             PROVE  i * entsize + entsize <= num * entsize
  OBVIOUS
<1>1. i * entsize + entsize = (i + 1) * entsize
  OBVIOUS
<1>2. (i + 1) * entsize <= num * entsize
  OBVIOUS
<1> QED
  BY <1>1, <1>2

\* A table that does not wrap around and has large enough entries.
LEMMA TableInside ==
  ASSUME TypeOK, NEW place \in Nat, NEW entsize \in Nat, NEW num \in Nat, NEW size \in Nat,
         TableSound(place, entsize, num, size), NEW bytes \in TableBytes(entsize, num),
         Load(place, bytes).status = "ok", NEW i \in 0..(num - 1)
  PROVE  InFile(Entry(Load(place, bytes).at, entsize, i), size)
<1>1. i \in Nat /\ i < num /\ num # 0
  OBVIOUS
<1>2. entsize >= size /\ entsize * num < Word \div 2 /\ ~Wraps(place, entsize * num)
  BY <1>1 DEF TableSound
<1>3. bytes = entsize * num /\ entsize * num \in Nat /\ i * entsize \in Nat
  <2>1. entsize * num \in Nat /\ i * entsize \in Nat
    BY <1>1, ProductIsNatural, Zenon
  <2> QED
    BY <1>2, <2>1 DEF TableBytes
<1>4. /\ Load(place, bytes) = Found(Mapped + place, bytes) /\ place + bytes <= lim
  BY <1>2, <1>3, LoadInside
<1>5. i * entsize + size <= bytes
  <2>1. i * entsize + entsize <= num * entsize
    BY <1>1, EntriesApart, Zenon
  <2>2. num * entsize = entsize * num
    OBVIOUS
  <2> QED
    BY <1>2, <1>3, <2>1, <2>2
<1> DEFINE apart == i * entsize
<1>6. apart \in Nat /\ apart + size <= bytes
  BY <1>3, <1>5
<1> HIDE DEF apart
<1>7. Mapped + place + apart \in Nat /\ Mapped + place + apart < Xword /\ Xword \in Nat
  BY <1>3, <1>4, <1>6, FileIs, WordsAreNatural
<1>8. (Mapped + place + apart) % Xword = Mapped + place + apart
  BY <1>7, NoWrap, Zenon
<1>9. Entry(Load(place, bytes).at, entsize, i) = Mapped + place + apart
  BY <1>4, <1>8 DEF Entry, Found, apart
<1>10. InFile(Mapped + place + apart, size)
  BY <1>3, <1>4, <1>6, FileIs DEF InFile
<1> QED
  BY <1>9, <1>10

LEMMA DataInside ==
  ASSUME TypeOK, SectionsTyped, Sound, NEW i \in DOMAIN sections
  PROVE  /\ Inside(FreshData(i))
         /\ sections[i].type # Nobits /\ FreshData(i).status = "ok" =>
              /\ FreshData(i) = Found(Mapped + sections[i].offset, sections[i].size)
              /\ InFile(Mapped + sections[i].offset, sections[i].size)
<1>1. sections[i].offset \in Nat /\ sections[i].size \in Nat
  BY DEF SectionsTyped
<1>2. CASE sections[i].type = Nobits
  BY <1>2 DEF FreshData, Found, Inside
<1>3. CASE sections[i].type # Nobits
  <2>1. FreshData(i) = Load(sections[i].offset, sections[i].size)
        /\ ~Wraps(sections[i].offset, sections[i].size)
    BY <1>3 DEF FreshData, Sound
  <2>2. CASE FreshData(i).status = "ok"
    BY <1>1, <2>1, <2>2, LoadInside DEF Inside, Found
  <2>3. CASE FreshData(i).status # "ok"
    BY <2>1, <2>3 DEF Load, Found, Thrown, Inside
  <2> QED
    BY <2>2, <2>3
<1> QED
  BY <1>2, <1>3

\* A string is a part of its table.
LEMMA StringInside ==
  ASSUME TypeOK, NEW at \in Nat, NEW len \in Nat, InFile(at, len),
         NEW offset \in Nat, at + offset < Xword
  PROVE  Inside(StrGet(Found(at, len), offset))
<1> DEFINE start == at + offset
           end == at + len
<1>1. /\ start \in Nat /\ end \in Nat /\ Mapped + lim \in Nat /\ start < Xword /\ end < Xword
      /\ Mapped <= start /\ end <= Mapped + lim /\ Xword \in Nat
  BY FileIs, WordsAreNatural DEF InFile
<1>2. StrGet(Found(at, len), offset) = StringAt(start, end)
  <2>1. start % Xword = start /\ end % Xword = end
    BY <1>1, NoWrap, Zenon
  <2> QED
    BY <2>1 DEF StrGet, Found
<1> HIDE DEF start, end
<1>3. CASE start >= end
  BY <1>2, <1>3 DEF StringAt, Thrown, Inside
<1>4. CASE ~(start >= end)
  <2>1. InFile(start, 1)
    BY <1>1, <1>4, FileIs DEF InFile
  <2>2. Min({end, Mapped + lim}) = end
    <3>1. \E x \in {end, Mapped + lim} : \A y \in {end, Mapped + lim} : x <= y
      BY <1>1
    <3>2. /\ Min({end, Mapped + lim}) \in {end, Mapped + lim}
          /\ \A y \in {end, Mapped + lim} : Min({end, Mapped + lim}) <= y
      BY <3>1, Zenon DEF Min
    <3> QED
      BY <1>1, <3>2
  <2>3. Stops(start, end) \subseteq start..end /\ end \in Stops(start, end)
    BY <1>1, <1>4, <2>2 DEF Stops
  <2>4. Min(Stops(start, end)) \in Stops(start, end)
    <3>1. Stops(start, end) \in SUBSET Nat /\ Stops(start, end) # {}
      BY <1>1, <2>3
    <3>2. \E x \in Stops(start, end) : \A y \in Stops(start, end) : x <= y
      BY <3>1, Least
    <3> QED
      BY <3>2, Zenon DEF Min
  <2> DEFINE stop == Min(Stops(start, end))
  <2>5. stop \in start..end
    BY <2>3, <2>4
  <2>6. StringAt(start, end) =
          IF stop = end THEN Thrown("format_error")
          ELSE IF stop = Mapped + lim THEN Thrown("wild")
          ELSE Found(start, stop - start)
    BY <1>4, <2>1 DEF StringAt
  <2> HIDE DEF stop
  <2>7. CASE stop = end
    BY <1>2, <2>6, <2>7 DEF Thrown, Inside
  <2>8. CASE stop # end
    <3>1. stop # Mapped + lim /\ InFile(start, stop - start)
      BY <1>1, <2>5, <2>8, FileIs DEF InFile
    <3> QED
      BY <1>2, <2>6, <2>8, <3>1 DEF Found, Inside
  <2> QED
    BY <2>7, <2>8
<1> QED
  BY <1>3, <1>4

\* The strings of a section, at an offset that does not wrap around.
LEMMA TextInside ==
  ASSUME TypeOK, SectionsTyped, Sound, NEW i \in DOMAIN sections,
         NEW offset \in Nat,
         FreshData(i).status = "ok" => FreshData(i).at + offset < Xword
  PROVE  Inside(StrGet(AsStrtab(i, FreshData(i)), offset))
<1>1. CASE sections[i].type # Strtab
  BY <1>1 DEF AsStrtab, Thrown, StrGet, Inside
<1>2. CASE sections[i].type = Strtab
  <2>1. AsStrtab(i, FreshData(i)) = FreshData(i) /\ sections[i].type # Nobits
    BY <1>2 DEF AsStrtab, Strtab, Nobits
  <2>2. CASE FreshData(i).status # "ok"
    BY <2>1, <2>2, DataInside DEF StrGet
  <2>3. CASE FreshData(i).status = "ok"
    <3> DEFINE at == Mapped + sections[i].offset
               len == sections[i].size
    <3>1. FreshData(i) = Found(at, len) /\ InFile(at, len)
      BY <2>1, <2>3, DataInside
    <3>2. at \in Nat /\ len \in Nat
      BY FileIs DEF SectionsTyped
    <3>3. at + offset < Xword
      BY <2>3, <3>1 DEF Found
    <3> HIDE DEF at, len
    <3> QED
      BY <2>1, <3>1, <3>2, <3>3, StringInside
  <2> QED
    BY <2>2, <2>3
<1> QED
  BY <1>1, <1>2

LEMMA DataNear ==
  ASSUME TypeOK, SectionsTyped, Sound, NEW i \in DOMAIN sections, FreshData(i).status = "ok",
         NEW name \in Nat, name < Word
  PROVE  FreshData(i).at + name < Xword
<1>1. CASE sections[i].type = Nobits
  BY <1>1, WordsAreNatural DEF FreshData, Found
<1>2. CASE sections[i].type # Nobits
  <2>1. sections[i].offset \in Nat /\ sections[i].size \in Nat
    BY DEF SectionsTyped
  <2>2. FreshData(i).at = Mapped + sections[i].offset
        /\ InFile(Mapped + sections[i].offset, sections[i].size)
    BY <1>2, DataInside DEF Found
  <2> QED
    BY <2>1, <2>2, FileIs, WordsAreNatural DEF InFile
<1> QED
  BY <1>1, <1>2

LEMMA NameInside ==
  ASSUME LifeInv, pc = "idle", Sound, NEW i \in DOMAIN sections
  PROVE  Inside(FreshNames[i])
<1>1. TypeOK /\ SectionsTyped /\ HeaderTyped /\ DOMAIN sections = 0..(hdr.shnum - 1)
  BY DEF LifeInv, HeadersTyped
<1>2. hdr.shstrndx \in DOMAIN sections
  BY <1>1 DEF HeaderTyped, HdrOK
<1>3. sections[i].name \in Nat /\ sections[i].name < Word
  BY <1>1 DEF SectionsTyped
<1>4. FreshData(hdr.shstrndx).status = "ok" => FreshData(hdr.shstrndx).at + sections[i].name < Xword
  BY <1>1, <1>2, <1>3, DataNear
<1> QED
  BY <1>1, <1>2, <1>3, <1>4, TextInside DEF FreshNames

LEMMA SoundStays ==
  ASSUME UNCHANGED <<file, hdr, segments, sections>>
  PROVE  /\ Sound' <=> Sound
         /\ lim' = lim
         /\ \A at, n : InFile(at, n)' <=> InFile(at, n)
  BY DEF Sound, TableSound, Wraps, lim, InFile

\* A call that answers with a place in the file.
LEMMA CallInside ==
  ASSUME PlaceInv, pc = "idle", pc' = IF answer'.status = "wild" THEN "wild" ELSE "idle",
         UNCHANGED <<file, hdr, segments, sections>>,
         Sound /\ ~StringWraps' => Inside(answer'),
         Sound /\ pc' = "idle" /\ "symbols" \in held' =>
           (UNCHANGED it /\ "symbols" \in held) \/ IteratorInside'
  PROVE  PlaceInv'
<1>1. /\ Sound' <=> Sound
      /\ \A at, n : InFile(at, n)' <=> InFile(at, n)
  BY SoundStays
<1>2. InsideTheFile'
  <2>1. ASSUME pc' = "wild", Sound', ~StringWraps' PROVE FALSE
    <3>1. answer'.status = "wild" /\ Inside(answer')
      BY <1>1, <2>1
    <3> QED
      BY <3>1 DEF Inside
  <2>2. ASSUME answer'.status = "ok", answer'.at # 0, Sound', ~StringWraps'
        PROVE  InFile(answer.at, answer.len)'
    <3>1. Inside(answer')
      BY <1>1, <2>2
    <3> QED
      BY <1>1, <2>2, <3>1 DEF Inside
  <2> QED
    BY <2>1, <2>2 DEF InsideTheFile
<1>3. ASSUME pc' = "idle", "symbols" \in held', Sound' PROVE IteratorInside'
  <2>1. CASE UNCHANGED it /\ "symbols" \in held
    <3>1. IteratorInside
      BY <1>1, <1>3, <2>1 DEF PlaceInv
    <3>2. InFile(it.strs.at, it.strs.len)' <=> InFile(it.strs.at, it.strs.len)
      BY <1>1, <2>1
    <3> QED
      BY <2>1, <3>1, <3>2, SoundStays DEF IteratorInside, Stride, Found
  <2> QED
    BY <1>1, <1>3, <2>1
<1> QED
  BY <1>2, <1>3 DEF PlaceInv

\* Calls that answer with what a section or its name is.
LEMMA SectionCallsInside ==
  ASSUME LifeInv, IInv, PlaceInv,
         \/ \E i \in Indexes : GetSectionByIndex(i) \/ GetSegmentByIndex(i) \/ NotSymtab(i)
         \/ \E i \in Indexes : GetName(i) \/ GetData(i) \/ GetSegmentData(i)
         \/ \E i \in Indexes, offset \in Offsets : GetString(i, offset)
  PROVE  PlaceInv'
<1>1. TypeOK /\ SectionsTyped /\ SegmentsTyped /\ SegdatasRight
  BY DEF LifeInv, HeadersTyped
<1>2. CASE \E i \in Indexes : GetSectionByIndex(i) \/ GetSegmentByIndex(i) \/ NotSymtab(i)
  <2>1. /\ pc = "idle" /\ UNCHANGED <<file, hdr, segments, sections, it, held>>
        /\ answer'.at = 0 /\ answer'.status \in {"ok", "invalid", "section_type_mismatch"}
        /\ pc' = IF answer'.status = "wild" THEN "wild" ELSE "idle"
    BY <1>2 DEF GetSectionByIndex, GetSegmentByIndex, NotSymtab, Ready, Answer, Asked, headers, life
  <2> QED
    BY <2>1, CallInside DEF Inside
<1>3. CASE \E i \in Indexes : GetName(i)
  <2>1. PICK i \in DOMAIN sections :
          /\ pc = "idle" /\ UNCHANGED <<file, hdr, segments, sections, it, held>>
          /\ answer' = With(Asked("get_name", i, << >>), NameOf(i))
          /\ pc' = IF answer'.status = "wild" THEN "wild" ELSE "idle"
    BY <1>3 DEF GetName, Ready, Answer, headers, life
  <2>2. NameOf(i) = FreshNames[i]
    BY <2>1, NameSettled DEF IInv
  <2>3. Sound => Inside(answer')
    BY <2>1, <2>2, NameInside DEF With, Asked, Inside
  <2> QED
    BY <2>1, <2>3, CallInside
<1>4. CASE \E i \in Indexes : GetData(i)
  <2>1. PICK i \in DOMAIN sections :
          /\ pc = "idle" /\ UNCHANGED <<file, hdr, segments, sections, it, held>>
          /\ answer' = With(Asked("data", i, << >>), DataOf(i))
          /\ pc' = IF answer'.status = "wild" THEN "wild" ELSE "idle"
    BY <1>4 DEF GetData, Ready, Answer, headers, life
  <2>2. DataOf(i) = FreshData(i)
    BY <2>1, DataSettled DEF IInv
  <2>3. Sound => Inside(answer')
    BY <1>1, <2>1, <2>2, DataInside DEF With, Asked, Inside
  <2> QED
    BY <2>1, <2>3, CallInside
<1>5. CASE \E i \in Indexes : GetSegmentData(i)
  <2>1. PICK i \in DOMAIN segments :
          /\ pc = "idle" /\ UNCHANGED <<file, hdr, segments, sections, it, held>>
          /\ answer' = With(Asked("segment_data", i, << >>),
               IF segdatas[i] # 0 THEN Found(segdatas[i], segments[i].filesz)
               ELSE Load(segments[i].offset, segments[i].filesz))
          /\ pc' = IF answer'.status = "wild" THEN "wild" ELSE "idle"
    BY <1>5 DEF GetSegmentData, Ready, Answer, headers, life
  <2>2. answer' = With(Asked("segment_data", i, << >>), Load(segments[i].offset, segments[i].filesz))
    BY <1>1, <2>1 DEF SegdatasRight
  <2>3. segments[i].offset \in Nat /\ segments[i].filesz \in Nat
    BY <1>1 DEF SegmentsTyped
  <2>4. ASSUME Sound PROVE Inside(Load(segments[i].offset, segments[i].filesz))
    <3>1. ~Wraps(segments[i].offset, segments[i].filesz)
      BY <2>4 DEF Sound
    <3>2. CASE Load(segments[i].offset, segments[i].filesz).status = "ok"
      BY <1>1, <2>3, <3>1, <3>2, LoadInside DEF Inside, Found
    <3>3. CASE Load(segments[i].offset, segments[i].filesz).status # "ok"
      BY <3>3 DEF Load, Found, Thrown, Inside
    <3> QED
      BY <3>2, <3>3
  <2>5. Sound => Inside(answer')
    BY <2>2, <2>4 DEF With, Asked, Inside
  <2> QED
    BY <2>1, <2>5, CallInside
<1>6. CASE \E i \in Indexes, offset \in Offsets : GetString(i, offset)
  <2>1. PICK i \in DOMAIN sections, offset \in Offsets :
          /\ pc = "idle" /\ UNCHANGED <<file, hdr, segments, sections, it, held>>
          /\ answer' = With(Asked("string", i, <<offset>>), StrGet(AsStrtab(i, DataOf(i)), offset))
          /\ pc' = IF answer'.status = "wild" THEN "wild" ELSE "idle"
    BY <1>6 DEF GetString, Ready, Answer, headers, life
  <2>2. AsStrtab(i, DataOf(i)) = AsStrtab(i, FreshData(i))
    BY <2>1, StrtabSettled DEF IInv
  <2>3. offset \in Nat
    BY ClientAssumption
  <2>4. ASSUME Sound, ~StringWraps' PROVE Inside(answer')
    <3>1. FreshData(i)' = FreshData(i)
      BY <2>1, DataStays
    <3>2. answer'.op = "string" /\ answer'.section = i /\ answer'.about = <<offset>>
      BY <2>1 DEF With, Asked
    <3>3. ~(FreshData(i).at + offset >= Xword)
      BY <2>4, <3>1, <3>2 DEF StringWraps, Wraps
    <3>4. FreshData(i).at \in Nat
      BY <1>1, FreshDataTyped, WordsAreNatural
    <3>5. FreshData(i).at + offset < Xword
      BY <2>3, <3>3, <3>4, WordsAreNatural
    <3>6. Inside(StrGet(AsStrtab(i, FreshData(i)), offset))
      BY <1>1, <2>3, <2>4, <3>5, TextInside
    <3> QED
      BY <2>1, <2>2, <3>6 DEF With, Asked, Inside
  <2> QED
    BY <2>1, <2>4, CallInside
<1> QED
  BY <1>2, <1>3, <1>4, <1>5, <1>6

\* Searches by name.
LEMMA SearchesInside ==
  ASSUME LifeInv, IInv, PlaceInv,
         \/ \E name \in Names : GetSection(name)
         \/ \E t \in Wanted : LoadSection(t)
  PROVE  PlaceInv'
<1>1. pc = "idle" /\ TypeOK /\ SectionsTyped /\ NamesNow = FreshNames /\ DOMAIN sections \subseteq Nat
  <2>1. pc = "idle"
    BY DEF GetSection, LoadSection, Ready
  <2> QED
    BY <2>1, NamesSettled DEF LifeInv, HeadersTyped, IInv
<1>2. CASE \E name \in Names : GetSection(name)
  <2>1. PICK name \in Names :
          /\ UNCHANGED <<file, hdr, segments, sections, it, held>>
          /\ LET hits == Hits(FreshNames, name)
             IN  IF hits = {} THEN answer' = [Asked("get_section", 0, name) EXCEPT !.status = "invalid"]
                 ELSE answer' = [Asked("get_section", Min(hits), name) EXCEPT
                                   !.status = FreshNames[Min(hits)].status]
          /\ pc' = IF answer'.status = "wild" THEN "wild" ELSE "idle"
    BY <1>1, <1>2 DEF GetSection, Answer, headers, life
  <2> DEFINE hits == Hits(FreshNames, name)
  <2>2. Sound => Inside(answer')
    <3>1. CASE hits = {}
      BY <2>1, <3>1 DEF Asked, Inside
    <3>2. CASE hits # {}
      <4>1. Min(hits) \in DOMAIN sections
        BY <1>1, <3>2, FirstHit
      <4>2. answer'.at = 0 /\ answer'.status = FreshNames[Min(hits)].status
        BY <2>1, <3>2 DEF Asked
      <4> QED
        BY <1>1, <4>1, <4>2, NameInside DEF Inside
    <3> QED
      BY <3>1, <3>2
  <2> QED
    BY <1>1, <2>1, <2>2, CallInside
<1>3. CASE \E t \in Wanted : LoadSection(t)
  <2>1. PICK t \in Wanted :
          /\ UNCHANGED <<file, hdr, segments, sections, it, held>>
          /\ LET hits == Hits(FreshNames, Spelling[SectionName[t]])
             IN  IF hits = {} THEN answer' = Asked("load", 0, <<t>>)
                 ELSE answer' = With(Asked("load", Min(hits), <<t>>),
                           IF FreshNames[Min(hits)].status = "ok" THEN DataOf(Min(hits))
                           ELSE FreshNames[Min(hits)])
          /\ pc' = IF answer'.status = "wild" THEN "wild" ELSE "idle"
    BY <1>1, <1>3 DEF LoadSection, Answer, headers, life
  <2> DEFINE hits == Hits(FreshNames, Spelling[SectionName[t]])
  <2>2. Sound => Inside(answer')
    <3>1. CASE hits = {}
      BY <2>1, <3>1 DEF Asked, Inside
    <3>2. CASE hits # {}
      <4>1. Min(hits) \in DOMAIN sections
        BY <1>1, <3>2, FirstHit
      <4>2. DataOf(Min(hits)) = FreshData(Min(hits))
        BY <1>1, <4>1, DataSettled DEF IInv
      <4>3. Sound => Inside(FreshData(Min(hits))) /\ Inside(FreshNames[Min(hits)])
        BY <1>1, <4>1, DataInside, NameInside
      <4> HIDE DEF hits
      <4>4. \/ answer' = With(Asked("load", Min(hits), <<t>>), FreshData(Min(hits)))
            \/ answer' = With(Asked("load", Min(hits), <<t>>), FreshNames[Min(hits)])
        BY <2>1, <3>2, <4>2 DEF hits
      <4> QED
        BY <4>3, <4>4 DEF With, Asked, Inside
    <3> QED
      BY <3>1, <3>2
  <2> QED
    BY <1>1, <2>1, <2>2, CallInside
<1> QED
  BY <1>2, <1>3

\* The size of a symbol.
LEMMA StrideIs ==
  ASSUME HeaderTyped
  PROVE  Stride(hdr.ei_class) \in Nat /\ Stride(hdr.ei_class) > 0
<1>1. hdr.ei_class \in ElfClass
  BY DEF HeaderTyped
<1>2. IsLayout(Sym(hdr.ei_class)) /\ Sym(hdr.ei_class)[1][2] = 4 /\ 1 \in DOMAIN Sym(hdr.ei_class)
  <2>1. DOMAIN Sym(hdr.ei_class) = 1..6
    BY DEF Sym
  <2> QED
    BY <1>1, <2>1, LayoutsOK
<1> QED
  BY <1>2, Places DEF Stride

LEMMA WholeNumber == \A x, s \in Nat : s > 0 /\ x % s = 0 => \E b \in Nat : x = b * s
<1> SUFFICES ASSUME NEW x \in Nat, NEW s \in Nat, s > 0, x % s = 0
             PROVE  \E b \in Nat : x = b * s
  OBVIOUS
<1>1. x \div s \in Nat /\ x = (x \div s) * s
  OBVIOUS
<1> QED
  BY <1>1

LEMMA BeginInside ==
  ASSUME LifeInv, IInv, PlaceInv, NEW i \in Indexes, BeginSymbols(i)
  PROVE  PlaceInv'
<1>1. /\ pc = "idle" /\ TypeOK /\ SectionsTyped /\ HeaderTyped
      /\ i \in DOMAIN sections /\ sections[i].type \in {Symtab, Dynsym}
  BY DEF LifeInv, HeadersTyped, BeginSymbols, Ready
<1> DEFINE data == FreshData(i)
           link == sections[i].link
           strs == AsStrtab(link, FreshData(link))
<1>2. DataOf(i) = data /\ AsStrtab(link, DataOf(link)) = strs
  BY <1>1, DataSettled, StrtabSettled DEF IInv
<1>3. PICK first \in {"data", "strs"} :
        LET status == SymtabStatus(first, data, strs)
        IN  /\ Answer([Asked("symbols", i, << >>) EXCEPT !.status = status])
            /\ IF status = "ok"
               THEN /\ it' = [data |-> data.at, pos |-> data.at,
                              end |-> (data.at + data.len) % Xword,
                              strs |-> strs]
                    /\ held' = held \cup {"symbols"}
               ELSE UNCHANGED <<it, life>>
  BY <1>2 DEF BeginSymbols
<1>4. UNCHANGED <<file, hdr, segments, sections>>
  BY DEF BeginSymbols, headers
<1>5. /\ answer'.at = 0 /\ answer'.status = SymtabStatus(first, data, strs)
      /\ pc' = IF answer'.status = "wild" THEN "wild" ELSE "idle"
  BY <1>1, <1>3 DEF Answer, Asked
<1>6. ASSUME Sound PROVE link \in DOMAIN sections /\ data.status # "wild" /\ strs.status # "wild"
  <2>1. link \in DOMAIN sections
    BY <1>1, <1>6 DEF Sound
  <2>2. Inside(data) /\ Inside(FreshData(link))
    BY <1>1, <1>6, <2>1, DataInside
  <2> QED
    BY <2>1, <2>2 DEF Inside, AsStrtab, Thrown
<1>7. Sound => Inside(answer')
  <2>1. answer'.status \in {data.status, strs.status}
    BY <1>5 DEF SymtabStatus
  <2> QED
    BY <1>5, <1>6, <2>1 DEF Inside
<1>8. ASSUME Sound, pc' = "idle", "symbols" \in held'
      PROVE  (UNCHANGED it /\ "symbols" \in held) \/ IteratorInside'
  <2>1. CASE answer'.status # "ok"
    <3>1. it' = it /\ held' = held
      BY <1>3, <1>5, <2>1 DEF life
    <3> QED
      BY <1>8, <3>1
  <2>2. CASE answer'.status = "ok"
    <3>1. data.status = "ok" /\ strs.status = "ok"
      BY <1>5, <2>2 DEF SymtabStatus
    <3>2. /\ it' = [data |-> data.at, pos |-> data.at, end |-> (data.at + data.len) % Xword,
                    strs |-> strs]
      BY <1>3, <1>5, <2>2
    <3> DEFINE at == Mapped + sections[i].offset
               len == sections[i].size
               place == Mapped + sections[link].offset
               size == sections[link].size
    <3>3. data = Found(at, len) /\ InFile(at, len) /\ at \in Nat /\ len \in Nat
      <4>1. sections[i].type # Nobits
        BY <1>1 DEF Symtab, Dynsym, Nobits
      <4>2. data = Found(at, len) /\ InFile(at, len)
        BY <1>1, <1>8, <3>1, <4>1, DataInside
      <4>3. at \in Nat /\ len \in Nat
        BY <1>1, FileIs DEF SectionsTyped
      <4> QED
        BY <4>2, <4>3
    <3>4. strs = Found(place, size) /\ InFile(place, size) /\ place \in Nat /\ size \in Nat
      <4>1. link \in DOMAIN sections
        BY <1>6, <1>8
      <4>2. strs = FreshData(link) /\ sections[link].type # Nobits
        BY <3>1, <4>1 DEF AsStrtab, Thrown, Strtab, Nobits
      <4>3. strs = Found(place, size) /\ InFile(place, size)
        BY <1>1, <1>8, <3>1, <4>1, <4>2, DataInside
      <4>4. place \in Nat /\ size \in Nat
        BY <1>1, <4>1, FileIs DEF SectionsTyped
      <4> QED
        BY <4>3, <4>4
    <3>5. PICK b \in Nat : len = b * Stride(hdr.ei_class)
      <4>1. len % Stride(hdr.ei_class) = 0
        BY <1>1, <1>8 DEF Sound, Stride
      <4> QED
        BY <1>1, <3>3, <4>1, StrideIs, WholeNumber
    <3> HIDE DEF at, len, place, size
    <3>6. (at + len) % Xword = at + len
      <4>1. at + len \in Nat /\ at + len < Xword /\ Xword \in Nat
        BY <1>1, <3>3, FileIs, WordsAreNatural DEF InFile
      <4> QED
        BY <4>1, NoWrap, Zenon
    <3>7. /\ DOMAIN it' = {"data", "pos", "end", "strs"}
          /\ it'.data = at /\ it'.pos = at /\ it'.end = at + len /\ it'.strs = Found(place, size)
          /\ it'.strs.at = place /\ it'.strs.len = size
      BY <3>2, <3>3, <3>4, <3>6 DEF Found
    <3>8. Stride(hdr.ei_class) \in Nat /\ at = at + 0 * Stride(hdr.ei_class)
      BY <1>1, <3>3, StrideIs
    <3>9. hdr' = hdr /\ lim' = lim
      BY <1>4 DEF lim
    <3>10. Mapped <= at /\ at + len <= Mapped + lim
      BY <3>3 DEF InFile
    <3>11. /\ it.pos' = it.data' + 0 * Stride(hdr.ei_class)
           /\ it.end' = it.data' + b * Stride(hdr.ei_class)
      BY <3>5, <3>7, <3>8
    <3>12. 0 <= b /\ 0 \in Nat
      OBVIOUS
    <3>13. (InFile(it.strs.at, it.strs.len))'
      <4>1. (InFile(it.strs.at, it.strs.len))' <=> Mapped <= it'.strs.at /\ it'.strs.at + it'.strs.len <= Mapped + lim'
        BY DEF InFile
      <4> QED
        BY <3>4, <3>7, <3>9, <4>1 DEF InFile
    <3> QED
      BY <3>3, <3>4, <3>7, <3>9, <3>10, <3>11, <3>12, <3>13 DEF IteratorInside, Stride, Found
  <2> QED
    BY <2>1, <2>2
<1> HIDE DEF data, link, strs
<1> QED
  BY <1>1, <1>4, <1>5, <1>7, <1>8, CallInside

\* Steps of an iterator.
LEMMA StepsApart ==
  \A a, b, s \in Nat : s > 0 =>
    /\ a * s \in Nat /\ (a + 1) * s = a * s + s
    /\ a <= b => a * s <= b * s
    /\ a * s = b * s => a = b
    /\ a # 0 => (a - 1) * s = a * s - s /\ a - 1 \in Nat
<1> SUFFICES ASSUME NEW a \in Nat, NEW b \in Nat, NEW s \in Nat, s > 0
             PROVE  /\ a * s \in Nat /\ (a + 1) * s = a * s + s
                    /\ a <= b => a * s <= b * s
                    /\ a * s = b * s => a = b
                    /\ a # 0 => (a - 1) * s = a * s - s /\ a - 1 \in Nat
  BY Zenon
<1>1. a * s \in Nat /\ (a + 1) * s = a * s + s
  OBVIOUS
<1>2. a <= b => a * s <= b * s
  OBVIOUS
<1>3. a * s = b * s => a = b
  OBVIOUS
<1>4. a # 0 => (a - 1) * s = a * s - s /\ a - 1 \in Nat
  OBVIOUS
<1> QED
  BY <1>1, <1>2, <1>3, <1>4, Zenon

\* The iterator, moved by whole symbols between its ends.
LEMMA MovedInside ==
  ASSUME HeaderTyped, UNCHANGED <<file, hdr>>, NEW a \in Nat, NEW b \in Nat, a <= b,
         it.data \in Nat, it.end = it.data + b * Stride(hdr.ei_class),
         Mapped <= it.data, it.end <= Mapped + lim,
         it.strs = Found(it.strs.at, it.strs.len), it.strs.at \in Nat, it.strs.len \in Nat,
         InFile(it.strs.at, it.strs.len),
         DOMAIN it' = {"data", "pos", "end", "strs"},
         it'.data = it.data, it'.end = it.end, it'.strs = it.strs,
         it'.pos = it.data + a * Stride(hdr.ei_class)
  PROVE  IteratorInside'
<1>1. hdr' = hdr /\ lim' = lim
  BY DEF lim
<1>2. InFile(it.strs.at, it.strs.len)'
  BY <1>1 DEF InFile
<1> QED
  BY <1>1, <1>2 DEF IteratorInside, Stride, Found

LEMMA SymbolInside ==
  ASSUME LifeInv, PlaceInv, Sound, NextSymbol
  PROVE  /\ Inside(answer')
         /\ "symbols" \in held' => IteratorInside'
<1>1. pc = "idle" /\ "symbols" \in held /\ it.pos # it.end /\ TypeOK /\ HeaderTyped
      /\ UNCHANGED <<file, hdr>>
  BY DEF NextSymbol, LifeInv, HeadersTyped, headers
<1> DEFINE stride == Stride(hdr.ei_class)
<1>2. PICK a, b \in Nat :
        /\ DOMAIN it = {"data", "pos", "end", "strs"}
        /\ a <= b /\ it.data \in Nat
        /\ it.pos = it.data + a * stride
        /\ it.end = it.data + b * stride
        /\ Mapped <= it.data /\ it.end <= Mapped + lim
        /\ it.strs = Found(it.strs.at, it.strs.len) /\ it.strs.at \in Nat /\ it.strs.len \in Nat
        /\ InFile(it.strs.at, it.strs.len)
  BY <1>1 DEF PlaceInv, IteratorInside
<1>3. stride \in Nat /\ stride > 0 /\ stride = Size(Sym(hdr.ei_class))
  BY <1>1, StrideIs DEF Stride
<1> HIDE DEF stride
<1>4. /\ a + 1 \in Nat /\ a + 1 <= b /\ a * stride \in Nat /\ b * stride \in Nat
      /\ (a + 1) * stride = a * stride + stride /\ (a + 1) * stride <= b * stride
  <2>1. a * stride \in Nat /\ (a + 1) * stride = a * stride + stride
    BY <1>3, StepsApart, Zenon
  <2>2. b * stride \in Nat
    BY <1>3, StepsApart, Zenon
  <2>3. a # b
    BY <1>1, <1>2
  <2>4. a + 1 \in Nat /\ a + 1 <= b
    BY <1>2, <2>3
  <2>5. (a + 1) * stride <= b * stride
    BY <1>3, <2>4, StepsApart, Zenon
  <2> QED
    BY <2>1, <2>4, <2>5, <2>2
<1> DEFINE passed == a * stride
           all == b * stride
<1>5. /\ it.pos = it.data + passed /\ it.end = it.data + all /\ passed \in Nat /\ all \in Nat
      /\ passed + stride <= all
  BY <1>2, <1>4
<1> HIDE DEF passed, all
<1>6. /\ it.data \in Nat /\ Mapped <= it.data /\ it.end <= Mapped + lim
       /\ Mapped \in Nat /\ lim \in Nat /\ Mapped + lim + Word <= Xword
  BY <1>1, <1>2, FileIs
<1>7. it.pos \in Nat /\ Mapped <= it.pos /\ it.pos + stride <= Mapped + lim
      /\ it.pos + stride < Xword /\ it.pos + stride \in Nat /\ Xword \in Nat
  BY <1>3, <1>5, <1>6, WordsAreNatural
<1>8. InFile(it.pos, Size(Sym(hdr.ei_class)))
  BY <1>3, <1>7 DEF InFile
<1> DEFINE sym == Canon(file.bytes, Order(hdr.ei_data), it.pos - Mapped, Sym(hdr.ei_class))
<1>9. sym.name \in Nat /\ sym.name < Word
  <2>1. hdr.ei_class \in ElfClass
    BY <1>1 DEF HeaderTyped
  <2> QED
    BY <1>1, <1>7, <1>8, <2>1, SymbolIs
<1> DEFINE name == StrGet(it.strs, sym.name)
<1>10. Inside(name)
  <2>1. it.strs.at + sym.name < Xword
    BY <1>1, <1>2, <1>9, FileIs, WordsAreNatural DEF InFile
  <2> HIDE DEF sym
  <2>2. Inside(StrGet(Found(it.strs.at, it.strs.len), sym.name))
    BY <1>1, <1>2, <1>9, <2>1, StringInside
  <2> QED
    BY <1>2, <2>2
<1>11. /\ Answer([With(Asked("symbol", 0, <<it.pos - it.data>>), name) EXCEPT !.symbol = sym])
      /\ IF name.status = "ok"
         THEN it' = [it EXCEPT !.pos = (@ + Stride(hdr.ei_class)) % Xword] /\ UNCHANGED life
         ELSE it' = NoIterator /\ Drop("symbols", IteratorOwners)
  BY <1>8 DEF NextSymbol
<1> HIDE DEF sym, name
<1>12. Inside(answer')
  BY <1>10, <1>11 DEF Answer, With, Asked, Inside
<1>13. ASSUME "symbols" \in held' PROVE IteratorInside'
  <2>1. name.status = "ok"
    BY <1>11, <1>13 DEF Drop
  <2>2. it' = [it EXCEPT !.pos = (@ + stride) % Xword]
    BY <1>11, <2>1 DEF stride
  <2>3. (it.pos + stride) % Xword = it.pos + stride
    BY <1>7, NoWrap, Zenon
  <2>4. /\ DOMAIN it' = {"data", "pos", "end", "strs"}
        /\ it'.data = it.data /\ it'.end = it.end /\ it'.strs = it.strs
        /\ it'.pos = it.pos + stride
    BY <1>2, <2>2, <2>3
  <2>5. it'.pos = it.data + (a + 1) * stride
    BY <1>2, <1>3, <1>4, <2>4
  <2> QED
    BY <1>1, <1>2, <1>4, <2>4, <2>5, MovedInside DEF stride
<1> QED
  BY <1>12, <1>13

LEMMA IteratorCallsInside ==
  ASSUME LifeInv, PlaceInv, NextSymbol \/ PreviousSymbol \/ DropSymbols \/ DropElf
  PROVE  PlaceInv'
<1>1. pc = "idle" /\ HeaderTyped /\ UNCHANGED <<file, hdr, segments, sections>>
  BY DEF NextSymbol, PreviousSymbol, DropSymbols, DropElf, Ready, LifeInv, HeadersTyped, headers
<1>2. CASE NextSymbol
  <2>1. pc' = IF answer'.status = "wild" THEN "wild" ELSE "idle"
    BY <1>1, <1>2 DEF NextSymbol, Answer
  <2> QED
    BY <1>1, <1>2, <2>1, SymbolInside, CallInside
<1>3. CASE PreviousSymbol
  <2>1. /\ answer' = Asked("back", 0, << >>) /\ pc' = pc
        /\ it' = [it EXCEPT !.pos = (@ - Stride(hdr.ei_class)) % Xword]
        /\ held' = held /\ "symbols" \in held /\ it.pos # it.data
    BY <1>3 DEF PreviousSymbol, life
  <2>2. Inside(answer') /\ pc' = IF answer'.status = "wild" THEN "wild" ELSE "idle"
    BY <1>1, <2>1 DEF Asked, Inside
  <2>3. ASSUME Sound PROVE IteratorInside'
    <3> DEFINE stride == Stride(hdr.ei_class)
    <3>1. PICK a, b \in Nat :
            /\ DOMAIN it = {"data", "pos", "end", "strs"}
            /\ a <= b /\ it.data \in Nat
            /\ it.pos = it.data + a * stride
            /\ it.end = it.data + b * stride
            /\ Mapped <= it.data /\ it.end <= Mapped + lim
            /\ it.strs = Found(it.strs.at, it.strs.len) /\ it.strs.at \in Nat /\ it.strs.len \in Nat
            /\ InFile(it.strs.at, it.strs.len)
      BY <1>1, <2>1, <2>3 DEF PlaceInv, IteratorInside
    <3>2. stride \in Nat /\ stride > 0
      BY <1>1, StrideIs
    <3> HIDE DEF stride
    <3>3. a # 0
      BY <2>1, <3>1, <3>2
    <3>4. a - 1 \in Nat /\ (a - 1) * stride = a * stride - stride
      BY <3>2, <3>3, StepsApart, Zenon
    <3>5. (a - 1) * stride \in Nat /\ a * stride \in Nat /\ b * stride \in Nat /\ a * stride <= b * stride
      <4>1. (a - 1) * stride \in Nat
        BY <3>2, <3>4, StepsApart, Zenon
      <4>2. b * stride \in Nat
        BY <3>2, StepsApart, Zenon
      <4>3. a * stride \in Nat /\ a * stride <= b * stride
        BY <3>1, <3>2, StepsApart, Zenon
      <4> QED
        BY <4>1, <4>2, <4>3
    <3> DEFINE passed == a * stride
               all == b * stride
               before == (a - 1) * stride
    <3>6. /\ it.pos = it.data + passed /\ it.end = it.data + all /\ it.data \in Nat
          /\ before \in Nat /\ all \in Nat /\ passed \in Nat /\ passed <= all /\ before = passed - stride
          /\ it.end <= Mapped + lim
      BY <3>1, <3>4, <3>5
    <3> HIDE DEF passed, all, before
    <3>7. lim \in Nat /\ Mapped \in Nat /\ Mapped + lim + Word <= Xword
      BY FileIs DEF LifeInv
    <3>8. it.pos - stride = it.data + before /\ it.data + before \in Nat /\ it.data + before < Xword
          /\ Xword \in Nat
      BY <3>2, <3>6, <3>7, WordsAreNatural
    <3>9. (it.pos - stride) % Xword = it.data + before
      <4>1. (it.data + before) % Xword = it.data + before
        BY <3>8, NoWrap, Zenon
      <4> QED
        BY <3>8, <4>1
    <3>10. /\ DOMAIN it' = {"data", "pos", "end", "strs"}
           /\ it'.data = it.data /\ it'.end = it.end /\ it'.strs = it.strs
           /\ it'.pos = it.data + (a - 1) * stride
      BY <2>1, <3>1, <3>9 DEF stride, before
    <3>11. a - 1 <= b
      BY <3>1
    <3> QED
      BY <1>1, <3>1, <3>4, <3>10, <3>11, MovedInside DEF stride
  <2> QED
    BY <1>1, <2>1, <2>2, <2>3, CallInside
<1>4. CASE DropSymbols \/ DropElf
  <2>1. /\ answer'.status = "ok" /\ answer'.at = 0 /\ pc' = pc
        /\ "symbols" \in held' => UNCHANGED it /\ "symbols" \in held
    BY <1>4 DEF DropSymbols, DropElf, Drop, Asked
  <2> QED
    BY <1>1, <2>1, CallInside DEF Inside
<1> QED
  BY <1>2, <1>3, <1>4

\* The constructor reads no table outside of the file if the header is sound.
LEMMA ConstructorInside == ASSUME LifeInv, IInv, PlaceInv, Constructor PROVE PlaceInv'
<1>1. /\ TypeOK /\ pc \in {"map", "header", "segments", "sections"} /\ answer.at = 0
  <2>1. pc \in {"map", "header", "segments", "sections"}
    BY DEF Constructor, Map, Header, Segments, Sections
  <2> QED
    BY <2>1 DEF LifeInv, IInv, Constructing, Asked
<1>2. CASE Map
  BY <1>2 DEF Map, PlaceInv, InsideTheFile
<1>3. CASE Header
  <2>1. pc' \in {"segments", "failed"}
    BY <1>3 DEF Header, Refuse, HeaderStatus
  <2> QED
    BY <2>1 DEF PlaceInv, InsideTheFile
<1>4. CASE Segments
  <2>1. HeaderTyped /\ pc = "segments"
    BY <1>4 DEF Segments, LifeInv, HeadersTyped
  <2>2. CASE pc' = "wild"
    <3>1. PICK size \in TableBytes(hdr.phentsize, hdr.phnum) :
            /\ UNCHANGED segments
            /\ Load(hdr.phoff, size).status = "ok"
            /\ \E i \in 0..(hdr.phnum - 1) :
                 ~InFile(Entry(Load(hdr.phoff, size).at, hdr.phentsize, i), Size(Phdr(hdr.ei_class)))
      BY <1>4, <2>2 DEF Segments, Refuse, Load, Found, Thrown
    <3>2. Size(Phdr(hdr.ei_class)) \in Nat
      <4>1. IsLayout(Phdr(hdr.ei_class)) /\ DOMAIN Phdr(hdr.ei_class) # {}
        BY <2>1, LayoutsOK, FieldsAre DEF HeaderTyped, Fields
      <4> QED
        BY <4>1, Places
    <3>3. ~TableSound(hdr.phoff, hdr.phentsize, hdr.phnum, Size(Phdr(hdr.ei_class)))
      BY <1>1, <2>1, <3>1, <3>2, TableInside DEF HeaderTyped
    <3>4. ~Sound' /\ pc' # "idle"
      <4>1. Sound' <=> Sound
        BY <1>4, <3>1, SoundStays DEF Segments
      <4> QED
        BY <2>2, <3>3, <4>1 DEF Sound
    <3> QED
      BY <3>4 DEF PlaceInv, InsideTheFile
  <2>3. CASE pc' # "wild"
    <3>1. pc' \in {"failed", "sections"}
      BY <1>4, <2>3 DEF Segments, Refuse
    <3> QED
      BY <3>1 DEF PlaceInv, InsideTheFile
  <2> QED
    BY <2>2, <2>3
<1>5. CASE Sections
  <2>1. HeaderTyped /\ pc = "sections"
    BY <1>5 DEF Sections, LifeInv, HeadersTyped
  <2>2. CASE pc' = "wild"
    <3>1. PICK size \in TableBytes(hdr.shentsize, hdr.shnum) :
            /\ UNCHANGED sections
            /\ Load(hdr.shoff, size).status = "ok"
            /\ \E i \in 0..(hdr.shnum - 1) :
                 ~InFile(Entry(Load(hdr.shoff, size).at, hdr.shentsize, i), Size(Shdr(hdr.ei_class)))
      BY <1>5, <2>2 DEF Sections, Refuse, Load, Found, Thrown
    <3>2. Size(Shdr(hdr.ei_class)) \in Nat
      <4>1. IsLayout(Shdr(hdr.ei_class)) /\ DOMAIN Shdr(hdr.ei_class) # {}
        BY <2>1, LayoutsOK, FieldsAre DEF HeaderTyped, Fields
      <4> QED
        BY <4>1, Places
    <3>3. ~TableSound(hdr.shoff, hdr.shentsize, hdr.shnum, Size(Shdr(hdr.ei_class)))
      BY <1>1, <2>1, <3>1, <3>2, TableInside DEF HeaderTyped
    <3>4. ~Sound' /\ pc' # "idle"
      <4>1. Sound' <=> Sound
        BY <1>5, <3>1, SoundStays DEF Sections
      <4> QED
        BY <2>2, <3>3, <4>1 DEF Sound
    <3> QED
      BY <3>4 DEF PlaceInv, InsideTheFile
  <2>3. CASE pc' # "wild"
    <3>1. pc' = "failed" \/ (pc' = "idle" /\ held' = {"elf"} /\ answer'.at = 0)
      <4>1. answer = [Constructing EXCEPT !.status = answer.status]
        BY <2>1 DEF IInv
      <4> DEFINE status == answer.status
      <4>2. answer = [Constructing EXCEPT !.status = status]
        BY <4>1
      <4> HIDE DEF status
      <4>3. [answer EXCEPT !.status = "ok"].at = 0
        BY <4>2 DEF Constructing, Asked
      <4> QED
        BY <1>5, <2>3, <4>3 DEF Sections, Refuse
    <3> QED
      BY <3>1 DEF PlaceInv, InsideTheFile
  <2> QED
    BY <2>2, <2>3
<1> QED
  BY <1>2, <1>3, <1>4, <1>5 DEF Constructor

LEMMA UnchangedInside == ASSUME PlaceInv, UNCHANGED vars PROVE PlaceInv'
<1>1. UNCHANGED <<file, pc, hdr, segments, sections, it, held, answer>>
  BY DEF vars
<1>2. /\ Sound' <=> Sound
      /\ lim' = lim /\ \A at, n : InFile(at, n)' <=> InFile(at, n)
  BY <1>1, SoundStays
<1>3. StringWraps' <=> StringWraps
  <2>1. ASSUME NEW i PROVE FreshData(i)' = FreshData(i)
    BY <1>1, DataStays
  <2> QED
    BY <1>1, <2>1 DEF StringWraps, Wraps
<1>4. InFile(answer.at, answer.len)' <=> InFile(answer.at, answer.len)
  BY <1>1, <1>2
<1>5. InsideTheFile'
  BY <1>1, <1>2, <1>3, <1>4 DEF PlaceInv, InsideTheFile
<1>6. InFile(it.strs.at, it.strs.len)' <=> InFile(it.strs.at, it.strs.len)
  BY <1>1, <1>2
<1>7. IteratorInside' <=> IteratorInside
  BY <1>1, <1>2, <1>6 DEF IteratorInside, Stride, Found
<1> QED
  BY <1>1, <1>2, <1>5, <1>7 DEF PlaceInv

LEMMA NextInside == PlaceInv /\ LifeInv /\ IInv /\ [Next]_vars => PlaceInv'
<1> SUFFICES ASSUME PlaceInv, LifeInv, IInv, [Next]_vars PROVE PlaceInv'
  OBVIOUS
<1>1. CASE Constructor
  BY <1>1, ConstructorInside
<1>2. CASE Client
  <2>1. CASE \/ \E i \in Indexes : GetSectionByIndex(i) \/ GetSegmentByIndex(i) \/ NotSymtab(i)
             \/ \E i \in Indexes : GetName(i) \/ GetData(i) \/ GetSegmentData(i)
             \/ \E i \in Indexes, offset \in Offsets : GetString(i, offset)
    BY <2>1, SectionCallsInside
  <2>2. CASE \/ \E name \in Names : GetSection(name)
             \/ \E t \in Wanted : LoadSection(t)
    BY <2>2, SearchesInside
  <2>3. CASE \E i \in Indexes : BeginSymbols(i)
    BY <2>3, BeginInside
  <2>4. CASE NextSymbol \/ PreviousSymbol \/ DropSymbols \/ DropElf
    BY <2>4, IteratorCallsInside
  <2> QED
    BY <1>2, <2>1, <2>2, <2>3, <2>4 DEF Client
<1>3. CASE Stopped \/ UNCHANGED vars
  BY <1>3, UnchangedInside DEF Stopped
<1> QED
  BY <1>1, <1>2, <1>3 DEF Next

\* No file that is sound in the sense of Sound, and no order of calls, makes the
\* library read outside of the file or return a place outside of it, but for
\* an offset of the client's that wraps around (elf.cc:60-331).
THEOREM StaysInside == Spec => []InsideTheFile
<1>1. Init => PlaceInv
  BY DEF Init, PlaceInv, InsideTheFile
<1>2. PlaceInv => InsideTheFile
  BY DEF PlaceInv
<1> QED
  BY <1>1, <1>2, InitIInv, InitLife, NextOK, NextLife, NextInside, PTL DEF Spec
=============================================================================
