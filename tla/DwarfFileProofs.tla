-------------------------- MODULE DwarfFileProofs --------------------------
(***************************************************************************)
(* Proofs about DwarfFile, for all files and signatures.                   *)
(*                                                                         *)
(* No section is loaded twice: the sections in the cache are those that    *)
(* get_section has loaded, and the two required ones are never in it; the  *)
(* constructor loads each in a step of its own, which it does not come     *)
(* back to (IInv).                                                         *)
(*                                                                         *)
(* The loops over units move forward: a unit that is accepted ends behind  *)
(* its own header (CompilationUnitIs, TypeUnitIs), because the version is  *)
(* read in front of its end.                                               *)
(*                                                                         *)
(* Units are those of the file: units that have been read one behind the   *)
(* other are a Chain, and there is but one chain to the end of a section   *)
(* (OneChain).  A table of type units that a call has left half way holds  *)
(* units of the chain, and a call that comes to the end has replaced what  *)
(* was out of date (Partly).                                               *)
(*                                                                         *)
(* Line tables are missing for a reason: what is cached is in the file     *)
(* (LinesInv).  A root DIE that was read half, and counts as read from then*)
(* on, has made a call throw.                                              *)
(***************************************************************************)
EXTENDS DwarfFile, NumberLemmas, TLAPS

-----------------------------------------------------------------------------
(* Loads.                                                                  *)

Required == {"info", "abbrev"}

IInv ==
  /\ loads \in [SectionType -> Nat]
  /\ \A t \in SectionType \ Required :
       loads[t] = IF t \in DOMAIN sections THEN 1 ELSE 0
  /\ pc = "info" => loads["info"] = 0
  /\ loads["info"] <= 1
  /\ pc \in {"info", "abbrev"} => loads["abbrev"] = 0
  /\ loads["abbrev"] <= 1

LEMMA InitIInv == Init => IInv
  BY DEF Init, IInv, SectionType, Required

\* Asking for a section keeps the counts in step with the cache.
LEMMA GetSectionCounts ==
  ASSUME IInv, NEW t \in SectionType, NEW status, GetSection(t, status),
         pc' = pc \/ pc' \in {"types", "wild"}, pc = "idle"
  PROVE  IInv'
<1>1. CASE t \in Required \cup DOMAIN sections
  <2>1. UNCHANGED <<sections, loads>>
    BY <1>1 DEF GetSection, Required
  <2> QED
    BY <2>1 DEF IInv
<1>2. CASE t \notin Required \cup DOMAIN sections /\ status = "ok"
  <2>1. /\ loads' = [loads EXCEPT ![t] = @ + 1]
        /\ sections' = With(sections, t, [type |-> "str", ord |-> ord])
    BY <1>2 DEF GetSection, Loads, Required
  <2>2. DOMAIN sections' = DOMAIN sections \cup {t}
    BY <2>1 DEF With
  <2> QED
    BY <1>2, <2>1, <2>2 DEF IInv, Required, SectionType
<1>3. CASE t \notin Required \cup DOMAIN sections /\ status # "ok"
  <2>1. UNCHANGED <<sections, loads>>
    BY <1>3 DEF GetSection, Loads, Required
  <2> QED
    BY <2>1 DEF IInv
<1> QED
  BY <1>1, <1>2, <1>3

LEMMA StepIInv == IInv /\ [Next]_vars => IInv'
<1> SUFFICES ASSUME IInv, [Next]_vars PROVE IInv'
  OBVIOUS
<1>1. CASE LoadInfo
  <2>1. PICK status : Loads("info", status)
    BY <1>1 DEF LoadInfo
  <2>2. loads' \in {loads, [loads EXCEPT !["info"] = @ + 1]} /\ UNCHANGED sections
    BY <1>1, <2>1 DEF LoadInfo, Loads
  <2>3. pc = "info" /\ pc' # "info"
    BY <1>1 DEF LoadInfo, Refuse
  <2> QED
    BY <2>2, <2>3 DEF IInv, Required, SectionType
<1>2. CASE LoadAbbrev
  <2>1. PICK status : Loads("abbrev", status)
    BY <1>2 DEF LoadAbbrev
  <2>2. loads' \in {loads, [loads EXCEPT !["abbrev"] = @ + 1]} /\ UNCHANGED sections
    BY <1>2, <2>1 DEF LoadAbbrev, Loads
  <2>3. pc = "abbrev" /\ pc' \notin {"info", "abbrev"}
    BY <1>2 DEF LoadAbbrev, Refuse
  <2> QED
    BY <2>2, <2>3 DEF IInv, Required, SectionType
<1>3. CASE NextUnit \/ LastUnit \/ NextTypeUnit \/ LastTypeUnit
  <2>1. UNCHANGED <<sections, loads>> /\ pc \notin {"info", "abbrev"}
    BY <1>3 DEF NextUnit, LastUnit, NextTypeUnit, LastTypeUnit
  <2>2. pc' \notin {"info", "abbrev"}
    BY <1>3 DEF NextUnit, LastUnit, NextTypeUnit, LastTypeUnit, Refuse
  <2> QED
    BY <2>1, <2>2 DEF IInv
<1>4. ASSUME NEW s \in Signatures, GetTypeUnit(s) PROVE IInv'
  <2>1. CASE have_type_units
    <3>1. UNCHANGED <<pc, sections, loads>>
      BY <1>4, <2>1 DEF GetTypeUnit
    <3> QED
      BY <3>1 DEF IInv
  <2>2. CASE ~have_type_units
    <3>1. PICK status \in Statuses : GetSection("types", status)
      BY <1>4, <2>2 DEF GetTypeUnit
    <3>2. pc = "idle" /\ pc' \in {pc, "types"}
      BY <1>4, <2>2 DEF GetTypeUnit
    <3> QED
      BY <3>1, <3>2, GetSectionCounts DEF SectionType
  <2> QED
    BY <2>1, <2>2
<1>5. ASSUME NEW k \in DOMAIN compilation_units, GetLineTable(k) PROVE IInv'
  <2>1. pc = "idle" /\ pc' \in {"idle", "wild"}
    BY <1>5 DEF GetLineTable
  <2>2. \/ UNCHANGED <<sections, loads>>
        \/ \E status \in Statuses : GetSection("line", status)
    BY <1>5 DEF GetLineTable
  <2>3. CASE UNCHANGED <<sections, loads>>
    BY <2>1, <2>3 DEF IInv
  <2> QED
    BY <2>1, <2>2, <2>3, GetSectionCounts DEF SectionType
<1>6. ASSUME NEW t \in SectionType, UseSection(t) PROVE IInv'
  <2>1. PICK status \in Statuses : GetSection(t, status)
    BY <1>6 DEF UseSection
  <2> QED
    BY <1>6, <2>1, GetSectionCounts DEF UseSection
<1>7. ASSUME NEW k \in DOMAIN compilation_units, ReadRoot(k) PROVE IInv'
  BY <1>7 DEF ReadRoot, IInv
<1>8. CASE UNCHANGED vars \/ Stopped
  BY <1>8 DEF vars, Stopped, IInv
<1> QED
  BY <1>1, <1>2, <1>3, <1>4, <1>5, <1>6, <1>7, <1>8 DEF Next, Client, Library

\* Whoever asks for a section, and however often asking for it has failed, the
\* loader loads it at most once (dwarf::dwarf, dwarf::get_section).
THEOREM LoadsOnce == Spec => []LoadedOnce
<1>1. IInv => LoadedOnce
  BY DEF IInv, LoadedOnce, SectionType, Required
<1> QED
  BY <1>1, InitIInv, StepIInv, PTL DEF Spec

-----------------------------------------------------------------------------
(* Headers of units.                                                       *)

Bytes == 0..(Base - 1)

LEMMA WordsAreNatural ==
  /\ Base \in Nat /\ Base >= 2
  /\ Word \in Nat /\ Word >= 16
  /\ Xword \in Nat /\ Xword >= 16
<1>1. Base \in Nat /\ Base >= 2
  BY BaseAssumption
<1>2. \A a, b \in Nat : a * b \in Nat
  BY ProductIsNatural
<1>3. \A a \in Nat : \A b \in Nat : b >= 2 => a * b >= 2 * a
  <2> TAKE a \in Nat
  <2> TAKE b \in Nat
  <2>1. b >= 2 => \E c \in Nat : b = c + 2
    <3> SUFFICES ASSUME b >= 2 PROVE \E c \in Nat : b = c + 2
      OBVIOUS
    <3>1. b - 2 \in Nat /\ b = (b - 2) + 2
      OBVIOUS
    <3> QED
      BY <3>1
  <2>2. \A c \in Nat : a * (c + 2) = a * c + 2 * a
    OBVIOUS
  <2> QED
    BY <1>2, <2>1, <2>2
<1>4. Base * Base \in Nat /\ Base * Base >= 4
  BY <1>1, <1>2, <1>3
<1>5. Base * Base * Base \in Nat /\ Base * Base * Base >= 8
  BY <1>1, <1>2, <1>3, <1>4
<1>6. Word \in Nat /\ Word >= 16
  BY <1>1, <1>2, <1>3, <1>5 DEF Word
<1>7. Xword \in Nat /\ Xword >= 32
  BY <1>2, <1>3, <1>6 DEF Xword
<1> QED
  BY <1>1, <1>6, <1>7

\* What is read inside of the data is a natural number.
LEMMA NumberNatural ==
  ASSUME NEW data \in Seq(Bytes), NEW order, NEW p \in Nat, NEW n \in Nat, p + n <= Len(data)
  PROVE  Number(data, order, p, n) \in Nat
<1> DEFINE digits == [k \in 1..n |-> data[p + (IF order = "msb" THEN k ELSE n + 1 - k)]]
<1>1. Base \in Nat /\ Bytes \in SUBSET Nat
  BY WordsAreNatural DEF Bytes
<1>2. ASSUME NEW k \in 1..n PROVE digits[k] \in Nat
  <2>1. \A i \in 1..Len(data) : data[i] \in Nat
    <3>1. \A i \in 1..Len(data) : data[i] \in Bytes
      OBVIOUS
    <3> QED
      BY <1>1, <3>1
  <2>2. p + k \in 1..Len(data) /\ p + (n + 1 - k) \in 1..Len(data)
    OBVIOUS
  <2> QED
    BY <2>1, <2>2
<1>3. digits \in Seq(Nat)
  <2>1. digits \in [1..n -> Nat]
    BY <1>2
  <2> HIDE DEF digits
  <2> QED
    BY <2>1
<1> HIDE DEF digits
<1> QED
  BY <1>1, <1>3, NumberIsNatural DEF Number, digits

\* Where a unit lies.
LEMMA SubsectionIs ==
  ASSUME NEW data \in Seq(Bytes), NEW order, NEW o \in Nat,
         Subsection(data, order, o) # NoSection
  PROVE  LET s == Subsection(data, order, o)
         IN  s.body \in {o + 4, o + 12} /\ s.end \in Int /\ s.width \in {4, 8}
<1>1. Len(data) \in Nat /\ Word \in Nat /\ Xword \in Nat /\ Xword > 0
  BY WordsAreNatural
<1> DEFINE length == Number(data, order, o, 4)
           long == Number(data, order, o + 4, 8)
<1>2. CASE ~Fits(Len(data), o, 4)
  BY <1>2 DEF Subsection
<1>3. ASSUME Fits(Len(data), o, 4), length < Escape
      PROVE  LET s == Subsection(data, order, o)
             IN  s.body \in {o + 4, o + 12} /\ s.end \in Int /\ s.width \in {4, 8}
  <2>1. length \in Nat
    BY <1>1, <1>3, NumberNatural DEF Fits
  <2>2. Subsection(data, order, o) = Section32(o, length)
    BY <1>3 DEF Subsection
  <2> HIDE DEF length
  <2> QED
    BY <2>1, <2>2 DEF Section32
<1>4. ASSUME Fits(Len(data), o, 4), ~(length < Escape)
      PROVE  LET s == Subsection(data, order, o)
             IN  s.body \in {o + 4, o + 12} /\ s.end \in Int /\ s.width \in {4, 8}
  <2>1. Subsection(data, order, o) =
          IF Fits(Len(data), o + 4, 8) THEN Section64(o, long) ELSE NoSection
    BY <1>4 DEF Subsection
  <2>2. Fits(Len(data), o + 4, 8) /\ Subsection(data, order, o) = Section64(o, long)
    BY <2>1
  <2>3. long \in Nat
    BY <1>1, <2>2, NumberNatural DEF Fits
  <2> HIDE DEF long
  <2>4. (long + 12) % Xword \in Int
    BY <1>1, <2>3
  <2>5. Distance((long + 12) % Xword) \in Int
    BY <1>1, <2>4 DEF Distance
  <2> QED
    BY <2>2, <2>5 DEF Section64
<1> QED
  BY <1>2, <1>3, <1>4

\* A header that can be read: its fields are in the unit and in the data, and
\* the unit does not end before it.
LEMMA HeaderIs ==
  ASSUME NEW data \in Seq(Bytes), NEW order, NEW o \in Nat, NEW versions, NEW fields,
         NEW s, s = Subsection(data, order, o),
         HeaderStatus(data, order, s, versions, fields) = "ok"
  PROVE  /\ s.body \in Nat /\ s.body > o /\ s.end \in Int /\ s.width \in {4, 8}
         /\ s.body < s.end
         /\ Number(data, order, s.body, 2) \in versions
         /\ \A f \in fields : ~(f[1] + f[2] > Len(data))
<1> DEFINE head == Readable(data, s, {<<s.body, 2>>})
<1>1. /\ s # NoSection /\ head = "ok" /\ Number(data, order, s.body, 2) \in versions
      /\ Readable(data, s, fields) = "ok"
  BY DEF HeaderStatus
<1>2. s.body \in {o + 4, o + 12} /\ s.end \in Int /\ s.width \in {4, 8}
  BY <1>1, SubsectionIs
<1>3. s.body < s.end
  BY <1>1, <1>2 DEF Readable, Fits
<1>4. \A f \in fields : ~(f[1] + f[2] > Len(data))
  BY <1>1 DEF Readable
<1> QED
  BY <1>1, <1>2, <1>3, <1>4

LEMMA StatusIs ==
  ASSUME NEW data, NEW order, NEW s, NEW versions, NEW fields
  PROVE  HeaderStatus(data, order, s, versions, fields) \in {"ok", "malformed", "wild"}
  BY DEF HeaderStatus, Readable

LEMMA CompilationUnitIs ==
  ASSUME NEW data \in Seq(Bytes), NEW order, NEW o \in Nat
  PROVE  LET r == CompilationUnit(data, order, o)
         IN  /\ r.status = "ok" => r.unit \in Unit /\ r.unit.offset = o /\ r.unit.next > o
             /\ r.status \in {"ok", "malformed", "wild"}
             /\ r = Outcome(r.status, r.unit)
<1> DEFINE s == Subsection(data, order, o)
           version == Number(data, order, s.body, 2)
           l == CompilationLayout(version, s)
           fields == {<<l.addr, 1>>, <<l.abbrevs, s.width>>}
           status == HeaderStatus(data, order, s, 0..5, fields)
           unit == [offset |-> o, next |-> s.end,
                    addr_size |-> data[l.addr + 1],
                    debug_abbrev_offset |-> Number(data, order, l.abbrevs, s.width),
                    root_offset |-> l.root - o,
                    type_signature |-> 0, type_offset |-> 0]
<1>1. CompilationUnit(data, order, o) = Outcome(status, unit)
  BY DEF CompilationUnit
<1>2. status \in {"ok", "malformed", "wild"}
  BY StatusIs
<1>3. ASSUME status = "ok"
      PROVE  unit \in Unit /\ unit.offset = o /\ unit.next > o
  <2> HIDE DEF s, fields
  <2>1. /\ s.body \in Nat /\ s.body > o /\ s.end \in Int /\ s.width \in {4, 8}
        /\ s.body < s.end /\ version \in 0..5
        /\ \A f \in fields : ~(f[1] + f[2] > Len(data))
    <3>1. s = Subsection(data, order, o)
      BY DEF s
    <3> QED
      BY <1>3, <3>1, HeaderIs
  <2>2. ~(l.addr + 1 > Len(data)) /\ ~(l.abbrevs + s.width > Len(data))
    <3>1. <<l.addr, 1>> \in fields /\ <<l.abbrevs, s.width>> \in fields
      BY DEF fields
    <3> HIDE DEF l
    <3> QED
      BY <2>1, <3>1
  <2> HIDE DEF version
  <2>3. l.addr \in Nat /\ l.abbrevs \in Nat /\ l.root - o \in Nat
    <3>1. \A b, w \in Nat : b > o =>
            /\ b + 3 \in Nat /\ b + 4 \in Nat /\ b + 4 + w - o \in Nat
            /\ b + 2 + w \in Nat /\ b + 2 \in Nat /\ b + 3 + w - o \in Nat
      OBVIOUS
    <3>2. s.body \in Nat /\ s.width \in Nat /\ s.body > o
      BY <2>1
    <3>3. \/ /\ l.addr = s.body + 3 /\ l.abbrevs = s.body + 4
             /\ l.root = s.body + 4 + s.width
          \/ /\ l.addr = s.body + 2 + s.width /\ l.abbrevs = s.body + 2
             /\ l.root = s.body + 3 + s.width
      BY DEF CompilationLayout
    <3> HIDE DEF l
    <3>4. CASE l.addr = s.body + 3 /\ l.abbrevs = s.body + 4 /\ l.root = s.body + 4 + s.width
      BY <3>1, <3>2, <3>4
    <3>5. CASE /\ l.addr = s.body + 2 + s.width /\ l.abbrevs = s.body + 2
               /\ l.root = s.body + 3 + s.width
      BY <3>1, <3>2, <3>5
    <3> QED
      BY <3>3, <3>4, <3>5
  <2> HIDE DEF l
  <2>4. data[l.addr + 1] \in Nat
    <3>1. l.addr + 1 \in 1..Len(data)
      BY <2>2, <2>3
    <3>2. data[l.addr + 1] \in Bytes
      BY <3>1
    <3> QED
      BY <3>2, WordsAreNatural DEF Bytes
  <2>5. Number(data, order, l.abbrevs, s.width) \in Nat
    BY <2>1, <2>2, <2>3, NumberNatural
  <2>6. s.end > o /\ s.end \in Int
    BY <2>1
  <2>7. unit \in Unit
    BY <2>3, <2>4, <2>5, <2>6 DEF Unit
  <2> QED
    BY <2>6, <2>7
<1> HIDE DEF status, unit
<1> QED
  BY <1>1, <1>2, <1>3 DEF Outcome

LEMMA TypeUnitIs ==
  ASSUME NEW data \in Seq(Bytes), NEW order, NEW o \in Nat
  PROVE  LET r == TypeUnit(data, order, o)
         IN  /\ r.status = "ok" => r.unit \in Unit /\ r.unit.offset = o /\ r.unit.next > o
             /\ r.status \in {"ok", "malformed", "wild"}
             /\ r = Outcome(r.status, r.unit)
<1> DEFINE s == Subsection(data, order, o)
           addr == s.body + 2 + s.width
           type == addr + 9
           fields == {<<s.body + 2, s.width>>, <<addr, 1>>, <<addr + 1, 8>>, <<type, s.width>>}
           status == HeaderStatus(data, order, s, {4}, fields)
           unit == [offset |-> o, next |-> s.end,
                    addr_size |-> data[addr + 1],
                    debug_abbrev_offset |-> Number(data, order, s.body + 2, s.width),
                    root_offset |-> type + s.width - o,
                    type_signature |-> Number(data, order, addr + 1, 8),
                    type_offset |-> Number(data, order, type, s.width)]
<1>1. TypeUnit(data, order, o) = Outcome(status, unit)
  BY DEF TypeUnit
<1>2. status \in {"ok", "malformed", "wild"}
  BY StatusIs
<1>3. ASSUME status = "ok"
      PROVE  unit \in Unit /\ unit.offset = o /\ unit.next > o
  <2> HIDE DEF s, fields
  <2>1. /\ s.body \in Nat /\ s.body > o /\ s.end \in Int /\ s.width \in {4, 8}
        /\ s.body < s.end /\ \A f \in fields : ~(f[1] + f[2] > Len(data))
    <3>1. s = Subsection(data, order, o)
      BY DEF s
    <3> QED
      BY <1>3, <3>1, HeaderIs
  <2>2. /\ ~(s.body + 2 + s.width > Len(data)) /\ ~(addr + 1 > Len(data))
        /\ ~(addr + 1 + 8 > Len(data)) /\ ~(type + s.width > Len(data))
    <3>1. /\ <<s.body + 2, s.width>> \in fields /\ <<addr, 1>> \in fields
          /\ <<addr + 1, 8>> \in fields /\ <<type, s.width>> \in fields
      BY DEF fields
    <3> HIDE DEF addr, type
    <3> QED
      BY <2>1, <3>1
  <2>3. /\ s.body + 2 \in Nat /\ addr \in Nat /\ addr + 1 \in Nat /\ type \in Nat
        /\ type + s.width - o \in Nat /\ s.width \in Nat
    <3>1. \A b, w \in Nat : b > o =>
            /\ b + 2 \in Nat /\ b + 2 + w \in Nat /\ b + 2 + w + 1 \in Nat
            /\ b + 2 + w + 9 \in Nat /\ b + 2 + w + 9 + w - o \in Nat
      OBVIOUS
    <3>2. s.body \in Nat /\ s.width \in Nat /\ s.body > o
      BY <2>1
    <3> QED
      BY <3>1, <3>2
  <2>4. data[addr + 1] \in Nat
    <3>1. addr + 1 \in 1..Len(data)
      BY <2>2, <2>3
    <3>2. data[addr + 1] \in Bytes
      BY <3>1
    <3> QED
      BY <3>2, WordsAreNatural DEF Bytes
  <2>5. /\ Number(data, order, s.body + 2, s.width) \in Nat
        /\ Number(data, order, addr + 1, 8) \in Nat
        /\ Number(data, order, type, s.width) \in Nat
    <3> HIDE DEF addr, type
    <3>1. /\ s.body + 2 + s.width <= Len(data) /\ addr + 1 + 8 <= Len(data)
          /\ type + s.width <= Len(data)
      <4>1. \A a, b \in Nat : ~(a + b > Len(data)) => a + b <= Len(data)
        OBVIOUS
      <4>2. /\ ~(s.body + 2 + s.width > Len(data)) /\ ~(addr + 1 + 8 > Len(data))
            /\ ~(type + s.width > Len(data))
        BY <2>2 DEF addr, type
      <4> QED
        BY <2>3, <4>1, <4>2
    <3> QED
      BY <2>3, <3>1, NumberNatural
  <2>6. s.end > o /\ s.end \in Int
    BY <2>1
  <2> HIDE DEF addr, type
  <2>7. unit \in Unit
    BY <2>3, <2>4, <2>5, <2>6 DEF Unit
  <2> QED
    BY <2>6, <2>7
<1> HIDE DEF status, unit
<1> QED
  BY <1>1, <1>2, <1>3 DEF Outcome

LEMMA FileIs ==
  ASSUME file \in Files
  PROVE  file.info \in Seq(Bytes) /\ file.types \in Seq(Bytes)
         /\ Len(file.info) \in Nat /\ Len(file.types) \in Nat
<1>1. file.info \in Seq(Bytes) /\ file.types \in Seq(Bytes)
  BY FilesAssumption DEF Bytes
<1> QED
  BY <1>1

-----------------------------------------------------------------------------
(* Types.                                                                  *)

LEMMA InitTypes == Init => TypeOK
<1> SUFFICES ASSUME Init PROVE TypeOK
  OBVIOUS
<1>1. DOMAIN type_units = {} /\ DOMAIN sections = {} /\ compilation_units \in Seq(Unit)
  <2>1. DOMAIN << >> = {} /\ << >> \in Seq(Unit)
    OBVIOUS
  <2> QED
    BY <2>1 DEF Init
<1>2. loads \in [SectionType -> Nat]
  BY DEF Init
<1> QED
  BY <1>1, <1>2 DEF Init, TypeOK

LEMMA GetSectionTypes ==
  ASSUME TypeOK, NEW t \in SectionType, NEW status, GetSection(t, status)
  PROVE  /\ DOMAIN sections' \subseteq SectionType \ {"info", "abbrev"}
         /\ loads' \in [SectionType -> Nat]
<1>1. CASE UNCHANGED <<sections, loads>>
  BY <1>1 DEF TypeOK
<1>2. CASE ~UNCHANGED <<sections, loads>>
  <2>1. /\ t \notin {"info", "abbrev"}
        /\ loads' \in {loads, [loads EXCEPT ![t] = @ + 1]}
        /\ sections' \in {sections, With(sections, t, [type |-> "str", ord |-> ord])}
    BY <1>2 DEF GetSection, Loads
  <2>2. DOMAIN With(sections, t, [type |-> "str", ord |-> ord]) = DOMAIN sections \cup {t}
    BY DEF With
  <2>3. [loads EXCEPT ![t] = @ + 1] \in [SectionType -> Nat]
    BY DEF TypeOK
  <2> QED
    BY <2>1, <2>2, <2>3 DEF TypeOK
<1> QED
  BY <1>1, <1>2

LEMMA StepTypes == TypeOK /\ [Next]_vars => TypeOK'
<1> SUFFICES ASSUME TypeOK, [Next]_vars PROVE TypeOK'
  OBVIOUS
<1>1. /\ file.info \in Seq(Bytes) /\ file.types \in Seq(Bytes) /\ cur \in Nat
      /\ Len(file.info) \in Nat /\ Len(file.types) \in Nat
  BY FileIs DEF TypeOK
<1>2. CASE LoadInfo
  <2>1. ord' \in {"lsb", "msb"} /\ pc' \in {"abbrev", "failed", "wild"}
    BY <1>2 DEF LoadInfo, TypeOK, Refuse, Sniff
  <2>2. loads' \in [SectionType -> Nat]
    BY <1>2 DEF LoadInfo, Loads, TypeOK, SectionType
  <2> QED
    BY <1>2, <2>1, <2>2 DEF LoadInfo, TypeOK, unitVars
<1>3. CASE LoadAbbrev
  <2>1. pc' \in {"units", "failed", "wild"}
    BY <1>3 DEF LoadAbbrev, Refuse
  <2>2. loads' \in [SectionType -> Nat]
    BY <1>3 DEF LoadAbbrev, Loads, TypeOK, SectionType
  <2> QED
    BY <1>3, <2>1, <2>2 DEF LoadAbbrev, TypeOK, unitVars
<1>4. CASE NextUnit
  <2> DEFINE r == CompilationUnit(file.info, ord, cur)
  <2>1. r.status = "ok" => r.unit \in Unit /\ r.unit.next > cur
    BY <1>1, CompilationUnitIs
  <2>2. UNCHANGED <<file, ord, type_units, have_type_units, sections, lines, half_roots, loads>>
    BY <1>4 DEF NextUnit
  <2>3. CASE r.status = "ok"
    <3>1. /\ compilation_units' = Append(compilation_units, r.unit)
          /\ cur' = r.unit.next /\ pc' = pc
      BY <1>4, <2>3 DEF NextUnit
    <3> HIDE DEF r
    <3>2. cur' \in Nat
      BY <1>1, <2>1, <2>3, <3>1 DEF Unit
    <3>3. /\ compilation_units' \in Seq(Unit)
          /\ DOMAIN compilation_units \subseteq DOMAIN compilation_units'
      BY <2>1, <2>3, <3>1 DEF TypeOK
    <3> QED
      BY <2>2, <3>1, <3>2, <3>3 DEF TypeOK
  <2>4. CASE r.status # "ok"
    <3>1. pc' \in {"failed", "wild"} /\ UNCHANGED <<compilation_units, cur>>
      BY <1>4, <2>4 DEF NextUnit, Refuse
    <3> HIDE DEF r
    <3> QED
      BY <2>2, <3>1 DEF TypeOK
  <2> QED
    BY <2>3, <2>4
<1>5. CASE LastUnit
  BY <1>5 DEF LastUnit, TypeOK, unitVars
<1>6. CASE NextTypeUnit
  <2> DEFINE r == TypeUnit(file.types, ord, cur)
  <2>1. r.status = "ok" => r.unit \in Unit /\ r.unit.next > cur
    BY <1>1, TypeUnitIs
  <2>2. UNCHANGED <<file, ord, compilation_units, have_type_units, sections, lines, half_roots, loads>>
    BY <1>6 DEF NextTypeUnit
  <2>3. CASE r.status = "ok"
    <3>1. /\ type_units' = With(type_units, r.unit.type_signature, r.unit)
          /\ cur' = r.unit.next /\ pc' = pc
      BY <1>6, <2>3 DEF NextTypeUnit
    <3> HIDE DEF r
    <3>2. cur' \in Nat
      BY <1>1, <2>1, <2>3, <3>1 DEF Unit
    <3>3. \A s \in DOMAIN type_units' :
             type_units'[s] \in Unit /\ type_units'[s].type_signature = s
      BY <2>1, <2>3, <3>1 DEF TypeOK, With
    <3> QED
      BY <2>2, <3>1, <3>2, <3>3 DEF TypeOK
  <2>4. CASE r.status # "ok"
    <3>1. pc' \in {"idle", "wild"} /\ UNCHANGED <<type_units, cur>>
      BY <1>6, <2>4 DEF NextTypeUnit
    <3> HIDE DEF r
    <3> QED
      BY <2>2, <3>1 DEF TypeOK
  <2> QED
    BY <2>3, <2>4
<1>7. CASE LastTypeUnit
  BY <1>7 DEF LastTypeUnit, TypeOK
<1>8. ASSUME NEW s \in Signatures, GetTypeUnit(s) PROVE TypeOK'
  <2>1. UNCHANGED <<file, ord, unitVars, lines, half_roots>>
    BY <1>8 DEF GetTypeUnit
  <2>2. CASE have_type_units
    <3>1. UNCHANGED <<pc, cur, sections, loads>>
      BY <1>8, <2>2 DEF GetTypeUnit
    <3> QED
      BY <2>1, <3>1 DEF TypeOK, unitVars
  <2>3. CASE ~have_type_units
    <3>1. PICK status : GetSection("types", status)
      BY <1>8, <2>3 DEF GetTypeUnit
    <3>2. pc' \in {pc, "types"} /\ cur' \in {cur, 0}
      BY <1>8, <2>3 DEF GetTypeUnit
    <3>3. /\ DOMAIN sections' \subseteq SectionType \ {"info", "abbrev"}
          /\ loads' \in [SectionType -> Nat]
      BY <3>1, GetSectionTypes DEF SectionType
    <3> QED
      BY <2>1, <3>2, <3>3 DEF TypeOK, unitVars
  <2> QED
    BY <2>2, <2>3
<1>9. ASSUME NEW k \in DOMAIN compilation_units, GetLineTable(k) PROVE TypeOK'
  <2>1. /\ UNCHANGED <<file, ord, cur, unitVars>> /\ pc' \in {pc, "wild"}
        /\ lines' \in {lines, lines \cup {k}}
        /\ half_roots' \in {half_roots, half_roots \cup {k}}
    BY <1>9 DEF GetLineTable, InstallRoot
  <2>2. \/ UNCHANGED <<sections, loads>>
        \/ \E status : GetSection("line", status)
    BY <1>9 DEF GetLineTable
  <2>3. /\ DOMAIN sections' \subseteq SectionType \ {"info", "abbrev"}
        /\ loads' \in [SectionType -> Nat]
    <3>1. CASE UNCHANGED <<sections, loads>>
      BY <3>1 DEF TypeOK
    <3> QED
      BY <2>2, <3>1, GetSectionTypes DEF SectionType
  <2> QED
    BY <2>1, <2>3 DEF TypeOK, unitVars
<1>10. ASSUME NEW t \in SectionType, UseSection(t) PROVE TypeOK'
  <2>1. PICK status : GetSection(t, status)
    BY <1>10 DEF UseSection
  <2>2. UNCHANGED <<file, pc, ord, cur, unitVars, lines, half_roots>>
    BY <1>10 DEF UseSection
  <2>3. /\ DOMAIN sections' \subseteq SectionType \ {"info", "abbrev"}
        /\ loads' \in [SectionType -> Nat]
    BY <2>1, GetSectionTypes
  <2> QED
    BY <2>2, <2>3 DEF TypeOK, unitVars
<1>11. ASSUME NEW k \in DOMAIN compilation_units, ReadRoot(k) PROVE TypeOK'
  <2>1. /\ UNCHANGED <<file, pc, ord, cur, unitVars, sections, lines, loads>>
        /\ half_roots' \in {half_roots, half_roots \cup {k}}
    BY <1>11 DEF ReadRoot, InstallRoot
  <2> QED
    BY <2>1 DEF TypeOK, unitVars
<1>12. CASE UNCHANGED vars \/ Stopped
  BY <1>12 DEF vars, Stopped, TypeOK
<1> QED
  BY <1>2, <1>3, <1>4, <1>5, <1>6, <1>7, <1>8, <1>9, <1>10, <1>11, <1>12
  DEF Next, Client, Library

\* What the members of dwarf::impl and of its units hold has its type, whatever
\* the headers of units say; the cursor over them never gets in front of the
\* section (dwarf.cc:33-106, 268-342).
THEOREM TypeCorrect == Spec => []TypeOK
  BY InitTypes, StepTypes, PTL DEF Spec

-----------------------------------------------------------------------------
(* The units of a section.                                                 *)

\* What reading a unit at offset o of .debug_info or .debug_types gives.
Reading(kind, o) ==
  IF kind = "info" THEN CompilationUnit(file.info, ord, o) ELSE TypeUnit(file.types, ord, o)
SizeOf(kind) == Len(IF kind = "info" THEN file.info ELSE file.types)

\* Where the n-th of some units ends.
Behind(us, n) == IF n = 0 THEN 0 ELSE us[n].next

\* The first unit of the section, the one behind it, and so on; and all of them.
Chain(kind, us) ==
  /\ us \in Seq(Unit)
  /\ \A k \in 1..Len(us) :
       /\ Behind(us, k - 1) < SizeOf(kind)
       /\ Reading(kind, Behind(us, k - 1)).status = "ok"
       /\ us[k] = Reading(kind, Behind(us, k - 1)).unit
AllUnits(kind, us) == Chain(kind, us) /\ Behind(us, Len(us)) >= SizeOf(kind)

LEMMA SizeIs == ASSUME file \in Files, NEW kind PROVE SizeOf(kind) \in Nat
  BY FileIs DEF SizeOf

LEMMA BehindIs ==
  ASSUME NEW us \in Seq(Unit), NEW n \in 0..Len(us)
  PROVE  Behind(us, n) \in Int
<1>1. n # 0 => us[n] \in Unit
  OBVIOUS
<1>2. \A u \in Unit : u.next \in Int
  BY DEF Unit
<1> QED
  BY <1>1, <1>2 DEF Behind

\* Units that have been read are the first of all units.
LEMMA ChainsAgree ==
  ASSUME file \in Files, NEW kind, NEW us, NEW vs, Chain(kind, us), AllUnits(kind, vs)
  PROVE  \A k \in 1..Len(us) : k <= Len(vs) /\ us[k] = vs[k]
<1> DEFINE T == {k \in 1..Len(us) : ~(k <= Len(vs) /\ us[k] = vs[k])}
<1>1. Len(us) \in Nat /\ Len(vs) \in Nat /\ SizeOf(kind) \in Nat
  BY SizeIs DEF Chain, AllUnits
<1>2. SUFFICES ASSUME T # {} PROVE FALSE
  OBVIOUS
<1>3. PICK k \in T : \A j \in T : k <= j
  <2>1. T \in SUBSET Nat
    BY <1>1
  <2> HIDE DEF T
  <2> QED
    BY <1>2, <2>1, Least
<1>4. k \in 1..Len(us) /\ k - 1 <= Len(vs) /\ Behind(us, k - 1) = Behind(vs, k - 1)
  <2>1. CASE k = 1
    BY <1>1, <1>3, <2>1 DEF Behind
  <2>2. CASE k # 1
    <3>1. k - 1 \in 1..Len(us) /\ k - 1 \notin T
      BY <1>1, <1>3, <2>2
    <3> QED
      BY <1>1, <1>3, <3>1 DEF Behind
  <2> QED
    BY <2>1, <2>2
<1> HIDE DEF T
<1>5. CASE k - 1 = Len(vs)
  <2>1. Behind(us, k - 1) < SizeOf(kind) /\ Behind(us, k - 1) >= SizeOf(kind)
    BY <1>4, <1>5 DEF Chain, AllUnits
  <2>2. Behind(us, k - 1) \in Int
    BY <1>1, <1>4, BehindIs DEF Chain
  <2> QED
    BY <1>1, <2>1, <2>2
<1>6. CASE k - 1 # Len(vs)
  <2>1. k \in 1..Len(vs)
    BY <1>1, <1>4, <1>6
  <2>2. us[k] = vs[k]
    BY <1>4, <2>1 DEF Chain, AllUnits
  <2> QED
    BY <1>3, <2>1, <2>2 DEF T
<1> QED
  BY <1>5, <1>6

\* There is one way to read all units of a section.
LEMMA OneChain ==
  ASSUME file \in Files, NEW kind, NEW us, NEW vs, AllUnits(kind, us), AllUnits(kind, vs)
  PROVE  us = vs
<1>1. us \in Seq(Unit) /\ vs \in Seq(Unit) /\ Chain(kind, us) /\ Chain(kind, vs)
  BY DEF AllUnits, Chain
<1>2. /\ \A k \in 1..Len(us) : k <= Len(vs) /\ us[k] = vs[k]
      /\ \A k \in 1..Len(vs) : k <= Len(us)
  BY <1>1, ChainsAgree
<1>3. Len(us) = Len(vs)
  <2>1. Len(us) \in Nat /\ Len(vs) \in Nat
    BY <1>1
  <2>2. Len(us) # 0 => Len(us) <= Len(vs)
    BY <1>2, <2>1
  <2>3. Len(vs) # 0 => Len(vs) <= Len(us)
    BY <1>2, <2>1
  <2> QED
    BY <2>1, <2>2, <2>3
<1> QED
  BY <1>1, <1>2, <1>3

\* One more unit.
LEMMA ChainGrows ==
  ASSUME NEW kind, NEW us, Chain(kind, us), Behind(us, Len(us)) < SizeOf(kind),
         Reading(kind, Behind(us, Len(us))).status = "ok",
         NEW u \in Unit, u = Reading(kind, Behind(us, Len(us))).unit
  PROVE  /\ Chain(kind, Append(us, u)) /\ Len(Append(us, u)) = Len(us) + 1
         /\ Behind(Append(us, u), Len(us) + 1) = u.next
         /\ \A k \in 1..Len(us) : Append(us, u)[k] = us[k]
<1> DEFINE vs == Append(us, u)
<1>1. /\ us \in Seq(Unit) /\ Len(us) \in Nat /\ vs \in Seq(Unit) /\ Len(vs) = Len(us) + 1
      /\ \A k \in 1..Len(us) : vs[k] = us[k]
      /\ vs[Len(us) + 1] = u
  BY DEF Chain
<1> HIDE DEF vs
<1>2. \A k \in 0..Len(us) : Behind(vs, k) = Behind(us, k)
  BY <1>1 DEF Behind
<1>3. ASSUME NEW k \in 1..Len(vs)
      PROVE  /\ Behind(vs, k - 1) < SizeOf(kind)
             /\ Reading(kind, Behind(vs, k - 1)).status = "ok"
             /\ vs[k] = Reading(kind, Behind(vs, k - 1)).unit
  <2>1. k - 1 \in 0..Len(us)
    BY <1>1
  <2>2. Behind(vs, k - 1) = Behind(us, k - 1)
    BY <1>2, <2>1
  <2>3. CASE k = Len(us) + 1
    <3>1. k - 1 = Len(us) /\ vs[k] = u
      BY <1>1, <2>3
    <3> QED
      BY <2>2, <3>1
  <2>4. CASE k # Len(us) + 1
    <3>1. k \in 1..Len(us)
      BY <1>1, <2>4
    <3> QED
      BY <1>1, <2>2, <3>1 DEF Chain
  <2> QED
    BY <2>3, <2>4
<1>4. Behind(vs, Len(us) + 1) = u.next
  BY <1>1 DEF Behind
<1> QED
  BY <1>1, <1>3, <1>4 DEF Chain, vs

-----------------------------------------------------------------------------
(* The units that are kept are those of the file.                          *)

\* What the map holds when some call has come to the unit behind the n-th of
\* us: those that it has put there, and leftovers of calls that failed, of
\* signatures it has not come to.
Partly(us, n, units) ==
  /\ Chain("types", us) /\ n \in 0..Len(us)
  /\ \A k \in 1..n : us[k].type_signature \in DOMAIN units
  /\ \A s \in DOMAIN units :
       \E k \in 1..Len(us) :
         /\ units[s] = us[k] /\ us[k].type_signature = s
         /\ \A j \in (k + 1)..n : us[j].type_signature # s

\* get_type_unit goes by the last unit of the signature.
IsAnswer(call, us) ==
  IF call.status = "ok"
  THEN \E k \in 1..Len(us) :
         /\ call.unit = us[k] /\ us[k].type_signature = call.arg
         /\ \A j \in (k + 1)..Len(us) : us[j].type_signature # call.arg
  ELSE \A k \in 1..Len(us) : us[k].type_signature # call.arg

UnitsRead == pc \in {"idle", "types"} => AllUnits("info", compilation_units)
TypeUnitsRead ==
  answer.op = "get_type_unit" /\ answer.status \in {"ok", "out_of_range"} =>
    \E us : AllUnits("types", us) /\ IsAnswer(answer, us)

ReadInv ==
  /\ pc \in {"info", "abbrev"} => compilation_units = << >> /\ cur = 0
  /\ pc = "units" => /\ Chain("info", compilation_units)
                     /\ cur = Behind(compilation_units, Len(compilation_units))
  /\ pc \in {"info", "abbrev", "units"} =>
       type_units = << >> /\ ~have_type_units /\ answer = Constructing
  /\ UnitsRead
  /\ pc = "idle" => \E us : Partly(us, 0, type_units)
  /\ pc = "types" => /\ ~have_type_units
                     /\ \E signature : answer = Call("get_type_unit", signature)
                     /\ \E us : \E n \in 0..Len(us) :
                          Partly(us, n, type_units) /\ cur = Behind(us, n)
  /\ pc = "idle" /\ have_type_units =>
       \E us : Partly(us, Len(us), type_units) /\ AllUnits("types", us)
  /\ TypeUnitsRead

\* Chains and answers depend on the file and the byte order only.
LEMMA SameFile ==
  ASSUME UNCHANGED <<file, ord>>
  PROVE  /\ \A kind, us : Chain(kind, us)' <=> Chain(kind, us)
         /\ \A kind, us : AllUnits(kind, us)' <=> AllUnits(kind, us)
<1>1. /\ \A kind, o : Reading(kind, o)' = Reading(kind, o)
      /\ \A kind : SizeOf(kind)' = SizeOf(kind)
  BY DEF Reading, SizeOf
<1> QED
  BY <1>1 DEF Chain, AllUnits

\* The next unit is a new one, or one that a call that failed had come to.
LEMMA PartlyStep ==
  ASSUME TypeOK, NEW us, NEW n \in 0..Len(us), Partly(us, n, type_units),
         Behind(us, n) < SizeOf("types"), NEW r, r = Reading("types", Behind(us, n)),
         r.status = "ok", r.unit \in Unit
  PROVE  \E vs : \E m \in 0..Len(vs) :
           /\ Partly(vs, m, With(type_units, r.unit.type_signature, r.unit))
           /\ Behind(vs, m) = r.unit.next
<1> DEFINE units == With(type_units, r.unit.type_signature, r.unit)
           sig == r.unit.type_signature
<1>1. /\ us \in Seq(Unit) /\ Len(us) \in Nat /\ n \in 0..Len(us) /\ Chain("types", us)
      /\ \A k \in 1..n : us[k].type_signature \in DOMAIN type_units
      /\ \A s \in DOMAIN type_units :
           \E k \in 1..Len(us) :
             /\ type_units[s] = us[k] /\ us[k].type_signature = s
             /\ \A j \in (k + 1)..n : us[j].type_signature # s
  BY DEF Partly, Chain
<1>2. /\ DOMAIN units = DOMAIN type_units \cup {sig} /\ units[sig] = r.unit
      /\ \A s \in DOMAIN type_units : s # sig => units[s] = type_units[s]
  BY DEF With
<1>3. PICK vs : /\ Chain("types", vs) /\ Len(vs) \in Nat /\ n + 1 \in 1..Len(vs)
                /\ Len(us) <= Len(vs) /\ vs[n + 1] = r.unit
                /\ \A k \in 1..Len(us) : vs[k] = us[k]
  <2>1. CASE n < Len(us)
    <3>1. n + 1 \in 1..Len(us) /\ (n + 1) - 1 = n
      BY <1>1, <2>1
    <3>2. us[n + 1] = r.unit
      BY <1>1, <3>1 DEF Chain
    <3> QED
      BY <1>1, <3>1, <3>2
  <2>2. CASE ~(n < Len(us))
    <3>1. n = Len(us)
      BY <1>1, <2>2
    <3>2. /\ Chain("types", Append(us, r.unit)) /\ Len(Append(us, r.unit)) = Len(us) + 1
          /\ \A k \in 1..Len(us) : Append(us, r.unit)[k] = us[k]
      BY <1>1, <3>1, ChainGrows
    <3> DEFINE ws == Append(us, r.unit)
    <3>3. ws[Len(us) + 1] = r.unit
      BY <1>1
    <3>4. /\ Chain("types", ws) /\ Len(ws) = Len(us) + 1
          /\ \A k \in 1..Len(us) : ws[k] = us[k]
      BY <3>2
    <3> HIDE DEF ws
    <3>5. Len(ws) \in Nat /\ n + 1 \in 1..Len(ws) /\ Len(us) <= Len(ws) /\ ws[n + 1] = r.unit
      BY <1>1, <3>1, <3>3, <3>4
    <3> QED
      BY <3>4, <3>5
  <2> QED
    BY <2>1, <2>2
<1> HIDE DEF units
<1>4. ASSUME NEW k \in 1..(n + 1) PROVE vs[k].type_signature \in DOMAIN units
  <2>1. CASE k = n + 1
    BY <1>2, <1>3, <2>1
  <2>2. CASE k # n + 1
    <3>1. k \in 1..n /\ k \in 1..Len(us)
      BY <1>1, <2>2
    <3> QED
      BY <1>1, <1>2, <1>3, <3>1
  <2> QED
    BY <2>1, <2>2
<1>5. ASSUME NEW s \in DOMAIN units
      PROVE  \E k \in 1..Len(vs) :
               /\ units[s] = vs[k] /\ vs[k].type_signature = s
               /\ \A j \in (k + 1)..(n + 1) : vs[j].type_signature # s
  <2>1. CASE s = sig
    <3>1. units[s] = vs[n + 1] /\ vs[n + 1].type_signature = s
      BY <1>2, <1>3, <2>1
    <3>2. \A j \in ((n + 1) + 1)..(n + 1) : FALSE
      BY <1>1
    <3> QED
      BY <1>3, <3>1, <3>2
  <2>2. CASE s # sig
    <3>1. s \in DOMAIN type_units /\ units[s] = type_units[s]
      BY <1>2, <2>2
    <3>2. PICK k \in 1..Len(us) :
             /\ type_units[s] = us[k] /\ us[k].type_signature = s
             /\ \A j \in (k + 1)..n : us[j].type_signature # s
      BY <1>1, <3>1
    <3>3. k \in 1..Len(vs) /\ vs[k] = us[k]
      BY <1>1, <1>3, <3>2
    <3>4. ASSUME NEW j \in (k + 1)..(n + 1) PROVE vs[j].type_signature # s
      <4>1. CASE j = n + 1
        BY <1>3, <2>2, <4>1
      <4>2. CASE j # n + 1
        <5>1. j \in (k + 1)..n /\ j \in 1..Len(us)
          BY <1>1, <3>2, <4>2
        <5> QED
          BY <1>3, <3>2, <5>1
      <4> QED
        BY <4>1, <4>2
    <3> QED
      BY <3>1, <3>2, <3>3, <3>4
  <2> QED
    BY <2>1, <2>2
<1>6. Behind(vs, n + 1) = r.unit.next
  BY <1>1, <1>3 DEF Behind
<1>7. n + 1 \in 0..Len(vs)
  BY <1>1, <1>3
<1>8. Partly(vs, n + 1, units)
  BY <1>3, <1>4, <1>5, <1>7 DEF Partly
<1> QED
  BY <1>6, <1>7, <1>8 DEF units

\* A call that starts over.
LEMMA PartlyRestarts ==
  ASSUME NEW us, NEW n, NEW units, Partly(us, n, units)
  PROVE  Partly(us, 0, units)
<1>1. Len(us) \in Nat /\ n \in 0..Len(us)
  BY DEF Partly, Chain
<1>2. ASSUME NEW k \in 1..Len(us), NEW j \in (k + 1)..0 PROVE FALSE
  BY <1>1
<1> QED
  BY <1>1, <1>2 DEF Partly

\* A call that has come to the end.
LEMMA FindIs ==
  ASSUME NEW us, NEW units, Partly(us, Len(us), units), NEW call,
         call.status = "none", {"op", "arg", "status", "unit"} \subseteq DOMAIN call
  PROVE  Find(call, units).status \in {"ok", "out_of_range"} /\ IsAnswer(Find(call, units), us)
  BY DEF Partly, Find, IsAnswer

LEMMA NoUnits ==
  /\ \A kind : Chain(kind, << >>) /\ Behind(<< >>, Len(<< >>)) = 0
  /\ Partly(<< >>, 0, << >>)
<1>1. << >> \in Seq(Unit) /\ Len(<< >>) = 0 /\ DOMAIN << >> = {} /\ 1..0 = {}
  OBVIOUS
<1> QED
  BY <1>1 DEF Chain, Behind, Partly

LEMMA InitRead == Init => ReadInv
<1> SUFFICES ASSUME Init PROVE ReadInv
  OBVIOUS
<1> QED
  BY DEF Init, ReadInv, UnitsRead, TypeUnitsRead, Constructing, Call

\* Calls that read no units.
LEMMA ReadKept ==
  ASSUME ReadInv, UNCHANGED <<file, pc, ord, cur, unitVars>>,
         pc = "idle", answer'.op # "get_type_unit" \/ answer'.status \notin {"ok", "out_of_range"}
  PROVE  ReadInv'
<1>1. pc' = "idle" /\ UNCHANGED <<compilation_units, type_units, have_type_units>>
  BY DEF unitVars
<1>2. /\ \A us : AllUnits("info", us)' <=> AllUnits("info", us)
      /\ \A us : AllUnits("types", us)' <=> AllUnits("types", us)
      /\ \A us, n, units : Partly(us, n, units)' <=> Partly(us, n, units)
  BY SameFile DEF Partly
<1>3. AllUnits("info", compilation_units)'
  BY <1>1, <1>2 DEF ReadInv, UnitsRead
<1> QED
  BY <1>1, <1>2, <1>3 DEF ReadInv, UnitsRead, TypeUnitsRead

LEMMA StepRead == TypeOK /\ ReadInv /\ [Next]_vars => ReadInv'
<1> SUFFICES ASSUME TypeOK, ReadInv, [Next]_vars PROVE ReadInv'
  OBVIOUS
<1>1. /\ file \in Files /\ file.info \in Seq(Bytes) /\ file.types \in Seq(Bytes)
      /\ cur \in Nat
  BY FileIs DEF TypeOK
<1>2. CASE LoadInfo \/ LoadAbbrev
  <2>1. /\ pc \in {"info", "abbrev"} /\ pc' \in {"abbrev", "units", "failed", "wild"}
        /\ UNCHANGED <<cur, unitVars>> /\ answer'.op = "dwarf"
        /\ pc' \in {"abbrev", "units"} => answer' = Constructing
    BY <1>2 DEF LoadInfo, LoadAbbrev, Refuse, ReadInv, Constructing, Call
  <2>2. /\ compilation_units' = << >> /\ cur' = 0
        /\ type_units' = << >> /\ ~have_type_units'
    BY <2>1 DEF ReadInv, unitVars
  <2>3. Chain("info", compilation_units)' /\ Behind(compilation_units, Len(compilation_units))' = 0
    BY <2>2 DEF Chain, Behind
  <2> QED
    BY <2>1, <2>2, <2>3 DEF ReadInv, UnitsRead, TypeUnitsRead
<1>3. CASE NextUnit
  <2> DEFINE r == CompilationUnit(file.info, ord, cur)
  <2>1. /\ pc = "units" /\ cur < SizeOf("info") /\ r = Reading("info", cur)
        /\ Chain("info", compilation_units)
        /\ cur = Behind(compilation_units, Len(compilation_units))
        /\ type_units = << >> /\ ~have_type_units /\ answer = Constructing
    BY <1>3 DEF NextUnit, ReadInv, SizeOf, Reading
  <2>2. r.status = "ok" => r.unit \in Unit
    BY <1>1, CompilationUnitIs
  <2>3. UNCHANGED <<file, ord, type_units, have_type_units>>
    BY <1>3 DEF NextUnit
  <2>4. CASE r.status = "ok"
    <3>1. /\ compilation_units' = Append(compilation_units, r.unit)
          /\ cur' = r.unit.next /\ pc' = pc /\ answer' = answer
      BY <1>3, <2>4 DEF NextUnit
    <3> HIDE DEF r
    <3>2. /\ Chain("info", compilation_units')
          /\ cur' = Behind(compilation_units', Len(compilation_units'))
      BY <2>1, <2>2, <2>4, <3>1, ChainGrows
    <3>3. Chain("info", compilation_units)'
      BY <2>3, <3>2 DEF Chain, Reading, SizeOf
    <3>4. answer'.op = "dwarf"
      BY <2>1, <3>1 DEF Constructing, Call
    <3> QED
      BY <2>1, <2>3, <3>1, <3>2, <3>3, <3>4 DEF ReadInv, UnitsRead, TypeUnitsRead
  <2>5. CASE r.status # "ok"
    <3>1. pc' \in {"failed", "wild"} /\ answer'.op = "dwarf"
      BY <1>3, <2>1, <2>5 DEF NextUnit, Refuse, Constructing, Call
    <3> QED
      BY <3>1 DEF ReadInv, UnitsRead, TypeUnitsRead
  <2> QED
    BY <2>4, <2>5
<1>4. CASE LastUnit
  <2>1. /\ pc = "units" /\ cur >= SizeOf("info") /\ pc' = "idle" /\ answer'.op = "dwarf"
        /\ UNCHANGED <<file, ord, cur, unitVars>>
    BY <1>4 DEF LastUnit, ReadInv, SizeOf, Constructing, Call
  <2>2. AllUnits("info", compilation_units)
    BY <2>1 DEF ReadInv, AllUnits
  <2>3. AllUnits("info", compilation_units)'
    BY <2>1, <2>2, SameFile DEF unitVars
  <2>4. type_units' = << >> /\ ~have_type_units'
    BY <2>1 DEF ReadInv, unitVars
  <2>5. Partly(<< >>, 0, type_units)'
    BY <2>1, <2>4, NoUnits, SameFile DEF Partly
  <2> QED
    BY <2>1, <2>3, <2>4, <2>5 DEF ReadInv, UnitsRead, TypeUnitsRead
<1>5. CASE NextTypeUnit
  <2> DEFINE r == TypeUnit(file.types, ord, cur)
  <2>1. /\ pc = "types" /\ cur < SizeOf("types") /\ r = Reading("types", cur)
        /\ ~have_type_units /\ AllUnits("info", compilation_units)
    BY <1>5 DEF NextTypeUnit, ReadInv, UnitsRead, SizeOf, Reading
  <2>2. PICK us : \E m \in 0..Len(us) : Partly(us, m, type_units) /\ cur = Behind(us, m)
    BY <2>1 DEF ReadInv
  <2>3. PICK n \in 0..Len(us) : Partly(us, n, type_units) /\ cur = Behind(us, n)
    BY <2>2
  <2>4. PICK signature : answer = Call("get_type_unit", signature)
    BY <2>1 DEF ReadInv
  <2>5. /\ r.status = "ok" => r.unit \in Unit
        /\ r.status \in {"ok", "malformed", "wild"}
    BY <1>1, TypeUnitIs
  <2>6. UNCHANGED <<file, ord, compilation_units, have_type_units>>
    BY <1>5 DEF NextTypeUnit
  <2>7. AllUnits("info", compilation_units)'
    BY <2>1, <2>6, SameFile
  <2>8. \A vs, m, units : Partly(vs, m, units)' <=> Partly(vs, m, units)
    BY <2>6, SameFile DEF Partly
  <2>9. CASE r.status = "ok"
    <3>1. /\ type_units' = With(type_units, r.unit.type_signature, r.unit)
          /\ cur' = r.unit.next /\ pc' = pc /\ answer' = answer
      BY <1>5, <2>9 DEF NextTypeUnit
    <3> HIDE DEF r
    <3>2. \E vs : \E m \in 0..Len(vs) : Partly(vs, m, type_units') /\ Behind(vs, m) = cur'
      BY <2>1, <2>3, <2>5, <2>9, <3>1, PartlyStep
    <3>3. \E vs : \E m \in 0..Len(vs) :
             Partly(vs, m, type_units)' /\ cur' = Behind(vs, m)
      BY <2>8, <3>2
    <3>4. answer'.status = "none"
      BY <2>4, <3>1 DEF Call
    <3> QED
      BY <2>1, <2>4, <2>6, <2>7, <3>1, <3>3, <3>4 DEF ReadInv, UnitsRead, TypeUnitsRead, Behind
  <2>10. CASE r.status # "ok"
    <3>1. /\ pc' = IF r.status = "wild" THEN "wild" ELSE "idle"
          /\ answer' = [answer EXCEPT !.status = r.status]
          /\ UNCHANGED <<type_units, cur>>
      BY <1>5, <2>10 DEF NextTypeUnit
    <3>2. answer'.status = r.status
      BY <2>4, <3>1 DEF Call
    <3>3. answer'.status \notin {"ok", "out_of_range"}
      BY <2>5, <2>10, <3>2
    <3> HIDE DEF r
    <3>4. \E vs : Partly(vs, 0, type_units)'
      BY <2>3, <2>8, <3>1, PartlyRestarts
    <3> QED
      BY <2>1, <2>6, <2>7, <3>1, <3>3, <3>4 DEF ReadInv, UnitsRead, TypeUnitsRead
  <2> QED
    BY <2>9, <2>10
<1>6. CASE LastTypeUnit
  <2>1. /\ pc = "types" /\ cur >= SizeOf("types") /\ pc' = "idle" /\ have_type_units'
        /\ answer' = Find(answer, type_units) /\ AllUnits("info", compilation_units)
        /\ UNCHANGED <<file, ord, compilation_units, type_units>>
    BY <1>6 DEF LastTypeUnit, ReadInv, UnitsRead, SizeOf
  <2>2. PICK us : \E m \in 0..Len(us) : Partly(us, m, type_units) /\ cur = Behind(us, m)
    BY <2>1 DEF ReadInv
  <2>3. PICK n \in 0..Len(us) : Partly(us, n, type_units) /\ cur = Behind(us, n)
    BY <2>2
  <2>4. PICK signature : answer = Call("get_type_unit", signature)
    BY <2>1 DEF ReadInv
  <2>5. n = Len(us)
    <3>1. us \in Seq(Unit) /\ Len(us) \in Nat /\ SizeOf("types") \in Nat
      BY <1>1, <2>3, SizeIs DEF Partly, Chain
    <3>2. CASE n # Len(us)
      <4>1. n + 1 \in 1..Len(us) /\ (n + 1) - 1 = n
        BY <2>3, <3>1, <3>2
      <4>2. Behind(us, n) < SizeOf("types")
        BY <2>3, <4>1 DEF Partly, Chain
      <4> QED
        BY <1>1, <2>1, <2>3, <3>1, <4>2
    <3> QED
      BY <3>2
  <2>6. Partly(us, Len(us), type_units) /\ AllUnits("types", us)
    BY <2>1, <2>3, <2>5 DEF AllUnits, Partly
  <2>7. IsAnswer(answer', us)
    BY <2>1, <2>4, <2>6, FindIs DEF Call
  <2>8. /\ \A vs, m, units : Partly(vs, m, units)' <=> Partly(vs, m, units)
        /\ \A vs : AllUnits("types", vs)' <=> AllUnits("types", vs)
    BY <2>1, SameFile DEF Partly
  <2>9. Partly(us, Len(us), type_units)' /\ Partly(us, 0, type_units)' /\ AllUnits("types", us)'
    BY <2>1, <2>6, <2>8, PartlyRestarts
  <2>10. AllUnits("info", compilation_units)'
    BY <2>1, SameFile
  <2>11. IsAnswer(answer, us)'
    BY <2>7 DEF IsAnswer
  <2> QED
    BY <2>1, <2>9, <2>10, <2>11 DEF ReadInv, UnitsRead, TypeUnitsRead
<1>7. ASSUME NEW s \in Signatures, GetTypeUnit(s) PROVE ReadInv'
  <2>1. /\ pc = "idle" /\ UNCHANGED <<file, ord, unitVars>>
        /\ AllUnits("info", compilation_units)
    BY <1>7 DEF GetTypeUnit, ReadInv, UnitsRead
  <2>2. /\ \A vs, m, units : Partly(vs, m, units)' <=> Partly(vs, m, units)
        /\ \A kind, vs : AllUnits(kind, vs)' <=> AllUnits(kind, vs)
    BY <2>1, SameFile DEF Partly
  <2>3. AllUnits("info", compilation_units)'
    BY <2>1, <2>2 DEF unitVars
  <2>4. CASE have_type_units
    <3>1. answer' = Find(Call("get_type_unit", s), type_units) /\ pc' = pc
      BY <1>7, <2>4 DEF GetTypeUnit
    <3>2. PICK us : Partly(us, Len(us), type_units) /\ AllUnits("types", us)
      BY <2>1, <2>4 DEF ReadInv
    <3>3. IsAnswer(answer', us)
      BY <3>1, <3>2, FindIs DEF Call
    <3>4. IsAnswer(answer, us)'
      BY <3>3 DEF IsAnswer
    <3>5. Partly(us, Len(us), type_units)' /\ Partly(us, 0, type_units)' /\ AllUnits("types", us)'
      BY <2>1, <2>2, <3>2, PartlyRestarts DEF unitVars
    <3> QED
      BY <2>1, <2>3, <3>1, <3>4, <3>5 DEF ReadInv, UnitsRead, TypeUnitsRead
  <2>5. CASE ~have_type_units
    <3>1. PICK status \in Statuses :
             IF status = "ok" THEN pc' = "types" /\ cur' = 0 /\ answer' = Call("get_type_unit", s)
             ELSE /\ answer' = [Call("get_type_unit", s) EXCEPT !.status = status]
                  /\ UNCHANGED <<pc, cur>>
      BY <1>7, <2>5 DEF GetTypeUnit
    <3>2. CASE status = "ok"
      <4>1. pc' = "types" /\ cur' = 0 /\ answer' = Call("get_type_unit", s)
        BY <3>1, <3>2
      <4>2. PICK us : Partly(us, 0, type_units)
        BY <2>1 DEF ReadInv
      <4>3. Partly(us, 0, type_units)' /\ cur' = Behind(us, 0) /\ 0 \in 0..Len(us)
        <5>1. type_units' = type_units
          BY <2>1 DEF unitVars
        <5>2. Partly(us, 0, type_units)'
          BY <2>2, <4>2, <5>1
        <5>3. 0 \in 0..Len(us)
          BY <4>2 DEF Partly
        <5>4. cur' = Behind(us, 0)
          BY <4>1 DEF Behind
        <5> QED
          BY <5>2, <5>3, <5>4
      <4>4. answer'.status = "none"
        BY <4>1 DEF Call
      <4>5. \E vs : \E m \in 0..Len(vs) : Partly(vs, m, type_units)' /\ cur' = Behind(vs, m)
        BY <4>3
      <4> QED
        BY <2>1, <2>3, <2>5, <4>1, <4>4, <4>5
        DEF ReadInv, UnitsRead, TypeUnitsRead, unitVars, Behind
    <3>3. CASE status # "ok"
      <4>1. answer'.status \notin {"ok", "out_of_range"} /\ UNCHANGED <<pc, cur>>
        BY <3>1, <3>3 DEF Call, Statuses
      <4> QED
        BY <2>1, <4>1, ReadKept
    <3> QED
      BY <3>2, <3>3
  <2> QED
    BY <2>4, <2>5
<1>8. ASSUME NEW k \in DOMAIN compilation_units, ReadRoot(k) \/ GetLineTable(k)
      PROVE  ReadInv'
  <2>1. answer'.op \in {"root", "get_line_table"}
    BY <1>8 DEF ReadRoot, GetLineTable, Call
  <2>2. /\ UNCHANGED <<file, ord, cur, unitVars>>
        /\ pc = "idle" /\ pc' \in {"idle", "wild"}
    BY <1>8 DEF ReadRoot, GetLineTable
  <2>3. CASE pc' = "idle"
    BY <2>1, <2>2, <2>3, ReadKept
  <2>4. CASE pc' = "wild"
    BY <2>1, <2>2, <2>4 DEF ReadInv, UnitsRead, TypeUnitsRead
  <2> QED
    BY <2>2, <2>3, <2>4
<1>9. ASSUME NEW t \in SectionType, UseSection(t) PROVE ReadInv'
  <2>1. answer'.op = "get_section"
    BY <1>9 DEF UseSection, Call
  <2> QED
    BY <1>9, <2>1, ReadKept DEF UseSection
<1>10. CASE UNCHANGED vars \/ Stopped
  <2>1. UNCHANGED vars
    BY <1>10 DEF Stopped
  <2>2. UNCHANGED <<file, ord, pc, cur, compilation_units, type_units, have_type_units, answer>>
    BY <2>1 DEF vars
  <2>3. /\ \A vs, m, units : Partly(vs, m, units)' <=> Partly(vs, m, units)
        /\ \A kind, vs : AllUnits(kind, vs)' <=> AllUnits(kind, vs)
        /\ \A kind, vs : Chain(kind, vs)' <=> Chain(kind, vs)
    BY <2>2, SameFile DEF Partly
  <2> QED
    BY <2>2, <2>3 DEF ReadInv, UnitsRead, TypeUnitsRead
<1> QED
  BY <1>2, <1>3, <1>4, <1>5, <1>6, <1>7, <1>8, <1>9, <1>10 DEF Next, Client, Library

\* The byte order is that of the first unit.
OrderRead == pc \in {"abbrev", "units", "idle", "types"} => ord = Sniff(file.info)

LEMMA StepOrder == OrderRead /\ [Next]_vars => OrderRead'
<1> SUFFICES ASSUME OrderRead, [Next]_vars PROVE OrderRead'
  OBVIOUS
<1>1. CASE LoadInfo
  BY <1>1 DEF LoadInfo, Refuse, OrderRead
<1>2. CASE LoadAbbrev
  BY <1>2 DEF LoadAbbrev, OrderRead
<1>3. CASE NextUnit \/ LastUnit \/ NextTypeUnit \/ LastTypeUnit
  <2>1. pc \in {"units", "types"} /\ UNCHANGED <<file, ord>>
    BY <1>3 DEF NextUnit, LastUnit, NextTypeUnit, LastTypeUnit
  <2> QED
    BY <2>1 DEF OrderRead
<1>4. CASE Client
  <2>1. pc = "idle" /\ UNCHANGED <<file, ord>>
    BY <1>4 DEF Client, GetTypeUnit, ReadRoot, GetLineTable, UseSection
  <2> QED
    BY <2>1 DEF OrderRead
<1>5. CASE UNCHANGED vars \/ Stopped
  BY <1>5 DEF vars, Stopped, OrderRead
<1> QED
  BY <1>1, <1>2, <1>3, <1>4, <1>5 DEF Next, Library

LEMMA ReadInvariant == Spec => [](TypeOK /\ ReadInv /\ OrderRead)
<1>1. Init => OrderRead
  BY DEF Init, OrderRead
<1> QED
  BY <1>1, InitTypes, StepTypes, InitRead, StepRead, StepOrder, PTL DEF Spec

\* A file that has been opened knows all units of .debug_info, in the byte order
\* of the first, each read where the one before it ends (dwarf.cc:33-75).
THEOREM UnitsCorrect == Spec => [](UnitsRead /\ OrderRead)
<1>1. ReadInv => UnitsRead
  BY DEF ReadInv
<1> QED
  BY <1>1, ReadInvariant, PTL

\* Whatever get_type_unit answers, after whichever calls that failed half way and
\* left units in the map, is about all units of .debug_types: the last one with
\* the signature, or that none has it (dwarf.cc:90-106).
THEOREM TypeUnitsCorrect == Spec => []TypeUnitsRead
<1>1. ReadInv => TypeUnitsRead
  BY DEF ReadInv
<1> QED
  BY <1>1, ReadInvariant, PTL

\* A loop over units moves its cursor forward in each iteration: why it ends,
\* also when the lengths of units are negative as distances (dwarf.cc:67-74,
\* 95-100).
THEOREM CursorAdvances ==
  Spec => [][(pc \in {"units", "types"} /\ pc' = pc) => cur' > cur]_vars
<1>1. TypeOK /\ [Next]_vars => [(pc \in {"units", "types"} /\ pc' = pc) => cur' > cur]_vars
  <2> SUFFICES ASSUME TypeOK, Next, pc \in {"units", "types"}, pc' = pc, vars' # vars
               PROVE  cur' > cur
    OBVIOUS
  <2>1. /\ file.info \in Seq(Bytes) /\ file.types \in Seq(Bytes) /\ cur \in Nat
    BY FileIs DEF TypeOK
  <2>2. NextUnit \/ NextTypeUnit
    BY DEF Next, Client, Library, Stopped, GetTypeUnit, ReadRoot, GetLineTable, UseSection,
           LoadInfo, LoadAbbrev, LastUnit, LastTypeUnit
  <2>3. CASE NextUnit
    <3> DEFINE r == CompilationUnit(file.info, ord, cur)
    <3>1. r.status = "ok" => r.unit.next > cur
      BY <2>1, CompilationUnitIs
    <3>2. r.status = "ok" /\ cur' = r.unit.next
      BY <2>3 DEF NextUnit, Refuse
    <3> QED
      BY <3>1, <3>2
  <2>4. CASE NextTypeUnit
    <3> DEFINE r == TypeUnit(file.types, ord, cur)
    <3>1. r.status = "ok" => r.unit.next > cur
      BY <2>1, TypeUnitIs
    <3>2. r.status = "ok" /\ cur' = r.unit.next
      BY <2>4 DEF NextTypeUnit
    <3> QED
      BY <3>1, <3>2
  <2> QED
    BY <2>2, <2>3, <2>4
<1> QED
  BY <1>1, InitTypes, StepTypes, PTL DEF Spec

-----------------------------------------------------------------------------
(* Line tables.                                                            *)

\* What is cached is in the file, and units have line tables that they should
\* have.
LinesInv ==
  /\ DOMAIN sections \subseteq file.has
  /\ \A k \in half_roots : "half_read" \in file.roots[k]
  /\ \A k \in lines :
       /\ {"stmt_list", "name"} \subseteq file.roots[k] /\ "line" \in file.has
       /\ "unreadable" \notin file.roots[k]
       /\ "half_read" \in file.roots[k] => k \in half_roots
       /\ "bad_table" \in file.roots[k] => Lost(k)
  /\ LineTablesExact

\* What get_section finds out is about the file.
LEMMA GetSectionKeeps ==
  ASSUME LinesInv, NEW t \in SectionType \ {"info", "abbrev"}, NEW status \in Statuses,
         GetSection(t, status)
  PROVE  /\ DOMAIN sections' \subseteq file.has
         /\ status = "ok" => t \in file.has
         /\ status = "malformed" => t \notin file.has
<1>1. CASE t \in DOMAIN sections
  BY <1>1 DEF GetSection, LinesInv
<1>2. CASE t \notin DOMAIN sections
  <2>1. status \in LoadStatus(t)
    BY <1>2 DEF GetSection
  <2>2. sections' = IF status = "ok" THEN With(sections, t, [type |-> "str", ord |-> ord])
                    ELSE sections
    BY <1>2 DEF GetSection
  <2>3. DOMAIN With(sections, t, [type |-> "str", ord |-> ord]) = DOMAIN sections \cup {t}
    BY DEF With
  <2> QED
    BY <2>1, <2>2, <2>3 DEF LoadStatus, LinesInv
<1> QED
  BY <1>1, <1>2

LEMMA OpIs ==
  ASSUME NEW op, NEW arg, NEW units
  PROVE  /\ Call(op, arg).op = op /\ Find(Call(op, arg), units).op = op
         /\ \A status : [Call(op, arg) EXCEPT !.status = status].op = op
<1> DEFINE call == Call(op, arg)
<1>1. Find(call, units) \in {[call EXCEPT !.status = "ok", !.unit = units[call.arg]],
                            [call EXCEPT !.status = "out_of_range"]}
  BY DEF Find
<1>2. \A u : [call EXCEPT !.status = "ok", !.unit = u].op = op
  BY DEF Call
<1>3. \A status : [call EXCEPT !.status = status].op = op
  BY DEF Call
<1>4. Call(op, arg).op = op
  BY DEF Call
<1> HIDE DEF call
<1> QED
  BY <1>1, <1>2, <1>3, <1>4 DEF call

LEMMA StepLines == LinesInv /\ ReadInv /\ [Next]_vars => LinesInv'
<1> SUFFICES ASSUME LinesInv, ReadInv, [Next]_vars PROVE LinesInv'
  OBVIOUS
<1>1. ASSUME UNCHANGED <<file, sections, lines, half_roots>>, answer'.op # "get_line_table"
      PROVE  LinesInv'
  BY <1>1 DEF LinesInv, LineTablesExact, Lost
<1>2. CASE Library
  <2>1. UNCHANGED <<file, sections, lines, half_roots>>
    BY <1>2 DEF Library, LoadInfo, LoadAbbrev, NextUnit, LastUnit, NextTypeUnit, LastTypeUnit
  <2>2. answer = Constructing \/ \E signature : answer = Call("get_type_unit", signature)
    <3>1. pc \in {"info", "abbrev", "units", "types"}
      BY <1>2 DEF Library, LoadInfo, LoadAbbrev, NextUnit, LastUnit, NextTypeUnit, LastTypeUnit
    <3> QED
      BY <3>1 DEF ReadInv
  <2>3. \/ answer' = answer \/ (\E status : answer' = [answer EXCEPT !.status = status])
        \/ answer' = Find(answer, type_units)
    BY <1>2 DEF Library, LoadInfo, LoadAbbrev, NextUnit, LastUnit, NextTypeUnit, LastTypeUnit,
                Refuse
  <2>4. answer'.op \in {"dwarf", "get_type_unit"}
    <3>1. PICK op \in {"dwarf", "get_type_unit"} : \E arg : answer = Call(op, arg)
      BY <2>2, Zenon DEF Constructing
    <3>2. PICK arg : answer = Call(op, arg)
      BY <3>1
    <3>3. /\ answer.op = op /\ Find(answer, type_units).op = op
          /\ \A status : [answer EXCEPT !.status = status].op = op
      <4>1. /\ Call(op, arg).op = op /\ Find(Call(op, arg), type_units).op = op
            /\ \A status : [Call(op, arg) EXCEPT !.status = status].op = op
        BY OpIs
      <4> QED
        BY <3>2, <4>1
    <3>4. answer'.op = op
      <4>1. CASE answer' = answer
        BY <3>3, <4>1
      <4>2. CASE \E status : answer' = [answer EXCEPT !.status = status]
        <5>1. PICK status : answer' = [answer EXCEPT !.status = status]
          BY <4>2
        <5> QED
          BY <3>3, <5>1
      <4>3. CASE answer' = Find(answer, type_units)
        BY <3>3, <4>3
      <4> QED
        BY <2>3, <4>1, <4>2, <4>3
    <3> QED
      BY <3>1, <3>4
  <2> QED
    BY <1>1, <2>1, <2>4
<1>3. ASSUME NEW s \in Signatures, GetTypeUnit(s) PROVE LinesInv'
  <2>1. UNCHANGED <<file, lines, half_roots>>
    BY <1>3 DEF GetTypeUnit
  <2>2. answer'.op = "get_type_unit"
    <3>1. \/ answer' = Find(Call("get_type_unit", s), type_units)
          \/ answer' = Call("get_type_unit", s)
          \/ \E status : answer' = [Call("get_type_unit", s) EXCEPT !.status = status]
      BY <1>3 DEF GetTypeUnit
    <3>2. /\ Call("get_type_unit", s).op = "get_type_unit"
          /\ Find(Call("get_type_unit", s), type_units).op = "get_type_unit"
          /\ \A status :
               [Call("get_type_unit", s) EXCEPT !.status = status].op = "get_type_unit"
      BY OpIs
    <3>3. CASE answer' = Find(Call("get_type_unit", s), type_units)
      BY <3>2, <3>3
    <3>4. CASE answer' = Call("get_type_unit", s)
      BY <3>2, <3>4
    <3>5. CASE \E status : answer' = [Call("get_type_unit", s) EXCEPT !.status = status]
      <4>1. PICK status : answer' = [Call("get_type_unit", s) EXCEPT !.status = status]
        BY <3>5
      <4> QED
        BY <3>2, <4>1
    <3> QED
      BY <3>1, <3>3, <3>4, <3>5
  <2>3. \/ UNCHANGED sections
        \/ \E status \in Statuses : GetSection("types", status)
    BY <1>3 DEF GetTypeUnit
  <2>4. DOMAIN sections' \subseteq file.has
    <3>1. CASE UNCHANGED sections
      BY <3>1 DEF LinesInv
    <3> QED
      BY <2>3, <3>1, GetSectionKeeps DEF SectionType
  <2> QED
    BY <2>1, <2>2, <2>4 DEF LinesInv, LineTablesExact, Lost
<1>4. ASSUME NEW k \in DOMAIN compilation_units, GetLineTable(k) PROVE LinesInv'
  <2> DEFINE facts == file.roots[k]
             Answer(status) == answer' = [Call("get_line_table", k) EXCEPT !.status = status]
  <2>1. UNCHANGED file
    BY <1>4 DEF GetLineTable
  <2>2. \A status : Answer(status) =>
           answer'.op = "get_line_table" /\ answer'.arg = k /\ answer'.status = status
    BY DEF Call
  <2>3. CASE k \in lines
    <3>1. Answer("ok") /\ UNCHANGED <<sections, lines, half_roots>>
      BY <1>4, <2>3 DEF GetLineTable
    <3>2. LineTablesExact'
      BY <2>1, <2>2, <2>3, <3>1 DEF LinesInv, LineTablesExact, Lost
    <3> QED
      BY <2>1, <3>1, <3>2 DEF LinesInv, Lost
  <2>4. ASSUME k \notin lines, InstallRoot(k), DOMAIN sections' \subseteq file.has,
               lines' \in {lines, lines \cup {k}},
               k \in lines' => /\ {"stmt_list", "name"} \subseteq facts /\ "line" \in file.has
                               /\ "unreadable" \notin facts
                               /\ "half_read" \in facts => k \in half_roots
                               /\ "bad_table" \in facts => Lost(k),
               LineTablesExact'
        PROVE  LinesInv'
    <3>1. half_roots \subseteq half_roots'
      BY <2>4 DEF InstallRoot
    <3>2. \A j : Lost(j) => Lost(j)'
      BY <2>1, <3>1 DEF Lost
    <3>3. \A j \in half_roots' : "half_read" \in file.roots[j]
      BY <2>4 DEF InstallRoot, LinesInv
    <3> QED
      BY <2>1, <2>4, <3>1, <3>2, <3>3 DEF LinesInv
  <2>5. CASE k \notin lines /\ (RootThrows(k) \/ ~HasAttributes(k))
    <3>1. /\ Answer(IF RootThrows(k) THEN "malformed" ELSE "no_table")
          /\ InstallRoot(k) /\ UNCHANGED <<sections, lines>>
      BY <1>4, <2>5 DEF GetLineTable
    <3>2. LineTablesExact'
      BY <2>1, <2>2, <2>5, <3>1 DEF LineTablesExact, RootThrows, HasAttributes
    <3> QED
      BY <2>4, <2>5, <3>1, <3>2 DEF LinesInv
  <2>6. CASE k \notin lines /\ ~RootThrows(k) /\ HasAttributes(k)
    <3>1. PICK status \in Statuses, built \in Built(k) :
             /\ GetSection("line", status)
             /\ Answer(CASE status = "ok" -> built
                         [] status = "malformed" -> "no_table"
                         [] OTHER -> status)
             /\ lines' = IF status = "ok" /\ built = "ok" THEN lines \cup {k} ELSE lines
      BY <1>4, <2>6 DEF GetLineTable
    <3>2. InstallRoot(k)
      BY <1>4, <2>6 DEF GetLineTable
    <3>3. /\ DOMAIN sections' \subseteq file.has
          /\ status = "ok" => "line" \in file.has
          /\ status = "malformed" => "line" \notin file.has
      BY <3>1, GetSectionKeeps DEF SectionType
    <3>4. /\ {"stmt_list", "name"} \subseteq facts /\ "unreadable" \notin facts
          /\ "half_read" \in facts => k \in half_roots
      BY <2>6 DEF RootThrows, HasAttributes
    <3>5. UNCHANGED half_roots
      BY <3>2, <3>4 DEF InstallRoot
    <3>6. UNCHANGED <<facts, Lost(k)>>
      BY <2>1, <3>5 DEF Lost
    <3>7. /\ built \in {"ok", "malformed", "wild"}
          /\ built = "wild" => Lost(k)
          /\ built = "malformed" => Lost(k) \/ "bad_table" \in facts
          /\ built = "ok" => Lost(k) \/ "bad_table" \notin facts
      BY <3>1 DEF Built
    <3>8. /\ answer'.op = "get_line_table" /\ answer'.arg = k
          /\ answer'.status = CASE status = "ok" -> built
                                [] status = "malformed" -> "no_table"
                                [] OTHER -> status
      BY <2>2, <3>1
    <3>9. \/ status = "ok" /\ answer'.status = built
          \/ status = "malformed" /\ answer'.status = "no_table"
          \/ status = "loader_error" /\ answer'.status = "loader_error"
      BY <3>8 DEF Statuses
    <3>10. LineTablesExact'
      <4>1. CASE answer'.status = "ok"
        BY <2>1, <3>3, <3>4, <3>5, <3>6, <3>7, <3>8, <3>9, <4>1 DEF LineTablesExact
      <4>2. CASE answer'.status = "malformed"
        <5>1. Lost(k) => "half_read" \in facts
          BY DEF Lost, LinesInv
        <5> QED
          BY <2>1, <3>7, <3>8, <3>9, <4>2, <5>1 DEF LineTablesExact
      <4>3. CASE answer'.status \notin {"ok", "malformed"}
        BY <2>1, <3>3, <3>4, <3>6, <3>7, <3>8, <3>9, <4>3 DEF LineTablesExact
      <4> QED
        BY <4>1, <4>2, <4>3
    <3> QED
      BY <2>4, <2>6, <3>1, <3>2, <3>3, <3>4, <3>7, <3>10
  <2> QED
    BY <2>3, <2>5, <2>6
<1>5. ASSUME NEW t \in SectionType, UseSection(t) PROVE LinesInv'
  <2>1. PICK status \in Statuses : GetSection(t, status)
    BY <1>5 DEF UseSection
  <2>2. UNCHANGED <<file, lines, half_roots>> /\ answer'.op = "get_section"
    BY <1>5 DEF UseSection, Call
  <2>3. DOMAIN sections' \subseteq file.has
    <3>1. CASE t \in {"info", "abbrev"}
      BY <2>1, <3>1 DEF GetSection, LinesInv
    <3> QED
      BY <2>1, <3>1, GetSectionKeeps
  <2> QED
    BY <2>2, <2>3 DEF LinesInv, LineTablesExact, Lost
<1>6. ASSUME NEW k \in DOMAIN compilation_units, ReadRoot(k) PROVE LinesInv'
  <2>1. /\ UNCHANGED <<file, sections, lines>> /\ half_roots \subseteq half_roots'
        /\ \A j \in half_roots' : "half_read" \in file.roots[j]
    BY <1>6 DEF ReadRoot, InstallRoot, LinesInv
  <2>2. answer'.op = "root"
    BY <1>6 DEF ReadRoot, Call
  <2>3. \A j : Lost(j) => Lost(j)'
    BY <2>1 DEF Lost
  <2> QED
    BY <2>1, <2>2, <2>3 DEF LinesInv, LineTablesExact
<1>7. CASE UNCHANGED vars \/ Stopped
  BY <1>7 DEF vars, Stopped, LinesInv, LineTablesExact, Lost
<1> QED
  BY <1>2, <1>3, <1>4, <1>5, <1>6, <1>7 DEF Next, Client

\* A unit is said to have no line table only if its root DIE or the file lacks
\* what a line table needs, however often reading one has failed, and it has one
\* only when a root that cannot be read to its end has made a call throw: also
\* behind calls that left the root half read (dwarf.cc:189-197, 298-321).
THEOREM LineTablesCorrect == Spec => []LineTablesExact
<1>1. Init => LinesInv
  <2>1. DOMAIN << >> = {}
    OBVIOUS
  <2> QED
    BY <2>1 DEF Init, LinesInv, LineTablesExact, Constructing, Call
<1>2. LinesInv => LineTablesExact
  BY DEF LinesInv
<1> QED
  BY <1>1, <1>2, ReadInvariant, StepLines, PTL DEF Spec
=============================================================================
