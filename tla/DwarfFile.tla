------------------------------ MODULE DwarfFile ------------------------------
(***************************************************************************)
(* dwarf::dwarf: a file, its sections and its units.                       *)
(*                                                                         *)
(* The constructor finds the compilation units; everything else is read    *)
(* when it is first asked for and kept: sections, the table of type units, *)
(* and the line table of each unit.  A client asks in any order.  A call   *)
(* can fail on its way, because the file is malformed or because the loader*)
(* cannot load a section this time, and leaves what it has got that far;   *)
(* the client may catch the exception and call again.                      *)
(*                                                                         *)
(* What the root DIE of a unit says comes from the file as a set of facts: *)
(* DieTree has how it is read.                                             *)
(***************************************************************************)
EXTENDS UnitHeaders, FiniteSets

CONSTANTS
  Files,        \* the files
  Signatures    \* the type signatures the client asks for

\* A file: the sections it has, the bytes of two of them, and for the root DIE
\* of each compilation unit
\*   whether its abbreviation names DW_AT_stmt_list and DW_AT_name,
\*   whether reading it throws before there is an abbreviation ("unreadable") or
\*   at one of its attributes ("half_read"), and then whether an attribute that
\*   a line table needs lies behind that one ("unread"),
\*   whether such an attribute or the header of the line table throws when it is
\*   used ("bad_table").
SectionType == {"info", "abbrev", "types", "line", "str"}
RootFact == {"stmt_list", "name", "unreadable", "half_read", "unread", "bad_table"}
ASSUME FilesAssumption ==
  \A f \in Files :
    /\ f.has \subseteq SectionType
    /\ f.info \in Seq(0..(Base - 1)) /\ f.types \in Seq(0..(Base - 1))
    /\ f.roots \in Seq(SUBSET RootFact)
ASSUME SignaturesAssumption == Signatures \subseteq Nat

VARIABLES
  file,                \* the file, chosen once
  pc,                  \* what the library is doing
  ord,                 \* the byte order
  cur,                 \* the cursor that goes from unit to unit
  compilation_units,
  type_units,          \* units by signature
  have_type_units,
  sections,            \* the cached sections
  lines,               \* the compilation units that have their line table
  half_roots,          \* those whose root DIE is in place but was not read to its end
  loads,               \* how often the loader has loaded each section
  answer               \* the outcome of the last call

unitVars == <<compilation_units, type_units, have_type_units>>
vars == <<file, pc, ord, cur, compilation_units, type_units, have_type_units,
          sections, lines, half_roots, loads, answer>>

\* The map with a value for a key, new or replaced.
With(map, key, value) ==
  [k \in DOMAIN map \cup {key} |-> IF k = key THEN value ELSE map[k]]

Call(op, arg) == [op |-> op, arg |-> arg, status |-> "none", unit |-> NoUnit]
Constructing == Call("dwarf", 0)

Init ==
  /\ file \in Files
  /\ pc = "info" /\ ord = "lsb" /\ cur = 0
  /\ compilation_units = << >> /\ type_units = << >> /\ have_type_units = FALSE
  /\ sections = << >> /\ lines = {} /\ half_roots = {}
  /\ loads = [t \in SectionType |-> 0]
  /\ answer = Constructing

-----------------------------------------------------------------------------
(* Sections.                                                               *)

\* How loader::load can end: with the data, with nullptr when there is no such
\* section, or with an exception of its own.
LoadStatus(t) == IF t \in file.has THEN {"ok", "loader_error"} ELSE {"malformed"}
Loads(t, status) ==
  loads' = IF status = "ok" THEN [loads EXCEPT ![t] = @ + 1] ELSE loads

\* Mutant: does not look into the cache.
GetSection_Uncached(t, status) ==
  /\ status \in LoadStatus(t) /\ Loads(t, status)
  /\ sections' = IF status = "ok" THEN With(sections, t, [type |-> "str", ord |-> ord])
                 ELSE sections

\* dwarf::get_section.  Whatever its type, a section is cached as a string
\* section.
GetSection(t, status) ==
  IF t \in {"info", "abbrev"} \cup DOMAIN sections
  THEN status = "ok" /\ UNCHANGED <<sections, loads>>
  ELSE /\ status \in LoadStatus(t) /\ Loads(t, status)
       /\ sections' = IF status = "ok" THEN With(sections, t, [type |-> "str", ord |-> ord])
                      ELSE sections

Statuses == {"ok", "malformed", "loader_error"}

-----------------------------------------------------------------------------
(* The constructor.                                                        *)

\* An exception from the constructor leaves no object.  After a read behind
\* the end of the data anything may happen.
Refuse(status) ==
  /\ pc' = IF status = "wild" THEN "wild" ELSE "failed"
  /\ answer' = [answer EXCEPT !.status = status]

\* .debug_info is required, and tells the byte order.
LoadInfo ==
  /\ pc = "info"
  /\ \E status \in LoadStatus("info") :
       /\ Loads("info", status)
       /\ IF status = "ok" /\ CanSniff(file.info)
          THEN ord' = Sniff(file.info) /\ pc' = "abbrev" /\ UNCHANGED answer
          ELSE /\ Refuse(IF status = "ok" THEN "malformed" ELSE status)
               /\ UNCHANGED ord
  /\ UNCHANGED <<file, cur, unitVars, sections, lines, half_roots>>

\* So is .debug_abbrev.
LoadAbbrev ==
  /\ pc = "abbrev"
  /\ \E status \in LoadStatus("abbrev") :
       /\ Loads("abbrev", status)
       /\ IF status = "ok" THEN pc' = "units" /\ UNCHANGED answer ELSE Refuse(status)
  /\ UNCHANGED <<file, ord, cur, unitVars, sections, lines, half_roots>>

NextUnit ==
  /\ pc = "units" /\ cur < Len(file.info)
  /\ LET r == CompilationUnit(file.info, ord, cur)
     IN  IF r.status = "ok"
         THEN /\ compilation_units' = Append(compilation_units, r.unit)
              /\ cur' = r.unit.next
              /\ UNCHANGED <<pc, answer>>
         ELSE Refuse(r.status) /\ UNCHANGED <<compilation_units, cur>>
  /\ UNCHANGED <<file, ord, type_units, have_type_units, sections, lines, half_roots, loads>>

LastUnit ==
  /\ pc = "units" /\ cur >= Len(file.info)
  /\ pc' = "idle" /\ answer' = [answer EXCEPT !.status = "ok"]
  /\ UNCHANGED <<file, ord, cur, unitVars, sections, lines, half_roots, loads>>

-----------------------------------------------------------------------------
(* Type units.                                                             *)

\* The end of get_type_unit.
Find(call, units) ==
  IF call.arg \in DOMAIN units
  THEN [call EXCEPT !.status = "ok", !.unit = units[call.arg]]
  ELSE [call EXCEPT !.status = "out_of_range"]

\* Mutant: the flag is set when the table has been started.
GetTypeUnit_Early(signature) ==
  /\ pc = "idle"
  /\ LET call == Call("get_type_unit", signature)
     IN  IF have_type_units \/ type_units # << >>
         THEN answer' = Find(call, type_units) /\ UNCHANGED <<pc, cur, sections, loads>>
         ELSE \E status \in Statuses :
                /\ GetSection("types", status)
                /\ IF status = "ok" THEN pc' = "types" /\ cur' = 0 /\ answer' = call
                   ELSE answer' = [call EXCEPT !.status = status] /\ UNCHANGED <<pc, cur>>
  /\ UNCHANGED <<file, ord, unitVars, lines, half_roots>>

\* dwarf::get_type_unit.  The first call reads all type units.
GetTypeUnit(signature) ==
  /\ pc = "idle"
  /\ LET call == Call("get_type_unit", signature)
     IN  IF have_type_units
         THEN answer' = Find(call, type_units) /\ UNCHANGED <<pc, cur, sections, loads>>
         ELSE \E status \in Statuses :
                /\ GetSection("types", status)
                /\ IF status = "ok" THEN pc' = "types" /\ cur' = 0 /\ answer' = call
                   ELSE answer' = [call EXCEPT !.status = status] /\ UNCHANGED <<pc, cur>>
  /\ UNCHANGED <<file, ord, unitVars, lines, half_roots>>

\* Mutant: an iteration of the loop does not move the cursor.
NextTypeUnit_Stays ==
  /\ pc = "types" /\ cur < Len(file.types)
  /\ LET r == TypeUnit(file.types, ord, cur)
     IN  IF r.status = "ok"
         THEN /\ type_units' = With(type_units, r.unit.type_signature, r.unit)
              /\ UNCHANGED <<cur, pc, answer>>
         ELSE /\ pc' = IF r.status = "wild" THEN "wild" ELSE "idle"
              /\ answer' = [answer EXCEPT !.status = r.status]
              /\ UNCHANGED <<type_units, cur>>
  /\ UNCHANGED <<file, ord, compilation_units, have_type_units, sections, lines, half_roots, loads>>

\* Mutant: the table is keyed by the offset of the unit.
NextTypeUnit_ByOffset ==
  /\ pc = "types" /\ cur < Len(file.types)
  /\ LET r == TypeUnit(file.types, ord, cur)
     IN  IF r.status = "ok"
         THEN /\ type_units' = With(type_units, r.unit.offset, r.unit)
              /\ cur' = r.unit.next
              /\ UNCHANGED <<pc, answer>>
         ELSE /\ pc' = IF r.status = "wild" THEN "wild" ELSE "idle"
              /\ answer' = [answer EXCEPT !.status = r.status]
              /\ UNCHANGED <<type_units, cur>>
  /\ UNCHANGED <<file, ord, compilation_units, have_type_units, sections, lines, half_roots, loads>>

\* A later unit takes the place of an earlier one of the same signature.  A
\* unit that cannot be constructed ends the call; those before it stay, and
\* the next call starts over.
NextTypeUnit ==
  /\ pc = "types" /\ cur < Len(file.types)
  /\ LET r == TypeUnit(file.types, ord, cur)
     IN  IF r.status = "ok"
         THEN /\ type_units' = With(type_units, r.unit.type_signature, r.unit)
              /\ cur' = r.unit.next
              /\ UNCHANGED <<pc, answer>>
         ELSE /\ pc' = IF r.status = "wild" THEN "wild" ELSE "idle"
              /\ answer' = [answer EXCEPT !.status = r.status]
              /\ UNCHANGED <<type_units, cur>>
  /\ UNCHANGED <<file, ord, compilation_units, have_type_units, sections, lines, half_roots, loads>>

LastTypeUnit ==
  /\ pc = "types" /\ cur >= Len(file.types)
  /\ have_type_units' = TRUE
  /\ pc' = "idle" /\ answer' = Find(answer, type_units)
  /\ UNCHANGED <<file, ord, cur, compilation_units, type_units, sections, lines, half_roots, loads>>

-----------------------------------------------------------------------------
(* Line tables.                                                            *)

\* unit::root puts the DIE in its place and then reads it.  When reading throws
\* behind the abbreviation, the DIE stays and is valid: from the next call on it
\* counts as read.
RootThrows(k) ==
  \/ "unreadable" \in file.roots[k]
  \/ "half_read" \in file.roots[k] /\ k \notin half_roots
InstallRoot(k) ==
  half_roots' = IF "half_read" \in file.roots[k] THEN half_roots \cup {k} ELSE half_roots

ReadRoot(k) ==
  /\ pc = "idle"
  /\ InstallRoot(k)
  /\ answer' = [Call("root", k) EXCEPT !.status = IF RootThrows(k) THEN "malformed" ELSE "ok"]
  /\ UNCHANGED <<file, pc, ord, cur, unitVars, sections, lines, loads>>

\* Mutant: an attribute without a position is not there.
HasAttributes_WithPosition(k) ==
  {"stmt_list", "name"} \subseteq file.roots[k] /\ ~("unread" \in file.roots[k])

\* die::has asks the abbreviation, not what has been read.
HasAttributes(k) == {"stmt_list", "name"} \subseteq file.roots[k]

\* operator[] takes the position of an attribute from memory that has not been
\* written.
Lost(k) == k \in half_roots /\ "unread" \in file.roots[k]

\* How the construction of a line table can end.
Built(k) ==
  IF Lost(k) THEN {"ok", "malformed", "wild"}
  ELSE IF "bad_table" \in file.roots[k] THEN {"malformed"} ELSE {"ok"}

\* compilation_unit::get_line_table, of the unit number k.  Only the absence of
\* the section counts as the absence of a table.
GetLineTable(k) ==
  /\ pc = "idle"
  /\ LET Answer(status) == answer' = [Call("get_line_table", k) EXCEPT !.status = status]
     IN  IF k \in lines
         THEN Answer("ok") /\ UNCHANGED <<pc, sections, loads, lines, half_roots>>
         ELSE /\ InstallRoot(k)
              /\ IF RootThrows(k) \/ ~HasAttributes(k)
                 THEN /\ Answer(IF RootThrows(k) THEN "malformed" ELSE "no_table")
                      /\ UNCHANGED <<pc, sections, loads, lines>>
                 ELSE \E status \in Statuses, built \in Built(k) :
                        /\ GetSection("line", status)
                        /\ Answer(CASE status = "ok" -> built
                                    [] status = "malformed" -> "no_table"
                                    [] OTHER -> status)
                        /\ lines' = IF status = "ok" /\ built = "ok"
                                    THEN lines \cup {k} ELSE lines
                        /\ pc' = IF status = "ok" /\ built = "wild" THEN "wild" ELSE pc
  /\ UNCHANGED <<file, ord, cur, unitVars>>

\* A section that a unit needs for its attributes.
UseSection(t) ==
  /\ pc = "idle"
  /\ \E status \in Statuses :
       /\ GetSection(t, status)
       /\ answer' = [Call("get_section", 0) EXCEPT !.status = status]
  /\ UNCHANGED <<file, pc, ord, cur, unitVars, lines, half_roots>>

-----------------------------------------------------------------------------
Client ==
  \/ \E s \in Signatures : GetTypeUnit(s)
  \/ \E k \in DOMAIN compilation_units : ReadRoot(k) \/ GetLineTable(k)
  \/ \E t \in SectionType : UseSection(t)

Library == LoadInfo \/ LoadAbbrev \/ NextUnit \/ LastUnit \/ NextTypeUnit \/ LastTypeUnit

\* A constructor that threw leaves no file to ask.
Stopped == pc \in {"failed", "wild"} /\ UNCHANGED vars

Next == Client \/ Library \/ Stopped

\* A call runs in the calling thread until it returns or throws.
Spec == Init /\ [][Next]_vars /\ WF_vars(Library)

-----------------------------------------------------------------------------
(* Properties.                                                             *)

\* Types.
TypeOK ==
  /\ file \in Files /\ ord \in {"lsb", "msb"}
  /\ pc \in {"info", "abbrev", "units", "idle", "types", "failed", "wild"}
  /\ cur \in Nat
  /\ compilation_units \in Seq(Unit)
  /\ \A s \in DOMAIN type_units : type_units[s] \in Unit /\ type_units[s].type_signature = s
  /\ have_type_units \in BOOLEAN
  /\ DOMAIN sections \subseteq SectionType \ {"info", "abbrev"}
  /\ lines \cup half_roots \subseteq DOMAIN compilation_units
  /\ loads \in [SectionType -> Nat]

\* Whoever asks for a section, and however often asking has failed, it is
\* loaded at most once, so that all of the library refers to the same data
\* (dwarf::get_section, loader::load).
LoadedOnce == \A t \in SectionType : loads[t] <= 1

\* A unit is said to have no line table only if its root DIE or the file lacks
\* what a line table needs, never because reading it has failed, now or before;
\* a root that cannot be read to its end is noticed, by this call or an earlier
\* one, before there is a table; and nothing throws without a reason.  What comes
\* of a table whose attributes were never read is left open: it may even be read
\* from elsewhere (dwarf.cc:189-197, 298-321, die.cc:22-53, 71-82).
LineTablesExact ==
  answer.op = "get_line_table" =>
    LET k == answer.arg
        facts == file.roots[k]
        has == {"stmt_list", "name"} \subseteq facts /\ "line" \in file.has
    IN  CASE answer.status = "no_table" -> ~has
          [] answer.status = "ok" ->
               /\ has /\ "unreadable" \notin facts
               /\ "half_read" \in facts => k \in half_roots
               /\ "bad_table" \in facts => Lost(k)
          [] answer.status = "malformed" ->
               facts \cap {"unreadable", "half_read", "bad_table"} # {}
          [] answer.status = "wild" -> has /\ Lost(k)
          [] OTHER -> answer.status = "loader_error"

\* The constructor and get_type_unit come to an end, whatever lengths the units
\* claim to have (dwarf.cc:67-74, 95-100).
CallsReturn == pc \in {"info", "abbrev", "units", "types"} ~> pc \in {"idle", "failed", "wild"}
=============================================================================
