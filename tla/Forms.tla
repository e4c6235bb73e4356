------------------------------- MODULE Forms -------------------------------
(***************************************************************************)
(* The encodings of attribute values: what a cursor reads, how many bytes  *)
(* each form takes (cursor::skip_form), and which type a form gives an     *)
(* attribute (resolve_type).                                               *)
(*                                                                         *)
(* A section is [data, end, ord, width, addr_size]: its bytes, its end     *)
(* (which may be behind the bytes, when a unit or a slice claims more than *)
(* there is), byte order, and the sizes of an offset and of an address.  A *)
(* reading is [status, value, pos]: how it ended, what was read, and where *)
(* the cursor is afterwards.                                               *)
(***************************************************************************)
EXTENDS UnitHeaders

Got(value, pos) == [status |-> "ok", value |-> value, pos |-> pos]
Failed(status) == [status |-> status, value |-> 0, pos |-> 0]

\* An exception ends the caller too; otherwise it goes on with what was read.
Then(reading, Continue(_)) ==
  IF reading.status = "ok" THEN Continue(reading) ELSE Failed(reading.status)

\* LEB128 keeps a digit and a continuation mark in each byte.
Half == Base \div 2

Signed(value, limit) == IF value >= limit \div 2 THEN value - limit ELSE value

-----------------------------------------------------------------------------
(* Cursors.                                                                *)

\* cursor::fixed
Fixed(s, p, n) ==
  IF ~Fits(s.end, p, n) THEN Failed("underflow")
  ELSE IF p + n > Len(s.data) THEN Failed("wild")
  ELSE Got(Number(s.data, s.ord, p, n), p + n)

Offset(s, p) == Fixed(s, p, s.width)

\* cursor::address
Address(s, p) ==
  IF s.addr_size \in {1, 2, 4, 8} THEN Fixed(s, p, s.addr_size) ELSE Failed("runtime_error")

\* The places from p on where a byte ends a number or a string.
Places(s, p) == {q \in p..(Len(s.data) - 1) : q < s.end}
LastDigits(s, p) == {q \in Places(s, p) : s.data[q + 1] < Half}
Nuls(s, p) == {q \in Places(s, p) : s.data[q + 1] = 0}

\* cursor::uleb128 and sleb128, of numbers that fit in a word.
Leb(s, p, signed) ==
  LET stops == LastDigits(s, p)
      n == Min(stops) - p + 1
      number == NumberOf(Half, [k \in 1..n |-> s.data[p + n + 1 - k] % Half])
  IN  IF stops # {} THEN Got(IF signed THEN Signed(number, Half^n) ELSE number, p + n)
      ELSE Failed(IF p < s.end /\ s.end > Len(s.data) THEN "wild" ELSE "underflow")

\* cursor::cstr; the value is the length.  A cursor behind the end is not seen
\* to be there.
CStr(s, p) ==
  LET stops == Nuls(s, p)
  IN  IF stops # {} THEN Got(Min(stops) - p, Min(stops) + 1)
      ELSE Failed(IF p > s.end \/ s.end > Len(s.data) THEN "wild" ELSE "format_error")

-----------------------------------------------------------------------------
(* Forms.                                                                  *)

FormCode ==
  [addr |-> 1, block2 |-> 3, block4 |-> 4, data2 |-> 5, data4 |-> 6, data8 |-> 7,
   string |-> 8, block |-> 9, block1 |-> 10, data1 |-> 11, flag |-> 12, sdata |-> 13,
   strp |-> 14, udata |-> 15, ref_addr |-> 16, ref1 |-> 17, ref2 |-> 18, ref4 |-> 19,
   ref8 |-> 20, ref_udata |-> 21, indirect |-> 22, sec_offset |-> 23, exprloc |-> 24,
   flag_present |-> 25, ref_sig8 |-> 32]
FormOf(code) ==
  IF \E f \in DOMAIN FormCode : FormCode[f] = code
  THEN CHOOSE f \in DOMAIN FormCode : FormCode[f] = code ELSE "unknown"

\* Bytes taken by the forms of a known size, and by the length in front of a
\* block.
Size(s, form) ==
  CASE form = "flag_present" -> 0
    [] form \in {"flag", "data1", "ref1", "block1"} -> 1
    [] form \in {"data2", "ref2", "block2"} -> 2
    [] form \in {"data4", "ref4", "block4"} -> 4
    [] form \in {"data8", "ref8", "ref_sig8"} -> 8
    [] form \in {"sec_offset", "ref_addr", "strp"} -> s.width
    [] form = "addr" -> s.addr_size

Blocks == {"block1", "block2", "block4", "block", "exprloc"}
Lebs == {"sdata", "udata", "ref_udata"}
References == {"ref1", "ref2", "ref4", "ref8", "ref_addr", "ref_sig8", "ref_udata"}

\* The length of a block; the cursor is in front of its bytes.
BlockLength(s, form, p) ==
  IF form \in {"block", "exprloc"} THEN Leb(s, p, FALSE) ELSE Fixed(s, p, Size(s, form))

\* The code at the end of a chain of DW_FORM_indirect (skip_form recurs,
\* resolve_indirect loops).
IndirectCode(s, p) ==
  LET code[q \in Nat] ==
        Then(Leb(s, q, FALSE),
             LAMBDA c : IF FormOf(c.value) = "indirect" THEN code[c.pos] ELSE c)
  IN  code[p]

\* A string or number is passed to the first byte that ends it, or to the end.
Passed(s, p, stops) ==
  IF stops # {} THEN Got(0, Min(stops) + 1)
  ELSE IF p >= s.end THEN Got(0, p + 1)
  ELSE IF s.end > Len(s.data) THEN Failed("wild")
  ELSE Got(0, s.end + 1)

\* Mutant: the NUL at the end of a string is not skipped.
SkipDirect_StaysAtNul(s, form, p) ==
  CASE form = "string" -> Got(0, Min(Nuls(s, p) \cup {s.end}))
    [] form \in Blocks -> Got(0, BlockLength(s, form, p).pos + BlockLength(s, form, p).value)
    [] form \in Lebs -> Passed(s, p, LastDigits(s, p))
    [] form \in {"ref8", "indirect", "unknown"} -> Failed("format_error")
    [] OTHER -> Got(0, p + Size(s, form))

\* skip_form for the forms themselves.  Lengths are not compared with the end,
\* and ref8 is missing from the table.
SkipDirect(s, form, p) ==
  CASE form \in Blocks -> Then(BlockLength(s, form, p), LAMBDA n : Got(0, n.pos + n.value))
    [] form \in Lebs -> Passed(s, p, LastDigits(s, p))
    [] form = "string" -> Passed(s, p, Nuls(s, p))
    [] form \in {"ref8", "indirect", "unknown"} -> Failed("format_error")
    [] OTHER -> Got(0, p + Size(s, form))

SkipForm(s, form, p) ==
  IF form # "indirect" THEN SkipDirect(s, form, p)
  ELSE Then(IndirectCode(s, p), LAMBDA code : SkipDirect(s, FormOf(code.value), code.pos))

-----------------------------------------------------------------------------
(* Types (abbrev.cc).                                                      *)

\* Attributes whose blocks are expressions, and those whose 4 and 8 byte
\* numbers are offsets.
ExprAttributes ==
  {"location", "byte_size", "bit_offset", "bit_size", "string_length", "lower_bound",
   "return_addr", "bit_stride", "upper_bound", "count", "data_member_location",
   "frame_base", "segment", "static_link", "use_location", "vtable_elem_location",
   "allocated", "associated", "data_location", "byte_stride"}
LocationLists ==
  {"location", "string_length", "return_addr", "data_member_location", "frame_base",
   "segment", "static_link", "use_location", "vtable_elem_location"}
RangeLists == {"start_scope", "ranges"}
OffsetAttributes == LocationLists \cup RangeLists \cup {"stmt_list", "macro_info"}
Vendor == {"lo_user"}

\* The type of an offset, or "none" where it is not expected.
OffsetType(name) ==
  CASE name = "stmt_list" -> "line"
    [] name = "macro_info" -> "mac"
    [] name \in LocationLists -> "loclist"
    [] name \in RangeLists -> "rangelist"
    [] name \in Vendor -> "invalid"
    [] OTHER -> "none"

\* resolve_type; "none" stands for the format_error.
ResolveType[name \in STRING, form \in STRING] ==
  CASE form = "addr" -> "address"
    [] form \in Blocks \ {"exprloc"} -> IF name \in ExprAttributes THEN "exprloc" ELSE "block"
    [] form \in {"data4", "data8"} -> IF name \in OffsetAttributes THEN OffsetType(name)
                                      ELSE "constant"
    [] form \in {"data1", "data2"} -> "constant"
    [] form = "udata" -> "uconstant"
    [] form = "sdata" -> "sconstant"
    [] form = "exprloc" -> "exprloc"
    [] form \in {"flag", "flag_present"} -> "flag"
    [] form \in References -> "reference"
    [] form \in {"string", "strp"} -> "string"
    [] form = "indirect" -> "invalid"
    [] form = "sec_offset" -> OffsetType(name)
    [] OTHER -> "none"
=============================================================================
