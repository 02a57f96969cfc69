----------------------------- MODULE RespParser -----------------------------
(***************************************************************************)
(* The values of the protocol (RespType, resp/types.rs) and how the bytes  *)
(* in a read buffer are parsed (Parser::parse, resp/parser.rs).            *)
(*                                                                         *)
(* A byte is a character of the protocol, a digit, or one part of an       *)
(* opaque text.  A value is a record whose one field names its type.       *)
(***************************************************************************)
EXTENDS Integers, Sequences

CONSTANTS
  Texts,      \* the texts that occur in payloads
  Size,       \* Size[t]: the number of bytes of text t
  NotUtf8,    \* the texts that std::str::from_utf8 rejects
  I64Max,     \* the largest i64
  UsizeMax    \* the largest usize

Ch(c)      == [ch |-> c]
Digit(d)   == [digit |-> d]
BytesOf(t) == [i \in 1 .. Size[t] |-> [text |-> t, part |-> i]]
CRLF       == <<Ch("\r"), Ch("\n")>>
Character  == {"+", "-", ":", "$", "*", "_", "#", "t", "f", " ", "\t", "\r", "\n"}
Byte       == [ch : Character] \cup [digit : 0 .. 9] \cup [text : Texts, part : Nat]
Whitespace == {Ch(c) : c \in {" ", "\t", "\r", "\n"}}
Markers    == {Ch(c) : c \in {"+", "-", ":", "$", "*", "_", "#"}}

\* The pieces one after the other.
Concat(pieces) ==
  LET C[i \in 0 .. Len(pieces)] == IF i = 0 THEN <<>> ELSE C[i - 1] \o pieces[i]
  IN  C[Len(pieces)]

ASSUME RespAssumption ==
  /\ NotUtf8 \subseteq Texts
  /\ Size \in [Texts -> Nat]
  /\ \A s, t \in Texts : BytesOf(s) = BytesOf(t) => s = t
  /\ I64Max \in Nat /\ UsizeMax \in Nat

Simple(b)   == [simple |-> b]
Error(b)    == [error |-> b]
Int_(n)     == [int |-> n]
Bulk(b)     == [bulk |-> b]
Array(a)    == [array |-> a]
Null        == [null |-> TRUE]
Boolean_(b) == [bool |-> b]

Is(type, v) == type \in DOMAIN v
-----------------------------------------------------------------------------
(* Parsing: a value with the number of bytes it takes, or one of two errors *)
Ok(v, n)   == [ok |-> v, n |-> n]
Incomplete == [err |-> "incomplete"]
Invalid    == [err |-> "invalid"]

\* Where the first CRLF of the buffer begins; 0 if there is none.
CrlfAt(buf) ==
  LET S == {i \in 1 .. Len(buf) - 1 : buf[i] = Ch("\r") /\ buf[i + 1] = Ch("\n")}
  IN  IF S = {} THEN 0 ELSE CHOOSE i \in S : \A j \in S : i <= j

Utf8(bytes) ==
  \A i \in DOMAIN bytes : Is("text", bytes[i]) => bytes[i].text \notin NotUtf8

IsNumber(bytes) == bytes # <<>> /\ \A i \in DOMAIN bytes : Is("digit", bytes[i])

ValueOf(bytes) ==
  LET V[i \in 0 .. Len(bytes)] == IF i = 0 THEN 0 ELSE 10 * V[i - 1] + bytes[i].digit
  IN  V[Len(bytes)]

\* str::parse for a type with the given limits: a sign, digits, and in range.
ParseNumber(bytes, min, max) ==
  LET signs  == {Ch("+")} \cup IF min < 0 THEN {Ch("-")} ELSE {}
      signed == bytes # <<>> /\ Head(bytes) \in signs
      digits == IF signed THEN Tail(bytes) ELSE bytes
      n      == IF signed /\ Head(bytes) = Ch("-") THEN -ValueOf(digits) ELSE ValueOf(digits)
  IN  IF IsNumber(digits) /\ n \in min .. max THEN Ok(n, 0) ELSE Invalid

\* Words of a line, as split_whitespace gives them: a lone CR or LF is whitespace.
Words(line) ==
  LET W[i \in 0 .. Len(line)] ==
        IF i = 0 THEN <<>>
        ELSE IF line[i] \in Whitespace THEN W[i - 1]
        ELSE IF i = 1 \/ line[i - 1] \in Whitespace THEN Append(W[i - 1], <<line[i]>>)
        ELSE [W[i - 1] EXCEPT ![Len(W[i - 1])] = Append(@, line[i])]
  IN  W[Len(line)]

\* A line of words, from a peer that does not speak RESP.
ParseInline(buf, crlf) ==
  LET line == SubSeq(buf, 1, crlf - 1)
      ws   == Words(line)
  IN  IF Utf8(line) THEN Ok(Array([i \in DOMAIN ws |-> Bulk(ws[i])]), crlf + 1) ELSE Invalid

ParseBulkStringMutant(buf, len, start) ==   \* does not wait for the CRLF
  LET end == start + len
  IN  IF end > Len(buf) THEN Incomplete
      ELSE IF end + 2 > Len(buf) \/ SubSeq(buf, end + 1, end + 2) # CRLF THEN Invalid
      ELSE IF ~Utf8(SubSeq(buf, start + 1, end)) THEN Invalid
      ELSE Ok(Bulk(SubSeq(buf, start + 1, end)), end + 2)

\* A text of len bytes after the header, which takes start bytes.
ParseBulkString(buf, len, start) ==
  LET end == start + len
  IN  IF end + 2 > Len(buf) THEN Incomplete
      ELSE IF SubSeq(buf, end + 1, end + 2) # CRLF THEN Invalid
      ELSE IF ~Utf8(SubSeq(buf, start + 1, end)) THEN Invalid
      ELSE Ok(Bulk(SubSeq(buf, start + 1, end)), end + 2)

ParseArrayMutant(buf, len, start, parse) ==   \* an element's length is taken as its end
  LET Elements[i \in 0 .. len] ==
        IF i = 0 THEN Ok(<<>>, start)
        ELSE IF Is("err", Elements[i - 1]) THEN Elements[i - 1]
        ELSE LET prev == Elements[i - 1]
                 elem == parse[SubSeq(buf, prev.n + 1, Len(buf))]
             IN  IF Is("err", elem) THEN elem
                 ELSE Ok(Append(prev.ok, elem.ok), IF i = 1 THEN start + elem.n ELSE elem.n)
      all == Elements[len]
  IN  IF Is("err", all) THEN all ELSE Ok(Array(all.ok), all.n)

\* The elements one after the other; the first error of one is the result.
ParseArray(buf, len, start, parse) ==
  LET Elements[i \in 0 .. len] ==
        IF i = 0 THEN Ok(<<>>, start)
        ELSE IF Is("err", Elements[i - 1]) THEN Elements[i - 1]
        ELSE LET prev == Elements[i - 1]
                 elem == parse[SubSeq(buf, prev.n + 1, Len(buf))]
             IN  IF Is("err", elem) THEN elem
                 ELSE Ok(Append(prev.ok, elem.ok), prev.n + elem.n)
      all == Elements[len]
  IN  IF Is("err", all) THEN all ELSE Ok(Array(all.ok), all.n)

ParseBool(data, n) ==
  CASE data = <<Ch("t")>> -> Ok(Boolean_(TRUE), n)
    [] data = <<Ch("f")>> -> Ok(Boolean_(FALSE), n)
    [] OTHER              -> Invalid

\* A simple error is parsed as a simple string.
ParseSimple(data, n) == IF Utf8(data) THEN Ok(Simple(data), n) ELSE Invalid

ParseInteger(data, n) ==
  LET int == ParseNumber(data, -I64Max - 1, I64Max)
  IN  IF Is("ok", int) THEN Ok(Int_(int.ok), n) ELSE Invalid

ParseNull(n) == Ok(Null, n)   \* whatever is on the line

\* parse, with the function that it calls for the elements of an array.
ParseWith(parse, buf) ==
  LET crlf == CrlfAt(buf)
      data == SubSeq(buf, 2, crlf - 1)   \* the header line without its marker
      n    == crlf + 1
      mark == buf[1].ch
      size == ParseNumber(data, 0, UsizeMax)
  IN  IF crlf = 0 THEN Incomplete        \* the empty buffer included
      ELSE IF buf[1] \notin Markers THEN ParseInline(buf, crlf)
      ELSE CASE mark \in {"+", "-"} -> ParseSimple(data, n)
             [] mark = ":"          -> ParseInteger(data, n)
             [] mark \in {"$", "*"} /\ ~Is("ok", size) -> Invalid
             [] mark = "$" /\ Is("ok", size) -> ParseBulkString(buf, size.ok, n)
             [] mark = "*" /\ Is("ok", size) -> ParseArray(buf, size.ok, n, parse)
             [] mark = "_"          -> ParseNull(n)
             [] mark = "#"          -> ParseBool(data, n)

ParseFcn[buf \in Seq(Byte)] == ParseWith(ParseFcn, buf)

Parse(buf) == ParseFcn[buf]
=============================================================================
