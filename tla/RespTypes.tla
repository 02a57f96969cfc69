----------------------------- MODULE RespTypes -----------------------------
(***************************************************************************)
(* The values that a RespType can hold, how they are written               *)
(* (RespType::write_to, resp/types.rs), and what parse makes of them.      *)
(***************************************************************************)
EXTENDS RespParser

CONSTANT MaxDepth   \* how deep arrays are nested

ASSUME DepthAssumption == MaxDepth \in Nat

\* A String is UTF-8 and, like a Vec, has a usize for its length.
Str    == {s \in Seq(Byte) : Utf8(s) /\ Len(s) <= UsizeMax}
Vec(S) == {a \in Seq(S) : Len(a) <= UsizeMax}

\* The values that are no arrays.
Scalar ==
  [simple : Str] \cup [error : Str] \cup [int : -I64Max - 1 .. I64Max] \cup [bulk : Str]
    \cup [bool : BOOLEAN] \cup {Null}

\* The given scalars, and the arrays that can be built from them.
ValuesOf(scalars) ==
  LET V[d \in 0 .. MaxDepth] == IF d = 0 THEN scalars ELSE scalars \cup [array : Vec(V[d - 1])]
  IN  V[MaxDepth]

Value == ValuesOf(Scalar)
-----------------------------------------------------------------------------
Digits(n) ==
  LET D[i \in 0 .. n] ==
        IF i < 10 THEN <<Digit(i)>> ELSE Append(D[i \div 10], Digit(i % 10))
  IN  D[n]

Itoa(n) == IF n < 0 THEN <<Ch("-")>> \o Digits(-n) ELSE Digits(n)

LineOf(mark, bytes) == <<Ch(mark)>> \o bytes \o CRLF

\* The replies kept ready (RESP_OK, RESP_NIL, ...) are the same bytes.
WriteScalar(v) ==
  CASE Is("simple", v) -> LineOf("+", v.simple)
    [] Is("error", v)  -> LineOf("-", v.error)
    [] Is("int", v)    -> LineOf(":", Itoa(v.int))
    [] Is("bulk", v)   -> LineOf("$", Itoa(Len(v.bulk))) \o v.bulk \o CRLF
    [] Is("bool", v)   -> LineOf("#", <<Ch(IF v.bool THEN "t" ELSE "f")>>)
    [] Is("null", v)   -> LineOf("_", <<>>)

WriteTo[v \in Value] ==
  IF Is("array", v)
  THEN LineOf("*", Itoa(Len(v.array))) \o Concat([i \in DOMAIN v.array |-> WriteTo[v.array[i]]])
  ELSE WriteScalar(v)

\* What parse makes of a value that was written: an error is taken for a string.
Reread[v \in Value] ==
  IF Is("array", v) THEN Array([i \in DOMAIN v.array |-> Reread[v.array[i]]])
  ELSE IF Is("error", v) THEN Simple(v.error)
  ELSE v
=============================================================================
