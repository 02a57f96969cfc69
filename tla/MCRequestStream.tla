-------------------------- MODULE MCRequestStream --------------------------
(***************************************************************************)
(* Streams for TLC: every command with every number of arguments, values   *)
(* of every type, inline commands and malformed frames, alone, and some of *)
(* them behind one another.                                                *)
(***************************************************************************)
EXTENDS RequestStream, RespTypes

Names    == {"PING", "COMMAND", "ECHO", "SET", "GET", "DELETE", "LPUSH", "RPUSH", "LRANGE",
             "EXPIRE", "MULTI", "EXEC", "DISCARD", "SAVE"}
Numerals == {"7", "8", "-5"}
AllTexts == Names \cup Numerals \cup
            {"get", "k", "v", "EX", "ex", "PX", "NX", "nx", "latin1"}

Sizes   == [t \in AllTexts |-> IF t \in {"get", "latin1"} THEN 2 ELSE 1]
InUpper == [t \in AllTexts |-> CASE t = "get" -> "GET" [] t = "ex" -> "EX" [] t = "nx" -> "NX"
                                 [] OTHER -> t]
Parsed  == [t \in AllTexts |-> CASE t = "7" -> 7 [] t = "8" -> 8 [] t = "-5" -> -5
                                 [] OTHER -> 0]
-----------------------------------------------------------------------------
Text(t) == Bulk(BytesOf(t))

Written(v) ==
  [bytes |-> WriteTo[v], value |-> Reread[v]]

Line(words) == Written(Array([i \in DOMAIN words |-> Text(words[i])]))

\* The words on one line, with a tab and a space between them.
InlineLine(words) ==
  [bytes |-> Concat([i \in DOMAIN words |-> <<Ch(" ")>> \o BytesOf(words[i]) \o <<Ch("\t")>>])
               \o CRLF,
   value |-> Array([i \in DOMAIN words |-> Text(words[i])])]

NotText == LineOf("$", Itoa(2)) \o BytesOf("latin1") \o CRLF

Malformed(bytes) == [bytes |-> bytes, value |-> None]

Lines ==
  {<<c>> \o SubSeq(<<"k", "7", "-5">>, 1, n) : c \in Names \cup {"get", "v"}, n \in 0 .. 3}
  \cup {<<"EXPIRE", "k", n, o>> : n \in Numerals, o \in {"NX", "nx"}}
  \cup {<<"SET", "k", "v", f, n>> : f \in {"EX", "ex", "PX", "NX"}, n \in Numerals \cup {"v"}}

Values ==
  {Simple(BytesOf("PING")), Error(BytesOf("PING")), Int_(12), Int_(-3), Null, Boolean_(TRUE),
   Boolean_(FALSE), Bulk(<<>>), Bulk(CRLF), Text("k"), Array(<<>>),
   Array(<<Null, Text("k")>>),
   Array(<<Text("LPUSH"), Text("k"), Text("v"), Int_(1), Text("7")>>),
   Array(<<Text("SET"), Text("k"), Null>>), Array(<<Text("GET"), Int_(0)>>),
   Array(<<Text("SET"), Text("k"), Text("v"), Text("EX"), Int_(7)>>),
   Array(<<Text("EXPIRE"), Text("k"), Text("7"), Null>>),
   Array(<<Array(<<Int_(1), Bulk(<<>>)>>), Array(<<>>), Boolean_(TRUE)>>)}

Bad ==
  {LineOf("$", BytesOf("v")), LineOf("*", Itoa(-1)),
   LineOf(":", Itoa(999)), LineOf("#", BytesOf("v")),
   LineOf("$", Itoa(1)) \o BytesOf("get") \o CRLF,
   NotText, LineOf("+", BytesOf("latin1")), BytesOf("latin1") \o CRLF,
   LineOf("*", Itoa(2)) \o WriteTo[Int_(1)] \o <<Ch(":")>> \o CRLF}

Singles == {Line(l) : l \in Lines} \cup {Written(v) : v \in Values}
             \cup {InlineLine(l) : l \in {<<>>, <<"get", "k">>, <<"ECHO">>}}
             \cup {Malformed(b) : b \in Bad}

InRow == {Line(<<"get", "k">>), Line(<<"GET">>), InlineLine(<<"PING">>), Written(Bulk(CRLF)),
          Written(Error(<<>>)), Written(Array(<<Array(<<>>), Int_(-12)>>)),
          Malformed(NotText)}

AllStreams == {<<f>> : f \in Singles} \cup {<<f, g>> : f, g \in InRow}
=============================================================================
