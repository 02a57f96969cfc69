--------------------------- MODULE RequestStream ---------------------------
(***************************************************************************)
(* From bytes to commands: the part of Client::handle (config/client.rs)   *)
(* that takes frames out of the read buffer with Parser::parse and gives   *)
(* them to extract_command, for every way in which the bytes of a stream   *)
(* of frames can be divided into reads.  Replies, flushes and the end of   *)
(* the connection are the matter of Connection.                            *)
(***************************************************************************)
EXTENDS CommandParse

CONSTANT Streams  \* sequences of frames: bytes, and the value meant, or None

ASSUME StreamsAssumption ==
  \A s \in Streams : /\ Len(s) \in Nat /\ DOMAIN s = 1 .. Len(s)
                      /\ \A i \in 1 .. Len(s) : s[i].bytes \in Seq(Byte)

VARIABLES
  frames,    \* the stream of this peer
  build,     \* "debug" or "release"
  rest,      \* the bytes that have not arrived
  buf,       \* the read buffer
  taken,     \* the values that were parsed
  outcomes,  \* what extract_command made of each
  status     \* "open", "invalid" (a frame was not RESP) or "panicked"

vars == <<frames, build, rest, buf, taken, outcomes, status>>

\* The bytes of the frames one after the other.
Bytes(s) == Concat([i \in DOMAIN s |-> s[i].bytes])

Init ==
  /\ frames \in Streams
  /\ build \in {"debug", "release"}
  /\ rest = Bytes(frames)
  /\ buf = <<>>
  /\ taken = <<>>
  /\ outcomes = <<>>
  /\ status = "open"

\* A read brings any number of bytes.
Arrive ==
  /\ status = "open"
  /\ \E n \in 1 .. Len(rest) :
       /\ buf' = buf \o SubSeq(rest, 1, n)
       /\ rest' = SubSeq(rest, n + 1, Len(rest))
  /\ UNCHANGED <<frames, build, taken, outcomes, status>>

\* A frame is complete: it leaves the buffer and becomes a command or an error.
Take ==
  LET p == Parse(buf) IN
  /\ status = "open"
  /\ Is("ok", p)
  /\ buf' = SubSeq(buf, p.n + 1, Len(buf))
  /\ taken' = Append(taken, p.ok)
  /\ outcomes' = Append(outcomes, ExtractCommand(p.ok, build))
  /\ status' = IF ExtractCommand(p.ok, build) = Panic THEN "panicked" ELSE "open"
  /\ UNCHANGED <<frames, build, rest>>

\* A frame is malformed: the buffer is cleared.  What follows is not looked at.
Reject ==
  /\ status = "open"
  /\ Parse(buf) = Invalid
  /\ buf' = <<>>
  /\ status' = "invalid"
  /\ UNCHANGED <<frames, build, rest, taken, outcomes>>

Next == Arrive \/ Take \/ Reject

Spec == Init /\ [][Next]_vars
-----------------------------------------------------------------------------
\* The values that are parsed are the values that were sent, one for one and in
\* their order, however the bytes were divided: none is left in the buffer at the
\* end, a frame that is malformed is noticed, and no other is taken for one.  What
\* was parsed lies inside the buffer, so that buf.advance(consumed) cannot fail.
SegmentsDoNotMatter ==
  /\ Is("ok", Parse(buf)) => Parse(buf).n \in 1 .. Len(buf)
  /\ \A i \in DOMAIN taken : i \in DOMAIN frames /\ taken[i] = frames[i].value
  /\ status = "invalid" => frames[Len(taken) + 1].value = None
  /\ status = "open" /\ rest = <<>> /\ Parse(buf) = Incomplete => Len(taken) = Len(frames)

\* What parse has made of a buffer it makes of every longer one: only Incomplete
\* means "read more data and retry" (parser.rs:8-9), and it is never premature.
ParseStable ==
  [][Arrive => Parse(buf) = Incomplete \/ Parse(buf') = Parse(buf)]_vars

Store == INSTANCE Objects
  WITH Keys <- Texts \cup {"?"}, Vals <- Texts \cup {"?"}, Nil <- "nil",
       UsizeRange <- UsizeMax + 1, Requests <- {}

\* Every command for the store is one that the store is modelled for, in type and
\* with the arguments its methods rely on: SET has its value, EXPIRE a deadline and
\* one of the four options or none.
CommandsFitStore ==
  \A i \in DOMAIN outcomes : Is("cmd", outcomes[i]) =>
    LET c == outcomes[i].cmd IN
    c.op \in Store!DbOps =>
      /\ c \in Store!Request
      /\ c.op = "SET" => Len(c.vals) = 1
      /\ c.op = "EXPIRE" => c.ttl # None

\* The words of frame i.
Arg(i, j) == taken[i].array[j + 1]

\* A lifetime that fits is kept exactly: EX counts seconds, PX and EXPIRE
\* milliseconds.  (Negative ones become huge, and an EX beyond 2^31 / 1000 seconds
\* wraps to an unrelated lifetime in a release build.)
LifetimeKept ==
  \A i \in DOMAIN outcomes : Is("cmd", outcomes[i]) =>
    LET c    == outcomes[i].cmd
        n    == NumberOf(IF c.op = "SET" THEN Arg(i, 4) ELSE Arg(i, 2))
        unit == IF c.op = "SET" /\ UpperOf(Arg(i, 3)) = "EX" THEN PerSecond ELSE 1
    IN  c.op \in {"SET", "EXPIRE"} /\ c.ttl # None /\ n >= 0 /\ n * unit <= I32Max
          => c.ttl = n * unit

Arity(cmd) ==
  CASE cmd \in {"ECHO", "GET", "DELETE", "LPUSH", "RPUSH"} -> 1
    [] cmd = "LRANGE" -> 3
    [] cmd = "EXPIRE" -> 2
    [] OTHER          -> 0

\* A command that has all of its arguments never takes the connection down: only
\* one with too few does (its "requires an argument" is never sent), or a debug
\* build with an EX that overflows.
OnlyShortRequestsPanic ==
  \A i \in DOMAIN outcomes : outcomes[i] = Panic =>
    LET a   == taken[i].array
        cmd == UpperOf(a[1])
    IN  \/ Len(a) - 1 < Arity(cmd)
        \/ cmd = "SET" /\ build = "debug" /\ NumberOf(a[5]) * PerSecond \notin -I32Max - 1 .. I32Max
=============================================================================
