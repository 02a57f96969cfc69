---------------------------- MODULE CommandParse ----------------------------
(***************************************************************************)
(* extract_command and parse_command (command/command.rs): what a parsed   *)
(* value asks for.  The outcome is a command, an error that is sent back,  *)
(* or a panic of the connection's task: an argument is indexed that is not *)
(* there, or, in a debug build, a product overflows.                       *)
(***************************************************************************)
EXTENDS RespParser

CONSTANTS
  None,
  Upper,      \* Upper[t]: text t in upper case
  Number,     \* Number[t]: what utils::parse_int makes of text t
  I32Max,     \* the largest i32
  U64Range,   \* 2^64, the number of u64 values
  PerSecond   \* 1000, the milliseconds of a second

ASSUME CommandAssumption ==
  /\ I32Max \in Nat /\ U64Range \in Nat /\ I32Max < U64Range
  /\ PerSecond \in Nat \ {0}
  /\ Number \in [Texts -> -I32Max - 1 .. I32Max]
  /\ None \notin Nat

Cmd(c)  == [cmd |-> c]
Refused == [refused |-> TRUE]
Panic   == [panic |-> TRUE]

\* The text of a bulk string; "?" stands for those that are not in Texts.
TextOf(v) ==
  IF \E t \in Texts : BytesOf(t) = v.bulk THEN CHOOSE t \in Texts : BytesOf(t) = v.bulk
  ELSE "?"

UpperOf(v)  == IF TextOf(v) = "?" THEN "?" ELSE Upper[TextOf(v)]
NumberOf(v) == IF TextOf(v) = "?" THEN 0 ELSE Number[TextOf(v)]

\* A request of the store, in the form the module Objects gives it.
Request(op, key) ==
  [op |-> op, key |-> key, vals |-> <<>>, ttl |-> None, opt |-> None, range |-> <<0, 0>>]

\* i32 arithmetic that overflows: wraps, unless the build checks it.
Wrap(n) == ((n + I32Max + 1) % (2 * (I32Max + 1))) - I32Max - 1

AsU64(n) == IF n < 0 THEN n + U64Range ELSE n

AllBulk(args, n) == \A i \in 1 .. n : Is("bulk", args[i])

\* args[0] .. args[n - 1] are indexed, and must all be bulk strings.
Indexed(args, n, outcome) ==
  IF Len(args) < n THEN Panic ELSE IF AllBulk(args, n) THEN outcome ELSE Refused

ExMutant(n) == Wrap(n)   \* takes seconds for milliseconds

\* The lifetime of SET ... EX, in milliseconds.
Ex(n) == Wrap(n * PerSecond)

ExPanics(n, build) == build = "debug" /\ n * PerSecond # Wrap(n * PerSecond)

ParseSet(args, build) ==
  LET set  == [Request("SET", TextOf(args[1])) EXCEPT !.vals = <<TextOf(args[2])>>]
      flag == UpperOf(args[3])
      n    == NumberOf(args[4])
  IN  IF Len(args) < 2 THEN Refused
      ELSE IF ~AllBulk(args, 2) THEN Refused
      ELSE IF Len(args) < 4 THEN Cmd(set)
      ELSE IF ~AllBulk(args, 4) THEN Refused
      ELSE CASE flag = "EX" /\ ExPanics(n, build) -> Panic
             [] flag = "EX" /\ ~ExPanics(n, build) ->
                  Cmd([set EXCEPT !.ttl = AsU64(Ex(n))])
             [] flag = "PX" -> Cmd([set EXCEPT !.ttl = AsU64(n)])
             [] OTHER       -> Refused

\* The values of a push: the arguments behind the key that are bulk strings.
PushValues(args) ==
  LET V[i \in 0 .. Len(args)] ==
        IF i = 0 THEN <<>>
        ELSE IF i > 1 /\ Is("bulk", args[i]) THEN Append(V[i - 1], TextOf(args[i]))
        ELSE V[i - 1]
  IN  V[Len(args)]

ParsePush(op, args) ==
  Indexed(args, 1, Cmd([Request(op, TextOf(args[1])) EXCEPT !.vals = PushValues(args)]))

ParseLRangeMutant(args) ==   \* counts one argument too few
  IF Len(args) < 4 THEN Panic
  ELSE Indexed(args, 3, Cmd([Request("LRANGE", TextOf(args[1])) EXCEPT
                               !.range = <<NumberOf(args[2]), NumberOf(args[3])>>]))

ParseLRange(args) ==
  Indexed(args, 3, Cmd([Request("LRANGE", TextOf(args[1])) EXCEPT
                          !.range = <<NumberOf(args[2]), NumberOf(args[3])>>]))

ParseExpireMutant(args) ==   \* lets any option through
  Indexed(args, 2,
    LET expire == [Request("EXPIRE", TextOf(args[1])) EXCEPT !.ttl = AsU64(NumberOf(args[2]))]
    IN  IF Len(args) = 2 THEN Cmd(expire)
        ELSE IF ~Is("bulk", args[3]) THEN Refused
        ELSE Cmd([expire EXCEPT !.opt = TextOf(args[3])]))

\* The lifetime is in milliseconds; an option must be in upper case.
ParseExpire(args) ==
  Indexed(args, 2,
    LET expire == [Request("EXPIRE", TextOf(args[1])) EXCEPT !.ttl = AsU64(NumberOf(args[2]))]
    IN  IF Len(args) = 2 THEN Cmd(expire)
        ELSE IF ~Is("bulk", args[3]) \/ TextOf(args[3]) \notin {"NX", "XX", "GT", "LT"}
        THEN Refused
        ELSE Cmd([expire EXCEPT !.opt = TextOf(args[3])]))

ParseCommand(cmd, args, build) ==
  CASE cmd \in {"PING", "COMMAND"} -> Cmd([op |-> "PING"])
    [] cmd = "ECHO"                -> Indexed(args, 1, Cmd([op |-> "ECHO", msg |-> TextOf(args[1])]))
    [] cmd = "SET"                 -> ParseSet(args, build)
    [] cmd \in {"GET", "DELETE"}   -> Indexed(args, 1, Cmd(Request(cmd, TextOf(args[1]))))
    [] cmd \in {"LPUSH", "RPUSH"}  -> ParsePush(cmd, args)
    [] cmd = "LRANGE"              -> ParseLRange(args)
    [] cmd = "EXPIRE"              -> ParseExpire(args)
    [] cmd \in {"MULTI", "DISCARD", "EXEC", "SAVE"} -> Cmd([op |-> cmd])
    [] OTHER                       -> Refused

\* Only an array that begins with a bulk string is a command.
ExtractCommand(v, build) ==
  IF ~Is("array", v) THEN Refused
  ELSE IF v.array = <<>> THEN Refused
  ELSE IF ~Is("bulk", Head(v.array)) THEN Refused
  ELSE ParseCommand(UpperOf(Head(v.array)), Tail(v.array), build)
=============================================================================
