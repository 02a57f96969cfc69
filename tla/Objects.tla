------------------------------ MODULE Objects ------------------------------
(***************************************************************************)
(* The values of the store (enum RedisObject, database/core.rs), the       *)
(* results its methods return, the requests a connection can make of it,   *)
(* and the pure list algorithms of lpush, rpush and lrange.                *)
(*                                                                         *)
(* Strings are opaque: Vals is any set.  A list only ever holds strings,   *)
(* because the dispatcher wraps every pushed argument in                   *)
(* RedisObject::String, so a list is a sequence of Vals.                   *)
(***************************************************************************)
EXTENDS Integers, Sequences, FiniteSets, FiniteSetsExt

CONSTANTS
  Keys,        \* the keys the clients use
  Vals,        \* the strings the clients store
  Nil,         \* the string "nil", which the store returns for "no value"
  None,        \* Option::None, and the absence of a map entry
  UsizeRange,  \* 2^64, the number of usize values
  Requests     \* the requests the clients make (a subset of Request)

RedisObject ==
  [type : {"String"}, str : Vals] \cup [type : {"List"}, list : Seq(Vals)]

Str(v)  == [type |-> "String", str |-> v]
List(l) == [type |-> "List", list |-> l]

\* What a method of DB returns: Ok(()), an error, or an object.  "No value" is
\* the object RedisObject::String("nil").
Ok     == [type |-> "Ok"]
Err    == [type |-> "Err"]
NilStr == Str(Nil)
Result == RedisObject \cup {Ok, Err, NilStr}

DbOps == {"SET", "GET", "DELETE", "LPUSH", "RPUSH", "LRANGE", "EXPIRE"}

ExpireOptions == {"NX", "XX", "GT", "LT"}

\* A request names an operation and its arguments; ttl is the requested
\* lifetime, opt the EXPIRE option, range the start and stop of LRANGE.
Request ==
  [op : DbOps, key : Keys, vals : Seq(Vals), ttl : Nat \cup {None},
   opt : ExpireOptions \cup {None}, range : Int \X Int]

\* parse_command reads the clock when it builds the command, so the deadline of
\* a SET or an EXPIRE is fixed by the time of parsing, not of execution.
Command == [req : Requests, issued : Nat]

Deadline(m) == IF m.req.ttl = None THEN None ELSE m.issued + m.req.ttl

ASSUME RequestAssumption ==
  /\ Requests \subseteq Request
  /\ \A r \in Requests : /\ r.op = "SET" => Len(r.vals) = 1
                         /\ r.op = "EXPIRE" => r.ttl # None
                         /\ r.range[1] >= -UsizeRange /\ r.range[2] >= -UsizeRange
  /\ UsizeRange \in Nat

ASSUME NoneAssumption ==
  /\ None \notin Int
  /\ None \notin RedisObject
  /\ None \notin {Ok, Err, NilStr}
  /\ None \notin ExpireOptions
  /\ None \notin Command

ASSUME KeysAssumption == IsFiniteSet(Keys)
-----------------------------------------------------------------------------
\* The list that a push creates when the key is absent (the values of an LPUSH
\* are reversed), and the list it makes of an existing one (the values of an
\* LPUSH are put in front in the order given).
Reversed(vals) == [i \in DOMAIN vals |-> vals[Len(vals) + 1 - i]]

NewList(op, vals) == IF op = "LPUSH" THEN Reversed(vals) ELSE vals

Push(op, vals, list) == IF op = "LPUSH" THEN vals \o list ELSE list \o vals

\* "as usize" of a possibly negative i32: sign extension, then wrap-around.
AsUsize(i) == IF i < 0 THEN i + UsizeRange ELSE i

FromEnd(i, n) == IF i < 0 THEN i + n ELSE i

\* The places of the first and the last item that pass the filter, after a
\* negative bound has been counted from the end and both have been cast.
FirstPlace(n, start) == AsUsize(FromEnd(start, n)) + 1

\* A bug: the item at stop is left out.
LastPlaceMutant(n, stop) ==
  LET hi == AsUsize(FromEnd(stop, n)) IN IF hi < n THEN hi ELSE n

LastPlace(n, stop) ==
  LET hi == AsUsize(FromEnd(stop, n)) IN IF hi < n THEN hi + 1 ELSE n

LRange(list, start, stop) ==
  SubSeq(list, FirstPlace(Len(list), start), LastPlace(Len(list), stop))

\* The reference for LRange: whether LRANGE gives back item i of n.  A negative
\* bound counts from the end, where the last item has the index -1.  A start in
\* front of the list selects nothing, and a stop in front of it is no limit.
Index(i, n, bound) == IF bound < 0 THEN i - 1 - n ELSE i - 1

Selected(i, n, start, stop) ==
  /\ start >= -n /\ start <= Index(i, n, start)
  /\ stop < -n \/ Index(i, n, stop) <= stop

Slice(list, start, stop) ==
  LET chosen == {i \in DOMAIN list : Selected(i, Len(list), start, stop)}
  IN  IF chosen = {} THEN <<>> ELSE SubSeq(list, Min(chosen), Max(chosen))

\* The condition of EXPIRE: cur is the deadline the key has, new the one asked for.
MayExpire(opt, cur, new) ==
  CASE opt = None -> TRUE
    [] opt = "NX" -> cur = None
    [] opt = "XX" -> cur # None
    [] opt = "GT" -> cur # None /\ new > cur
    [] opt = "LT" -> cur # None /\ new < cur
=============================================================================
