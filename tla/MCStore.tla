------------------------------ MODULE MCStore ------------------------------
(***************************************************************************)
(* Instances of Store for TLC: the workloads and the initial contents of   *)
(* the runs, which the configurations choose among.                        *)
(***************************************************************************)
EXTENDS StoreRefines, TLC

CONSTANTS k1, k2, k3, a, b

Req(op, k) ==
  [op |-> op, key |-> k, vals |-> <<>>, ttl |-> None, opt |-> None, range |-> <<0, 0>>]

Set(k, v)          == [Req("SET", k) EXCEPT !.vals = <<v>>]
SetEx(k, v, t)     == [Set(k, v) EXCEPT !.ttl = t]
Expire(k, t)       == [Req("EXPIRE", k) EXCEPT !.ttl = t]
ExpireIf(k, t, o)  == [Expire(k, t) EXCEPT !.opt = o]
LPush(k, l)        == [Req("LPUSH", k) EXCEPT !.vals = l]
RPush(k, l)        == [Req("RPUSH", k) EXCEPT !.vals = l]
ListRange(k, i, j) == [Req("LRANGE", k) EXCEPT !.range = <<i, j>>]

OneKey    == {k1}
TwoKeys   == {k1, k2}
ThreeKeys == {k1, k2, k3}
Strings   == {a, b}

ClientSymmetry == Permutations(Clients)
-----------------------------------------------------------------------------
(* Initial contents *)

Loaded(objects, deadlines) ==
  [data        |-> [k \in Keys |-> IF k \in DOMAIN objects THEN objects[k] ELSE None],
   expirations |-> [k \in Keys |-> IF k \in DOMAIN deadlines THEN deadlines[k] ELSE None]]

EmptyStore == {Loaded(<<>>, <<>>)}

\* A deadline that passes, and a second that passes or never does.
ExpiringPair ==
  {Loaded(k1 :> Str(a) @@ k2 :> Str(a), k1 :> d @@ k2 :> 0) : d \in {0, MaxTime + 1}}

\* A string that expires, a list whose deadline never passes, and one without.
ExpiringAndLasting ==
  {Loaded(k1 :> Str(a) @@ k2 :> List(<<a>>) @@ k3 :> List(<<a>>),
          k1 :> 0 @@ k2 :> MaxTime + 1)}
-----------------------------------------------------------------------------
(* Workloads *)

\* Every command and option, for one client.
EveryRequest ==
  {Set(k1, a), SetEx(k1, a, 1), SetEx(k1, b, 0), Req("GET", k1), Req("DELETE", k1),
   LPush(k1, <<a, b>>), RPush(k1, <<a>>), RPush(k1, <<>>), Expire(k1, 1), Expire(k1, 2)}
  \cup {ListRange(k1, i, j) : i \in {-3, -2, 0, 1}, j \in {-3, -1, 1, 4}}
  \cup {ExpireIf(k1, t, o) : t \in {0, 1}, o \in ExpireOptions}

\* Values with a deadline are read and deleted, and one without is extended, set
\* and read: the use under which every method is atomic.
SeparateUses ==
  {Req("GET", k1), Req("DELETE", k1), ListRange(k2, 0, -1),
   LPush(k3, <<b>>), RPush(k3, <<b>>), Set(k3, b), ListRange(k3, 0, -1)}

\* A value is given new deadlines, read and deleted.
ExpiringUses == {Expire(k1, 0), ExpireIf(k1, 0, "NX"), Req("GET", k1), Req("DELETE", k1)}

\* The write that races with active expiration.
OnlySetEx == {SetEx(k1, a, 0)}
=============================================================================
