---------------------------- MODULE MCDispatcher ----------------------------
(***************************************************************************)
(* An instance of Dispatcher for TLC: clients that use one key, so that    *)
(* queued commands can fail, in and out of transactions.                   *)
(***************************************************************************)
EXTENDS Dispatcher

CONSTANTS k1, a

Req(op, vals) ==
  [op |-> op, key |-> k1, vals |-> vals, ttl |-> None, opt |-> None, range |-> <<0, 0>>]

OneKey == {k1}
OneVal == {a}

\* A key that becomes a list or a string, so that a queued command can fail in
\* one EXEC and succeed in the next, and a read with every kind of reply.
SetPushRead == {Req("SET", <<a>>), Req("RPUSH", <<a>>), Req("LRANGE", <<>>)}

EmptyStore == {[data |-> [k \in Keys |-> None], expirations |-> [k \in Keys |-> None]]}
=============================================================================
