----------------------------- MODULE MCSnapshot -----------------------------
(* A save while another client writes both keys.                            *)
EXTENDS Snapshot

CONSTANTS k1, k2, a

BothKeys == {k1, k2}
Strings  == {a}

Set(k, v, t) ==
  [op |-> "SET", key |-> k, vals |-> <<v>>, ttl |-> t, opt |-> None, range |-> <<0, 0>>]

Delete(k) ==
  [op |-> "DELETE", key |-> k, vals |-> <<>>, ttl |-> None, opt |-> None, range |-> <<0, 0>>]

Writes == {Set(k1, a, 0), Set(k2, a, None), Delete(k1)}

EmptyStore == {NoCopy}
=============================================================================
