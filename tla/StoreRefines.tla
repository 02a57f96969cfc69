---------------------------- MODULE StoreRefines ----------------------------
(***************************************************************************)
(* Store implements AtomicStore under the refinement mapping below.  Each  *)
(* DB method takes effect at one of its DashMap calls:                     *)
(*   set      data.insert (the deadline it has removed and the one it is   *)
(*            about to insert are put back and put in by the mapping);     *)
(*   get and lrange   data.remove when the key is overdue, else data.get;  *)
(*   delete   data.remove;                                                 *)
(*   lpush and rpush   the edit under get_mut, or data.insert;             *)
(*   expire   expirations.insert, or the check that fails.                 *)
(*                                                                         *)
(* The implementation is not true of every workload: methods that race on  *)
(* one key with deadlines, or that create a list, are not atomic.          *)
(***************************************************************************)
EXTENDS Store

\* The steps after the one that takes effect.
Applied == {"set_expire", "lazy_exp", "delete_exp", "return"}

phaseBar ==
  [c \in Clients |-> CASE pc[c] = "idle"     -> "idle"
                       [] pc[c] \in Applied  -> "done"
                       [] OTHER              -> "called"]

\* The result a method is going to return once it has taken effect.
replyBar ==
  [c \in Clients |-> CASE pc[c] \in {"set_expire", "delete_exp"} -> Ok
                       [] pc[c] = "lazy_exp"                     -> NilStr
                       [] OTHER                                  -> reply[c]]

At(k, step) == {c \in Clients : pc[c] = step /\ Key(c) = k}

deadlineBar(k) ==
  IF At(k, "set_expire") # {} THEN Deadline(cmd[CHOOSE c \in At(k, "set_expire") : TRUE])
  ELSE IF At(k, "set_insert") # {} THEN removed[CHOOSE c \in At(k, "set_insert") : TRUE]
  ELSE expirations[k]

\* The absence of a key is no entry.
ASSUME EntryAssumption == None \notin [obj : RedisObject, exp : Nat \cup {None}]

kvBar ==
  [k \in Keys |-> IF data[k] = None THEN None
                  ELSE [obj |-> data[k], exp |-> deadlineBar(k)]]

ContentsBar ==
  {[k \in Keys |-> IF s.data[k] = None THEN None
                   ELSE [obj |-> s.data[k], exp |-> s.expirations[k]]] : s \in Snapshots}

Atomic == INSTANCE AtomicStore
            WITH kv <- kvBar, phase <- phaseBar, reply <- replyBar,
                 Contents <- ContentsBar

\* Every behaviour of the two maps is one of an atomic store.
Linearizable == Atomic!Spec
=============================================================================
