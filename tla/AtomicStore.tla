---------------------------- MODULE AtomicStore ----------------------------
(***************************************************************************)
(* What the database promises: a map from keys to values that may carry a  *)
(* deadline.  Every command takes effect at one instant between its call   *)
(* and its return, with the result the commands before it determine        *)
(* (linearizability), and a value whose deadline has passed may vanish at  *)
(* any time.                                                               *)
(*                                                                         *)
(* A read compares the deadline with a clock value of its own duration,    *)
(* because the clock moves on while the read is under way.                 *)
(***************************************************************************)
EXTENDS Objects

CONSTANTS Clients, Contents  \* Contents: the initial values of kv

VARIABLES kv, now, phase, cmd, reply

vars == <<kv, now, phase, cmd, reply>>

Pair(obj, exp) == [obj |-> obj, exp |-> exp]

Init ==
  /\ kv \in Contents
  /\ now = 0
  /\ phase = [c \in Clients |-> "idle"]
  /\ cmd = [c \in Clients |-> None]
  /\ reply = [c \in Clients |-> None]

Invoke(c, req) ==
  /\ phase[c] = "idle"
  /\ phase' = [phase EXCEPT ![c] = "called"]
  /\ cmd' = [cmd EXCEPT ![c] = [req |-> req, issued |-> now]]
  /\ UNCHANGED <<kv, now, reply>>
-----------------------------------------------------------------------------
\* What a command m makes of the entry e of its key, and the result it returns.
Expired(e, t) == e # None /\ e.exp # None /\ e.exp < t

Object(e) == IF e = None THEN None ELSE e.obj

Outcome(e, result) == [entry |-> e, result |-> result]

OnSet(m, e) == Outcome(Pair(Str(m.req.vals[1]), Deadline(m)), Ok)

OnRead(m, e, t) ==
  IF Expired(e, t) THEN Outcome(None, NilStr)
  ELSE Outcome(e,
         IF e = None THEN NilStr
         ELSE IF m.req.op = "GET" THEN e.obj
         ELSE IF e.obj.type = "String" THEN Err
         ELSE List(Slice(e.obj.list, m.req.range[1], m.req.range[2])))

OnDelete == Outcome(None, Ok)

OnPush(m, e) ==
  IF e = None THEN Outcome(Pair(List(NewList(m.req.op, m.req.vals)), None), Ok)
  ELSE IF e.obj.type = "String" THEN Outcome(e, Err)
  ELSE Outcome([e EXCEPT !.obj = List(Push(m.req.op, m.req.vals, e.obj.list))], Ok)

OnExpire(m, e) ==
  IF e = None THEN Outcome(None, Err)
  ELSE IF MayExpire(m.req.opt, e.exp, Deadline(m))
       THEN Outcome([e EXCEPT !.exp = Deadline(m)], Ok)
       ELSE Outcome(e, Ok)

Effect(m, e, t) ==
  CASE m.req.op = "SET"                -> OnSet(m, e)
    [] m.req.op \in {"GET", "LRANGE"}  -> OnRead(m, e, t)
    [] m.req.op = "DELETE"             -> OnDelete
    [] m.req.op \in {"LPUSH", "RPUSH"} -> OnPush(m, e)
    [] m.req.op = "EXPIRE"             -> OnExpire(m, e)

Apply(c) ==
  /\ phase[c] = "called"
  /\ phase' = [phase EXCEPT ![c] = "done"]
  /\ LET m == cmd[c]
         k == m.req.key
     IN  \E t \in m.issued .. now :
           LET o == Effect(m, kv[k], t)
           IN  /\ kv' = [kv EXCEPT ![k] = o.entry]
               /\ reply' = [reply EXCEPT ![c] = o.result]
  /\ UNCHANGED <<now, cmd>>

Return(c) ==
  /\ phase[c] = "done"
  /\ phase' = [phase EXCEPT ![c] = "idle"]
  /\ cmd' = [cmd EXCEPT ![c] = None]
  /\ reply' = [reply EXCEPT ![c] = None]
  /\ UNCHANGED <<kv, now>>

Purge(k) ==
  /\ Expired(kv[k], now)
  /\ kv' = [kv EXCEPT ![k] = None]
  /\ UNCHANGED <<now, phase, cmd, reply>>

Tick ==
  /\ now' = now + 1
  /\ UNCHANGED <<kv, phase, cmd, reply>>

Next ==
  \/ \E c \in Clients, req \in Requests : Invoke(c, req)
  \/ \E c \in Clients : Apply(c) \/ Return(c)
  \/ \E k \in Keys : Purge(k)
  \/ Tick

Spec == Init /\ [][Next]_vars
=============================================================================
