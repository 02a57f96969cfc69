------------------------ MODULE StoreRefinesProofs ------------------------
(***************************************************************************)
(* Store implements AtomicStore, for any keys, clients and requests, when  *)
(* writers keep apart: alone on their keys, or on keys that are calm.     *)
(***************************************************************************)
EXTENDS StoreRefines, StoreProofs

\* No other task is inside a set on the key of c.
OnlySetter(c) ==
  \A d \in Clients \ {c} : pc[d] \in {"set_insert", "set_expire"} => Key(d) # Key(c)

\* The deadline that the atomic store has for the key of a task.
BarRule ==
  \A c \in Clients : OnlySetter(c) =>
    deadlineBar(Key(c)) = IF pc[c] = "set_expire" THEN Deadline(cmd[c])
                          ELSE IF pc[c] = "set_insert" THEN removed[c]
                          ELSE expirations[Key(c)]

LEMMA BarOfTask == BarRule
<1> SUFFICES ASSUME NEW c \in Clients, OnlySetter(c)
             PROVE  deadlineBar(Key(c)) = IF pc[c] = "set_expire" THEN Deadline(cmd[c])
                                          ELSE IF pc[c] = "set_insert" THEN removed[c]
                                          ELSE expirations[Key(c)]
  BY DEF BarRule
<1>1. ASSUME NEW step \in {"set_insert", "set_expire"}
      PROVE  At(Key(c), step) = IF pc[c] = step THEN {c} ELSE {}
  BY DEF At, OnlySetter
<1>2. (CHOOSE d \in {c} : TRUE) = c
  OBVIOUS
<1> QED
  BY <1>1, <1>2 DEF deadlineBar

\* A step that leaves the tasks inside a set on k alone, and the deadline of k.
LEMMA BarFrame ==
  ASSUME NEW k, expirations'[k] = expirations[k],
         \A d \in Clients : \/ pc'[d] = pc[d] /\ cmd'[d] = cmd[d] /\ removed'[d] = removed[d]
                            \/ /\ pc[d] \in {"set_insert", "set_expire"} => Key(d) # k
                               /\ pc'[d] \in {"set_insert", "set_expire"} => Key(d)' # k
  PROVE  deadlineBar(k)' = deadlineBar(k)
<1>1. ASSUME NEW step \in {"set_insert", "set_expire"}
      PROVE  /\ At(k, step)' = At(k, step)
             /\ \A d \in At(k, step) : cmd'[d] = cmd[d] /\ removed'[d] = removed[d]
  BY DEF At, Key
<1>2. CASE At(k, "set_expire") # {}
  <2> DEFINE d == CHOOSE x \in At(k, "set_expire") : TRUE
  <2>1. d \in At(k, "set_expire")
    BY <1>2
  <2>2. cmd'[d] = cmd[d] /\ At(k, "set_expire")' = At(k, "set_expire")
    BY <1>1, <2>1
  <2>3. deadlineBar(k) = Deadline(cmd[d])
    BY <1>2 DEF deadlineBar
  <2>4. deadlineBar(k)' = Deadline(cmd'[d])
    BY <1>2, <2>2, Zenon DEF deadlineBar
  <2> QED
    BY <2>2, <2>3, <2>4
<1>3. CASE At(k, "set_expire") = {} /\ At(k, "set_insert") # {}
  <2> DEFINE d == CHOOSE x \in At(k, "set_insert") : TRUE
  <2>1. d \in At(k, "set_insert")
    BY <1>3
  <2>2. /\ removed'[d] = removed[d] /\ At(k, "set_insert")' = At(k, "set_insert")
        /\ At(k, "set_expire")' = At(k, "set_expire")
    BY <1>1, <2>1
  <2> QED
    BY <1>3, <2>2, Zenon DEF deadlineBar
<1>4. CASE At(k, "set_expire") = {} /\ At(k, "set_insert") = {}
  BY <1>1, <1>4 DEF deadlineBar
<1> QED
  BY <1>2, <1>3, <1>4

\* When a method makes a step on a key that is not calm, no other task is inside
\* a set on the key, before the step and after it.
LEMMA SetterAlone ==
  ASSUME TypeOK, WritersApart, NEW c \in Clients, DbStep(c), ~Calm(Key(c))
  PROVE  OnlySetter(c) /\ OnlySetter(c)'
<1>1. OnlySetter(c)
  <2> SUFFICES ASSUME NEW d \in Clients \ {c}, pc[d] \in {"set_insert", "set_expire"},
                      Key(d) = Key(c)
               PROVE  FALSE
    BY DEF OnlySetter
  <2>1. Busy(d) /\ pc[d] \in SetSteps
    BY DEF Busy, DbSteps, SetSteps
  <2>2. cmd[d].req.op \in Writers
    BY <2>1, StepOp DEF Writers
  <2>3. Busy(c)
    BY DbStepFrame
  <2> QED
    BY <2>1, <2>2, <2>3 DEF WritersApart, Alone
<1>2. cmd' = cmd /\ \A d \in Clients : d # c => pc'[d] = pc[d]
  BY DbStepFrame
<1> QED
  BY <1>1, <1>2 DEF OnlySetter, Key

\* No deadline is in the hands of a task at work on k: each has removed none, and
\* none is about to insert one.
NoneHeld(k) ==
  /\ expirations[k] = None
  /\ \A d \in Clients : Key(d) = k =>
       /\ pc[d] # "set_expire"
       /\ pc[d] = "set_insert" => removed[d] = None

CalmBar == \A k : NoneHeld(k) => deadlineBar(k) = None

LEMMA BarOfCalm == CalmBar
<1> SUFFICES ASSUME NEW k, NoneHeld(k) PROVE deadlineBar(k) = None
  BY DEF CalmBar
<1>1. At(k, "set_expire") = {} /\ \A d \in At(k, "set_insert") : removed[d] = None
  BY DEF At, NoneHeld
<1>2. CASE At(k, "set_insert") # {}
  <2> DEFINE d == CHOOSE x \in At(k, "set_insert") : TRUE
  <2>1. d \in At(k, "set_insert")
    BY <1>2
  <2>2. deadlineBar(k) = removed[d]
    BY <1>1, <1>2 DEF deadlineBar
  <2> HIDE DEF d
  <2> QED
    BY <1>1, <2>1, <2>2
<1>3. CASE At(k, "set_insert") = {}
  BY <1>1, <1>3 DEF deadlineBar, NoneHeld
<1> QED
  BY <1>2, <1>3

\* When a method makes a step on a calm key, no deadline is in the hands of a task,
\* before the step and after it.
LEMMA CalmHeld ==
  ASSUME TypeOK, NEW c \in Clients, DbStep(c), Calm(Key(c))
  PROVE  /\ NoneHeld(Key(c)) /\ NoneHeld(Key(c))' /\ Key(c)' = Key(c)
         /\ pc[c] # "set_expire" /\ pc'[c] # "set_expire"
         /\ removed[c] = None /\ removed'[c] = None
         /\ expirations[Key(c)] = None /\ expirations'[Key(c)] = None
<1>0. /\ Busy(c) /\ cmd' = cmd
      /\ \A d \in Clients : d # c => pc'[d] = pc[d] /\ removed'[d] = removed[d]
  BY DbStepFrame, Zenon
<1>1. /\ expirations[Key(c)] = None /\ expirations'[Key(c)] = None /\ removed'[c] = None
      /\ removed[c] = None /\ cmd[c].req.ttl = None
  BY <1>0, CalmStep DEF Calm
<1>2. \A d \in Clients : Key(d) = Key(c) /\ pc[d] \in {"set_insert", "set_expire"} =>
        pc[d] # "set_expire" /\ removed[d] = None
  BY DEF Calm, TypeOK, Busy, DbSteps, SetSteps
<1>3. pc[c] # "set_expire"
  BY <1>1 DEF TypeOK
<1>4. pc'[c] # "set_expire"
  <2>1. pc \in [Clients -> DbSteps \cup {"idle", "return"}] /\ Deadline(cmd[c]) = None
    BY <1>1 DEF TypeOK, Deadline
  <2> QED
    BY <2>1, Zenon DEF DbStep, SetUnexpire, SetInsert, SetExpire, LazyCheck, LazyRemoveData,
       LazyRemoveExpiration, Read, DeleteData, DeleteExpiration, PushGet, PushInsert,
       ExpireFind, ExpireOption, ExpireInsert, Goto, Return
<1>5. \A d \in Clients : Key(d)' = Key(d)
  BY <1>0 DEF Key
<1>6. NoneHeld(Key(c))
  BY <1>1, <1>2, Zenon DEF NoneHeld
<1>7. NoneHeld(Key(c))'
  <2>1. ASSUME NEW d \in Clients, Key(d)' = Key(c)'
        PROVE  pc'[d] # "set_expire" /\ (pc'[d] = "set_insert" => removed'[d] = None)
    BY <1>0, <1>1, <1>2, <1>4, <1>5, <2>1, Zenon
  <2> QED
    BY <1>1, <1>5, <2>1, Zenon DEF NoneHeld
<1> QED
  BY <1>1, <1>3, <1>4, <1>5, <1>6, <1>7, Zenon

\* A step of a method on one key leaves the other keys of the atomic store alone.
LEMMA OtherKeys ==
  ASSUME TypeOK, NEW c \in Clients, DbStep(c), NEW k \in Keys, k # Key(c)
  PROVE  kvBar'[k] = kvBar[k]
<1>1. /\ data'[k] = data[k] /\ expirations'[k] = expirations[k] /\ cmd' = cmd
      /\ \A d \in Clients : d # c => pc'[d] = pc[d] /\ removed'[d] = removed[d]
  BY DbStepFrame
<1>2. deadlineBar(k)' = deadlineBar(k)
  <2>1. Key(c)' = Key(c)
    BY <1>1 DEF Key
  <2> QED
    BY <1>1, <2>1, BarFrame
<1> QED
  BY <1>1, <1>2 DEF kvBar

\* The mapping gives a phase and a reply for every task and an entry for every key.
Mapped ==
  /\ phaseBar = [c \in Clients |-> phaseBar[c]]
  /\ replyBar = [c \in Clients |-> replyBar[c]]
  /\ kvBar = [k \in Keys |-> kvBar[k]]

LEMMA MappedAlways == Mapped
  BY DEF Mapped, phaseBar, replyBar, kvBar

LEMMA DbStepBusy ==
  ASSUME TypeOK, NEW c \in Clients, DbStep(c)
  PROVE  pc'[c] # "idle"
<1>1. pc \in [Clients -> DbSteps \cup {"idle", "return"}]
  BY DEF TypeOK
<1> QED
  BY <1>1, Zenon DEF DbStep, SetUnexpire, SetInsert, SetExpire, LazyCheck, LazyRemoveData,
     LazyRemoveExpiration, Read, DeleteData, DeleteExpiration, PushGet, PushInsert,
     ExpireFind, ExpireOption, ExpireInsert, Goto, Return

\* What a step of a method does to the atomic store apart from its own task and key.
LEMMA BarStep ==
  ASSUME TypeOK, NEW c \in Clients, DbStep(c)
  PROVE  /\ Key(c) \in Keys /\ UNCHANGED <<now, cmd>>
         /\ phaseBar[c] = IF pc[c] \in Applied THEN "done" ELSE "called"
         /\ phaseBar' = [phaseBar EXCEPT ![c] = IF pc'[c] \in Applied THEN "done" ELSE "called"]
         /\ replyBar' = [replyBar EXCEPT ![c] = replyBar'[c]]
         /\ kvBar' = [kvBar EXCEPT ![Key(c)] = kvBar'[Key(c)]]
<1>0. /\ Busy(c) /\ UNCHANGED <<now, cmd>> /\ Key(c) \in Keys
      /\ \A d \in Clients : d # c => pc'[d] = pc[d] /\ reply'[d] = reply[d]
  BY DbStepFrame, BusyType DEF Busy
<1>1. pc[c] # "idle" /\ pc'[c] # "idle"
  BY <1>0, DbStepBusy DEF Busy, DbSteps, SetSteps, ReadSteps, DeleteSteps, PushSteps, ExpireSteps
<1>2. Mapped /\ Mapped'
  BY MappedAlways, PTL
<1>3. /\ \A d \in Clients : d # c => phaseBar'[d] = phaseBar[d] /\ replyBar'[d] = replyBar[d]
      /\ phaseBar[c] = IF pc[c] \in Applied THEN "done" ELSE "called"
      /\ phaseBar'[c] = IF pc'[c] \in Applied THEN "done" ELSE "called"
  BY <1>0, <1>1 DEF phaseBar, replyBar
<1>4. \A k \in Keys : k # Key(c) => kvBar'[k] = kvBar[k]
  BY OtherKeys
<1>5. phaseBar' = [phaseBar EXCEPT ![c] = IF pc'[c] \in Applied THEN "done" ELSE "called"]
  BY <1>2, <1>3 DEF Mapped
<1>6. replyBar' = [replyBar EXCEPT ![c] = replyBar'[c]]
  BY <1>2, <1>3 DEF Mapped
<1>7. kvBar' = [kvBar EXCEPT ![Key(c)] = kvBar'[Key(c)]]
  BY <1>0, <1>2, <1>4 DEF Mapped
<1> QED
  BY <1>0, <1>3, <1>5, <1>6, <1>7

\* The step at which a method takes effect is the Apply of the atomic store.
LEMMA ApplyStep ==
  ASSUME TypeOK, NEW c \in Clients, DbStep(c), pc[c] \notin Applied, pc'[c] \in Applied,
         NEW o, NEW t \in cmd[c].issued .. now,
         o = Atomic!Effect(cmd[c], kvBar[Key(c)], t),
         kvBar'[Key(c)] = o.entry, replyBar'[c] = o.result
  PROVE  Atomic!Apply(c)
<1>1. /\ UNCHANGED <<now, cmd>>
      /\ phaseBar[c] = "called" /\ phaseBar' = [phaseBar EXCEPT ![c] = "done"]
      /\ kvBar' = [kvBar EXCEPT ![Key(c)] = o.entry]
      /\ replyBar' = [replyBar EXCEPT ![c] = o.result]
  BY BarStep
<1> QED
  BY <1>1, Zenon DEF Atomic!Apply, Key

\* The other steps of a method leave the atomic store alone.
LEMMA StutterStep ==
  ASSUME TypeOK, NEW c \in Clients, DbStep(c), pc[c] \in Applied <=> pc'[c] \in Applied,
         kvBar'[Key(c)] = kvBar[Key(c)], replyBar'[c] = replyBar[c]
  PROVE  UNCHANGED Atomic!vars
<1>1. Mapped
  BY MappedAlways
<1>2. Key(c) \in Keys /\ UNCHANGED <<now, cmd>>
  BY BarStep
<1>3. phaseBar' = phaseBar
  BY <1>1, BarStep DEF Mapped
<1>4. replyBar' = replyBar
  BY <1>1, BarStep DEF Mapped
<1>5. kvBar' = kvBar
  BY <1>1, <1>2, BarStep DEF Mapped
<1> QED
  BY <1>2, <1>3, <1>4, <1>5 DEF Atomic!vars
-----------------------------------------------------------------------------
(* The effects of the atomic store in the terms of Store *)

Outcome(e, result) == [entry |-> e, result |-> result]

LEMMA SetEffect ==
  ASSUME NEW m, NEW e, NEW t, m.req.op = "SET"
  PROVE  Atomic!Effect(m, e, t)
           = Outcome([obj |-> Str(m.req.vals[1]), exp |-> Deadline(m)], Ok)
BY DEF Atomic!Effect, Atomic!OnSet, Atomic!Outcome, Atomic!Pair, Outcome,
   Atomic!Str, Str, Atomic!Deadline, Deadline, Atomic!Ok, Ok

LEMMA DeleteEffect ==
  ASSUME NEW m, NEW e, NEW t, m.req.op = "DELETE"
  PROVE  Atomic!Effect(m, e, t) = Outcome(None, Ok)
BY DEF Atomic!Effect, Atomic!OnDelete, Atomic!Outcome, Outcome, Atomic!Ok, Ok

LEMMA ReadEffect ==
  ASSUME NEW m \in Command, NEW e, NEW t, m.req.op \in {"GET", "LRANGE"},
         e = None \/ e.obj \in RedisObject
  PROVE  Atomic!Effect(m, e, t)
           = IF e # None /\ e.exp # None /\ e.exp < t THEN Outcome(None, NilStr)
             ELSE Outcome(e, ReadResult(m.req, IF e = None THEN None ELSE e.obj))
<1>1. Atomic!Effect(m, e, t) = Atomic!OnRead(m, e, t)
  BY DEF Atomic!Effect
<1>2. Atomic!NilStr = NilStr /\ Atomic!Err = Err /\ \A x : Atomic!List(x) = List(x)
  BY DEF Atomic!NilStr, NilStr, Atomic!Str, Str, Atomic!Err, Err, Atomic!List, List
<1>3. \A l, x, y : Atomic!Slice(l, x, y) = Slice(l, x, y)
  BY DEF Atomic!Slice, Slice, Atomic!Selected, Selected, Atomic!Index, Index, Atomic!Min, Min, Atomic!Max, Max
<1>4. CASE e # None /\ e.exp # None /\ e.exp < t
  BY <1>1, <1>2, <1>4 DEF Atomic!OnRead, Atomic!Expired, Atomic!Outcome, Outcome
<1>5. CASE e = None
  BY <1>1, <1>2, <1>5 DEF Atomic!OnRead, Atomic!Expired, Atomic!Outcome, Outcome, ReadResult
<1>6. CASE e # None /\ ~(e.exp # None /\ e.exp < t)
  <2>1. e.obj \in RedisObject /\ e.obj # None
    BY <1>6, NoneAssumption
  <2>2. Atomic!OnRead(m, e, t)
          = Outcome(e, IF m.req.op = "GET" THEN e.obj
                       ELSE IF e.obj.type = "String" THEN Err
                       ELSE List(Slice(e.obj.list, m.req.range[1], m.req.range[2])))
    BY <1>2, <1>3, <1>6 DEF Atomic!OnRead, Atomic!Expired, Atomic!Outcome, Outcome
  <2>3. e.obj.type = "String" \/ (e.obj.type = "List" /\ e.obj.list \in Seq(Vals))
    BY <2>1 DEF RedisObject
  <2>4. e.obj.type = "List" => LRange(e.obj.list, m.req.range[1], m.req.range[2])
                                 = Slice(e.obj.list, m.req.range[1], m.req.range[2])
    BY <2>3, CommandType, LRangeIsSlice
  <2> QED
    BY <1>1, <1>6, <2>1, <2>2, <2>3, <2>4 DEF ReadResult
<1> QED
  BY <1>4, <1>5, <1>6

LEMMA PushEffect ==
  /\ \A op, x : Atomic!NewList(op, x) = NewList(op, x)
  /\ \A op, x, y : Atomic!Push(op, x, y) = Push(op, x, y)
  /\ \A x : Atomic!List(x) = List(x)
  /\ Atomic!Ok = Ok /\ Atomic!Err = Err
BY DEF Atomic!Ok, Ok, Atomic!Err, Err, Atomic!List, List, Atomic!NewList, NewList,
   Atomic!Reversed, Reversed, Atomic!Push, Push

LEMMA PushAbsent ==
  ASSUME NEW m, NEW e, NEW t, m.req.op \in {"LPUSH", "RPUSH"}, e = None
  PROVE  Atomic!Effect(m, e, t)
           = Outcome([obj |-> List(NewList(m.req.op, m.req.vals)), exp |-> None], Ok)
<1>1. Atomic!Effect(m, e, t) = Atomic!OnPush(m, e)
  BY DEF Atomic!Effect
<1> QED
  BY <1>1, PushEffect, Zenon DEF Atomic!OnPush, Atomic!Outcome, Outcome, Atomic!Pair

LEMMA PushWrongType ==
  ASSUME NEW m, NEW e, NEW t, m.req.op \in {"LPUSH", "RPUSH"}, e # None, e.obj.type = "String"
  PROVE  Atomic!Effect(m, e, t) = Outcome(e, Err)
<1>1. Atomic!Effect(m, e, t) = Atomic!OnPush(m, e)
  BY DEF Atomic!Effect
<1> QED
  BY <1>1, PushEffect, Zenon DEF Atomic!OnPush, Atomic!Outcome, Outcome

LEMMA PushPresent ==
  ASSUME NEW m, NEW e, NEW t, m.req.op \in {"LPUSH", "RPUSH"}, e # None, e.obj.type # "String"
  PROVE  Atomic!Effect(m, e, t)
           = Outcome([e EXCEPT !.obj = List(Push(m.req.op, m.req.vals, e.obj.list))], Ok)
<1>1. Atomic!Effect(m, e, t) = Atomic!OnPush(m, e)
  BY DEF Atomic!Effect
<1> QED
  BY <1>1, PushEffect, Zenon DEF Atomic!OnPush, Atomic!Outcome, Outcome

LEMMA ExpireEffect ==
  ASSUME NEW m, NEW e, NEW t, m.req.op = "EXPIRE"
  PROVE  Atomic!Effect(m, e, t)
           = IF e = None THEN Outcome(None, Err)
             ELSE IF MayExpire(m.req.opt, e.exp, Deadline(m))
                  THEN Outcome([e EXCEPT !.exp = Deadline(m)], Ok)
                  ELSE Outcome(e, Ok)
<1>1. Atomic!Effect(m, e, t) = Atomic!OnExpire(m, e)
  BY DEF Atomic!Effect
<1>2. /\ Atomic!Ok = Ok /\ Atomic!Err = Err
      /\ Atomic!Deadline(m) = Deadline(m)
      /\ \A x, y, z : Atomic!MayExpire(x, y, z) = MayExpire(x, y, z)
  BY DEF Atomic!Ok, Ok, Atomic!Err, Err, Atomic!Deadline, Deadline, Atomic!MayExpire, MayExpire
<1> QED
  BY <1>1, <1>2, Zenon DEF Atomic!OnExpire, Atomic!Outcome, Outcome
-----------------------------------------------------------------------------
(* Every step of Store is a step of the atomic store, or none *)

Implements == Atomic!Next \/ UNCHANGED Atomic!vars

\* The entry of the atomic store at the key of the task that makes a step.
LEMMA EntryOf ==
  ASSUME TypeOK, AtomicInv, WritersApart, NEW c \in Clients, DbStep(c)
  PROVE  /\ Busy(c) /\ Knows(c) /\ Key(c) \in Keys /\ cmd[c] \in Command
         /\ cmd' = cmd /\ now' = now /\ reply[c] = None
         /\ cmd[c].issued \in cmd[c].issued .. now /\ now \in cmd[c].issued .. now
         /\ kvBar[Key(c)] = None <=> data[Key(c)] = None
         /\ kvBar[Key(c)] = IF data[Key(c)] = None THEN None
                            ELSE [obj |-> data[Key(c)],
                                  exp |-> IF pc[c] = "set_expire" THEN Deadline(cmd[c])
                                          ELSE IF pc[c] = "set_insert" THEN removed[c]
                                          ELSE expirations[Key(c)]]
         /\ kvBar'[Key(c)] = IF data'[Key(c)] = None THEN None
                             ELSE [obj |-> data'[Key(c)],
                                   exp |-> IF pc'[c] = "set_expire" THEN Deadline(cmd[c])
                                           ELSE IF pc'[c] = "set_insert" THEN removed'[c]
                                           ELSE expirations'[Key(c)]]
         /\ replyBar'[c] = CASE pc'[c] \in {"set_expire", "delete_exp"} -> Ok
                             [] pc'[c] = "lazy_exp" -> NilStr
                             [] OTHER -> reply'[c]
<1>0. /\ Busy(c) /\ Knows(c) /\ Key(c) \in Keys /\ cmd[c] \in Command
      /\ cmd' = cmd /\ now' = now /\ reply[c] = None
  BY DbStepFrame, BusyType DEF Busy, AtomicInv
<1>1. cmd[c].issued \in Nat /\ now \in Nat /\ cmd[c].issued <= now
  BY <1>0 DEF Command, Knows, TypeOK
<1>2. Key(c)' = Key(c)
  BY <1>0 DEF Key
<1>3. /\ deadlineBar(Key(c)) = IF pc[c] = "set_expire" THEN Deadline(cmd[c])
                               ELSE IF pc[c] = "set_insert" THEN removed[c]
                               ELSE expirations[Key(c)]
      /\ deadlineBar(Key(c))' = IF pc'[c] = "set_expire" THEN Deadline(cmd'[c])
                                ELSE IF pc'[c] = "set_insert" THEN removed'[c]
                                ELSE expirations'[Key(c)']
  <2>1. CASE Calm(Key(c))
    <3>1. CalmBar /\ CalmBar'
      BY BarOfCalm, PTL
    <3>2. deadlineBar(Key(c)) = None /\ deadlineBar(Key(c))' = None
      BY <2>1, <3>1, CalmHeld, Zenon DEF CalmBar
    <3> QED
      BY <1>2, <2>1, <3>2, CalmHeld, Zenon
  <2>2. CASE ~Calm(Key(c))
    <3>1. BarRule /\ BarRule'
      BY BarOfTask, PTL
    <3> QED
      BY <2>2, <3>1, SetterAlone DEF BarRule
  <2> QED
    BY <2>1, <2>2
<1>6. kvBar'[Key(c)] = IF data'[Key(c)] = None THEN None
                       ELSE [obj |-> data'[Key(c)], exp |-> deadlineBar(Key(c))']
  BY <1>0, <1>2 DEF kvBar
<1>7. kvBar[Key(c)] = IF data[Key(c)] = None THEN None
                      ELSE [obj |-> data[Key(c)], exp |-> deadlineBar(Key(c))]
  BY <1>0 DEF kvBar
<1>8. replyBar'[c] = CASE pc'[c] \in {"set_expire", "delete_exp"} -> Ok
                       [] pc'[c] = "lazy_exp" -> NilStr
                       [] OTHER -> reply'[c]
  BY DEF replyBar
<1>9. kvBar[Key(c)] = None <=> data[Key(c)] = None
  <2>1. deadlineBar(Key(c)) \in Nat \cup {None}
    BY <1>0, <1>3, CommandType DEF TypeOK
  <2>2. data[Key(c)] \in RedisObject \cup {None}
    BY <1>0 DEF TypeOK
  <2> QED
    BY <1>7, <2>1, <2>2, EntryAssumption
<1> QED
  BY <1>0, <1>1, <1>2, <1>3, <1>6, <1>7, <1>8, <1>9

LEMMA ApplyImplements ==
  ASSUME TypeOK, NEW c \in Clients, DbStep(c), pc[c] \notin Applied, pc'[c] \in Applied,
         NEW t \in cmd[c].issued .. now, NEW e, NEW result,
         Atomic!Effect(cmd[c], kvBar[Key(c)], t) = Outcome(e, result),
         kvBar'[Key(c)] = e, replyBar'[c] = result
  PROVE  Implements
<1>1. Outcome(e, result).entry = e /\ Outcome(e, result).result = result
  BY DEF Outcome
<1>2. Atomic!Apply(c)
  BY <1>1, ApplyStep
<1> QED
  BY <1>2 DEF Implements, Atomic!Next

LEMMA SetImplements ==
  ASSUME TypeOK, AtomicInv, WritersApart, NEW c \in Clients, DbStep(c),
         SetUnexpire(c) \/ SetInsert(c) \/ SetExpire(c)
  PROVE  Implements
<1> DEFINE k == Key(c)
           m == cmd[c]
<1>0. /\ data \in [Keys -> RedisObject \cup {None}]
      /\ expirations \in [Keys -> Nat \cup {None}]
      /\ pc \in [Clients -> DbSteps \cup {"idle", "return"}]
      /\ reply \in [Clients -> Result \cup {None}]
      /\ removed \in [Clients -> Nat \cup {None}]
  BY DEF TypeOK
<1>1. k \in Keys /\ m \in Command /\ Knows(c) /\ reply[c] = None
  BY EntryOf, Zenon
<1>2. CASE SetUnexpire(c)
  <2>1. /\ pc[c] = "set_unexpire" /\ pc'[c] = "set_insert" /\ data'[k] = data[k]
        /\ removed'[c] = expirations[k] /\ reply'[c] = None
    BY <1>0, <1>1, <1>2 DEF SetUnexpire, Goto
  <2>2. kvBar'[k] = kvBar[k]
    BY <2>1, EntryOf, Zenon
  <2>3. replyBar'[c] = replyBar[c] /\ (pc[c] \in Applied <=> pc'[c] \in Applied)
    BY <1>1, <2>1 DEF replyBar, Applied
  <2> QED
    BY <2>2, <2>3, StutterStep DEF Implements
<1>3. CASE SetInsert(c)
  <2> DEFINE e == [obj |-> Str(m.req.vals[1]), exp |-> Deadline(m)]
  <2>1. /\ pc[c] = "set_insert" /\ data'[k] = Str(m.req.vals[1])
        /\ expirations'[k] = expirations[k]
        /\ \/ pc'[c] = "return" /\ Deadline(m) = None /\ reply'[c] = Ok
           \/ pc'[c] = "set_expire"
    BY <1>0, <1>1, <1>3 DEF SetInsert, Goto, Return
  <2>2. m.req.op = "SET"
    BY <2>1, StepOp, EntryOf, Zenon DEF SetSteps
  <2>3. Str(m.req.vals[1]) # None /\ expirations[k] = None
    BY <1>1, <2>1, <2>2, CommandType, ObjectType, NoneAssumption, Zenon DEF Knows
  <2>4. kvBar'[k] = e /\ replyBar'[c] = Ok
    BY <2>1, <2>3, EntryOf, Zenon
  <2>5. Atomic!Effect(m, kvBar[k], m.issued) = Outcome(e, Ok)
    BY <2>2, SetEffect, Zenon
  <2>6. pc[c] \notin Applied /\ pc'[c] \in Applied /\ m.issued \in m.issued .. now
    BY <2>1, EntryOf, Zenon DEF Applied
  <2> HIDE DEF e
  <2> QED
    BY <2>4, <2>5, <2>6, ApplyImplements
<1>4. CASE SetExpire(c)
  <2>1. /\ pc[c] = "set_expire" /\ pc'[c] = "return" /\ data'[k] = data[k]
        /\ expirations'[k] = Deadline(m) /\ reply'[c] = Ok
    BY <1>0, <1>1, <1>4 DEF SetExpire, Goto, Return
  <2>2. kvBar'[k] = kvBar[k]
    BY <2>1, EntryOf, Zenon
  <2>3. replyBar'[c] = replyBar[c] /\ (pc[c] \in Applied <=> pc'[c] \in Applied)
    BY <1>1, <2>1 DEF replyBar, Applied
  <2> QED
    BY <2>2, <2>3, StutterStep DEF Implements
<1> QED
  BY <1>2, <1>3, <1>4

LEMMA ReadImplements ==
  ASSUME TypeOK, AtomicInv, WritersApart, NEW c \in Clients, DbStep(c),
         LazyCheck(c) \/ LazyRemoveData(c) \/ LazyRemoveExpiration(c) \/ Read(c)
  PROVE  Implements
<1> DEFINE k == Key(c)
           m == cmd[c]
<1>0. /\ data \in [Keys -> RedisObject \cup {None}]
      /\ expirations \in [Keys -> Nat \cup {None}]
      /\ pc \in [Clients -> DbSteps \cup {"idle", "return"}]
      /\ reply \in [Clients -> Result \cup {None}]
      /\ now \in Nat
  BY Zenon DEF TypeOK
<1>1. k \in Keys /\ m \in Command /\ Knows(c) /\ reply[c] = None /\ m.issued \in Nat
  BY EntryOf, Zenon DEF Command
<1>2. m.req.op \in {"GET", "LRANGE"}
  <2>1. pc[c] \in ReadSteps
    BY Zenon DEF LazyCheck, LazyRemoveData, LazyRemoveExpiration, Read, ReadSteps
  <2> QED
    BY <2>1, StepOp, EntryOf, Zenon
<1>3. CASE LazyCheck(c)
  <2>1. /\ pc[c] = "lazy_check" /\ pc'[c] \in {"lazy_data", "read"}
        /\ data' = data /\ expirations' = expirations /\ reply'[c] = None
    BY <1>0, <1>1, <1>3 DEF LazyCheck, Goto, maps
  <2>2. kvBar'[k] = kvBar[k]
    BY <2>1, EntryOf, Zenon
  <2>3. replyBar'[c] = replyBar[c] /\ (pc[c] \in Applied <=> pc'[c] \in Applied)
    BY <1>1, <2>1 DEF replyBar, Applied
  <2> QED
    BY <2>2, <2>3, StutterStep DEF Implements
<1>4. CASE LazyRemoveData(c)
  <2>1. pc[c] = "lazy_data" /\ pc'[c] = "lazy_exp" /\ data'[k] = None
    BY <1>0, <1>1, <1>4 DEF LazyRemoveData, Goto
  <2>2. kvBar'[k] = None /\ replyBar'[c] = NilStr
    BY <2>1, EntryOf, Zenon
  <2>3. data[k] = None \/ (expirations[k] # None /\ expirations[k] < now)
    BY <1>1, <2>1 DEF Knows, IsExpired
  <2>4. kvBar[k] = IF data[k] = None THEN None ELSE [obj |-> data[k], exp |-> expirations[k]]
    BY <2>1, EntryOf, Zenon
  <2>5. kvBar[k] = None \/ kvBar[k].obj \in RedisObject
    BY <1>0, <1>1, <2>4
  <2>6. kvBar[k] = None \/ (kvBar[k] # None /\ kvBar[k].exp # None /\ kvBar[k].exp < now)
    BY <2>3, <2>4
  <2>7. Atomic!Effect(m, kvBar[k], now) = Outcome(None, NilStr)
    BY <1>1, <1>2, <2>5, <2>6, ReadEffect DEF ReadResult
  <2>8. pc[c] \notin Applied /\ pc'[c] \in Applied /\ now \in m.issued .. now
    BY <2>1, EntryOf, Zenon DEF Applied
  <2> QED
    BY <2>2, <2>7, <2>8, ApplyImplements
<1>5. CASE LazyRemoveExpiration(c)
  <2>1. /\ pc[c] = "lazy_exp" /\ pc'[c] = "return" /\ data'[k] = data[k] /\ reply'[c] = NilStr
    BY <1>0, <1>1, <1>5 DEF LazyRemoveExpiration, Goto, Return
  <2>2. data[k] = None
    BY <1>1, <2>1 DEF Knows
  <2>3. kvBar'[k] = kvBar[k]
    BY <2>1, <2>2, EntryOf, Zenon
  <2>4. replyBar'[c] = replyBar[c] /\ (pc[c] \in Applied <=> pc'[c] \in Applied)
    BY <1>1, <2>1 DEF replyBar, Applied
  <2> QED
    BY <2>3, <2>4, StutterStep DEF Implements
<1>6. CASE Read(c)
  <2>1. /\ pc[c] = "read" /\ pc'[c] = "return" /\ data' = data /\ expirations' = expirations
        /\ reply'[c] = ReadResult(m.req, data[k])
    BY <1>0, <1>1, <1>6 DEF Read, Goto, Return, maps
  <2>2. kvBar'[k] = kvBar[k] /\ replyBar'[c] = ReadResult(m.req, data[k])
    BY <2>1, EntryOf, Zenon
  <2>3. kvBar[k] = IF data[k] = None THEN None ELSE [obj |-> data[k], exp |-> expirations[k]]
    BY <2>1, EntryOf
  <2>4. data[k] = None \/ expirations[k] = None \/ expirations[k] >= m.issued
    BY <1>1, <2>1 DEF Knows
  <2>5. ~(kvBar[k] # None /\ kvBar[k].exp # None /\ kvBar[k].exp < m.issued)
    BY <1>0, <1>1, <2>3, <2>4
  <2>6. /\ kvBar[k] = None \/ kvBar[k].obj \in RedisObject
        /\ data[k] = IF kvBar[k] = None THEN None ELSE kvBar[k].obj
    <3>1. kvBar[k] = None <=> data[k] = None
      BY EntryOf, Zenon
    <3> QED
      BY <1>0, <1>1, <2>3, <3>1
  <2>7. Atomic!Effect(m, kvBar[k], m.issued) = Outcome(kvBar[k], ReadResult(m.req, data[k]))
    <3> DEFINE e == kvBar[k]
    <3>1. Atomic!Effect(m, e, m.issued)
            = IF e # None /\ e.exp # None /\ e.exp < m.issued THEN Outcome(None, NilStr)
              ELSE Outcome(e, ReadResult(m.req, IF e = None THEN None ELSE e.obj))
      BY <1>1, <1>2, <2>6, ReadEffect
    <3>2. /\ ~(e # None /\ e.exp # None /\ e.exp < m.issued)
          /\ data[k] = IF e = None THEN None ELSE e.obj
      BY <2>5, <2>6, Zenon
    <3> HIDE DEF e
    <3>3. Atomic!Effect(m, e, m.issued) = Outcome(e, ReadResult(m.req, data[k]))
      BY <3>1, <3>2
    <3> QED
      BY <3>3 DEF e
  <2>8. pc[c] \notin Applied /\ pc'[c] \in Applied /\ m.issued \in m.issued .. now
    BY <2>1, EntryOf, Zenon DEF Applied
  <2> QED
    BY <2>2, <2>7, <2>8, ApplyImplements
<1> QED
  BY <1>3, <1>4, <1>5, <1>6

LEMMA DeleteImplements ==
  ASSUME TypeOK, AtomicInv, WritersApart, NEW c \in Clients, DbStep(c),
         DeleteData(c) \/ DeleteExpiration(c)
  PROVE  Implements
<1> DEFINE k == Key(c)
           m == cmd[c]
<1>0. /\ data \in [Keys -> RedisObject \cup {None}]
      /\ expirations \in [Keys -> Nat \cup {None}]
      /\ pc \in [Clients -> DbSteps \cup {"idle", "return"}]
      /\ reply \in [Clients -> Result \cup {None}]
  BY DEF TypeOK
<1>1. k \in Keys /\ m \in Command /\ Knows(c) /\ reply[c] = None
  BY EntryOf, Zenon
<1>2. m.req.op = "DELETE"
  <2>1. pc[c] \in DeleteSteps
    BY DEF DeleteData, DeleteExpiration, DeleteSteps
  <2> QED
    BY <2>1, StepOp, EntryOf, Zenon
<1>3. CASE DeleteData(c)
  <2>1. pc[c] = "delete_data" /\ pc'[c] = "delete_exp" /\ data'[k] = None
    BY <1>0, <1>1, <1>3 DEF DeleteData, Goto
  <2>2. kvBar'[k] = None /\ replyBar'[c] = Ok
    BY <2>1, EntryOf, Zenon
  <2>3. Atomic!Effect(m, kvBar[k], now) = Outcome(None, Ok)
    BY <1>2, DeleteEffect
  <2>4. pc[c] \notin Applied /\ pc'[c] \in Applied /\ now \in m.issued .. now
    BY <2>1, EntryOf, Zenon DEF Applied
  <2> QED
    BY <2>2, <2>3, <2>4, ApplyImplements
<1>4. CASE DeleteExpiration(c)
  <2>1. /\ pc[c] = "delete_exp" /\ pc'[c] = "return" /\ data'[k] = data[k] /\ reply'[c] = Ok
        /\ expirations'[k] = None
    BY <1>0, <1>1, <1>4 DEF DeleteExpiration, Goto, Return
  <2>2. data[k] = None \/ expirations[k] = None
    BY <1>1, <2>1 DEF Knows
  <2>3. kvBar'[k] = kvBar[k]
    BY <2>1, <2>2, EntryOf, Zenon
  <2>4. replyBar'[c] = replyBar[c] /\ (pc[c] \in Applied <=> pc'[c] \in Applied)
    BY <1>1, <2>1 DEF replyBar, Applied
  <2> QED
    BY <2>3, <2>4, StutterStep DEF Implements
<1> QED
  BY <1>3, <1>4

\* A push that finds no list creates one without a deadline: nobody else is at work
\* on the key, so no deadline is waiting to be removed.
LEMMA PushImplements ==
  ASSUME TypeOK, AtomicInv, WritersApart, NEW c \in Clients, DbStep(c),
         PushGet(c) \/ PushInsert(c)
  PROVE  Implements
<1> DEFINE k == Key(c)
           m == cmd[c]
<1>0. /\ data \in [Keys -> RedisObject \cup {None}]
      /\ pc \in [Clients -> DbSteps \cup {"idle", "return"}]
      /\ reply \in [Clients -> Result \cup {None}]
  BY DEF TypeOK
<1>1. k \in Keys /\ m \in Command /\ Knows(c) /\ reply[c] = None /\ Busy(c)
  BY EntryOf, Zenon
<1>2. m.req.op \in {"LPUSH", "RPUSH"}
  <2>1. pc[c] \in PushSteps
    BY DEF PushGet, PushInsert, PushSteps
  <2> QED
    BY <2>1, StepOp, EntryOf, Zenon
<1>3. m.req.vals \in Seq(Vals) /\ m.issued \in m.issued .. now
  BY <1>1, CommandType, EntryOf, Zenon
<1>4. ASSUME PushGet(c), data[k] = None PROVE Implements
  <2>1. /\ pc[c] = "push_get" /\ pc'[c] = "push_insert"
        /\ data'[k] = data[k] /\ reply'[c] = None
    BY <1>0, <1>1, <1>4, Zenon DEF PushGet, Goto
  <2>2. kvBar'[k] = kvBar[k]
    BY <1>4, <2>1, EntryOf, Zenon
  <2>3. replyBar'[c] = replyBar[c] /\ (pc[c] \in Applied <=> pc'[c] \in Applied)
    BY <1>1, <2>1 DEF replyBar, Applied
  <2> QED
    BY <2>2, <2>3, StutterStep DEF Implements
<1>5. ASSUME PushGet(c), data[k] # None PROVE Implements
  <2>1. /\ pc[c] = "push_get" /\ pc'[c] = "return" /\ expirations' = expirations
        /\ \/ /\ data[k].type = "List" /\ reply'[c] = Ok
              /\ data'[k] = List(Push(m.req.op, m.req.vals, data[k].list))
           \/ data[k].type = "String" /\ reply'[c] = Err /\ data' = data
    BY <1>0, <1>1, <1>5 DEF PushGet, Goto, Return
  <2>2. kvBar[k] = [obj |-> data[k], exp |-> expirations[k]] /\ kvBar[k] # None
    BY <1>5, <2>1, EntryOf, Zenon
  <2>3. pc[c] \notin Applied /\ pc'[c] \in Applied /\ replyBar'[c] = reply'[c]
    BY <2>1, EntryOf, Zenon DEF Applied
  <2>4. CASE data[k].type = "List"
    <3> DEFINE new == List(Push(m.req.op, m.req.vals, data[k].list))
    <3>1. data'[k] = new /\ reply'[c] = Ok
      BY <2>1, <2>4
    <3>2. new # None
      <4>1. data[k].list \in Seq(Vals)
        BY <1>0, <1>1, <1>5, <2>4 DEF RedisObject
      <4> QED
        BY <1>3, <4>1, PushType, ObjectType, NoneAssumption, Zenon
    <3> HIDE DEF new
    <3>3. kvBar'[k] = [obj |-> new, exp |-> expirations[k]]
      BY <2>1, <3>1, <3>2, EntryOf, Zenon
    <3>4. kvBar'[k] = [kvBar[k] EXCEPT !.obj = new]
      BY <2>2, <3>3
    <3>5. kvBar[k].obj = data[k] /\ kvBar[k].obj.type # "String"
      BY <2>2, <2>4
    <3>6. Atomic!Effect(m, kvBar[k], m.issued) = Outcome([kvBar[k] EXCEPT !.obj = new], Ok)
      <4>1. Atomic!Effect(m, kvBar[k], m.issued)
              = Outcome([kvBar[k] EXCEPT
                           !.obj = List(Push(m.req.op, m.req.vals, kvBar[k].obj.list))], Ok)
        BY <1>2, <2>2, <3>5, PushPresent
      <4> QED
        BY <3>5, <4>1, Zenon DEF new
    <3> QED
      BY <1>3, <2>3, <3>1, <3>4, <3>6, ApplyImplements
  <2>5. CASE data[k].type = "String"
    <3>1. kvBar'[k] = kvBar[k] /\ reply'[c] = Err
      BY <2>1, <2>5, EntryOf, Zenon
    <3>2. kvBar[k].obj.type = "String"
      BY <2>2, <2>5
    <3>3. Atomic!Effect(m, kvBar[k], m.issued) = Outcome(kvBar[k], Err)
      BY <1>2, <2>2, <3>2, PushWrongType
    <3> QED
      BY <1>3, <2>3, <3>1, <3>3, ApplyImplements
  <2> QED
    BY <2>1, <2>4, <2>5
<1>6. CASE PushInsert(c)
  <2> DEFINE new == List(NewList(m.req.op, m.req.vals))
  <2>1. /\ pc[c] = "push_insert" /\ pc'[c] = "return" /\ expirations' = expirations
        /\ data'[k] = new /\ reply'[c] = Ok
    BY <1>0, <1>1, <1>6 DEF PushInsert, Goto, Return
  <2>2. data[k] = None
    BY <1>1, <2>1 DEF Knows
  <2>3. expirations[k] = None
    <3>1. reaper.key # k /\ \A d \in Clients : Busy(d) /\ Key(d) = k => d = c
      BY <1>1, <1>2, <2>1 DEF WritersApart, Writers, Alone, Calm
    <3>2. \A d \in Clients : pc[d] \in {"lazy_exp", "delete_exp"} => Busy(d)
      BY DEF Busy, DbSteps, ReadSteps, DeleteSteps
    <3>3. ~Removing(k)
      BY <2>1, <3>1, <3>2 DEF Removing
    <3>4. InSync(k)
      BY <1>1 DEF AtomicInv
    <3> QED
      BY <2>2, <3>3, <3>4 DEF InSync
  <2>4. new # None
    BY <1>3, PushType, ObjectType, NoneAssumption, Zenon
  <2>5. Atomic!Effect(m, kvBar[k], m.issued) = Outcome([obj |-> new, exp |-> None], Ok)
    <3>1. kvBar[k] = None
      BY <2>2, EntryOf, Zenon
    <3> QED
      BY <1>2, <3>1, PushAbsent
  <2> HIDE DEF new
  <2>6. kvBar'[k] = [obj |-> new, exp |-> None] /\ replyBar'[c] = Ok
    BY <2>1, <2>3, <2>4, EntryOf, Zenon
  <2>7. pc[c] \notin Applied /\ pc'[c] \in Applied
    BY <2>1 DEF Applied
  <2> QED
    BY <1>3, <2>5, <2>6, <2>7, ApplyImplements
<1> QED
  BY <1>4, <1>5, <1>6

LEMMA ExpireImplements ==
  ASSUME TypeOK, AtomicInv, WritersApart, NEW c \in Clients, DbStep(c),
         ExpireFind(c) \/ ExpireOption(c) \/ ExpireInsert(c)
  PROVE  Implements
<1> DEFINE k == Key(c)
           m == cmd[c]
<1>0. /\ expirations \in [Keys -> Nat \cup {None}]
      /\ pc \in [Clients -> DbSteps \cup {"idle", "return"}]
      /\ reply \in [Clients -> Result \cup {None}]
  BY DEF TypeOK
<1>1. k \in Keys /\ m \in Command /\ Knows(c) /\ reply[c] = None /\ m.issued \in m.issued .. now
  BY EntryOf, Zenon
<1>2. m.req.op = "EXPIRE" /\ pc[c] \notin Applied /\ pc[c] # "set_insert"
  <2>1. pc[c] \in ExpireSteps
    BY Zenon DEF ExpireFind, ExpireOption, ExpireInsert, ExpireSteps
  <2> QED
    BY <2>1, StepOp, EntryOf, Zenon DEF ExpireSteps, Applied
<1>3. ASSUME data' = data, expirations' = expirations, reply'[c] = None,
             pc'[c] \in {"expire_option", "expire_insert"}
      PROVE  Implements
  <2>1. kvBar'[k] = kvBar[k]
    BY <1>2, <1>3, EntryOf, Zenon DEF Applied
  <2>2. replyBar'[c] = replyBar[c] /\ (pc[c] \in Applied <=> pc'[c] \in Applied)
    BY <1>1, <1>2, <1>3 DEF replyBar, Applied
  <2> QED
    BY <2>1, <2>2, StutterStep DEF Implements
<1>4. CASE ExpireFind(c)
  <2>1. CASE data[k] = None
    <3>1. /\ pc[c] = "expire_find" /\ pc'[c] = "return" /\ data' = data
          /\ expirations' = expirations /\ reply'[c] = Err
      BY <1>0, <1>1, <1>4, <2>1 DEF ExpireFind, Goto, Return, maps
    <3>2. kvBar[k] = None /\ kvBar'[k] = None /\ replyBar'[c] = Err /\ pc'[c] \in Applied
      BY <2>1, <3>1, EntryOf, Zenon DEF Applied
    <3>3. Atomic!Effect(m, kvBar[k], m.issued) = Outcome(None, Err)
      BY <1>2, <3>2, ExpireEffect, Zenon
    <3> QED
      BY <1>1, <1>2, <3>2, <3>3, ApplyImplements
  <2>2. CASE data[k] # None
    BY <1>0, <1>1, <1>3, <1>4, <2>2 DEF ExpireFind, Goto, maps
  <2> QED
    BY <2>1, <2>2
<1>5. CASE ExpireOption(c)
  <2>1. CASE MayExpire(m.req.opt, expirations[k], Deadline(m))
    BY <1>0, <1>1, <1>3, <1>5, <2>1, Zenon DEF ExpireOption, Goto, maps
  <2>2. CASE ~MayExpire(m.req.opt, expirations[k], Deadline(m))
    <3>1. /\ pc[c] = "expire_option" /\ pc'[c] = "return" /\ data' = data
          /\ expirations' = expirations /\ reply'[c] = Ok
      BY <1>0, <1>1, <1>5, <2>2 DEF ExpireOption, Goto, Return, maps
    <3>2. data[k] # None
      BY <1>1, <3>1 DEF Knows
    <3>3. /\ kvBar[k] # None /\ kvBar[k].exp = expirations[k] /\ kvBar'[k] = kvBar[k]
          /\ replyBar'[c] = Ok /\ pc'[c] \in Applied
      <4>1. /\ kvBar[k] # None /\ kvBar[k] = [obj |-> data[k], exp |-> expirations[k]]
            /\ kvBar'[k] = [obj |-> data[k], exp |-> expirations[k]]
        BY <3>1, <3>2, EntryOf
      <4>2. replyBar'[c] = Ok
        BY <3>1, EntryOf, Zenon
      <4> QED
        BY <3>1, <4>1, <4>2 DEF Applied
    <3>4. Atomic!Effect(m, kvBar[k], m.issued) = Outcome(kvBar[k], Ok)
      BY <1>2, <2>2, <3>3, ExpireEffect, Zenon
    <3> QED
      BY <1>1, <1>2, <3>3, <3>4, ApplyImplements, Zenon
  <2> QED
    BY <2>1, <2>2
<1>6. CASE ExpireInsert(c)
  <2> DEFINE new == Deadline(m)
  <2>1. /\ pc[c] = "expire_insert" /\ pc'[c] = "return" /\ data' = data
        /\ expirations'[k] = new /\ reply'[c] = Ok
    BY <1>0, <1>1, <1>6 DEF ExpireInsert, Goto, Return
  <2>2. data[k] # None /\ MayExpire(m.req.opt, expirations[k], new)
    BY <1>1, <2>1 DEF Knows
  <2>3. /\ kvBar[k] # None /\ kvBar[k] = [obj |-> data[k], exp |-> expirations[k]]
        /\ kvBar'[k] = [obj |-> data[k], exp |-> new]
        /\ replyBar'[c] = Ok /\ pc'[c] \in Applied
    BY <2>1, <2>2, EntryOf DEF Applied
  <2>4. kvBar'[k] = [kvBar[k] EXCEPT !.exp = new] /\ kvBar[k].exp = expirations[k]
    BY <2>3
  <2>5. Atomic!Effect(m, kvBar[k], m.issued) = Outcome([kvBar[k] EXCEPT !.exp = new], Ok)
    BY <1>2, <2>2, <2>3, <2>4, ExpireEffect
  <2> HIDE DEF new
  <2> QED
    BY <1>1, <1>2, <2>3, <2>4, <2>5, ApplyImplements
<1> QED
  BY <1>4, <1>5, <1>6

LEMMA DbStepImplements ==
  ASSUME TypeOK, AtomicInv, WritersApart, NEW c \in Clients, DbStep(c)
  PROVE  Implements
<1>1. \/ SetUnexpire(c) \/ SetInsert(c) \/ SetExpire(c)
      \/ LazyCheck(c) \/ LazyRemoveData(c) \/ LazyRemoveExpiration(c) \/ Read(c)
      \/ DeleteData(c) \/ DeleteExpiration(c)
      \/ PushGet(c) \/ PushInsert(c)
      \/ ExpireFind(c) \/ ExpireOption(c) \/ ExpireInsert(c)
  BY DEF DbStep
<1> QED
  BY <1>1, SetImplements, ReadImplements, DeleteImplements, PushImplements, ExpireImplements

\* Active expiration purges a value that is overdue, or changes nothing.
LEMMA ReaperImplements ==
  ASSUME TypeOK, AtomicInv, WritersApart, ReaperStep
  PROVE  Implements
<1>0. /\ data \in [Keys -> RedisObject \cup {None}]
      /\ expirations \in [Keys -> Nat \cup {None}]
      /\ reaper.pc \in {"data", "exp"} => reaper.key \in Keys
  BY DEF TypeOK
<1>1. now' = now /\ pc' = pc /\ cmd' = cmd /\ reply' = reply /\ removed' = removed
  BY Zenon DEF ReaperStep, CycleStart, CycleVisit, CycleCheck, CycleRemoveData,
     CycleRemoveExpiration, CycleEnd, tasks
<1>2. phaseBar' = phaseBar /\ replyBar' = replyBar
  BY <1>1 DEF phaseBar, replyBar
<1>3. ASSUME NEW k \in Keys, data'[k] = data[k], expirations'[k] = expirations[k]
      PROVE  kvBar'[k] = kvBar[k]
  <2>1. deadlineBar(k)' = deadlineBar(k)
    BY <1>1, <1>3, BarFrame
  <2> QED
    BY <1>3, <2>1 DEF kvBar
<1>4. Mapped /\ Mapped'
  BY MappedAlways, PTL
<1>5. ASSUME \A k \in Keys : kvBar'[k] = kvBar[k] PROVE Implements
  <2>1. kvBar' = kvBar
    BY <1>4, <1>5 DEF Mapped
  <2> QED
    BY <1>1, <1>2, <2>1 DEF Implements, Atomic!vars
<1>6. CASE UNCHANGED maps
  BY <1>3, <1>5, <1>6 DEF maps
<1>7. CASE CycleRemoveExpiration
  <2> DEFINE k == reaper.key
  <2>1. k \in Keys /\ data' = data /\ \A j \in Keys : j # k => expirations'[j] = expirations[j]
    BY <1>0, <1>7 DEF CycleRemoveExpiration
  <2>2. data[k] = None
    BY <1>7 DEF CycleRemoveExpiration, AtomicInv, ReaperKnows
  <2>3. kvBar'[k] = None /\ kvBar[k] = None
    BY <2>1, <2>2 DEF kvBar
  <2> QED
    BY <1>3, <1>5, <2>1, <2>3
<1>8. CASE CycleRemoveData
  <2> DEFINE k == reaper.key
  <2>1. /\ k \in Keys /\ expirations' = expirations /\ data'[k] = None
        /\ \A j \in Keys : j # k => data'[j] = data[j]
    BY <1>0, <1>8 DEF CycleRemoveData
  <2>2. \A j \in Keys : j # k => kvBar'[j] = kvBar[j]
    BY <1>3, <2>1
  <2>3. kvBar'[k] = None
    BY <2>1 DEF kvBar
  <2>4. CASE data[k] = None
    <3>1. kvBar[k] = None
      BY <2>1, <2>4 DEF kvBar
    <3> QED
      BY <1>5, <2>2, <2>3, <3>1
  <2>5. CASE data[k] # None
    <3>1. expirations[k] # None /\ expirations[k] < now
      BY <1>8, <2>5 DEF CycleRemoveData, AtomicInv, ReaperKnows, IsExpired
    <3>2. deadlineBar(k) = expirations[k]
      <4>1. \A d \in Clients : pc[d] \in {"set_insert", "set_expire"} => Key(d) # k
        <5> SUFFICES ASSUME NEW d \in Clients, pc[d] \in {"set_insert", "set_expire"}
                     PROVE  Key(d) # k
          OBVIOUS
        <5>1. Busy(d) /\ pc[d] \in SetSteps
          BY DEF Busy, DbSteps, SetSteps
        <5>2. cmd[d].req.op \in Writers
          BY <5>1, StepOp DEF Writers
        <5> QED
          BY <5>1, <5>2 DEF WritersApart, Alone, Calm
      <4>2. At(k, "set_insert") = {} /\ At(k, "set_expire") = {}
        BY <4>1 DEF At
      <4> QED
        BY <4>2 DEF deadlineBar
    <3>3. kvBar[k] = [obj |-> data[k], exp |-> expirations[k]]
      BY <2>1, <2>5, <3>2 DEF kvBar
    <3>4. kvBar[k] # None /\ kvBar[k].exp = expirations[k]
      BY <1>0, <2>1, <2>5, <3>3, EntryAssumption
    <3>5. Atomic!Expired(kvBar[k], now)
      BY <3>1, <3>4 DEF Atomic!Expired
    <3>6. kvBar' = [kvBar EXCEPT ![k] = None]
      BY <1>4, <2>1, <2>2, <2>3 DEF Mapped
    <3>7. Atomic!Purge(k)
      BY <1>1, <1>2, <3>5, <3>6 DEF Atomic!Purge
    <3> QED
      BY <2>1, <3>7 DEF Implements, Atomic!Next
  <2> QED
    BY <2>4, <2>5
<1> QED
  BY <1>6, <1>7, <1>8, Zenon DEF ReaperStep, CycleStart, CycleVisit, CycleCheck, CycleEnd

LEMMA TaskImplements ==
  ASSUME TypeOK,
         \/ \E c \in Clients, req \in Requests : Begin(c, req)
         \/ \E c \in Clients : Reply(c)
         \/ Tick
         \/ UNCHANGED vars
  PROVE  Implements
<1>0. /\ pc \in [Clients -> DbSteps \cup {"idle", "return"}]
      /\ cmd \in [Clients -> Command \cup {None}]
      /\ reply \in [Clients -> Result \cup {None}]
  BY DEF TypeOK
<1>1. Mapped /\ Mapped'
  BY MappedAlways, PTL
<1>2. ASSUME NEW c \in Clients, UNCHANGED <<maps, removed>>,
             pc[c] \notin {"set_insert", "set_expire"}, pc'[c] \notin {"set_insert", "set_expire"},
             \A d \in Clients : d # c => pc'[d] = pc[d] /\ cmd'[d] = cmd[d]
      PROVE  kvBar' = kvBar
  <2>1. ASSUME NEW k \in Keys PROVE kvBar'[k] = kvBar[k]
    <3>1. deadlineBar(k)' = deadlineBar(k)
      BY <1>2, BarFrame DEF maps
    <3> QED
      BY <1>2, <3>1 DEF kvBar, maps
  <2> QED
    BY <1>1, <2>1 DEF Mapped
<1>3. ASSUME NEW c \in Clients, NEW req \in Requests, Begin(c, req) PROVE Implements
  <2>1. /\ pc[c] = "idle" /\ pc'[c] = Entry[req.op] /\ UNCHANGED <<maps, removed, now, reply>>
        /\ \A d \in Clients : d # c => pc'[d] = pc[d] /\ cmd'[d] = cmd[d]
        /\ cmd' = [cmd EXCEPT ![c] = [req |-> req, issued |-> now]]
    BY <1>0, <1>3 DEF Begin, Call, Goto
  <2>2. pc'[c] \in {"set_unexpire", "lazy_check", "delete_data", "push_get", "expire_find"}
    <3>1. req.op \in DbOps
      BY RequestAssumption DEF Request
    <3> QED
      BY <2>1, <3>1 DEF Entry, DbOps
  <2>3. kvBar' = kvBar
    BY <1>2, <2>1, <2>2, Zenon
  <2>4. phaseBar[c] = "idle" /\ phaseBar' = [phaseBar EXCEPT ![c] = "called"]
    <3>1. /\ phaseBar[c] = "idle" /\ phaseBar'[c] = "called"
          /\ \A d \in Clients : d # c => phaseBar'[d] = phaseBar[d]
      BY <2>1, <2>2 DEF phaseBar, Applied
    <3> QED
      BY <1>1, <3>1 DEF Mapped
  <2>5. replyBar' = replyBar
    <3>1. \A d \in Clients : replyBar'[d] = replyBar[d]
      BY <2>1, <2>2 DEF replyBar
    <3> QED
      BY <1>1, <3>1 DEF Mapped
  <2>6. Atomic!Invoke(c, req)
    BY <2>1, <2>3, <2>4, <2>5 DEF Atomic!Invoke
  <2> QED
    BY <2>6 DEF Implements, Atomic!Next
<1>4. ASSUME NEW c \in Clients, Reply(c) PROVE Implements
  <2>1. /\ pc[c] = "return" /\ pc'[c] = "idle" /\ UNCHANGED <<maps, removed, now>>
        /\ \A d \in Clients : d # c => pc'[d] = pc[d] /\ cmd'[d] = cmd[d] /\ reply'[d] = reply[d]
        /\ cmd' = [cmd EXCEPT ![c] = None] /\ reply'[c] = None
    BY <1>0, <1>4 DEF Reply, Goto
  <2>2. kvBar' = kvBar
    BY <1>2, <2>1
  <2>3. phaseBar[c] = "done" /\ phaseBar' = [phaseBar EXCEPT ![c] = "idle"]
    <3>1. /\ phaseBar[c] = "done" /\ phaseBar'[c] = "idle"
          /\ \A d \in Clients : d # c => phaseBar'[d] = phaseBar[d]
      BY <2>1 DEF phaseBar, Applied
    <3> QED
      BY <1>1, <3>1 DEF Mapped
  <2>4. replyBar' = [replyBar EXCEPT ![c] = None]
    <3>1. replyBar'[c] = None /\ \A d \in Clients : d # c => replyBar'[d] = replyBar[d]
      BY <2>1 DEF replyBar
    <3> QED
      BY <1>1, <3>1 DEF Mapped
  <2>5. Atomic!Return(c)
    BY <2>1, <2>2, <2>3, <2>4 DEF Atomic!Return
  <2> QED
    BY <2>5 DEF Implements, Atomic!Next
<1>5. CASE Tick \/ UNCHANGED vars
  <2>1. /\ data' = data /\ expirations' = expirations /\ pc' = pc /\ cmd' = cmd
        /\ reply' = reply /\ removed' = removed /\ now' \in {now, now + 1}
    BY <1>5 DEF Tick, vars, maps, tasks
  <2>2. phaseBar' = phaseBar /\ replyBar' = replyBar
    BY <2>1 DEF phaseBar, replyBar
  <2>3. kvBar' = kvBar
    <3>1. \A k \in Keys : deadlineBar(k)' = deadlineBar(k)
      BY <2>1, BarFrame
    <3>2. \A k \in Keys : kvBar'[k] = kvBar[k]
      BY <2>1, <3>1 DEF kvBar
    <3> QED
      BY <1>1, <3>2 DEF Mapped
  <2>4. Atomic!Tick \/ UNCHANGED Atomic!vars
    BY <2>1, <2>2, <2>3 DEF Atomic!Tick, Atomic!vars
  <2> QED
    BY <2>4 DEF Implements, Atomic!Next
<1> QED
  BY <1>3, <1>4, <1>5

LEMMA InitImplements == Init => Atomic!Init
<1> SUFFICES ASSUME Init PROVE Atomic!Init
  OBVIOUS
<1>1. PICK s \in Snapshots : data = s.data /\ expirations = s.expirations
  BY DEF Init
<1>2. pc = [c \in Clients |-> "idle"] /\ cmd = [c \in Clients |-> None]
      /\ reply = [c \in Clients |-> None] /\ now = 0
  BY DEF Init
<1>3. phaseBar = [c \in Clients |-> "idle"] /\ replyBar = [c \in Clients |-> None]
  <2>1. \A c \in Clients : phaseBar[c] = "idle" /\ replyBar[c] = None
    BY <1>2 DEF phaseBar, replyBar, Applied
  <2> QED
    BY <2>1, MappedAlways DEF Mapped
<1>4. kvBar = [k \in Keys |-> IF s.data[k] = None THEN None
                              ELSE [obj |-> s.data[k], exp |-> s.expirations[k]]]
  <2>1. \A k \in Keys : deadlineBar(k) = s.expirations[k]
    BY <1>1, <1>2 DEF deadlineBar, At
  <2> QED
    BY <1>1, <2>1 DEF kvBar
<1>5. kvBar \in ContentsBar
  BY <1>4 DEF ContentsBar
<1> QED
  BY <1>2, <1>3, <1>5 DEF Atomic!Init

\* The two maps of DB behave like one map whose methods take effect at an instant,
\* whenever writers keep apart: reads, deletes and active expiration overlap on a key
\* in any way, and so do sets, pushes, reads and deletes on a key that has no
\* deadlines, apart from the creation of a list.
THEOREM StoreIsLinearizable ==
  SnapshotsInSync => (Spec /\ []WritersApart => Linearizable)
<1>1. TypeOK /\ AtomicInv /\ WritersApart /\ [Next]_vars => [Atomic!Next]_(Atomic!vars)
  <2>1. ASSUME TypeOK, AtomicInv, WritersApart, [Next]_vars PROVE Implements
    BY <2>1, DbStepImplements, ReaperImplements, TaskImplements DEF Next
  <2> QED
    BY <2>1 DEF Implements
<1> QED
  BY <1>1, InitImplements, AtomicInvariant, PTL DEF Spec, Linearizable, Atomic!Spec
=============================================================================
