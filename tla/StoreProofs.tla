---------------------------- MODULE StoreProofs ----------------------------
(***************************************************************************)
(* Proofs about Store, for every set of keys, values, requests and         *)
(* clients, any sample size and any bound on time.                         *)
(***************************************************************************)
EXTENDS Store, TLAPS, SequenceTheorems, FiniteSetTheorems

\* A push makes a list of strings, whether it creates or extends the list.
LEMMA PushType ==
  ASSUME NEW op, NEW vals \in Seq(Vals), NEW list \in Seq(Vals)
  PROVE  NewList(op, vals) \in Seq(Vals) /\ Push(op, vals, list) \in Seq(Vals)
<1>1. Reversed(vals) \in Seq(Vals)
  BY DEF Reversed
<1>2. QED
  BY <1>1 DEF NewList, Push

\* lrange returns items of the list, whatever its bounds are after the casts.
LEMMA LRangeType ==
  ASSUME NEW list \in Seq(Vals), NEW start \in Int, NEW stop \in Int,
         start >= -UsizeRange
  PROVE  LRange(list, start, stop) \in Seq(Vals)
<1> DEFINE n  == Len(list)
           lo == FirstPlace(n, start)
           hi == LastPlace(n, stop)
<1>1. n \in Nat /\ UsizeRange \in Nat
  BY RequestAssumption
<1>2. lo \in Int /\ hi \in Int /\ lo >= 1 /\ hi <= n
  BY <1>1 DEF FirstPlace, LastPlace, AsUsize, FromEnd
<1> HIDE DEF n, lo, hi
<1>3. \A i \in lo .. hi : list[i] \in Vals
  BY <1>1, <1>2 DEF n
<1>4. SubSeq(list, lo, hi) \in Seq(Vals)
  BY <1>1, <1>2, <1>3, SubSeqProperties
<1>5. QED
  BY <1>4 DEF LRange, n, lo, hi

\* LRANGE selects exactly the items its reference selects, for lists of any length
\* and any bounds, those in front of the list included, whose sum with the length
\* is negative and wraps around in the cast.
THEOREM LRangeSelects ==
  ASSUME NEW n \in Nat, NEW i \in 1 .. n, NEW start \in Int, NEW stop \in Int,
         start >= -UsizeRange, stop >= -UsizeRange
  PROVE  Selected(i, n, start, stop) <=> i \in FirstPlace(n, start) .. LastPlace(n, stop)
<1>1. UsizeRange \in Nat
  BY RequestAssumption
<1>2. (start >= -n /\ start <= Index(i, n, start)) <=> FirstPlace(n, start) <= i
  BY <1>1 DEF Index, FirstPlace, AsUsize, FromEnd
<1>3. (stop < -n \/ Index(i, n, stop) <= stop) <=> i <= LastPlace(n, stop)
  BY <1>1 DEF Index, LastPlace, AsUsize, FromEnd
<1>4. FirstPlace(n, start) \in Int /\ LastPlace(n, stop) \in Int
  BY <1>1 DEF FirstPlace, LastPlace, AsUsize, FromEnd
<1> QED
  BY <1>2, <1>3, <1>4 DEF Selected

\* LRANGE returns what its reference returns, for every list and all bounds.
LEMMA LRangeIsSlice ==
  ASSUME NEW list \in Seq(Vals), NEW start \in Int, NEW stop \in Int,
         start >= -UsizeRange, stop >= -UsizeRange
  PROVE  LRange(list, start, stop) = Slice(list, start, stop)
<1> DEFINE n  == Len(list)
           lo == FirstPlace(n, start)
           hi == LastPlace(n, stop)
           chosen == {i \in DOMAIN list : Selected(i, n, start, stop)}
<1>1. n \in Nat /\ UsizeRange \in Nat /\ DOMAIN list = 1 .. n
  BY RequestAssumption
<1>2. lo \in Int /\ hi \in Int /\ lo >= 1 /\ hi <= n
  BY <1>1 DEF FirstPlace, LastPlace, AsUsize, FromEnd
<1>3. \A i \in 1 .. n : Selected(i, n, start, stop) <=> i \in lo .. hi
  BY <1>1, LRangeSelects, Zenon
<1> HIDE DEF n, lo, hi
<1>4. chosen = lo .. hi
  BY <1>1, <1>2, <1>3
<1>5. CASE lo > hi
  <2>1. chosen = {}
    BY <1>2, <1>4, <1>5
  <2>2. SubSeq(list, lo, hi) = <<>>
    BY <1>2, <1>5, SubSeqEmpty
  <2> QED
    BY <2>1, <2>2 DEF LRange, Slice, n, lo, hi
<1>6. CASE lo <= hi
  <2>1. Min(lo .. hi) = lo
    BY <1>2, <1>6 DEF Min
  <2>2. Max(lo .. hi) = hi
    BY <1>2, <1>6 DEF Max
  <2>3. chosen # {}
    <3>1. lo \in lo .. hi
      BY <1>2, <1>6
    <3> QED
      BY <1>4, <3>1
  <2> QED
    BY <1>4, <2>1, <2>2, <2>3, Zenon DEF LRange, Slice, n, lo, hi
<1> QED
  BY <1>2, <1>5, <1>6

\* The fields of a command, as the steps use them.
LEMMA CommandType ==
  ASSUME NEW m \in Command
  PROVE  /\ m.req \in Requests
         /\ m.req.op \in DbOps
         /\ m.req.key \in Keys
         /\ m.req.vals \in Seq(Vals)
         /\ m.req.opt \in ExpireOptions \cup {None}
         /\ m.req.op = "SET" => m.req.vals[1] \in Vals
         /\ m.req.range[1] \in Int /\ m.req.range[2] \in Int
         /\ m.req.range[1] >= -UsizeRange /\ m.req.range[2] >= -UsizeRange
         /\ Deadline(m) \in Nat \cup {None}
         /\ m.req.ttl # None => Deadline(m) \in Nat
         /\ m.req.op = "EXPIRE" => Deadline(m) \in Nat
<1>1. m.req \in Requests /\ m.issued \in Nat /\ m.req \in Request
  BY RequestAssumption DEF Command
<1>2. m.req.op = "SET" => m.req.vals[1] \in Vals
  BY <1>1, RequestAssumption DEF Request
<1>3. m.req.ttl \in Nat \cup {None}
  BY <1>1 DEF Request
<1>4. /\ m.req.op = "EXPIRE" => m.req.ttl # None
      /\ m.req.range[1] >= -UsizeRange /\ m.req.range[2] >= -UsizeRange
  BY <1>1, RequestAssumption
<1>5. QED
  BY <1>1, <1>2, <1>3, <1>4 DEF Request, Deadline

\* What get and lrange return is a result, given what they found.
LEMMA ReadResultType ==
  ASSUME NEW m \in Command, NEW obj \in RedisObject \cup {None}
  PROVE  ReadResult(m.req, obj) \in Result
<1>1. CASE obj = None
  BY <1>1 DEF ReadResult, Result
<1>2. CASE obj # None /\ m.req.op = "GET"
  BY <1>2 DEF ReadResult, Result
<1>3. CASE obj # None /\ m.req.op # "GET" /\ obj.type = "List"
  <2>1. obj.list \in Seq(Vals)
    BY <1>3 DEF RedisObject
  <2>2. LRange(obj.list, m.req.range[1], m.req.range[2]) \in Seq(Vals)
    BY <2>1, CommandType, LRangeType
  <2>3. QED
    BY <1>3, <2>2 DEF ReadResult, Result, RedisObject, List
<1>4. CASE obj # None /\ m.req.op # "GET" /\ obj.type # "List"
  BY <1>4 DEF ReadResult, Result
<1>5. QED
  BY <1>1, <1>2, <1>3, <1>4
\* The objects the methods build, and the results they return.
LEMMA ObjectType ==
  /\ \A v \in Vals : Str(v) \in RedisObject
  /\ \A l \in Seq(Vals) : List(l) \in RedisObject
  /\ RedisObject \subseteq Result
  /\ Ok \in Result /\ Err \in Result /\ NilStr \in Result
  /\ None \notin Result
<1>1. \A v \in Vals : Str(v) \in RedisObject
  BY DEF Str, RedisObject
<1>2. \A l \in Seq(Vals) : List(l) \in RedisObject
  BY DEF List, RedisObject
<1>3. QED
  BY <1>1, <1>2, NoneAssumption DEF Result
-----------------------------------------------------------------------------
(* Type correctness *)

LEMMA TypeInit == Init => TypeOK
<1> SUFFICES ASSUME Init PROVE TypeOK
  OBVIOUS
<1>1. /\ data \in [Keys -> RedisObject \cup {None}]
      /\ expirations \in [Keys -> Nat \cup {None}]
  BY StoreAssumption DEF Init
<1>2. QED
  BY <1>1, NoneAssumption DEF Init, TypeOK, Asleep, Busy, DbSteps, SetSteps, ReadSteps,
     DeleteSteps, PushSteps, ExpireSteps

\* What a task knows when it is inside a DB method.
LEMMA BusyType ==
  ASSUME TypeOK, NEW c \in Clients, pc[c] \in DbSteps
  PROVE  /\ cmd[c] \in Command
         /\ Key(c) \in Keys
         /\ pc[c] \in StepsOf(cmd[c].req.op)
         /\ reply[c] = None
         /\ cmd[c] # None
<1>1. pc[c] # "idle" /\ pc[c] # "return"
  BY DEF DbSteps, SetSteps, ReadSteps, DeleteSteps, PushSteps, ExpireSteps
<1>2. cmd[c] \in Command /\ cmd[c] # None /\ reply[c] = None
  BY <1>1 DEF TypeOK
<1>3. QED
  BY <1>2, CommandType DEF TypeOK, Busy, Key

\* A step from one call to the next of the same method keeps the types.
LEMMA GotoType ==
  ASSUME TypeOK, NEW c \in Clients, NEW step,
         pc[c] \in DbSteps, step \in StepsOf(cmd[c].req.op),
         step = "set_expire" => cmd[c].req.ttl # None,
         step \in DbSteps,
         Goto(c, step), UNCHANGED <<now, cmd, reply, reaper>>,
         data' \in [Keys -> RedisObject \cup {None}],
         expirations' \in [Keys -> Nat \cup {None}],
         removed' \in [Clients -> Nat \cup {None}]
  PROVE  TypeOK'
<1>1. step # "idle" /\ step # "return" /\ pc[c] # "idle" /\ pc[c] # "return"
  BY DEF DbSteps, SetSteps, ReadSteps, DeleteSteps, PushSteps, ExpireSteps
<1>2. \A d \in Clients : pc'[d] = IF d = c THEN step ELSE pc[d]
  BY DEF TypeOK, Goto
<1>3. pc' \in [Clients -> DbSteps \cup {"idle", "return"}]
  BY DEF TypeOK, Goto
<1>4. ASSUME NEW d \in Clients
      PROVE  /\ pc'[d] = "idle" <=> cmd'[d] = None
             /\ pc'[d] = "return" <=> reply'[d] # None
             /\ Busy(d)' => pc'[d] \in StepsOf(cmd'[d].req.op)
             /\ pc'[d] = "set_expire" => cmd'[d].req.ttl # None
  BY <1>1, <1>2 DEF TypeOK, Busy
<1>5. QED
  BY <1>3, <1>4 DEF TypeOK

\* A step that ends a method keeps the types.
LEMMA ReturnType ==
  ASSUME TypeOK, NEW c \in Clients, NEW result \in Result,
         pc[c] \in DbSteps, Return(c, result), UNCHANGED <<now, cmd, reaper>>,
         data' \in [Keys -> RedisObject \cup {None}],
         expirations' \in [Keys -> Nat \cup {None}],
         removed' \in [Clients -> Nat \cup {None}]
  PROVE  TypeOK'
<1>1. "return" \notin DbSteps /\ pc[c] # "idle" /\ result # None
  BY ObjectType DEF DbSteps, SetSteps, ReadSteps, DeleteSteps, PushSteps, ExpireSteps
<1>2. /\ \A d \in Clients : pc'[d] = IF d = c THEN "return" ELSE pc[d]
      /\ \A d \in Clients : reply'[d] = IF d = c THEN result ELSE reply[d]
  BY DEF TypeOK, Return, Goto
<1>3. /\ pc' \in [Clients -> DbSteps \cup {"idle", "return"}]
      /\ reply' \in [Clients -> Result \cup {None}]
  BY DEF TypeOK, Return, Goto
<1>4. ASSUME NEW d \in Clients
      PROVE  /\ pc'[d] = "idle" <=> cmd'[d] = None
             /\ pc'[d] = "return" <=> reply'[d] # None
             /\ Busy(d)' => pc'[d] \in StepsOf(cmd'[d].req.op)
             /\ pc'[d] = "set_expire" => cmd'[d].req.ttl # None
  BY <1>1, <1>2 DEF TypeOK, Busy
<1>5. QED
  BY <1>3, <1>4 DEF TypeOK
\* Every step of a DB method keeps the types.
LEMMA DbStepType ==
  ASSUME TypeOK, NEW c \in Clients, DbStep(c)
  PROVE  TypeOK'
<1> USE DEF DbSteps, SetSteps, ReadSteps, DeleteSteps, PushSteps, ExpireSteps, StepsOf
<1> DEFINE k == Key(c)
<1>0. /\ pc[c] \in DbSteps /\ cmd[c] \in Command /\ k \in Keys
      /\ pc[c] \in StepsOf(cmd[c].req.op)
      /\ cmd[c].req.op \in DbOps
  <2>1. pc[c] \in DbSteps
    BY Zenon DEF DbStep, SetUnexpire, SetInsert, SetExpire, LazyCheck, LazyRemoveData,
       LazyRemoveExpiration, Read, DeleteData, DeleteExpiration, PushGet, PushInsert,
       ExpireFind, ExpireOption, ExpireInsert
  <2>2. QED
    BY <2>1, BusyType, CommandType, Zenon
<1>a. /\ data \in [Keys -> RedisObject \cup {None}]
      /\ expirations \in [Keys -> Nat \cup {None}]
      /\ removed \in [Clients -> Nat \cup {None}]
  BY DEF TypeOK
<1> HIDE DEF k
<1>1. CASE SetUnexpire(c)
  <2>1. /\ expirations' \in [Keys -> Nat \cup {None}]
        /\ removed' \in [Clients -> Nat \cup {None}]
    BY <1>0, <1>1, <1>a DEF SetUnexpire, k
  <2>2. cmd[c].req.op = "SET"
    BY <1>0, <1>1 DEF SetUnexpire, DbOps
  <2>3. QED
    BY <1>0, <1>1, <1>a, <2>1, <2>2, GotoType DEF SetUnexpire
<1>2. CASE SetInsert(c)
  <2>1. cmd[c].req.op = "SET"
    BY <1>0, <1>2 DEF SetInsert, DbOps
  <2>2. Str(cmd[c].req.vals[1]) \in RedisObject
    BY <1>0, <2>1, CommandType, ObjectType
  <2>3. /\ data' \in [Keys -> RedisObject \cup {None}]
        /\ removed' \in [Clients -> Nat \cup {None}]
    BY <1>0, <1>2, <1>a, <2>2 DEF SetInsert, k
  <2>4. CASE Deadline(cmd[c]) = None
    BY <1>0, <1>2, <1>a, <2>3, <2>4, ReturnType, ObjectType DEF SetInsert
  <2>5. CASE Deadline(cmd[c]) # None
    <3>1. cmd[c].req.ttl # None
      BY <2>5 DEF Deadline
    <3>2. QED
      BY <1>0, <1>2, <1>a, <2>1, <2>3, <2>5, <3>1, GotoType DEF SetInsert
  <2>6. QED
    BY <2>4, <2>5
<1>3. CASE SetExpire(c)
  <2>1. Deadline(cmd[c]) \in Nat \cup {None}
    BY <1>0, CommandType
  <2>2. expirations' \in [Keys -> Nat \cup {None}]
    BY <1>0, <1>3, <1>a, <2>1 DEF SetExpire, k
  <2>3. QED
    BY <1>0, <1>3, <1>a, <2>2, ReturnType, ObjectType DEF SetExpire
<1>4. CASE LazyCheck(c)
  <2>1. cmd[c].req.op \in {"GET", "LRANGE"}
    BY <1>0, <1>4 DEF LazyCheck, DbOps
  <2>2. QED
    BY <1>0, <1>4, <1>a, <2>1, GotoType DEF LazyCheck, maps
<1>5. CASE LazyRemoveData(c)
  <2>1. cmd[c].req.op \in {"GET", "LRANGE"}
    BY <1>0, <1>5 DEF LazyRemoveData, DbOps
  <2>2. data' \in [Keys -> RedisObject \cup {None}]
    BY <1>0, <1>5, <1>a DEF LazyRemoveData, k
  <2>3. QED
    BY <1>0, <1>5, <1>a, <2>1, <2>2, GotoType DEF LazyRemoveData
<1>6. CASE LazyRemoveExpiration(c)
  <2>1. expirations' \in [Keys -> Nat \cup {None}]
    BY <1>0, <1>6, <1>a DEF LazyRemoveExpiration, k
  <2>2. QED
    BY <1>0, <1>6, <1>a, <2>1, ReturnType, ObjectType DEF LazyRemoveExpiration
<1>7. CASE Read(c)
  <2>1. ReadResult(cmd[c].req, data[k]) \in Result
    BY <1>0, <1>a, ReadResultType
  <2>2. QED
    BY <1>0, <1>7, <1>a, <2>1, ReturnType DEF Read, maps, k
<1>8. CASE DeleteData(c)
  <2>1. cmd[c].req.op = "DELETE"
    BY <1>0, <1>8 DEF DeleteData, DbOps
  <2>2. data' \in [Keys -> RedisObject \cup {None}]
    BY <1>0, <1>8, <1>a DEF DeleteData, k
  <2>3. QED
    BY <1>0, <1>8, <1>a, <2>1, <2>2, GotoType DEF DeleteData
<1>9. CASE DeleteExpiration(c)
  <2>1. expirations' \in [Keys -> Nat \cup {None}]
    BY <1>0, <1>9, <1>a DEF DeleteExpiration, k
  <2>2. QED
    BY <1>0, <1>9, <1>a, <2>1, ReturnType, ObjectType DEF DeleteExpiration
<1>10. CASE PushGet(c)
  <2>1. cmd[c].req.op \in {"LPUSH", "RPUSH"}
    BY <1>0, <1>10 DEF PushGet, DbOps
  <2>2. CASE data[k] = None
    <3>1. Goto(c, "push_insert") /\ UNCHANGED <<data, reply>>
      BY <1>10, <2>2 DEF PushGet, k
    <3>2. QED
      BY <1>0, <1>10, <1>a, <2>1, <3>1, GotoType DEF PushGet
  <2>3. CASE data[k] # None /\ data[k].type = "List"
    <3> DEFINE l == Push(cmd[c].req.op, cmd[c].req.vals, data[k].list)
    <3>1. data[k].list \in Seq(Vals)
      BY <1>0, <1>a, <2>3 DEF RedisObject
    <3>2. List(l) \in RedisObject
      BY <1>0, <3>1, CommandType, PushType, ObjectType, Zenon
    <3>3. data' = [data EXCEPT ![k] = List(l)] /\ Return(c, Ok)
      BY <1>10, <2>3 DEF PushGet, k
    <3>4. data' \in [Keys -> RedisObject \cup {None}]
      BY <1>a, <3>2, <3>3, Zenon
    <3>5. QED
      BY <1>0, <1>10, <1>a, <3>3, <3>4, ReturnType, ObjectType DEF PushGet
  <2>4. CASE data[k] # None /\ data[k].type # "List"
    <3>1. Return(c, Err) /\ UNCHANGED data
      BY <1>10, <2>4 DEF PushGet, k
    <3>2. QED
      BY <1>0, <1>10, <1>a, <3>1, ReturnType, ObjectType DEF PushGet
  <2>5. QED
    BY <2>2, <2>3, <2>4
<1>11. CASE PushInsert(c)
  <2>1. List(NewList(cmd[c].req.op, cmd[c].req.vals)) \in RedisObject
    BY <1>0, CommandType, PushType, ObjectType, Zenon
  <2>2. data' \in [Keys -> RedisObject \cup {None}]
    BY <1>0, <1>11, <1>a, <2>1 DEF PushInsert, k
  <2>3. QED
    BY <1>0, <1>11, <1>a, <2>2, ReturnType, ObjectType DEF PushInsert
<1>12. CASE ExpireFind(c)
  <2>1. cmd[c].req.op = "EXPIRE"
    BY <1>0, <1>12 DEF ExpireFind, DbOps
  <2>2. CASE data[k] = None
    BY <1>0, <1>12, <1>a, <2>2, ReturnType, ObjectType DEF ExpireFind, maps, k
  <2>3. CASE data[k] # None
    BY <1>0, <1>12, <1>a, <2>1, <2>3, GotoType DEF ExpireFind, maps, k
  <2>4. QED
    BY <2>2, <2>3
<1>13. CASE ExpireOption(c)
  <2>1. cmd[c].req.op = "EXPIRE"
    BY <1>0, <1>13 DEF ExpireOption, DbOps
  <2>2. CASE MayExpire(cmd[c].req.opt, expirations[k], Deadline(cmd[c]))
    BY <1>0, <1>13, <1>a, <2>1, <2>2, GotoType DEF ExpireOption, maps, k
  <2>3. CASE ~MayExpire(cmd[c].req.opt, expirations[k], Deadline(cmd[c]))
    BY <1>0, <1>13, <1>a, <2>3, ReturnType, ObjectType DEF ExpireOption, maps, k
  <2>4. QED
    BY <2>2, <2>3
<1>14. CASE ExpireInsert(c)
  <2>1. Deadline(cmd[c]) \in Nat \cup {None}
    BY <1>0, CommandType
  <2>2. expirations' \in [Keys -> Nat \cup {None}]
    BY <1>0, <1>14, <1>a, <2>1 DEF ExpireInsert, k
  <2>3. QED
    BY <1>0, <1>14, <1>a, <2>2, ReturnType, ObjectType DEF ExpireInsert
<1>15. QED
  BY <1>1, <1>2, <1>3, <1>4, <1>5, <1>6, <1>7, <1>8, <1>9, <1>10, <1>11, <1>12, <1>13,
     <1>14 DEF DbStep
\* A DB method is called, and its result is taken.
LEMMA TaskStepType ==
  ASSUME TypeOK, NEW c \in Clients
  PROVE  /\ \A m \in Command : Call(c, m) => TypeOK'
         /\ Reply(c) => TypeOK'
<1>0. Entry \in [DbOps -> DbSteps]
      /\ \A op \in DbOps : Entry[op] \in StepsOf(op) /\ Entry[op] # "set_expire"
  BY DEF Entry, DbOps, StepsOf, DbSteps, SetSteps, ReadSteps, DeleteSteps, PushSteps,
     ExpireSteps
<1>a. "idle" \notin DbSteps /\ "return" \notin DbSteps
  BY DEF DbSteps, SetSteps, ReadSteps, DeleteSteps, PushSteps, ExpireSteps
<1>1. ASSUME NEW m \in Command, Call(c, m)
      PROVE  TypeOK'
  <2>1. m \in Command /\ m # None
    BY NoneAssumption
  <2>2. m.req.op \in DbOps
    BY <2>1, CommandType
  <2>3. /\ pc[c] = "idle"
        /\ pc' = [pc EXCEPT ![c] = Entry[m.req.op]]
        /\ cmd' = [cmd EXCEPT ![c] = m]
        /\ UNCHANGED <<data, expirations, now, reply, removed, reaper>>
    BY <1>1 DEF Call, Goto, maps
  <2>4. /\ pc' \in [Clients -> DbSteps \cup {"idle", "return"}]
        /\ cmd' \in [Clients -> Command \cup {None}]
    BY <1>0, <2>1, <2>2, <2>3 DEF TypeOK
  <2>5. ASSUME NEW d \in Clients
        PROVE  /\ pc'[d] = "idle" <=> cmd'[d] = None
               /\ pc'[d] = "return" <=> reply'[d] # None
               /\ Busy(d)' => pc'[d] \in StepsOf(cmd'[d].req.op)
               /\ pc'[d] = "set_expire" => cmd'[d].req.ttl # None
    BY <1>0, <1>a, <2>1, <2>2, <2>3 DEF TypeOK, Busy
  <2>6. QED
    BY <2>3, <2>4, <2>5 DEF TypeOK
<1>2. ASSUME Reply(c)
      PROVE  TypeOK'
  <2>1. /\ pc[c] = "return"
        /\ pc' = [pc EXCEPT ![c] = "idle"]
        /\ cmd' = [cmd EXCEPT ![c] = None]
        /\ reply' = [reply EXCEPT ![c] = None]
        /\ UNCHANGED <<data, expirations, now, removed, reaper>>
    BY <1>2 DEF Reply, Goto, maps
  <2>2. /\ pc' \in [Clients -> DbSteps \cup {"idle", "return"}]
        /\ cmd' \in [Clients -> Command \cup {None}]
        /\ reply' \in [Clients -> Result \cup {None}]
    BY <2>1 DEF TypeOK
  <2>3. ASSUME NEW d \in Clients
        PROVE  /\ pc'[d] = "idle" <=> cmd'[d] = None
               /\ pc'[d] = "return" <=> reply'[d] # None
               /\ Busy(d)' => pc'[d] \in StepsOf(cmd'[d].req.op)
               /\ pc'[d] = "set_expire" => cmd'[d].req.ttl # None
    BY <1>a, <2>1 DEF TypeOK, Busy
  <2>4. QED
    BY <2>1, <2>2, <2>3 DEF TypeOK
<1>3. QED
  BY <1>1, <1>2

\* The record of the active-expiration task.
ReaperType ==
  /\ reaper \in [pc : {"sleep", "sample", "check", "data", "exp", "rerun"},
                 now : Nat, skip : Nat, unvisited : SUBSET Keys,
                 sampled : SUBSET Keys, key : Keys \cup {None},
                 checked : Nat, expired : Nat]
  /\ reaper.pc \in {"data", "exp"} <=> reaper.key # None

\* A step of the active-expiration task that keeps the types of its record and of
\* the maps keeps all types.
LEMMA ReaperOnlyType ==
  ASSUME TypeOK, ReaperType', UNCHANGED <<now, pc, cmd, reply, removed>>,
         data' \in [Keys -> RedisObject \cup {None}],
         expirations' \in [Keys -> Nat \cup {None}]
  PROVE  TypeOK'
BY DEF TypeOK, ReaperType, Busy

LEMMA ReaperStepType ==
  ASSUME TypeOK, ReaperStep
  PROVE  TypeOK'
<1>0. /\ ReaperType
      /\ now \in Nat
      /\ data \in [Keys -> RedisObject \cup {None}]
      /\ expirations \in [Keys -> Nat \cup {None}]
  BY DEF TypeOK, ReaperType
<1> USE DEF maps, tasks
<1>1. CASE CycleStart
  <2>1. ReaperType'
    <3>1. CASE reaper' = Asleep
      BY <3>1, StoreAssumption DEF ReaperType, Asleep
    <3>2. CASE \E skip \in 0 .. Cardinality(WithExpiry) - 1 :
                 reaper' = [Asleep EXCEPT !.pc = "sample", !.now = now, !.skip = skip,
                                          !.unvisited = Keys]
      <4>1. Cardinality(WithExpiry) \in Nat
        BY KeysAssumption, FS_Subset, FS_CardinalityType DEF WithExpiry
      <4>a. \A skip \in 0 .. Cardinality(WithExpiry) - 1 : skip \in Nat
        BY <4>1
      <4>2. PICK skip \in Nat : reaper' = [Asleep EXCEPT !.pc = "sample", !.now = now,
                                             !.skip = skip, !.unvisited = Keys]
        BY <3>2, <4>a, Zenon
      <4>3. QED
        BY <1>0, <4>2, Zenon DEF ReaperType, Asleep
    <3>3. QED
      BY <1>1, <3>1, <3>2, Zenon DEF CycleStart
  <2>2. QED
    BY <1>0, <1>1, <2>1, ReaperOnlyType, Zenon DEF CycleStart
<1>2. ASSUME NEW k \in Keys, CycleVisit(k)
      PROVE  TypeOK'
  <2> DEFINE S == IF expirations[k] # None /\ reaper.skip = 0 THEN reaper.sampled \cup {k}
                  ELSE reaper.sampled
  <2>1. S \in SUBSET Keys /\ Cardinality(S) \in Nat
    <3>1. S \in SUBSET Keys
      BY <1>0 DEF ReaperType
    <3>2. IsFiniteSet(S)
      BY <3>1, KeysAssumption, FS_Subset
    <3>3. QED
      BY <3>1, <3>2, FS_CardinalityType
  <2>2. PICK skip, left, step :
          /\ reaper' = [reaper EXCEPT !.skip = skip, !.unvisited = left, !.sampled = S,
                                      !.checked = Cardinality(S), !.pc = step]
          /\ skip \in Nat /\ left \in SUBSET Keys /\ step \in {"sample", "check"}
    <3> DEFINE skip == IF expirations[k] # None /\ reaper.skip > 0
                       THEN reaper.skip - 1 ELSE reaper.skip
               done == reaper.unvisited \ {k} = {} \/ SampleFull(S)
               left == IF done THEN {} ELSE reaper.unvisited \ {k}
               step == IF done THEN "check" ELSE "sample"
    <3>1. reaper' = [reaper EXCEPT !.skip = skip, !.unvisited = left, !.sampled = S,
                                   !.checked = Cardinality(S), !.pc = step]
      BY <1>2 DEF CycleVisit
    <3>2. skip \in Nat /\ left \in SUBSET Keys /\ step \in {"sample", "check"}
      BY <1>0 DEF ReaperType
    <3> HIDE DEF skip, left, step
    <3>3. QED
      BY <3>1, <3>2, Zenon
  <2> HIDE DEF S
  <2>a. ReaperType'
    <3>1. reaper.pc = "sample" /\ reaper.key = None
      BY <1>0, <1>2 DEF CycleVisit, ReaperType
    <3>2. QED
      BY <1>0, <2>1, <2>2, <3>1, Zenon DEF ReaperType
  <2>3. QED
    BY <1>0, <1>2, <2>a, ReaperOnlyType DEF CycleVisit
<1>3. ASSUME NEW k \in Keys, CycleCheck(k)
      PROVE  TypeOK'
  <2>1. ReaperType'
    BY <1>0, <1>3, StoreAssumption, Zenon DEF CycleCheck, ReaperType
  <2>2. QED
    BY <1>0, <1>3, <2>1, ReaperOnlyType DEF CycleCheck
<1>4. CASE CycleRemoveData
  <2>1. ReaperType'
    BY <1>0, <1>4 DEF CycleRemoveData, ReaperType
  <2>2. data' \in [Keys -> RedisObject \cup {None}]
    BY <1>0, <1>4, Zenon DEF CycleRemoveData
  <2>3. QED
    BY <1>0, <1>4, <2>1, <2>2, ReaperOnlyType DEF CycleRemoveData
<1>5. CASE CycleRemoveExpiration
  <2>1. ReaperType'
    <3>1. reaper.expired + 1 \in Nat
      BY <1>0 DEF ReaperType
    <3>2. reaper' = [reaper EXCEPT !.pc = "check", !.key = None,
                                   !.expired = reaper.expired + 1]
      BY <1>5 DEF CycleRemoveExpiration
    <3>3. QED
      BY <1>0, <3>1, <3>2, Zenon DEF ReaperType
  <2>2. expirations' \in [Keys -> Nat \cup {None}]
    BY <1>0, <1>5, Zenon DEF CycleRemoveExpiration
  <2>3. QED
    BY <1>0, <1>5, <2>1, <2>2, ReaperOnlyType DEF CycleRemoveExpiration
<1>6. CASE CycleEnd
  <2>1. ReaperType'
    BY <1>0, <1>6 DEF CycleEnd, ReaperType, Asleep
  <2>2. QED
    BY <1>0, <1>6, <2>1, ReaperOnlyType DEF CycleEnd
<1>7. QED
  BY <1>1, <1>2, <1>3, <1>4, <1>5, <1>6 DEF ReaperStep

LEMMA TypeStep == TypeOK /\ [Next]_vars => TypeOK'
<1> SUFFICES ASSUME TypeOK, [Next]_vars PROVE TypeOK'
  OBVIOUS
<1>1. CASE UNCHANGED vars
  BY <1>1 DEF vars, maps, tasks, TypeOK, Busy
<1>2. CASE Tick
  BY <1>2 DEF Tick, maps, tasks, TypeOK, Busy
<1>3. ASSUME NEW c \in Clients, NEW req \in Requests, Begin(c, req)
      PROVE  TypeOK'
  <2>1. [req |-> req, issued |-> now] \in Command
    BY DEF Command, TypeOK
  <2>2. QED
    BY <1>3, <2>1, TaskStepType DEF Begin
<1>4. QED
  BY <1>1, <1>2, <1>3, DbStepType, TaskStepType, ReaperStepType DEF Next

\* The maps and the tasks stay well formed whatever the tasks and the
\* active-expiration task do, for any number of clients and keys.
THEOREM TypeCorrect == Spec => []TypeOK
<1>1. QED
  BY TypeInit, TypeStep, PTL DEF Spec
-----------------------------------------------------------------------------
(* What a step leaves alone *)

\* What a step of a DB method leaves alone: the entries of the other keys, the
\* clock, the commands and the active-expiration task; and it starts no method.
LEMMA DbStepFrame ==
  ASSUME TypeOK, NEW c \in Clients, DbStep(c)
  PROVE  /\ Busy(c)
         /\ \A k \in Keys : k # Key(c) => data'[k] = data[k] /\ expirations'[k] = expirations[k]
         /\ UNCHANGED <<now, cmd, reaper>>
         /\ \A d \in Clients : Busy(d)' => Busy(d)
         /\ \A d \in Clients : d # c => pc'[d] = pc[d] /\ reply'[d] = reply[d]
                                          /\ removed'[d] = removed[d]
<1>1. /\ data \in [Keys -> RedisObject \cup {None}]
      /\ expirations \in [Keys -> Nat \cup {None}]
      /\ pc \in [Clients -> DbSteps \cup {"idle", "return"}]
      /\ reply \in [Clients -> Result \cup {None}]
      /\ removed \in [Clients -> Nat \cup {None}]
  BY DEF TypeOK
<1>2. /\ Busy(c)
      /\ UNCHANGED <<now, cmd, reaper>>
  BY Zenon DEF DbStep, SetUnexpire, SetInsert, SetExpire, LazyCheck, LazyRemoveData,
     LazyRemoveExpiration, Read, DeleteData, DeleteExpiration, PushGet, PushInsert,
     ExpireFind, ExpireOption, ExpireInsert, Busy, DbSteps, SetSteps, ReadSteps,
     DeleteSteps, PushSteps, ExpireSteps
<1>3. \/ UNCHANGED data
      \/ \E obj : data' = [data EXCEPT ![Key(c)] = obj]
  BY Zenon DEF DbStep, SetUnexpire, SetInsert, SetExpire, LazyCheck, LazyRemoveData,
     LazyRemoveExpiration, Read, DeleteData, DeleteExpiration, PushGet, PushInsert,
     ExpireFind, ExpireOption, ExpireInsert, maps
<1>4. \/ UNCHANGED expirations
      \/ \E exp : expirations' = [expirations EXCEPT ![Key(c)] = exp]
  BY Zenon DEF DbStep, SetUnexpire, SetInsert, SetExpire, LazyCheck, LazyRemoveData,
     LazyRemoveExpiration, Read, DeleteData, DeleteExpiration, PushGet, PushInsert,
     ExpireFind, ExpireOption, ExpireInsert, maps
<1>5. \E step : pc' = [pc EXCEPT ![c] = step]
  BY Zenon DEF DbStep, SetUnexpire, SetInsert, SetExpire, LazyCheck, LazyRemoveData,
     LazyRemoveExpiration, Read, DeleteData, DeleteExpiration, PushGet, PushInsert,
     ExpireFind, ExpireOption, ExpireInsert, Goto, Return
<1>6. \/ UNCHANGED reply
      \/ \E result : reply' = [reply EXCEPT ![c] = result]
  BY Zenon DEF DbStep, SetUnexpire, SetInsert, SetExpire, LazyCheck, LazyRemoveData,
     LazyRemoveExpiration, Read, DeleteData, DeleteExpiration, PushGet, PushInsert,
     ExpireFind, ExpireOption, ExpireInsert, Return
<1>7. \/ UNCHANGED removed
      \/ \E exp : removed' = [removed EXCEPT ![c] = exp]
  BY Zenon DEF DbStep, SetUnexpire, SetInsert, SetExpire, LazyCheck, LazyRemoveData,
     LazyRemoveExpiration, Read, DeleteData, DeleteExpiration, PushGet, PushInsert,
     ExpireFind, ExpireOption, ExpireInsert
<1>8. \A k \in Keys : k # Key(c) => data'[k] = data[k] /\ expirations'[k] = expirations[k]
  BY <1>1, <1>3, <1>4
<1>9. \A d \in Clients : d # c => pc'[d] = pc[d] /\ reply'[d] = reply[d]
                                    /\ removed'[d] = removed[d]
  BY <1>1, <1>5, <1>6, <1>7
<1>10. QED
  BY <1>2, <1>8, <1>9 DEF Busy

\* Sampling an entry leaves the clock value and the counts of the cycle alone.
LEMMA VisitFrame ==
  ASSUME TypeOK, NEW k \in Keys, CycleVisit(k)
  PROVE  /\ reaper'.now = reaper.now
         /\ reaper'.key = reaper.key
         /\ reaper'.expired = reaper.expired
  BY SMT DEF CycleVisit, TypeOK

\* A cycle starts with nothing sampled, nothing counted and no key to remove.
LEMMA StartFrame ==
  ASSUME CycleStart
  PROVE  /\ reaper'.now \in {0, now}
         /\ reaper'.pc \in {"sleep", "sample"}
         /\ reaper'.key = None
         /\ reaper'.sampled = {}
         /\ reaper'.checked = 0 /\ reaper'.expired = 0
<1>1. \/ reaper' = Asleep
      \/ \E skip : reaper' = [Asleep EXCEPT !.pc = "sample", !.now = now, !.skip = skip,
                                            !.unvisited = Keys]
  BY Zenon DEF CycleStart
<1>2. CASE reaper' = Asleep
  BY <1>2 DEF Asleep
<1>3. ASSUME NEW skip, reaper' = [Asleep EXCEPT !.pc = "sample", !.now = now,
                                               !.skip = skip, !.unvisited = Keys]
      PROVE  /\ reaper'.now = now
             /\ reaper'.pc = "sample"
             /\ reaper'.key = None
             /\ reaper'.sampled = {}
             /\ reaper'.checked = 0 /\ reaper'.expired = 0
  BY <1>3 DEF Asleep
<1>4. QED
  BY <1>1, <1>2, <1>3, Zenon
-----------------------------------------------------------------------------
(* A key that nobody works on *)

\* The clock value a cycle compares deadlines with is in the past.
ReaperClock == reaper.now <= now

\* The cycle takes its clock value from the clock, which only moves forward.
LEMMA ReaperClockInvariant == Spec => []ReaperClock
<1>1. Init => ReaperClock
  BY DEF Init, Asleep, ReaperClock
<1>2. TypeOK /\ ReaperClock /\ [Next]_vars => ReaperClock'
  <2> SUFFICES ASSUME TypeOK, ReaperClock, [Next]_vars PROVE ReaperClock'
    OBVIOUS
  <2>0. now \in Nat /\ reaper.now \in Nat
    BY DEF TypeOK
  <2>1. CASE ReaperStep
    <3>1. now' = now /\ reaper'.now \in {0, now, reaper.now}
      <4>1. CASE CycleStart
        BY <4>1, StartFrame, Zenon DEF CycleStart
      <4>2. ASSUME NEW k \in Keys, CycleVisit(k) \/ CycleCheck(k)
            PROVE  now' = now /\ reaper'.now = reaper.now
        <5>1. CASE CycleVisit(k)
          BY <5>1, VisitFrame DEF CycleVisit
        <5>2. CASE CycleCheck(k)
          BY <5>2 DEF CycleCheck, TypeOK
        <5>3. QED
          BY <4>2, <5>1, <5>2
      <4>3. CASE CycleRemoveData \/ CycleRemoveExpiration \/ CycleEnd
        BY <4>3, Zenon DEF CycleRemoveData, CycleRemoveExpiration, CycleEnd, Asleep, TypeOK
      <4>4. QED
        BY <2>1, <4>1, <4>2, <4>3 DEF ReaperStep
    <3>2. QED
      BY <2>0, <3>1 DEF ReaperClock
  <2>2. ASSUME NEW c \in Clients, DbStep(c)
        PROVE  ReaperClock'
    BY <2>2, DbStepFrame DEF ReaperClock
  <2>3. ASSUME NEW c \in Clients, Reply(c) \/ \E req \in Requests : Begin(c, req)
        PROVE  ReaperClock'
    BY <2>3 DEF Reply, Begin, Call, ReaperClock
  <2>4. CASE Tick
    BY <2>0, <2>4 DEF Tick, ReaperClock
  <2>5. CASE UNCHANGED vars
    BY <2>5 DEF vars, ReaperClock
  <2>6. QED
    BY <2>1, <2>2, <2>3, <2>4, <2>5 DEF Next
<1>3. QED
  BY <1>1, <1>2, TypeCorrect, PTL DEF Spec

\* What KeyUntouched says of one step and one key.
LeavesAlone(k) ==
  /\ data'[k] = data[k]
  /\ expirations'[k] = expirations[k]
  /\ \/ Protected(k)'
     \/ Overdue(k)'
     \/ \E c \in Clients : pc[c] = "idle" /\ Busy(c)' /\ Key(c)' = k

LEMMA ProtectedStep ==
  ASSUME TypeOK, ReaperClock, [Next]_vars, NEW k \in Keys, Protected(k)
  PROVE  LeavesAlone(k)
<1>0. /\ data \in [Keys -> RedisObject \cup {None}]
      /\ expirations \in [Keys -> Nat \cup {None}]
      /\ now \in Nat
      /\ reaper.now \in Nat
      /\ pc \in [Clients -> DbSteps \cup {"idle", "return"}]
      /\ cmd \in [Clients -> Command \cup {None}]
  BY DEF TypeOK
<1>1. ASSUME NEW c \in Clients, DbStep(c)
      PROVE  LeavesAlone(k)
  <2>1. Key(c) # k
    BY <1>1, DbStepFrame DEF Protected
  <2>2. data'[k] = data[k] /\ expirations'[k] = expirations[k]
    BY <1>1, <2>1, DbStepFrame
  <2>3. \A d \in Clients : Busy(d)' => Key(d)' # k
    BY <1>1, DbStepFrame DEF Protected, Key
  <2>4. reaper'.key # k /\ now' = now
    BY <1>1, DbStepFrame DEF Protected
  <2>5. QED
    BY <2>2, <2>3, <2>4 DEF LeavesAlone, Protected, Overdue, IsExpired
<1>2. ASSUME NEW c \in Clients, NEW req \in Requests, Begin(c, req)
      PROVE  LeavesAlone(k)
  <2>1. /\ pc[c] = "idle" /\ UNCHANGED <<data, expirations, now, reaper>>
        /\ \A d \in Clients : d # c => pc'[d] = pc[d] /\ cmd'[d] = cmd[d]
    BY <1>0, <1>2 DEF Begin, Call, Goto, maps
  <2>2. \A d \in Clients : d # c /\ Busy(d)' => Key(d)' # k
    BY <2>1 DEF Protected, Busy, Key
  <2>3. QED
    BY <2>1, <2>2 DEF LeavesAlone, Protected, Overdue, IsExpired
<1>3. ASSUME NEW c \in Clients, Reply(c)
      PROVE  LeavesAlone(k)
  <2>1. /\ UNCHANGED <<data, expirations, now, reaper>>
        /\ pc'[c] = "idle"
        /\ \A d \in Clients : d # c => pc'[d] = pc[d] /\ cmd'[d] = cmd[d]
    BY <1>0, <1>3 DEF Reply, Goto, maps
  <2>2. ~Busy(c)'
    BY <2>1 DEF Busy, DbSteps, SetSteps, ReadSteps, DeleteSteps, PushSteps, ExpireSteps
  <2>3. \A d \in Clients : Busy(d)' => Key(d)' # k
    BY <2>1, <2>2 DEF Protected, Busy, Key
  <2>4. QED
    BY <2>1, <2>3 DEF LeavesAlone, Protected, Overdue, IsExpired
<1>4. CASE ReaperStep
  <2>1. UNCHANGED <<now, pc, cmd>>
    BY <1>4, Zenon DEF ReaperStep, CycleStart, CycleVisit, CycleCheck, CycleRemoveData,
       CycleRemoveExpiration, CycleEnd, tasks
  <2>2. data'[k] = data[k] /\ expirations'[k] = expirations[k]
    BY <1>0, <1>4, Zenon DEF ReaperStep, CycleStart, CycleVisit, CycleCheck, CycleRemoveData,
       CycleRemoveExpiration, CycleEnd, maps, Protected
  <2>3. reaper'.key # k
    <3>1. CASE CycleStart
      BY <3>1, StartFrame, StoreAssumption
    <3>2. ASSUME NEW j \in Keys, CycleVisit(j)
          PROVE  reaper'.key # k
      BY <3>2, VisitFrame DEF Protected
    <3>3. ASSUME NEW j \in Keys, CycleCheck(j)
          PROVE  reaper'.key # k
      <4>1. CASE expirations[j] # None /\ expirations[j] < reaper.now
        <5>1. Overdue(j)
          BY <1>0, <4>1 DEF Overdue, IsExpired, ReaperClock
        <5>2. reaper'.key = j
          BY <3>3, <4>1 DEF CycleCheck, TypeOK
        <5>3. QED
          BY <5>1, <5>2 DEF Protected
      <4>2. CASE ~(expirations[j] # None /\ expirations[j] < reaper.now)
        BY <3>3, <4>2 DEF CycleCheck, TypeOK, Protected
      <4>3. QED
        BY <4>1, <4>2
    <3>4. CASE CycleRemoveData \/ CycleRemoveExpiration \/ CycleEnd
      BY <3>4, StoreAssumption, Zenon DEF CycleRemoveData, CycleRemoveExpiration, CycleEnd,
         Asleep, TypeOK, Protected
    <3>5. QED
      BY <1>4, <3>1, <3>2, <3>3, <3>4 DEF ReaperStep
  <2>4. QED
    BY <2>1, <2>2, <2>3 DEF LeavesAlone, Protected, Overdue, IsExpired, Busy, Key
<1>5. CASE Tick
  BY <1>5 DEF Tick, maps, tasks, LeavesAlone, Protected, Busy, Key
<1>6. CASE UNCHANGED vars
  BY <1>6 DEF vars, maps, tasks, LeavesAlone, Protected, Busy, Key, Overdue, IsExpired
<1>7. QED
  BY <1>1, <1>2, <1>3, <1>4, <1>5, <1>6 DEF Next

\* No interleaving of commands on other keys with the active-expiration task
\* changes a key that nobody works on and whose deadline has not passed.
THEOREM KeyIsolation == Spec => KeyUntouched
<1>1. TypeOK /\ ReaperClock /\ [Next]_vars
        => [\A k \in Keys : Protected(k) => LeavesAlone(k)]_vars
  BY ProtectedStep
<1>2. QED
  BY <1>1, TypeCorrect, ReaperClockInvariant, PTL DEF Spec, KeyUntouched, LeavesAlone
-----------------------------------------------------------------------------
(* The discipline under which no two methods get in each other's way *)

Writers == {"SET", "LPUSH", "RPUSH", "EXPIRE"}

\* The task is the only one at work on its key.
Alone(c) ==
  /\ reaper.key # Key(c)
  /\ \A d \in Clients : Busy(d) /\ Key(d) = Key(c) => d = c

\* The key has no deadline, none of the tasks at work on it gives it one or has
\* just taken one away, nobody purges it and nobody creates a list in it.
Calm(k) ==
  /\ expirations[k] = None /\ reaper.key # k
  /\ \A d \in Clients : Busy(d) /\ Key(d) = k =>
       /\ cmd[d].req.ttl = None /\ removed[d] = None
       /\ pc[d] \notin {"lazy_data", "lazy_exp", "push_insert"}

\* A task that sets, extends or expires a key is the only one at work on it, or
\* the key is calm.  The tasks that only read or remove may overlap on a key as
\* they like: get, lrange, delete, active expiration.
WritersApart ==
  \A c \in Clients : Busy(c) /\ cmd[c].req.op \in Writers => Alone(c) \/ Calm(Key(c))
-----------------------------------------------------------------------------
(* What the tasks know of the maps when writers keep apart *)

\* What a task inside a method knows of the entries of its key at each step.
Knows(c) ==
  LET k == Key(c)
      m == cmd[c]
  IN  /\ m.issued <= now
      /\ pc[c] = "set_insert" => expirations[k] = None
      /\ pc[c] = "set_expire" => data[k] # None
      /\ pc[c] = "lazy_data" => data[k] = None \/ IsExpired(k)
      /\ pc[c] = "lazy_exp" => data[k] = None
      /\ pc[c] = "delete_exp" => data[k] = None \/ expirations[k] = None
      /\ pc[c] = "read" =>
           data[k] = None \/ expirations[k] = None \/ expirations[k] >= m.issued
      /\ pc[c] = "push_insert" => data[k] = None
      /\ pc[c] \in {"expire_option", "expire_insert"} => data[k] # None
      /\ pc[c] = "expire_insert" => MayExpire(m.req.opt, expirations[k], Deadline(m))

\* What the active-expiration task knows of the key it is about to remove.
ReaperKnows ==
  /\ reaper.now <= now
  /\ reaper.pc = "data" => data[reaper.key] = None \/ IsExpired(reaper.key)
  /\ reaper.pc = "exp" => data[reaper.key] = None

\* A task is about to remove the deadline of k, whose value is gone.
Removing(k) ==
  \/ reaper.pc = "exp" /\ reaper.key = k
  \/ \E c \in Clients : pc[c] \in {"lazy_exp", "delete_exp"} /\ Key(c) = k

\* A key has a deadline and no value only while a task is removing the deadline.
InSync(k) == expirations[k] # None /\ data[k] = None => Removing(k)

AtomicInv ==
  /\ \A c \in Clients : Busy(c) => Knows(c)
  /\ ReaperKnows
  /\ \A k \in Keys : InSync(k)

\* What a read, a delete or active expiration does to the entries of a key: the
\* value goes first, and the deadline only after it.
OnlyRemoves(k) ==
  /\ data'[k] = data[k] \/ data'[k] = None
  /\ \/ expirations'[k] = expirations[k]
     \/ expirations'[k] = None /\ data[k] = None /\ data'[k] = None

\* What was past stays past.
LEMMA PastStays ==
  \A a, b, e \in Nat : /\ a <= b /\ e >= b => a <= e
                       /\ a < b /\ e >= b => a < e
  OBVIOUS

\* A step of another task leaves a task what it knows: it leaves the entries of
\* its key alone, or removes them, and only a writer relies on their being there;
\* or the key is calm and stays without a deadline.
LEMMA OthersKnow ==
  ASSUME TypeOK, NEW d \in Clients, Busy(d), Knows(d),
         pc'[d] = pc[d], cmd'[d] = cmd[d], now' \in Nat, now' >= now,
         \/ data'[Key(d)] = data[Key(d)] /\ expirations'[Key(d)] = expirations[Key(d)]
         \/ OnlyRemoves(Key(d)) /\ cmd[d].req.op \notin Writers
         \/ Calm(Key(d)) /\ expirations'[Key(d)] = None
  PROVE  Knows(d)'
<1>0. /\ cmd[d] \in Command /\ Key(d) \in Keys /\ pc[d] \in StepsOf(cmd[d].req.op)
      /\ now \in Nat /\ cmd[d].issued \in Nat
      /\ expirations[Key(d)] \in Nat \cup {None}
      /\ Key(d)' = Key(d)
  <2>1. cmd[d] \in Command /\ Key(d) \in Keys /\ pc[d] \in StepsOf(cmd[d].req.op)
    BY BusyType DEF Busy
  <2>2. Key(d)' = Key(d)
    BY DEF Key
  <2> QED
    BY <2>1, <2>2 DEF TypeOK, Command
<1>a. cmd[d].issued <= now'
  <2>1. cmd[d].issued <= now
    BY Zenon DEF Knows
  <2> QED
    BY <1>0, <2>1, PastStays, Zenon
<1>b. ASSUME IsExpired(Key(d)), expirations'[Key(d)] = expirations[Key(d)]
      PROVE  IsExpired(Key(d))'
  <2>1. expirations[Key(d)] # None /\ expirations[Key(d)] < now
    BY <1>b, Zenon DEF IsExpired
  <2>2. expirations[Key(d)] \in Nat
    BY <1>0, <2>1
  <2>3. expirations[Key(d)] < now'
    BY <1>0, <2>1, <2>2, PastStays, Zenon
  <2> QED
    BY <1>0, <1>b, <2>1, <2>3, Zenon DEF IsExpired
<1>1. CASE data'[Key(d)] = data[Key(d)] /\ expirations'[Key(d)] = expirations[Key(d)]
  <2>1. IsExpired(Key(d)) => IsExpired(Key(d))'
    BY <1>1, <1>b, Zenon
  <2> QED
    BY <1>0, <1>1, <1>a, <2>1 DEF Knows
<1>2. CASE OnlyRemoves(Key(d)) /\ cmd[d].req.op \notin Writers
  <2>1. cmd[d].req.op \in {"GET", "LRANGE", "DELETE"}
    BY <1>0, <1>2, CommandType DEF DbOps, Writers
  <2>2. pc[d] \in ReadSteps \cup DeleteSteps
    BY <1>0, <2>1 DEF StepsOf
  <2>3. ASSUME pc[d] = "lazy_data", data'[Key(d)] # None
        PROVE  IsExpired(Key(d))'
    <3>1. data[Key(d)] # None /\ expirations'[Key(d)] = expirations[Key(d)]
      BY <1>2, <2>3, Zenon DEF OnlyRemoves
    <3>2. IsExpired(Key(d))
      BY <2>3, <3>1, Zenon DEF Knows
    <3> QED
      BY <1>b, <3>1, <3>2, Zenon
  <2>4. /\ pc[d] = "lazy_exp" => data'[Key(d)] = None
        /\ pc[d] = "delete_exp" => data'[Key(d)] = None \/ expirations'[Key(d)] = None
    BY <1>2, Zenon DEF Knows, OnlyRemoves
  <2>5. pc[d] = "read" => \/ data'[Key(d)] = None \/ expirations'[Key(d)] = None
                          \/ expirations'[Key(d)] >= cmd[d].issued
    BY <1>2 DEF Knows, OnlyRemoves
  <2> QED
    BY <1>0, <1>a, <2>2, <2>3, <2>4, <2>5, Zenon DEF Knows, ReadSteps, DeleteSteps
<1>3. CASE Calm(Key(d)) /\ expirations'[Key(d)] = None
  <2>1. /\ cmd[d].req.ttl = None
        /\ pc[d] # "lazy_data" /\ pc[d] # "lazy_exp" /\ pc[d] # "push_insert"
    BY <1>3 DEF Calm
  <2>2. pc[d] # "set_expire"
    BY <2>1 DEF TypeOK
  <2>3. cmd[d].req.op # "EXPIRE"
    BY <1>0, <2>1, RequestAssumption DEF Command
  <2>4. pc[d] # "expire_option" /\ pc[d] # "expire_insert"
    <3>1. cmd[d].req.op \in DbOps
      BY <1>0, CommandType
    <3> QED
      BY <1>0, <2>3, <3>1 DEF DbOps, StepsOf, SetSteps, ReadSteps, DeleteSteps, PushSteps
  <2> QED
    BY <1>0, <1>3, <1>a, <2>1, <2>2, <2>4, Zenon DEF Knows
<1> QED
  BY <1>1, <1>2, <1>3

\* The step a task has reached tells which method it executes.
LEMMA StepOp ==
  ASSUME TypeOK, NEW c \in Clients, Busy(c)
  PROVE  /\ pc[c] \in SetSteps    <=> cmd[c].req.op = "SET"
         /\ pc[c] \in ReadSteps   <=> cmd[c].req.op \in {"GET", "LRANGE"}
         /\ pc[c] \in DeleteSteps <=> cmd[c].req.op = "DELETE"
         /\ pc[c] \in PushSteps   <=> cmd[c].req.op \in {"LPUSH", "RPUSH"}
         /\ pc[c] \in ExpireSteps <=> cmd[c].req.op = "EXPIRE"
<1>1. pc[c] \in StepsOf(cmd[c].req.op) /\ cmd[c].req.op \in DbOps
  BY BusyType, CommandType DEF Busy
<1>2. /\ SetSteps \cap (ReadSteps \cup DeleteSteps \cup PushSteps \cup ExpireSteps) = {}
      /\ ReadSteps \cap (DeleteSteps \cup PushSteps \cup ExpireSteps) = {}
      /\ DeleteSteps \cap (PushSteps \cup ExpireSteps) = {}
      /\ PushSteps \cap ExpireSteps = {}
  BY DEF SetSteps, ReadSteps, DeleteSteps, PushSteps, ExpireSteps
<1> QED
  BY <1>1, <1>2 DEF StepsOf, DbOps

\* A step of a read or a delete only removes.
LEMMA RemoverEffect ==
  ASSUME TypeOK, AtomicInv, NEW c \in Clients, DbStep(c), cmd[c].req.op \notin Writers
  PROVE  OnlyRemoves(Key(c))
<1>0. /\ Busy(c) /\ Knows(c) /\ Key(c) \in Keys /\ pc[c] \in StepsOf(cmd[c].req.op)
      /\ cmd[c].req.op \in {"GET", "LRANGE", "DELETE"}
  <2>1. Busy(c)
    BY DbStepFrame
  <2> QED
    BY <2>1, BusyType, CommandType DEF AtomicInv, Busy, DbOps, Writers
<1>1. pc[c] \in ReadSteps \cup DeleteSteps
  BY <1>0 DEF StepsOf
<1>2. data \in [Keys -> RedisObject \cup {None}] /\ expirations \in [Keys -> Nat \cup {None}]
  BY DEF TypeOK
<1>3. \/ LazyCheck(c) \/ LazyRemoveData(c) \/ LazyRemoveExpiration(c) \/ Read(c)
      \/ DeleteData(c) \/ DeleteExpiration(c)
  BY <1>1, Zenon DEF DbStep, SetUnexpire, SetInsert, SetExpire, PushGet, PushInsert,
     ExpireFind, ExpireOption, ExpireInsert, ReadSteps, DeleteSteps
<1>4. CASE LazyCheck(c) \/ Read(c)
  BY <1>4, Zenon DEF LazyCheck, Read, maps, OnlyRemoves
<1>5. CASE LazyRemoveData(c) \/ DeleteData(c)
  BY <1>0, <1>2, <1>5, ZenonT(30) DEF LazyRemoveData, DeleteData, OnlyRemoves
<1>6. CASE LazyRemoveExpiration(c) \/ DeleteExpiration(c)
  <2>1. data[Key(c)] = None \/ expirations[Key(c)] = None
    BY <1>0, <1>6, Zenon DEF LazyRemoveExpiration, DeleteExpiration, Knows
  <2> QED
    BY <1>0, <1>2, <1>6, <2>1 DEF LazyRemoveExpiration, DeleteExpiration, OnlyRemoves
<1> QED
  BY <1>3, <1>4, <1>5, <1>6

\* A task that goes on to the next call of its method knows what it needs there.
LEMMA OwnKnows ==
  ASSUME TypeOK, AtomicInv, NEW c \in Clients, DbStep(c), Busy(c)'
  PROVE  Knows(c)'
<1> DEFINE k == Key(c)
           m == cmd[c]
<1>0. /\ Busy(c) /\ Knows(c) /\ k \in Keys /\ m \in Command
      /\ m.issued \in Nat /\ m.issued <= now
      /\ UNCHANGED <<now, cmd, reaper>> /\ k = Key(c)'
  <2>1. Busy(c) /\ UNCHANGED <<now, cmd, reaper>>
    BY DbStepFrame
  <2>2. Knows(c) /\ k \in Keys /\ m \in Command
    BY <2>1, BusyType, Zenon DEF AtomicInv, Busy
  <2> QED
    BY <2>1, <2>2, Zenon DEF Key, Knows, Command
<1>1. /\ data \in [Keys -> RedisObject \cup {None}]
      /\ expirations \in [Keys -> Nat \cup {None}]
      /\ now \in Nat
      /\ pc \in [Clients -> DbSteps \cup {"idle", "return"}]
  BY DEF TypeOK
<1>2. pc'[c] # "return"
  BY DEF Busy, DbSteps, SetSteps, ReadSteps, DeleteSteps, PushSteps, ExpireSteps
<1> HIDE DEF k, m
<1> USE <1>0, <1>1, <1>2
<1>3. CASE SetUnexpire(c)
  <2>1. pc'[c] = "set_insert" /\ expirations'[k] = None
    BY <1>3 DEF SetUnexpire, Goto, k
  <2> QED
    BY <2>1, Zenon DEF Knows, k, m
<1>4. CASE SetInsert(c)
  <2>1. pc'[c] = "set_expire" /\ data'[k] = Str(m.req.vals[1])
    BY <1>4 DEF SetInsert, Goto, Return, k, m
  <2>2. Str(m.req.vals[1]) # None
    <3>1. m.req.op = "SET"
      BY <1>4, BusyType, CommandType DEF Busy, SetInsert, DbOps, StepsOf, SetSteps, ReadSteps,
         DeleteSteps, PushSteps, ExpireSteps, m
    <3> QED
      BY <3>1, CommandType, ObjectType, NoneAssumption
  <2> QED
    BY <2>1, <2>2, Zenon DEF Knows, k, m
<1>5. CASE LazyCheck(c)
  <2>1. /\ UNCHANGED <<data, expirations>>
        /\ pc'[c] = IF IsExpired(k) THEN "lazy_data" ELSE "read"
    BY <1>5 DEF LazyCheck, Goto, maps, k
  <2>2. CASE IsExpired(k)
    <3>1. expirations'[k] # None /\ expirations'[k] < now'
      BY <2>1, <2>2 DEF IsExpired
    <3> QED
      BY <2>1, <2>2, <3>1 DEF Knows, IsExpired, k, m
  <2>3. CASE ~IsExpired(k)
    <3>1. pc'[c] = "read" /\ now' = now
      BY <2>1, <2>3
    <3>2. expirations'[k] = None \/ expirations'[k] >= m.issued
      BY <2>1, <2>3 DEF IsExpired
    <3> QED
      BY <3>1, <3>2, Zenon DEF Knows, k, m
  <2> QED
    BY <2>2, <2>3
<1>6. CASE LazyRemoveData(c)
  <2>1. pc'[c] = "lazy_exp" /\ data'[k] = None
    BY <1>6 DEF LazyRemoveData, Goto, k
  <2> QED
    BY <2>1, Zenon DEF Knows, k, m
<1>7. CASE DeleteData(c)
  <2>1. pc'[c] = "delete_exp" /\ data'[k] = None
    BY <1>7 DEF DeleteData, Goto, k
  <2> QED
    BY <2>1, Zenon DEF Knows, k, m
<1>8. CASE PushGet(c)
  <2>1. pc'[c] = "push_insert" /\ data'[k] = None
    BY <1>8 DEF PushGet, Goto, Return, k
  <2> QED
    BY <2>1, Zenon DEF Knows, k, m
<1>9. CASE ExpireFind(c)
  <2>1. /\ UNCHANGED <<data, expirations>> /\ data[k] # None
        /\ pc'[c] = IF m.req.opt = None THEN "expire_insert" ELSE "expire_option"
    BY <1>9 DEF ExpireFind, Goto, Return, maps, k, m
  <2>2. m.req.opt = None => MayExpire(m.req.opt, expirations'[k], Deadline(m))
    BY NoneAssumption, Zenon DEF MayExpire, ExpireOptions
  <2> QED
    BY <2>1, <2>2, Zenon DEF Knows, k, m
<1>10. CASE ExpireOption(c)
  <2>1. /\ UNCHANGED <<data, expirations>>
        /\ pc'[c] = "expire_insert"
        /\ MayExpire(m.req.opt, expirations[k], Deadline(m))
    BY <1>10 DEF ExpireOption, Goto, Return, maps, k, m
  <2>2. data[k] # None
    BY <1>10, Zenon DEF ExpireOption, Knows, k
  <2> QED
    BY <2>1, <2>2, Zenon DEF Knows, k, m
<1>11. CASE \/ SetExpire(c) \/ LazyRemoveExpiration(c) \/ Read(c) \/ DeleteExpiration(c)
            \/ PushInsert(c) \/ ExpireInsert(c)
  <2>1. pc'[c] = "return"
    BY <1>11 DEF SetExpire, LazyRemoveExpiration, Read, DeleteExpiration, PushInsert,
       ExpireInsert, Goto, Return
  <2> QED
    BY <2>1
<1> QED
  BY <1>3, <1>4, <1>5, <1>6, <1>7, <1>8, <1>9, <1>10, <1>11 DEF DbStep

\* A step of a method keeps the two maps in sync at its own key.
LEMMA OwnInSync ==
  ASSUME TypeOK, AtomicInv, NEW c \in Clients, DbStep(c)
  PROVE  InSync(Key(c))'
<1> DEFINE k == Key(c)
<1>0. /\ Knows(c) /\ k \in Keys /\ InSync(k) /\ cmd[c] \in Command
      /\ UNCHANGED <<cmd, reaper>>
      /\ \A d \in Clients : d # c => pc'[d] = pc[d]
  <2>1. Busy(c) /\ UNCHANGED <<cmd, reaper>> /\ \A d \in Clients : d # c => pc'[d] = pc[d]
    BY DbStepFrame
  <2> QED
    BY <2>1, BusyType, Zenon DEF AtomicInv, Busy
<1>1. /\ data \in [Keys -> RedisObject \cup {None}]
      /\ expirations \in [Keys -> Nat \cup {None}]
      /\ pc \in [Clients -> DbSteps \cup {"idle", "return"}]
  BY DEF TypeOK
<1>2. SUFFICES expirations'[k] # None /\ data'[k] = None => Removing(k)'
  BY <1>0, Zenon DEF InSync, Removing, Key
<1>3. CASE SetUnexpire(c) \/ LazyRemoveExpiration(c) \/ DeleteExpiration(c)
  BY <1>0, <1>1, <1>3, Zenon DEF SetUnexpire, LazyRemoveExpiration, DeleteExpiration
<1>4. CASE SetInsert(c) \/ PushInsert(c)
  <2>1. cmd[c].req.vals \in Seq(Vals)
    BY <1>0, CommandType
  <2>2. CASE SetInsert(c)
    <3>1. data'[k] = Str(cmd[c].req.vals[1])
      BY <1>0, <1>1, <2>2, Zenon DEF SetInsert
    <3>2. cmd[c].req.op = "SET"
      <4>1. pc[c] \in DbSteps /\ pc[c] \notin ReadSteps \cup DeleteSteps \cup PushSteps \cup ExpireSteps
        BY <2>2 DEF SetInsert, DbSteps, SetSteps, ReadSteps, DeleteSteps, PushSteps, ExpireSteps
      <4>2. pc[c] \in StepsOf(cmd[c].req.op) /\ cmd[c].req.op \in DbOps
        BY <1>0, <4>1, BusyType, CommandType
      <4> QED
        BY <4>1, <4>2 DEF DbOps, StepsOf
    <3> QED
      BY <1>0, <3>1, <3>2, CommandType, ObjectType, NoneAssumption, Zenon
  <2>3. CASE PushInsert(c)
    <3>1. data'[k] = List(NewList(cmd[c].req.op, cmd[c].req.vals))
      BY <1>0, <1>1, <2>3 DEF PushInsert
    <3> QED
      BY <2>1, <3>1, PushType, ObjectType, NoneAssumption, Zenon
  <2> QED
    BY <1>4, <2>2, <2>3
<1>5. CASE SetExpire(c) \/ ExpireInsert(c)
  BY <1>0, <1>5, Zenon DEF SetExpire, ExpireInsert, Knows
<1>6. CASE LazyRemoveData(c) \/ DeleteData(c)
  <2>1. pc'[c] \in {"lazy_exp", "delete_exp"}
    BY <1>1, <1>6 DEF LazyRemoveData, DeleteData, Goto
  <2> QED
    BY <1>0, <2>1 DEF Removing, Key
<1>7. CASE LazyCheck(c) \/ Read(c) \/ ExpireFind(c) \/ ExpireOption(c) \/ PushGet(c)
  <2>1. expirations' = expirations /\ pc[c] \notin {"lazy_exp", "delete_exp"}
    BY <1>7, Zenon DEF LazyCheck, Read, ExpireFind, ExpireOption, PushGet, maps
  <2>2. data'[k] = None => data[k] = None
    <3>1. CASE PushGet(c)
      <4>1. CASE data'[k] = List(Push(cmd[c].req.op, cmd[c].req.vals, data[k].list))
                 /\ data[k] # None /\ data[k].type = "List"
        <5>1. data[k].list \in Seq(Vals) /\ cmd[c].req.vals \in Seq(Vals)
          BY <1>0, <1>1, <4>1, CommandType, Zenon DEF RedisObject
        <5> QED
          BY <4>1, <5>1, PushType, ObjectType, NoneAssumption, Zenon
      <4>2. CASE data' = data
        BY <4>2
      <4> QED
        BY <1>0, <1>1, <3>1, <4>1, <4>2, Zenon DEF PushGet
    <3>2. CASE LazyCheck(c) \/ Read(c) \/ ExpireFind(c) \/ ExpireOption(c)
      BY <3>2, Zenon DEF LazyCheck, Read, ExpireFind, ExpireOption, maps
    <3> QED
      BY <1>7, <3>1, <3>2, Zenon
  <2> QED
    BY <1>0, <2>1, <2>2, Zenon DEF InSync, Removing, Key
<1> QED
  BY <1>3, <1>4, <1>5, <1>6, <1>7, Zenon DEF DbStep

\* A step of a method on a calm key gives it no deadline.
LEMMA CalmStep ==
  ASSUME TypeOK, NEW c \in Clients, DbStep(c), Calm(Key(c))
  PROVE  expirations'[Key(c)] = None /\ removed'[c] = None
<1>0. /\ Busy(c) /\ Key(c) \in Keys /\ cmd[c] \in Command
      /\ cmd[c].req.ttl = None /\ removed[c] = None /\ expirations[Key(c)] = None
  <2>1. Busy(c)
    BY DbStepFrame
  <2> QED
    BY <2>1, BusyType DEF Busy, Calm
<1>1. /\ expirations \in [Keys -> Nat \cup {None}]
      /\ removed \in [Clients -> Nat \cup {None}]
      /\ pc[c] # "set_expire"
  BY <1>0 DEF TypeOK
<1>2. pc[c] # "expire_insert"
  <2>1. cmd[c].req.op # "EXPIRE"
    BY <1>0, RequestAssumption DEF Command
  <2> QED
    BY <1>0, <2>1, StepOp, Zenon DEF ExpireSteps
<1>3. /\ expirations' = expirations \/ expirations' = [expirations EXCEPT ![Key(c)] = None]
      /\ \/ removed' = removed
         \/ removed' = [removed EXCEPT ![c] = None]
         \/ removed' = [removed EXCEPT ![c] = expirations[Key(c)]]
  BY <1>1, <1>2, Zenon DEF DbStep, SetUnexpire, SetInsert, SetExpire, LazyCheck, LazyRemoveData,
     LazyRemoveExpiration, Read, DeleteData, DeleteExpiration, PushGet, PushInsert,
     ExpireFind, ExpireOption, ExpireInsert, maps
<1> QED
  BY <1>0, <1>1, <1>3

LEMMA DbStepAtomic ==
  ASSUME TypeOK, AtomicInv, WritersApart, NEW c \in Clients, DbStep(c)
  PROVE  AtomicInv'
<1>0. /\ Busy(c) /\ Key(c) \in Keys
      /\ \A k \in Keys : k # Key(c) => data'[k] = data[k] /\ expirations'[k] = expirations[k]
      /\ UNCHANGED <<now, cmd, reaper>>
      /\ \A d \in Clients : Busy(d)' => Busy(d)
      /\ \A d \in Clients : d # c => pc'[d] = pc[d]
      /\ now \in Nat
  <2>1. Busy(c) /\ now \in Nat
    BY DbStepFrame DEF TypeOK
  <2>2. Key(c) \in Keys
    BY <2>1, BusyType DEF Busy
  <2> QED
    BY <2>1, <2>2, DbStepFrame, Zenon
<1>1. ASSUME NEW d \in Clients, Busy(d)' PROVE Knows(d)'
  <2>1. CASE d = c
    BY <1>1, <2>1, OwnKnows
  <2>2. CASE d # c
    <3>0. /\ Busy(d) /\ Knows(d) /\ pc'[d] = pc[d] /\ cmd'[d] = cmd[d]
          /\ now' \in Nat /\ now' >= now /\ Key(d) \in Keys
      BY <1>0, <1>1, <2>2, BusyType DEF AtomicInv, Busy
    <3>1. CASE Key(d) # Key(c)
      BY <1>0, <3>0, <3>1, OthersKnow
    <3>2. CASE Key(d) = Key(c)
      <4>1. CASE Calm(Key(c))
        <5>1. Calm(Key(d)) /\ expirations'[Key(d)] = None
          BY <3>2, <4>1, CalmStep
        <5> QED
          BY <3>0, <5>1, OthersKnow
      <4>2. CASE ~Calm(Key(c))
        <5>1. cmd[c].req.op \notin Writers /\ cmd[d].req.op \notin Writers
          BY <1>0, <2>2, <3>0, <3>2, <4>2, Zenon DEF WritersApart, Alone
        <5>2. OnlyRemoves(Key(d))
          BY <3>2, <5>1, RemoverEffect
        <5> QED
          BY <3>0, <5>1, <5>2, OthersKnow
      <4> QED
        BY <4>1, <4>2
    <3> QED
      BY <3>1, <3>2
  <2> QED
    BY <2>1, <2>2
<1>2. ReaperKnows'
  <2>1. CASE reaper.pc \notin {"data", "exp"}
    BY <1>0, <2>1, Zenon DEF AtomicInv, ReaperKnows
  <2>2. CASE reaper.pc \in {"data", "exp"}
    <3>1. reaper.key \in Keys
      BY <2>2 DEF TypeOK
    <3>2. CASE reaper.key # Key(c)
      <4>1. data'[reaper.key] = data[reaper.key] /\ expirations'[reaper.key] = expirations[reaper.key]
        BY <1>0, <3>1, <3>2
      <4> QED
        BY <1>0, <4>1, Zenon DEF AtomicInv, ReaperKnows, IsExpired
    <3>3. CASE reaper.key = Key(c)
      <4>1. OnlyRemoves(Key(c))
        BY <1>0, <3>3, RemoverEffect, Zenon DEF WritersApart, Alone, Calm
      <4> QED
        BY <1>0, <3>3, <4>1 DEF AtomicInv, ReaperKnows, IsExpired, OnlyRemoves
    <3> QED
      BY <3>2, <3>3
  <2> QED
    BY <2>1, <2>2
<1>3. ASSUME NEW k \in Keys PROVE InSync(k)'
  <2>1. CASE k = Key(c)
    BY <1>0, <2>1, OwnInSync DEF InSync, Removing, Key
  <2>2. CASE k # Key(c)
    BY <1>0, <2>2 DEF AtomicInv, InSync, Removing, Key
  <2> QED
    BY <2>1, <2>2
<1> QED
  BY <1>1, <1>2, <1>3 DEF AtomicInv

\* A step that leaves the maps alone, and every task that is inside a method.
LEMMA MapsUntouched ==
  ASSUME TypeOK, AtomicInv, UNCHANGED maps, ReaperKnows', now' \in Nat, now' >= now,
         reaper.pc = "exp" => reaper'.pc = "exp" /\ reaper'.key = reaper.key,
         \A d \in Clients : \/ pc'[d] = pc[d] /\ cmd'[d] = cmd[d]
                            \/ ~Busy(d) /\ (Busy(d)' => Knows(d)')
  PROVE  AtomicInv'
<1>1. ASSUME NEW d \in Clients, Busy(d)' PROVE Knows(d)'
  <2>1. CASE pc'[d] = pc[d] /\ cmd'[d] = cmd[d]
    <3>1. Busy(d) /\ Knows(d)
      BY <1>1, <2>1 DEF Busy, AtomicInv
    <3> QED
      BY <2>1, <3>1, OthersKnow DEF maps
  <2> QED
    BY <1>1, <2>1
<1>2. ASSUME NEW k \in Keys PROVE InSync(k)'
  <2>1. \A d \in Clients : pc[d] \in {"lazy_exp", "delete_exp"} =>
                            pc'[d] = pc[d] /\ cmd'[d] = cmd[d]
    BY DEF Busy, DbSteps, ReadSteps, DeleteSteps
  <2>2. InSync(k)
    BY Zenon DEF AtomicInv
  <2> QED
    BY <2>1, <2>2, ZenonT(30) DEF InSync, Removing, Key, maps
<1> QED
  BY <1>1, <1>2 DEF AtomicInv

LEMMA ReaperStepAtomic ==
  ASSUME TypeOK, AtomicInv, WritersApart, ReaperStep
  PROVE  AtomicInv'
<1>0. /\ now \in Nat /\ reaper.now \in Nat /\ reaper.now <= now
      /\ data \in [Keys -> RedisObject \cup {None}]
      /\ expirations \in [Keys -> Nat \cup {None}]
      /\ reaper \in [pc : {"sleep", "sample", "check", "data", "exp", "rerun"},
                     now : Nat, skip : Nat, unvisited : SUBSET Keys,
                     sampled : SUBSET Keys, key : Keys \cup {None},
                     checked : Nat, expired : Nat]
      /\ reaper.pc \in {"data", "exp"} => reaper.key \in Keys
  BY DEF TypeOK, AtomicInv, ReaperKnows
<1>1. ASSUME UNCHANGED <<maps, now, tasks>>, reaper.pc # "exp", ReaperKnows' PROVE AtomicInv'
  <2>1. /\ UNCHANGED maps /\ now' \in Nat /\ now' >= now
        /\ \A d \in Clients : pc'[d] = pc[d] /\ cmd'[d] = cmd[d]
    BY <1>0, <1>1 DEF tasks
  <2> QED
    BY <1>1, <2>1, MapsUntouched
<1>2. CASE CycleStart
  <2>1. UNCHANGED <<maps, now, tasks>> /\ reaper.pc # "exp"
    BY <1>2, Zenon DEF CycleStart
  <2> QED
    BY <1>0, <1>1, <1>2, <2>1, StartFrame DEF ReaperKnows
<1>3. ASSUME NEW k \in Keys, CycleVisit(k) PROVE AtomicInv'
  <2>1. /\ UNCHANGED <<maps, now, tasks>> /\ reaper.pc # "exp"
        /\ reaper'.pc \in {"sample", "check"}
    BY <1>0, <1>3 DEF CycleVisit
  <2> QED
    BY <1>0, <1>1, <1>3, <2>1, VisitFrame DEF ReaperKnows
<1>4. ASSUME NEW k \in Keys, CycleCheck(k) PROVE AtomicInv'
  <2>1. UNCHANGED <<maps, now, tasks>> /\ reaper.pc # "exp"
    BY <1>4 DEF CycleCheck
  <2>2. CASE expirations[k] # None /\ expirations[k] < reaper.now
    <3>1. reaper'.pc = "data" /\ reaper'.key = k /\ reaper'.now = reaper.now
      BY <1>0, <1>4, <2>2 DEF CycleCheck
    <3>2. expirations'[k] # None /\ expirations'[k] < now'
      BY <1>0, <2>1, <2>2 DEF maps
    <3> QED
      BY <1>0, <1>1, <2>1, <3>1, <3>2 DEF ReaperKnows, IsExpired
  <2>3. CASE ~(expirations[k] # None /\ expirations[k] < reaper.now)
    <3>1. reaper'.pc = "check" /\ reaper'.now = reaper.now
      BY <1>0, <1>4, <2>3 DEF CycleCheck
    <3> QED
      BY <1>0, <1>1, <2>1, <3>1 DEF ReaperKnows
  <2> QED
    BY <2>2, <2>3
<1>5. CASE CycleEnd
  <2>1. /\ UNCHANGED <<maps, now, tasks>> /\ reaper.pc # "exp"
        /\ reaper'.pc \in {"sleep", "rerun"} /\ reaper'.now = 0
    BY <1>5 DEF CycleEnd, Asleep
  <2> QED
    BY <1>0, <1>1, <2>1 DEF ReaperKnows
<1>6. CASE CycleRemoveData \/ CycleRemoveExpiration
  <2> DEFINE k == reaper.key
  <2>1. /\ reaper.pc \in {"data", "exp"} /\ k \in Keys
        /\ UNCHANGED <<now, tasks>>
        /\ \A j \in Keys : j # k => data'[j] = data[j] /\ expirations'[j] = expirations[j]
    BY <1>0, <1>6 DEF CycleRemoveData, CycleRemoveExpiration
  <2>2. OnlyRemoves(k)
    <3>1. CASE CycleRemoveData
      BY <1>0, <2>1, <3>1 DEF CycleRemoveData, OnlyRemoves
    <3>2. CASE CycleRemoveExpiration
      <4>1. data[k] = None
        BY <3>2 DEF CycleRemoveExpiration, AtomicInv, ReaperKnows
      <4> QED
        BY <1>0, <2>1, <3>2, <4>1 DEF CycleRemoveExpiration, OnlyRemoves
    <3> QED
      BY <1>6, <3>1, <3>2
  <2>3. ASSUME NEW d \in Clients, Busy(d)' PROVE Knows(d)'
    <3>1. /\ Busy(d) /\ Knows(d) /\ pc'[d] = pc[d] /\ cmd'[d] = cmd[d] /\ Key(d) \in Keys
          /\ now' \in Nat /\ now' >= now
      BY <1>0, <2>1, <2>3, BusyType DEF AtomicInv, Busy, tasks
    <3>2. CASE Key(d) = k
      <4>1. cmd[d].req.op \notin Writers
        BY <3>1, <3>2, Zenon DEF WritersApart, Alone, Calm
      <4> QED
        BY <2>2, <3>1, <3>2, <4>1, OthersKnow
    <3>3. CASE Key(d) # k
      BY <2>1, <3>1, <3>3, OthersKnow
    <3> QED
      BY <3>2, <3>3
  <2>4. ReaperKnows' /\ \A j \in Keys : InSync(j)'
    <3>1. CASE CycleRemoveData
      <4>1. reaper'.pc = "exp" /\ reaper'.key = k /\ reaper'.now = reaper.now
            /\ data'[k] = None /\ reaper.pc = "data"
        BY <1>0, <2>1, <3>1 DEF CycleRemoveData
      <4>2. ASSUME NEW j \in Keys PROVE InSync(j)'
        <5>1. CASE j = k
          BY <4>1, <5>1 DEF InSync, Removing
        <5>2. CASE j # k
          BY <2>1, <4>1, <5>2 DEF AtomicInv, InSync, Removing, Key, tasks
        <5> QED
          BY <5>1, <5>2
      <4> QED
        BY <1>0, <2>1, <4>1, <4>2 DEF ReaperKnows
    <3>2. CASE CycleRemoveExpiration
      <4>1. reaper'.pc = "check" /\ reaper'.now = reaper.now /\ expirations'[k] = None
        BY <1>0, <2>1, <3>2 DEF CycleRemoveExpiration
      <4>2. ASSUME NEW j \in Keys PROVE InSync(j)'
        <5>1. CASE j = k
          BY <4>1, <5>1 DEF InSync
        <5>2. CASE j # k
          BY <2>1, <5>2 DEF AtomicInv, InSync, Removing, Key, tasks
        <5> QED
          BY <5>1, <5>2
      <4> QED
        BY <1>0, <2>1, <4>1, <4>2 DEF ReaperKnows
    <3> QED
      BY <1>6, <3>1, <3>2
  <2> QED
    BY <2>3, <2>4 DEF AtomicInv
<1> QED
  BY <1>2, <1>3, <1>4, <1>5, <1>6 DEF ReaperStep

\* The calls and returns of the tasks, and the clock.
LEMMA TaskStepAtomic ==
  ASSUME TypeOK, AtomicInv,
         \/ \E c \in Clients, req \in Requests : Begin(c, req)
         \/ \E c \in Clients : Reply(c)
         \/ Tick
         \/ UNCHANGED vars
  PROVE  AtomicInv'
<1>0. /\ now \in Nat /\ reaper.now \in Nat
      /\ expirations \in [Keys -> Nat \cup {None}]
      /\ pc \in [Clients -> DbSteps \cup {"idle", "return"}]
      /\ cmd \in [Clients -> Command \cup {None}]
      /\ reaper.pc \in {"data", "exp"} => reaper.key \in Keys
  BY DEF TypeOK
<1>1. ASSUME NEW c \in Clients, NEW req \in Requests, Begin(c, req) PROVE AtomicInv'
  <2>1. /\ pc[c] = "idle" /\ UNCHANGED <<maps, now, reaper>>
        /\ cmd'[c] = [req |-> req, issued |-> now]
        /\ pc'[c] = Entry[req.op]
        /\ \A d \in Clients : d # c => pc'[d] = pc[d] /\ cmd'[d] = cmd[d]
    BY <1>0, <1>1 DEF Begin, Call, Goto
  <2>2. pc'[c] \in {"set_unexpire", "lazy_check", "delete_data", "push_get", "expire_find"}
    <3>1. req \in Request
      BY RequestAssumption, Zenon
    <3>2. req.op \in DbOps
      BY <3>1 DEF Request
    <3>3. \A op \in DbOps :
            Entry[op] \in {"set_unexpire", "lazy_check", "delete_data", "push_get", "expire_find"}
      BY DEF Entry, DbOps
    <3> QED
      BY <2>1, <3>2, <3>3, Zenon
  <2>3. ~Busy(c) /\ Knows(c)'
    <3>1. ~Busy(c)
      BY <2>1 DEF Busy, DbSteps, SetSteps, ReadSteps, DeleteSteps, PushSteps, ExpireSteps
    <3>2. cmd'[c].issued = now /\ now' = now /\ now <= now
      BY <1>0, <2>1
    <3>3. /\ pc'[c] # "set_insert" /\ pc'[c] # "set_expire" /\ pc'[c] # "lazy_data"
          /\ pc'[c] # "lazy_exp" /\ pc'[c] # "delete_exp"
          /\ pc'[c] # "read" /\ pc'[c] # "push_insert"
          /\ pc'[c] \notin {"expire_option", "expire_insert"} /\ pc'[c] # "expire_insert"
      BY <2>2
    <3> QED
      BY <3>1, <3>2, <3>3, Zenon DEF Knows
  <2>4. ReaperKnows'
    BY <2>1, Zenon DEF AtomicInv, ReaperKnows, IsExpired, maps
  <2>5. now' \in Nat /\ now' >= now
    BY <1>0, <2>1
  <2> QED
    BY <2>1, <2>3, <2>4, <2>5, MapsUntouched, Zenon
<1>2. ASSUME NEW c \in Clients, Reply(c) PROVE AtomicInv'
  <2>1. /\ pc[c] = "return" /\ pc'[c] = "idle" /\ UNCHANGED <<maps, now, reaper>>
        /\ \A d \in Clients : d # c => pc'[d] = pc[d] /\ cmd'[d] = cmd[d]
    BY <1>0, <1>2 DEF Reply, Goto
  <2>2. ~Busy(c) /\ ~Busy(c)'
    BY <2>1 DEF Busy, DbSteps, SetSteps, ReadSteps, DeleteSteps, PushSteps, ExpireSteps
  <2>3. ReaperKnows'
    BY <2>1 DEF AtomicInv, ReaperKnows, IsExpired, maps
  <2>4. now' \in Nat /\ now' >= now
    BY <1>0, <2>1
  <2> QED
    BY <2>1, <2>2, <2>3, <2>4, MapsUntouched, Zenon
<1>3. CASE Tick \/ UNCHANGED vars
  <2>1. now' \in Nat /\ now' >= now /\ UNCHANGED <<maps, tasks, reaper>>
    BY <1>0, <1>3 DEF Tick, vars
  <2>2. ReaperKnows'
    BY <1>0, <2>1 DEF AtomicInv, ReaperKnows, IsExpired, maps
  <2> QED
    BY <1>0, <2>1, <2>2, MapsUntouched DEF tasks
<1> QED
  BY <1>1, <1>2, <1>3

LEMMA AtomicStep == TypeOK /\ AtomicInv /\ WritersApart /\ [Next]_vars => AtomicInv'
  BY DbStepAtomic, ReaperStepAtomic, TaskStepAtomic DEF Next

\* The server starts from maps in which every deadline belongs to a value, as
\* new_in_memory does.  The files of save_rdb need not be like that: they keep
\* the deadline of a list that they drop because it is empty.
SnapshotsInSync ==
  \A s \in Snapshots, k \in Keys : s.expirations[k] # None => s.data[k] # None

LEMMA AtomicInit == Init /\ SnapshotsInSync => AtomicInv
<1> SUFFICES ASSUME Init, SnapshotsInSync PROVE AtomicInv
  OBVIOUS
<1>1. \A c \in Clients : ~Busy(c)
  BY DEF Init, Busy, DbSteps, SetSteps, ReadSteps, DeleteSteps, PushSteps, ExpireSteps
<1>2. ReaperKnows
  <2>1. now = 0 /\ reaper = Asleep
    BY Zenon DEF Init
  <2>2. reaper.now = 0 /\ reaper.pc = "sleep"
    BY <2>1 DEF Asleep
  <2>3. reaper.now <= now /\ reaper.pc # "data" /\ reaper.pc # "exp"
    BY <2>1, <2>2
  <2> QED
    BY <2>3, Zenon DEF ReaperKnows
<1>3. \A k \in Keys : InSync(k)
  BY DEF Init, SnapshotsInSync, InSync
<1> QED
  BY <1>1, <1>2, <1>3 DEF AtomicInv

LEMMA AtomicInvariant ==
  SnapshotsInSync => (Spec /\ []WritersApart => [](TypeOK /\ AtomicInv))
<1>1. Init /\ SnapshotsInSync => TypeOK /\ AtomicInv
  BY TypeInit, AtomicInit
<1>2. TypeOK /\ AtomicInv /\ WritersApart /\ [Next]_vars => (TypeOK /\ AtomicInv)'
  BY TypeStep, AtomicStep
<1> QED
  BY <1>1, <1>2, PTL DEF Spec

\* set: "Removing the old expiration (if any) before inserting the new value
\* keeps the two maps in sync".  It does, whenever writers keep apart.
THEOREM MapsStayInSync ==
  SnapshotsInSync => (Spec /\ []WritersApart => []MapsInSync)
<1>1. TypeOK /\ AtomicInv => MapsInSync
  <2> SUFFICES ASSUME TypeOK, AtomicInv, NEW k \in Keys, Settled(k), expirations[k] # None,
                      data[k] = None
               PROVE  FALSE
    BY DEF MapsInSync
  <2>1. InSync(k)
    BY DEF AtomicInv
  <2>2. \A c \in Clients : pc[c] \in {"lazy_exp", "delete_exp"} => Busy(c)
    BY DEF Busy, DbSteps, ReadSteps, DeleteSteps
  <2> QED
    BY <2>1, <2>2 DEF InSync, Removing, Settled
<1> QED
  BY <1>1, AtomicInvariant, PTL

\* The value of a key goes only when it is overdue or deleted.
OverdueOrDeleted(k) ==
  data[k] # None /\ data'[k] = None =>
    \/ Overdue(k)
    \/ \E c \in Clients : pc[c] = "delete_data" /\ Key(c) = k

LEMMA RemovalStep ==
  ASSUME TypeOK, AtomicInv, [Next]_vars, NEW k \in Keys
  PROVE  OverdueOrDeleted(k)
<1> SUFFICES ASSUME data[k] # None, data'[k] = None
             PROVE  Overdue(k) \/ \E c \in Clients : pc[c] = "delete_data" /\ Key(c) = k
  BY DEF OverdueOrDeleted
<1>0. data \in [Keys -> RedisObject \cup {None}]
  BY DEF TypeOK
<1>1. ASSUME NEW c \in Clients, DbStep(c)
      PROVE  Overdue(k) \/ \E d \in Clients : pc[d] = "delete_data" /\ Key(d) = k
  <2>1. Busy(c) /\ k = Key(c) /\ Knows(c) /\ cmd[c] \in Command
    BY <1>1, DbStepFrame, BusyType, Zenon DEF AtomicInv, Busy
  <2>2. CASE SetInsert(c)
    <3>1. data'[k] = Str(cmd[c].req.vals[1])
      BY <1>0, <2>1, <2>2, Zenon DEF SetInsert
    <3>2. cmd[c].req.op = "SET"
      BY <2>1, <2>2, StepOp, Zenon DEF SetInsert, SetSteps
    <3> QED
      BY <2>1, <3>1, <3>2, CommandType, ObjectType, NoneAssumption, Zenon
  <2>3. CASE PushInsert(c)
    BY <2>1, <2>3, Zenon DEF PushInsert, Knows
  <2>4. CASE PushGet(c)
    <3>1. /\ data[k].type = "List"
          /\ data'[k] = List(Push(cmd[c].req.op, cmd[c].req.vals, data[k].list))
      BY <1>0, <2>1, <2>4, Zenon DEF PushGet
    <3>2. data[k].list \in Seq(Vals) /\ cmd[c].req.vals \in Seq(Vals)
      BY <1>0, <2>1, <3>1, CommandType DEF RedisObject
    <3> QED
      BY <3>1, <3>2, PushType, ObjectType, NoneAssumption, Zenon
  <2>5. CASE LazyRemoveData(c)
    BY <2>1, <2>5, Zenon DEF LazyRemoveData, Knows, Overdue
  <2>6. CASE DeleteData(c)
    BY <2>1, <2>6, Zenon DEF DeleteData
  <2>7. CASE data' = data
    BY <2>7
  <2> QED
    BY <1>1, <2>2, <2>3, <2>4, <2>5, <2>6, <2>7, Zenon DEF DbStep, SetUnexpire, SetExpire, LazyCheck,
       LazyRemoveExpiration, Read, DeleteExpiration, ExpireFind, ExpireOption, ExpireInsert, maps
<1>2. CASE ReaperStep
  <2>1. CASE CycleRemoveData
    <3>1. reaper.pc = "data" /\ k = reaper.key
      BY <1>0, <2>1 DEF CycleRemoveData
    <3> QED
      BY <3>1 DEF AtomicInv, ReaperKnows, Overdue
  <2>2. CASE data' = data
    BY <2>2
  <2> QED
    BY <1>2, <2>1, <2>2, Zenon DEF ReaperStep, CycleStart, CycleVisit, CycleCheck,
       CycleRemoveExpiration, CycleEnd, maps
<1>3. CASE UNCHANGED data
  BY <1>3
<1> QED
  BY <1>1, <1>2, <1>3, Zenon DEF Next, Begin, Call, Reply, Tick, maps, vars

\* Lazy and active expiration remove no value that is not overdue, and nothing
\* else but DELETE removes one, whenever writers keep apart.
THEOREM OnlyOverduePurged ==
  SnapshotsInSync => (Spec /\ []WritersApart => PurgeOnlyOverdue)
<1>1. TypeOK /\ AtomicInv /\ [Next]_vars => [\A k \in Keys : OverdueOrDeleted(k)]_vars
  BY RemovalStep
<1> QED
  BY <1>1, AtomicInvariant, PTL DEF Spec, PurgeOnlyOverdue, OverdueOrDeleted
=============================================================================
