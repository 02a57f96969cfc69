-------------------------- MODULE DispatcherProofs --------------------------
(***************************************************************************)
(* Proofs about Dispatcher: transactions keep their shape for any number   *)
(* of clients, keys and queued commands, whatever the store does           *)
(* meanwhile.                                                              *)
(***************************************************************************)
EXTENDS Dispatcher, Snapshot, StoreProofs

\* A reply of execute_command is an error or one that EXEC can collect.
LEMMA RespType ==
  ASSUME NEW req, NEW result \in Result
  PROVE  Resp(req, result) \in ItemReply \cup {ErrResp}
<1>1. CASE result \in {Ok, Err, NilStr}
  BY <1>1 DEF Resp, Ok, Err, NilStr, Str, ItemReply, BulkReply, OkResp, ErrResp, Bulk
<1>2. CASE result \in [type : {"String"}, str : Vals]
  BY <1>2 DEF Resp, ItemReply, BulkReply, Bulk
<1>3. CASE result \in [type : {"List"}, list : Seq(Vals)]
  <2> DEFINE items == [i \in DOMAIN result.list |-> Bulk(result.list[i])]
  <2>1. items \in Seq(BulkReply)
    <3>1. DOMAIN result.list = 1 .. Len(result.list) /\ Len(result.list) \in Nat
      BY <1>3
    <3>2. \A i \in 1 .. Len(result.list) : Bulk(result.list[i]) \in BulkReply
      BY <1>3 DEF Bulk, BulkReply
    <3>3. QED
      BY <3>1, <3>2
  <2>2. Resp(req, result) \in {ErrResp, Array(items)}
    BY <1>3 DEF Resp
  <2> HIDE DEF items
  <2>3. QED
    BY <2>1, <2>2 DEF ItemReply, Array
<1>4. QED
  BY <1>1, <1>2, <1>3 DEF Result, RedisObject

\* The command executed next, and the rest, are queueable commands.
LEMMA TodoType ==
  ASSUME NEW todo \in Seq(Queueable), todo # <<>>
  PROVE  /\ Head(todo) \in Queueable
         /\ Tail(todo) \in Seq(Queueable)
         /\ Head(todo).name = "DB" => Head(todo).call \in Command
<1>1. Head(todo) \in Queueable /\ Tail(todo) \in Seq(Queueable)
  BY HeadTailProperties
<1>2. QED
  BY <1>1 DEF Queueable, Local
-----------------------------------------------------------------------------
(* The inductive invariant *)

\* The control state of one client: what it is executing agrees with its
\* transaction and with the DB method it is in.
Control(c) ==
  /\ ~in_transaction[c] => queued_commands[c] = <<>>
  /\ exec[c].mode = "none" => pc[c] = "idle"
  /\ exec[c].mode = "one" => ~in_transaction[c]
  /\ exec[c].mode = "exec" =>
       /\ Len(exec[c].replies) <= Len(queued_commands[c])
       /\ exec[c].todo = SubSeq(queued_commands[c], Len(exec[c].replies) + 1,
                                Len(queued_commands[c]))
       /\ pc[c] # "idle" => exec[c].todo # <<>> /\ Head(exec[c].todo).name = "DB"

DInv == TypeOK /\ DTypeOK /\ \A c \in Clients : Control(c)

LEMMA DInvInit == DInit => DInv
<1> SUFFICES ASSUME DInit PROVE DInv
  OBVIOUS
<1>1. TypeOK
  BY TypeInit DEF DInit
<1>2. DTypeOK
  BY DEF DInit, DTypeOK, NotRunning, Execution
<1>3. \A c \in Clients : Control(c)
  BY DEF DInit, Init, Control, NotRunning
<1>4. QED
  BY <1>1, <1>2, <1>3 DEF DInv

\* The store keeps its types under the steps of the dispatcher.
LEMMA DStoreTypes ==
  ASSUME DInv, [DNext]_allVars
  PROVE  TypeOK'
<1>0. TypeOK /\ DTypeOK
  BY DEF DInv
<1>1. CASE UNCHANGED vars
  BY <1>0, <1>1, TypeStep
<1>2. ASSUME NEW c \in Clients, Reply(c)
      PROVE  TypeOK'
  BY <1>0, <1>2, TaskStepType
<1>3. ASSUME NEW c \in Clients, NEW m \in Command, Call(c, m)
      PROVE  TypeOK'
  BY <1>0, <1>3, TaskStepType
<1>4. ASSUME NEW c \in Clients, Dispatch(c)
      PROVE  TypeOK'
  <2>1. \A req \in Requests : DbCommand(req, now).call \in Command
    BY <1>0 DEF DbCommand, Command, TypeOK
  <2>2. QED
    BY <1>1, <1>3, <1>4, <2>1 DEF Dispatch, Queue, ExecuteDb, NestedMulti, Multi, Discard,
       ExecuteLocal, Exec
<1>5. ASSUME NEW c \in Clients, ExecStep(c)
      PROVE  TypeOK'
  <2>1. CASE ExecDb(c)
    <3>1. Head(exec[c].todo).call \in Command
      BY <1>0, <2>1, TodoType DEF ExecDb, DTypeOK, Execution
    <3>2. QED
      BY <1>3, <2>1, <3>1 DEF ExecDb
  <2>2. CASE ExecLocal(c) \/ ExecDone(c)
    BY <1>1, <2>2 DEF ExecLocal, ExecDone
  <2>3. CASE ExecuteDbDone(c) \/ ExecDbDone(c) \/ ExecFail(c)
    BY <1>2, <2>3 DEF ExecuteDbDone, ExecDbDone, ExecFail
  <2>4. QED
    BY <1>5, <2>1, <2>2, <2>3 DEF ExecStep
<1>6. ASSUME NEW c \in Clients, Send(c)
      PROVE  TypeOK'
  BY <1>1, <1>6 DEF Send
<1>7. CASE StoreStep
  BY <1>0, <1>7, TypeStep DEF StoreStep, Next
<1>8. QED
  BY <1>1, <1>4, <1>5, <1>6, <1>7 DEF DNext, allVars
\* The fields of the client state that a step of client c may change are its own.
OnlyClient(c) ==
  /\ in_transaction' = [in_transaction EXCEPT ![c] = in_transaction'[c]]
  /\ queued_commands' = [queued_commands EXCEPT ![c] = queued_commands'[c]]
  /\ exec' = [exec EXCEPT ![c] = exec'[c]]
  /\ response' = [response EXCEPT ![c] = response'[c]]
  /\ pc' = [pc EXCEPT ![c] = pc'[c]]

ClientTypes(c) ==
  /\ in_transaction[c] \in BOOLEAN
  /\ queued_commands[c] \in Seq(Queueable)
  /\ exec[c] \in Execution
  /\ response[c] \in Response \cup {None}

\* So it suffices to look at that client.
LEMMA OneClient ==
  ASSUME DInv, NEW c \in Clients, OnlyClient(c), ClientTypes(c)', Control(c)'
  PROVE  DTypeOK' /\ \A d \in Clients : Control(d)'
<1>0. /\ DTypeOK /\ pc \in [Clients -> DbSteps \cup {"idle", "return"}]
      /\ \A d \in Clients : Control(d)
  BY DEF DInv, TypeOK
<1>1. DTypeOK'
  BY <1>0 DEF DTypeOK, OnlyClient, ClientTypes
<1>2. ASSUME NEW d \in Clients, d # c
      PROVE  Control(d)'
  <2>1. /\ in_transaction'[d] = in_transaction[d]
        /\ queued_commands'[d] = queued_commands[d]
        /\ exec'[d] = exec[d]
        /\ pc'[d] = pc[d]
    BY <1>0, <1>2 DEF DTypeOK, OnlyClient
  <2>2. Control(d)
    BY <1>0
  <2>3. QED
    BY <2>1, <2>2 DEF Control
<1>3. QED
  BY <1>1, <1>2

LEMMA ClientFrame ==
  ASSUME DInv, NEW c \in Clients, Dispatch(c) \/ ExecStep(c) \/ Send(c)
  PROVE  OnlyClient(c)
<1>0. /\ in_transaction \in [Clients -> BOOLEAN]
      /\ queued_commands \in [Clients -> Seq(Queueable)]
      /\ exec \in [Clients -> Execution]
      /\ response \in [Clients -> Response \cup {None}]
      /\ pc \in [Clients -> DbSteps \cup {"idle", "return"}]
  BY DEF DInv, DTypeOK, TypeOK
<1> USE DEF Dispatch, Queue, ExecuteDb, NestedMulti, Multi, Discard, ExecuteLocal, Exec,
        ExecStep, ExecuteDbDone, ExecLocal, ExecDb, ExecDbDone, ExecFail, ExecDone, Send,
        Respond, ExecReply, clientVars, dispatchVars
<1>1. UNCHANGED in_transaction \/ \E x : in_transaction' = [in_transaction EXCEPT ![c] = x]
  OBVIOUS
<1>2. UNCHANGED queued_commands \/ \E x : queued_commands' = [queued_commands EXCEPT ![c] = x]
  OBVIOUS
<1>3. UNCHANGED exec \/ \E x : exec' = [exec EXCEPT ![c] = x]
  OBVIOUS
<1>4. UNCHANGED response \/ \E x : response' = [response EXCEPT ![c] = x]
  OBVIOUS
<1>5. UNCHANGED pc \/ \E x : pc' = [pc EXCEPT ![c] = x]
  BY DEF Call, Reply, Goto, vars, tasks
<1>6. QED
  BY <1>0, <1>1, <1>2, <1>3, <1>4, <1>5 DEF OnlyClient
\* A collected reply shortens what is left to do by one and keeps the order.
LEMMA ExecReplyStep ==
  ASSUME DInv, NEW c \in Clients, NEW r \in ItemReply,
         exec[c].mode = "exec", exec[c].todo # <<>>,
         ExecReply(c, r), pc'[c] = "idle", UNCHANGED <<clientVars, response>>
  PROVE  ClientTypes(c)' /\ Control(c)'
<1> DEFINE q == queued_commands[c]
           n == Len(exec[c].replies)
<1>0. /\ in_transaction[c] \in BOOLEAN
      /\ q \in Seq(Queueable)
      /\ exec[c] \in Execution
      /\ response[c] \in Response \cup {None}
      /\ exec \in [Clients -> Execution]
      /\ Control(c)
  BY DEF DInv, DTypeOK
<1>1. /\ n \in Nat /\ Len(q) \in Nat /\ n <= Len(q)
      /\ exec[c].todo = SubSeq(q, n + 1, Len(q))
      /\ exec[c].todo \in Seq(Queueable) /\ exec[c].replies \in Seq(ItemReply)
  BY <1>0 DEF Control, Execution
<1> HIDE DEF q, n
<1>2. n + 1 <= Len(q)
  <2> SUFFICES ASSUME Len(q) < n + 1 PROVE FALSE
    BY <1>1
  <2>1. n + 1 \in Int /\ Len(q) \in Int
    BY <1>1
  <2>2. SubSeq(q, n + 1, Len(q)) = <<>>
    BY <2>1, SubSeqEmpty, Zenon
  <2>3. QED
    BY <1>1, <2>2
<1>3. Tail(exec[c].todo) = SubSeq(q, n + 2, Len(q))
  <2>1. n + 1 \in 1 .. Len(q) /\ Len(q) \in n + 1 .. Len(q)
    BY <1>1, <1>2
  <2>2. Tail(SubSeq(q, n + 1, Len(q))) = SubSeq(q, (n + 1) + 1, Len(q))
    BY <1>0, <2>1, HeadTailOfSubSeq
  <2>3. (n + 1) + 1 = n + 2
    BY <1>1
  <2>4. QED
    BY <1>1, <2>2, <2>3, Zenon
<1>4. Tail(exec[c].todo) \in Seq(Queueable)
  BY <1>1, TodoType
<1>5. /\ exec'[c].mode = "exec"
      /\ exec'[c].todo = Tail(exec[c].todo)
      /\ exec'[c].replies = Append(exec[c].replies, r)
      /\ exec'[c] \in Execution
  <2>1. exec'[c] = [exec[c] EXCEPT !.todo = Tail(exec[c].todo),
                                   !.replies = Append(exec[c].replies, r)]
    BY <1>0 DEF ExecReply
  <2>2. Append(exec[c].replies, r) \in Seq(ItemReply)
    BY <1>1
  <2>3. QED
    BY <1>0, <1>4, <2>1, <2>2 DEF Execution
<1>6. Len(exec'[c].replies) = n + 1
  BY <1>1, <1>5 DEF n
<1>7. queued_commands'[c] = q /\ in_transaction'[c] = in_transaction[c]
  BY DEF clientVars, q
<1>8. exec'[c].todo = SubSeq(q, Len(exec'[c].replies) + 1, Len(q))
  <2>1. Len(exec'[c].replies) + 1 = n + 2
    BY <1>1, <1>6
  <2>2. QED
    BY <1>3, <1>5, <2>1, Zenon
<1>9. Control(c)'
  <2>1. Len(exec'[c].replies) <= Len(queued_commands'[c])
    BY <1>1, <1>2, <1>6, <1>7
  <2>2. ~in_transaction[c] => q = <<>>
    BY <1>0, Zenon DEF Control, q
  <2>3. exec'[c].mode # "none" /\ exec'[c].mode # "one"
    BY <1>5
  <2>4. QED
    BY <1>5, <1>7, <1>8, <2>1, <2>2, <2>3, Zenon DEF Control
<1>10. QED
  BY <1>0, <1>5, <1>7, <1>9 DEF ClientTypes

LEMMA ClientStep ==
  ASSUME DInv, NEW c \in Clients, Dispatch(c) \/ ExecStep(c) \/ Send(c)
  PROVE  ClientTypes(c)' /\ Control(c)'
<1>0. /\ in_transaction \in [Clients -> BOOLEAN]
      /\ queued_commands \in [Clients -> Seq(Queueable)]
      /\ exec \in [Clients -> Execution]
      /\ response \in [Clients -> Response \cup {None}]
      /\ pc \in [Clients -> DbSteps \cup {"idle", "return"}]
      /\ reply \in [Clients -> Result \cup {None}]
      /\ now \in Nat
      /\ Control(c)
  BY DEF DInv, DTypeOK, TypeOK
<1>a. NotRunning \in Execution /\ NotRunning.mode = "none"
  BY DEF NotRunning, Execution
<1>b. OkResp \in ItemReply /\ OkResp \in Response /\ ErrResp \in Response /\ Queued \in Response
      /\ ItemReply \subseteq Response
  BY DEF Response, ItemReply
<1>c. pc[c] = "return" => reply[c] \in Result
  BY DEF DInv, TypeOK
<1>d. \A q \in Seq(Queueable) : SubSeq(q, 1, Len(q)) = q
  BY SubSeqFull
<1>e. <<>> \in Seq(Queueable) /\ FALSE \in BOOLEAN /\ "none" # "one" /\ "none" # "exec"
  OBVIOUS
<1>1. ASSUME NEW command \in Queueable, Queue(c, command)
      PROVE  ClientTypes(c)' /\ Control(c)'
  <2>1. Append(queued_commands[c], command) \in Seq(Queueable)
    BY <1>0, <1>1
  <2>2. QED
    BY <1>0, <1>1, <1>a, <1>b, <2>1 DEF Queue, Respond, Ready, Control, ClientTypes, vars, tasks
<1>2. ASSUME NEW name \in Local \cup Transactional, Queue(c, Plain(name))
      PROVE  Plain(name) \in Queueable
  BY <1>2 DEF Queue, Plain, Queueable
<1>3. ASSUME NEW req \in Requests, Queue(c, DbCommand(req, now))
      PROVE  DbCommand(req, now) \in Queueable
  BY <1>0, <1>3 DEF DbCommand, Queueable, Command
<1>4. CASE NestedMulti(c)
  BY <1>0, <1>4, <1>a, <1>b DEF NestedMulti, Respond, Ready, Control, ClientTypes, vars,
     tasks, clientVars
<1>5. CASE Multi(c)
  BY <1>0, <1>5, <1>a, <1>b DEF Multi, Respond, Ready, Control, ClientTypes, vars, tasks
<1>6. CASE Discard(c)
  <2>1. /\ in_transaction'[c] = FALSE /\ queued_commands'[c] = <<>>
        /\ exec'[c] = NotRunning /\ response'[c] = OkResp /\ pc'[c] = "idle"
    BY <1>0, <1>6 DEF Discard, Respond, Ready, Control, vars, tasks
  <2>2. QED
    BY <1>a, <1>b, <1>e, <2>1, Zenon DEF Control, ClientTypes
<1>7. CASE ExecuteLocal(c)
  BY <1>0, <1>7, <1>a, <1>b DEF ExecuteLocal, Respond, Ready, Control, ClientTypes, vars,
     tasks, clientVars
<1>8. ASSUME NEW call, ExecuteDb(c, call)
      PROVE  ClientTypes(c)' /\ Control(c)'
  <2>1. exec'[c].mode = "one" /\ exec'[c] \in Execution
    BY <1>0, <1>8 DEF ExecuteDb, Execution
  <2>2. QED
    BY <1>0, <1>8, <2>1 DEF ExecuteDb, Control, ClientTypes, clientVars
<1>9. CASE Exec(c)
  <2>1. exec'[c] = [mode |-> "exec", todo |-> queued_commands[c], replies |-> <<>>]
    BY <1>0, <1>9 DEF Exec
  <2>2. exec'[c] \in Execution /\ pc'[c] = "idle" /\ UNCHANGED <<clientVars, response>>
    BY <1>0, <1>9, <2>1 DEF Exec, Execution, Ready, Control, vars, tasks
  <2>3. /\ exec'[c].mode = "exec" /\ exec'[c].todo = queued_commands[c]
        /\ exec'[c].replies = <<>>
    BY <2>1
  <2>4. /\ Len(<<>>) = 0 /\ Len(queued_commands[c]) \in Nat
        /\ SubSeq(queued_commands[c], Len(<<>>) + 1, Len(queued_commands[c])) = queued_commands[c]
    BY <1>0, <1>d
  <2>5. /\ Len(exec'[c].replies) <= Len(queued_commands[c])
        /\ exec'[c].todo = SubSeq(queued_commands[c], Len(exec'[c].replies) + 1,
                                  Len(queued_commands[c]))
    BY <2>3, <2>4
  <2>6. /\ in_transaction'[c] = in_transaction[c] /\ queued_commands'[c] = queued_commands[c]
        /\ "exec" # "none" /\ "exec" # "one"
    BY <2>2 DEF clientVars
  <2>7. Control(c)'
    BY <1>0, <2>2, <2>3, <2>5, <2>6, Zenon DEF Control
  <2> QED
    BY <1>0, <2>2, <2>7 DEF ClientTypes, clientVars
<1>10. CASE ExecuteDbDone(c)
  <2>1. Resp(cmd[c].req, reply[c]) \in Response
    BY <1>10, <1>b, <1>c, RespType DEF ExecuteDbDone, Reply
  <2>2. pc'[c] = "idle"
    BY <1>0, <1>10 DEF ExecuteDbDone, Reply, Goto
  <2>3. QED
    BY <1>0, <1>10, <1>a, <2>1, <2>2 DEF ExecuteDbDone, Respond, Control, ClientTypes,
       clientVars
<1>11. CASE ExecLocal(c)
  <2>1. pc[c] = "idle"
    BY <1>0, <1>11 DEF ExecLocal, Control, Local
  <2>2. QED
    BY <1>11, <1>b, <2>1, ExecReplyStep DEF ExecLocal, vars, tasks
<1>12. CASE ExecDb(c)
  BY <1>0, <1>12 DEF ExecDb, Control, ClientTypes, dispatchVars, clientVars
<1>13. CASE ExecDbDone(c)
  <2>1. Resp(cmd[c].req, reply[c]) \in ItemReply /\ pc[c] = "return"
    BY <1>13, <1>c, RespType DEF ExecDbDone, Reply
  <2>2. pc'[c] = "idle" /\ exec[c].todo # <<>>
    BY <1>0, <1>13, <2>1 DEF ExecDbDone, Reply, Goto, Control
  <2>3. QED
    BY <1>13, <2>1, <2>2, ExecReplyStep DEF ExecDbDone
<1>14. CASE ExecFail(c)
  <2>1. pc'[c] = "idle"
    BY <1>0, <1>14 DEF ExecFail, Reply, Goto
  <2>2. QED
    BY <1>0, <1>14, <1>a, <1>b, <2>1 DEF ExecFail, Respond, Control, ClientTypes, clientVars
<1>15. CASE ExecDone(c)
  <2>1. Array(exec[c].replies) \in Response
    BY <1>0 DEF Array, Response, Execution
  <2>2. pc'[c] = "idle"
    BY <1>0, <1>15 DEF ExecDone, Control, vars, tasks
  <2>3. QED
    <3>1. /\ in_transaction'[c] = FALSE /\ queued_commands'[c] = <<>>
          /\ exec'[c] = NotRunning /\ response'[c] = Array(exec[c].replies)
      BY <1>0, <1>15 DEF ExecDone, Respond
    <3>2. QED
      BY <1>a, <1>e, <2>1, <2>2, <3>1, Zenon DEF Control, ClientTypes
<1>16. CASE Send(c)
  BY <1>0, <1>16 DEF Send, Control, ClientTypes, clientVars, vars, tasks
<1>17. QED
  BY <1>1, <1>2, <1>3, <1>4, <1>5, <1>6, <1>7, <1>8, <1>9, <1>10, <1>11, <1>12, <1>13,
     <1>14, <1>15, <1>16 DEF Dispatch, ExecStep
\* A step of the store that is not the dispatcher's leaves the clients' control
\* state alone: a task inside a DB method stays out of "idle".
LEMMA StoreStepControl ==
  ASSUME DInv, StoreStep, UNCHANGED dispatchVars
  PROVE  DTypeOK' /\ \A d \in Clients : Control(d)'
<1>0. /\ DTypeOK /\ TypeOK /\ \A d \in Clients : Control(d)
      /\ pc \in [Clients -> DbSteps \cup {"idle", "return"}]
  BY DEF DInv, TypeOK
<1>1. DTypeOK'
  BY <1>0 DEF DTypeOK, dispatchVars, clientVars
<1>2. \A d \in Clients : pc'[d] = "idle" <=> pc[d] = "idle"
  <2>1. CASE ReaperStep \/ Tick
    BY <2>1, ZenonT(30) DEF ReaperStep, Tick, CycleStart, CycleVisit, CycleCheck, CycleRemoveData,
       CycleRemoveExpiration, CycleEnd, tasks
  <2>2. ASSUME NEW c \in Clients, DbStep(c)
        PROVE  \A d \in Clients : pc'[d] = "idle" <=> pc[d] = "idle"
    BY <1>0, <2>2 DEF DbStep, SetUnexpire, SetInsert, SetExpire, LazyCheck, LazyRemoveData,
       LazyRemoveExpiration, Read, DeleteData, DeleteExpiration, PushGet, PushInsert,
       ExpireFind, ExpireOption, ExpireInsert, Goto, Return
  <2>3. QED
    BY <2>1, <2>2 DEF StoreStep
<1>3. ASSUME NEW d \in Clients
      PROVE  Control(d)'
  BY <1>0, <1>2, Zenon DEF Control, dispatchVars, clientVars
<1>4. QED
  BY <1>1, <1>3

LEMMA DInvStep == DInv /\ [DNext]_allVars => DInv'
<1> SUFFICES ASSUME DInv, [DNext]_allVars PROVE DInv'
  OBVIOUS
<1>1. TypeOK'
  BY DStoreTypes
<1>2. DTypeOK' /\ \A d \in Clients : Control(d)'
  <2>1. CASE UNCHANGED allVars
    <3>1. UNCHANGED <<in_transaction, queued_commands, exec, response, pc>>
      BY <2>1 DEF allVars, vars, tasks, dispatchVars, clientVars
    <3>2. QED
      BY <3>1, Zenon DEF DInv, DTypeOK, Control
  <2>2. ASSUME NEW c \in Clients, Dispatch(c) \/ ExecStep(c) \/ Send(c)
        PROVE  DTypeOK' /\ \A d \in Clients : Control(d)'
    BY <2>2, ClientFrame, ClientStep, OneClient
  <2>3. CASE StoreStep /\ UNCHANGED dispatchVars
    BY <2>3, StoreStepControl
  <2>4. QED
    BY <2>1, <2>2, <2>3 DEF DNext
<1>3. QED
  BY <1>1, <1>2 DEF DInv

LEMMA DInvariant == DSpec => []DInv
<1>1. QED
  BY DInvInit, DInvStep, PTL DEF DSpec
-----------------------------------------------------------------------------
(* What follows from it *)

\* The store stays well formed under the dispatcher too, where a command can be
\* executed long after it was parsed.
THEOREM StoreTypesUnderDispatch == DSpec => []TypeOK
<1>1. DInv => TypeOK
  BY DEF DInv
<1>2. QED
  BY <1>1, DInvariant, PTL

\* No MULTI, EXEC or DISCARD is ever queued, and replies are well formed.
THEOREM DispatchTypes == DSpec => []DTypeOK
<1>1. DInv => DTypeOK
  BY DEF DInv
<1>2. QED
  BY <1>1, DInvariant, PTL

\* A client that is not in a transaction has nothing queued.
THEOREM QueueIsTransactional == DSpec => []QueueOnlyInTransaction
<1>1. DInv => QueueOnlyInTransaction
  BY DEF DInv, Control, QueueOnlyInTransaction
<1>2. QED
  BY <1>1, DInvariant, PTL

\* No command sent inside a transaction reaches a DB method before EXEC.
THEOREM QueuedCommandsWait == DSpec => []QueuedHasNoEffect
<1>1. DInv => QueuedHasNoEffect
  <2> SUFFICES ASSUME DInv, NEW c \in Clients, in_transaction[c], exec[c].mode # "exec"
               PROVE  pc[c] = "idle"
    BY DEF QueuedHasNoEffect
  <2>1. Control(c) /\ exec[c].mode \in {"none", "one", "exec"}
    BY DEF DInv, DTypeOK, Execution
  <2>2. QED
    BY <2>1 DEF Control
<1>2. QED
  BY <1>1, DInvariant, PTL

\* EXEC executes exactly the queued commands, in order, whatever other clients
\* and active expiration do between them.
THEOREM ExecRunsTheQueue == DSpec => []ExecInOrder
<1>1. DInv => ExecInOrder
  BY Zenon DEF DInv, Control, ExecInOrder
<1>2. QED
  BY <1>1, DInvariant, PTL
-----------------------------------------------------------------------------
(* How a transaction ends *)

\* What TransactionEnds says of one client.
EndsProperly(c) ==
  in_transaction[c] =>
    \/ in_transaction'[c] /\ IsPrefix(queued_commands[c], queued_commands'[c])
    \/ ~in_transaction'[c] /\ exec[c].mode = "none"
    \/ ~in_transaction'[c] /\ Len(response'[c].items) = Len(queued_commands[c])

\* A queue is a prefix of itself and of what Append makes of it.
LEMMA QueuePrefix ==
  ASSUME NEW q \in Seq(Queueable), NEW command
  PROVE  IsPrefix(q, q) /\ IsPrefix(q, Append(q, command))
<1>1. Len(q) \in Nat /\ DOMAIN q = 1 .. Len(q) /\ Len(Append(q, command)) = Len(q) + 1
  OBVIOUS
<1>2. \A i \in 1 .. Len(q) : Append(q, command)[i] = q[i]
  OBVIOUS
<1>3. SubSeq(Append(q, command), 1, Len(q)) = SubSeq(q, 1, Len(q))
  BY <1>1, <1>2
<1> QED
  BY <1>1, <1>3 DEF IsPrefix

\* If nothing of a queue is left behind m, it has m commands at most.
LEMMA NothingLeft ==
  ASSUME NEW q \in Seq(Queueable), NEW m \in Nat, SubSeq(q, m + 1, Len(q)) = <<>>,
         m <= Len(q)
  PROVE  m = Len(q)
<1>1. Len(q) \in Nat
  OBVIOUS
<1>2. SUFFICES ASSUME m + 1 <= Len(q) PROVE FALSE
  BY <1>1
<1> DEFINE rest == Len(SubSeq(q, m + 1, Len(q)))
<1>3. rest = Len(q) - m
  BY <1>1, <1>2
<1>4. Len(<<>>) = 0
  OBVIOUS
<1>5. rest = 0
  BY <1>4, Zenon
<1> HIDE DEF rest
<1> QED
  BY <1>1, <1>2, <1>3, <1>5

\* A step that changes neither the flag nor the queue ends nothing.
LEMMA SameTransaction ==
  ASSUME DInv, NEW c \in Clients, in_transaction'[c] = in_transaction[c],
         queued_commands'[c] = queued_commands[c]
  PROVE  EndsProperly(c)
<1>1. queued_commands[c] \in Seq(Queueable)
  BY DEF DInv, DTypeOK
<1> QED
  BY <1>1, QueuePrefix DEF EndsProperly

LEMMA ClientEnds ==
  ASSUME DInv, NEW c \in Clients, Dispatch(c) \/ ExecStep(c) \/ Send(c)
  PROVE  EndsProperly(c)
<1>0. /\ in_transaction \in [Clients -> BOOLEAN]
      /\ queued_commands \in [Clients -> Seq(Queueable)]
      /\ exec \in [Clients -> Execution]
      /\ response \in [Clients -> Response \cup {None}]
      /\ Control(c)
  BY DEF DInv, DTypeOK
<1>1. ASSUME NEW command, Queue(c, command) PROVE EndsProperly(c)
  <2>1. in_transaction'[c] = in_transaction[c]
        /\ queued_commands'[c] = Append(queued_commands[c], command)
    BY <1>0, <1>1 DEF Queue
  <2> QED
    BY <1>0, <2>1, QueuePrefix DEF EndsProperly
<1>2. CASE Multi(c)
  BY <1>0, <1>2 DEF Multi, EndsProperly
<1>3. CASE Discard(c)
  BY <1>0, <1>3 DEF Discard, Ready, EndsProperly
<1>4. CASE ExecDone(c)
  <2>1. /\ in_transaction'[c] = FALSE
        /\ response'[c] = Array(exec[c].replies)
    BY <1>0, <1>4 DEF ExecDone, Respond
  <2>2. response'[c].items = exec[c].replies
    BY <2>1 DEF Array
  <2>3. exec[c].mode = "exec" /\ exec[c].todo = <<>>
    BY <1>4 DEF ExecDone
  <2>4. /\ Len(exec[c].replies) <= Len(queued_commands[c])
        /\ SubSeq(queued_commands[c], Len(exec[c].replies) + 1, Len(queued_commands[c])) = <<>>
    BY <1>0, <2>3, Zenon DEF Control
  <2>5. queued_commands[c] \in Seq(Queueable) /\ exec[c].replies \in Seq(ItemReply)
    BY <1>0 DEF Execution
  <2>6. Len(exec[c].replies) \in Nat
    BY <2>5
  <2>7. Len(exec[c].replies) = Len(queued_commands[c])
    BY <2>4, <2>5, <2>6, NothingLeft, Zenon
  <2> QED
    BY <2>1, <2>2, <2>7 DEF EndsProperly
<1>5. ASSUME UNCHANGED clientVars PROVE EndsProperly(c)
  BY <1>5, SameTransaction DEF clientVars
<1>6. \/ \E command : Queue(c, command)
      \/ Multi(c) \/ Discard(c) \/ ExecDone(c) \/ UNCHANGED clientVars
  BY DEF Dispatch, ExecStep, NestedMulti, ExecuteLocal, ExecuteDb, Exec, ExecuteDbDone,
     ExecLocal, ExecDb, ExecDbDone, ExecFail, Send, dispatchVars, clientVars
<1> QED
  BY <1>1, <1>2, <1>3, <1>4, <1>5, <1>6

\* A transaction ends only by DISCARD or by an EXEC that has an answer for every
\* queued command; until then its queue only grows, through failed EXECs too.
THEOREM TransactionsEndProperly == DSpec => TransactionEnds
<1>1. ASSUME DInv, [DNext]_allVars, NEW d \in Clients PROVE EndsProperly(d)
  <2>1. ASSUME UNCHANGED clientVars PROVE EndsProperly(d)
    BY <1>1, <2>1, SameTransaction DEF clientVars
  <2>2. ASSUME NEW c \in Clients, Dispatch(c) \/ ExecStep(c) \/ Send(c)
        PROVE  EndsProperly(d)
    <3>1. CASE d = c
      BY <1>1, <2>2, <3>1, ClientEnds
    <3>2. CASE d # c
      <4>1. in_transaction'[d] = in_transaction[d] /\ queued_commands'[d] = queued_commands[d]
        BY <1>1, <2>2, <3>2, ClientFrame DEF OnlyClient, DInv, DTypeOK
      <4> QED
        BY <1>1, <4>1, SameTransaction
    <3> QED
      BY <3>1, <3>2
  <2> QED
    BY <1>1, <2>1, <2>2 DEF DNext, allVars, dispatchVars, clientVars
<1>2. DInv /\ [DNext]_allVars => [\A c \in Clients : EndsProperly(c)]_allVars
  BY <1>1
<1>3. [\A c \in Clients : EndsProperly(c)]_allVars
      => [\A c \in Clients : in_transaction[c] =>
            \/ in_transaction'[c] /\ IsPrefix(queued_commands[c], queued_commands'[c])
            \/ ~in_transaction'[c] /\ exec[c].mode = "none"
            \/ ~in_transaction'[c] /\ Len(response'[c].items) = Len(queued_commands[c])]_allVars
  BY DEF EndsProperly
<1> QED
  BY <1>2, <1>3, DInvariant, PTL DEF DSpec, TransactionEnds
-----------------------------------------------------------------------------
\* The save: what its copy is worth although PointInTime does not hold.

Pairs == [data : [Keys -> RedisObject \cup {None}], expirations : [Keys -> Nat \cup {None}]]

DataFrom(k)        == \E s \in during : copy.data[k] = s.data[k]
ExpirationsFrom(k) == \E s \in during : copy.expirations[k] = s.expirations[k]

(***************************************************************************)
(* The contents of the maps are always among those that a running save has *)
(* seen, so an entry that is copied now is from one of them, and the set   *)
(* only grows while the save goes on.                                      *)
(***************************************************************************)
CopyInv ==
  /\ TypeOK
  /\ saver \in {"idle", "data", "expirations"}
  /\ unread \subseteq Keys
  /\ copy \in Pairs /\ during \subseteq Pairs
  /\ saver # "idle" => Contents \in during
  /\ saver = "data" => \A k \in Keys \ unread : DataFrom(k)
  /\ saver = "expirations" =>
       /\ \A k \in Keys : DataFrom(k)
       /\ \A k \in Keys \ unread : ExpirationsFrom(k)

LEMMA ContentsType == TypeOK => Contents \in Pairs
  BY DEF TypeOK, Contents, Pairs

LEMMA NoCopyType == NoCopy \in Pairs
  BY DEF NoCopy, Pairs

LEMMA CopyInit == SInit => CopyInv
  BY TypeInit, NoCopyType DEF SInit, CopyInv

LEMMA CopyStep == CopyInv /\ [SNext]_<<vars, svars>> => CopyInv'
<1> SUFFICES ASSUME CopyInv, [SNext]_<<vars, svars>> PROVE CopyInv'
  OBVIOUS
<1>0. Contents \in Pairs
  BY ContentsType DEF CopyInv
<1>a. ASSUME UNCHANGED vars PROVE TypeOK' /\ Contents' = Contents
  <2>1. TypeOK'
    BY <1>a, TypeStep DEF CopyInv
  <2>2. data' = data /\ expirations' = expirations
    BY <1>a DEF vars, maps
  <2> QED
    BY <2>1, <2>2 DEF Contents
<1>1. CASE SaveStart
  <2>1. UNCHANGED vars /\ saver' = "data" /\ unread' = Keys /\ copy' = NoCopy
        /\ during' = {Contents}
    BY <1>1 DEF SaveStart
  <2>2. TypeOK' /\ Contents' = Contents
    BY <1>a, <2>1
  <2> QED
    BY <1>0, <2>1, <2>2, NoCopyType DEF CopyInv
<1>2. ASSUME NEW k \in Keys, SaveData(k) PROVE CopyInv'
  <2>1. /\ UNCHANGED vars /\ saver = "data" /\ saver' = saver /\ during' = during
        /\ unread' = unread \ {k} /\ copy' = [copy EXCEPT !.data[k] = data[k]]
    BY <1>2 DEF SaveData
  <2>2. TypeOK' /\ Contents' = Contents
    BY <1>a, <2>1
  <2>3. data[k] = Contents.data[k] /\ data[k] \in RedisObject \cup {None}
    BY DEF Contents, CopyInv, TypeOK
  <2>4. /\ copy' \in Pairs /\ copy'.data[k] = data[k]
        /\ \A j \in Keys \ {k} : copy'.data[j] = copy.data[j]
    BY <2>1, <2>3 DEF CopyInv, Pairs
  <2>5. \A j \in Keys \ unread' : DataFrom(j)'
    BY <2>1, <2>3, <2>4 DEF CopyInv, DataFrom
  <2> QED
    BY <2>1, <2>2, <2>4, <2>5 DEF CopyInv
<1>3. CASE SaveExpirations
  <2>1. /\ UNCHANGED vars /\ saver = "data" /\ saver' = "expirations" /\ during' = during
        /\ unread = {} /\ unread' = Keys /\ copy' = copy
    BY <1>3 DEF SaveExpirations
  <2>2. TypeOK' /\ Contents' = Contents
    BY <1>a, <2>1
  <2>3. \A j \in Keys : DataFrom(j)'
    BY <2>1 DEF CopyInv, DataFrom
  <2> QED
    BY <2>1, <2>2, <2>3 DEF CopyInv
<1>4. ASSUME NEW k \in Keys, SaveExpiration(k) PROVE CopyInv'
  <2>1. /\ UNCHANGED vars /\ saver = "expirations" /\ saver' = saver /\ during' = during
        /\ unread' = unread \ {k}
        /\ copy' = [copy EXCEPT !.expirations[k] = expirations[k]]
    BY <1>4 DEF SaveExpiration
  <2>2. TypeOK' /\ Contents' = Contents
    BY <1>a, <2>1
  <2>3. expirations[k] = Contents.expirations[k] /\ expirations[k] \in Nat \cup {None}
    BY DEF Contents, CopyInv, TypeOK
  <2>4. /\ copy' \in Pairs /\ copy'.expirations[k] = expirations[k]
        /\ copy'.data = copy.data
        /\ \A j \in Keys \ {k} : copy'.expirations[j] = copy.expirations[j]
    BY <2>1, <2>3 DEF CopyInv, Pairs
  <2>5. \A j \in Keys \ unread' : ExpirationsFrom(j)'
    BY <2>1, <2>3, <2>4 DEF CopyInv, ExpirationsFrom
  <2>6. \A j \in Keys : DataFrom(j)'
    BY <2>1, <2>4 DEF CopyInv, DataFrom
  <2> QED
    BY <2>1, <2>2, <2>4, <2>5, <2>6 DEF CopyInv
<1>5. CASE SaveSpawn
  <2>1. UNCHANGED vars /\ saver' = "idle" /\ unread' = unread /\ copy' = NoCopy
        /\ during' = {}
    BY <1>5 DEF SaveSpawn
  <2>2. TypeOK'
    BY <1>a, <2>1
  <2> QED
    BY <2>1, <2>2, NoCopyType DEF CopyInv
<1>6. CASE StoreNext
  <2>1. Next /\ UNCHANGED <<saver, unread, copy>>
    BY <1>6 DEF StoreNext
  <2>2. TypeOK' /\ Contents' \in Pairs
    <3>1. TypeOK'
      BY <2>1, TypeStep DEF CopyInv
    <3>2. Contents' \in Pairs
      BY <3>1 DEF TypeOK, Contents, Pairs
    <3> QED
      BY <3>1, <3>2
  <2>3. during' \subseteq Pairs /\ during \subseteq during'
        /\ (saver # "idle" => Contents' \in during')
    BY <1>6, <2>2 DEF StoreNext, CopyInv
  <2>4. \A k \in Keys : DataFrom(k) => DataFrom(k)'
    BY <2>1, <2>3 DEF DataFrom
  <2>5. \A k \in Keys : ExpirationsFrom(k) => ExpirationsFrom(k)'
    BY <2>1, <2>3 DEF ExpirationsFrom
  <2> QED
    BY <2>1, <2>2, <2>3, <2>4, <2>5 DEF CopyInv
<1>7. CASE UNCHANGED <<vars, svars>>
  <2>1. UNCHANGED vars /\ UNCHANGED <<saver, unread, copy, during>>
    BY <1>7 DEF svars
  <2>2. TypeOK' /\ Contents' = Contents
    BY <1>a, <2>1
  <2> QED
    BY <2>1, <2>2 DEF CopyInv, DataFrom, ExpirationsFrom
<1> QED
  BY <1>1, <1>2, <1>3, <1>4, <1>5, <1>6, <1>7 DEF SNext, SaveStep

\* Whatever the clients and the active expiration do meanwhile, every value and
\* every deadline that a save writes was in the store while it copied.
THEOREM NothingStaleSaved == SSpec => []CopyIsCurrent
<1>1. CopyInv => CopyIsCurrent
  BY DEF CopyInv, CopyIsCurrent, Copied, DataFrom, ExpirationsFrom
<1> QED
  BY <1>1, CopyInit, CopyStep, PTL DEF SSpec

LEMMA PairsEqual ==
  ASSUME NEW s \in Pairs, NEW t \in Pairs,
         \A k \in Keys : s.data[k] = t.data[k] /\ s.expirations[k] = t.expirations[k]
  PROVE  s = t
<1>1. s.data = t.data
  BY DEF Pairs
<1>2. s.expirations = t.expirations
  BY DEF Pairs
<1> QED
  BY <1>1, <1>2 DEF Pairs

LEMMA ExactGoal == CopyInv => OneChangeExact
<1> SUFFICES ASSUME CopyInv, NEW s \in during, NEW t \in during, NEW k \in Keys,
                    Copied, during = {s, t}, DifferAt(s, t, k)
             PROVE  copy = s \/ copy = t
  BY DEF OneChangeExact
<1>1. s \in Pairs /\ t \in Pairs /\ copy \in Pairs
  BY DEF CopyInv
<1>2. \A j \in Keys : /\ copy.data[j] = s.data[j] \/ copy.data[j] = t.data[j]
                      /\ copy.expirations[j] = s.expirations[j]
                           \/ copy.expirations[j] = t.expirations[j]
  BY DEF CopyInv, Copied, DataFrom, ExpirationsFrom
<1>3. \A j \in Keys \ {k} : /\ copy.data[j] = s.data[j] /\ copy.data[j] = t.data[j]
                            /\ copy.expirations[j] = s.expirations[j]
                            /\ copy.expirations[j] = t.expirations[j]
  BY <1>2 DEF DifferAt
<1>4. \/ copy.data[k] = s.data[k] /\ copy.expirations[k] = s.expirations[k]
      \/ copy.data[k] = t.data[k] /\ copy.expirations[k] = t.expirations[k]
  BY <1>2 DEF DifferAt
<1>5. CASE copy.data[k] = s.data[k] /\ copy.expirations[k] = s.expirations[k]
  <2>1. \A j \in Keys : copy.data[j] = s.data[j] /\ copy.expirations[j] = s.expirations[j]
    BY <1>3, <1>5
  <2> QED
    BY <1>1, <2>1, PairsEqual
<1>6. CASE copy.data[k] = t.data[k] /\ copy.expirations[k] = t.expirations[k]
  <2>1. \A j \in Keys : copy.data[j] = t.data[j] /\ copy.expirations[j] = t.expirations[j]
    BY <1>3, <1>6
  <2> QED
    BY <1>1, <2>1, PairsEqual
<1> QED
  BY <1>4, <1>5, <1>6

\* With one change of one map meanwhile, the snapshot is point in time after all:
\* it takes two to break PointInTime.
THEOREM OneChangeHarmless == SSpec => []OneChangeExact
  BY ExactGoal, CopyInit, CopyStep, PTL DEF SSpec
=============================================================================
