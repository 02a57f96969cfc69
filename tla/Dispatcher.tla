----------------------------- MODULE Dispatcher -----------------------------
(***************************************************************************)
(* The command dispatcher (command/dispatcher.rs) on top of Store: what a  *)
(* connection task does with each parsed command, the MULTI, EXEC and      *)
(* DISCARD of its client, and the reply it produces.                       *)
(*                                                                         *)
(* dispatch and execute_command run in the task of the connection, so one  *)
(* client's commands never overlap; the DB methods they call interleave    *)
(* with those of other clients and with active expiration, inside an EXEC  *)
(* too.  SAVE appears here by its reply; what it copies and writes is the  *)
(* matter of Snapshot, RdbFile and RdbCodec.                               *)
(***************************************************************************)
EXTENDS Store, SequencesExt

CONSTANT MaxQueue  \* bound: no command is queued beyond this length

ASSUME MaxQueueAssumption == MaxQueue \in Nat

VARIABLES
  in_transaction,   \* Client.in_transaction
  queued_commands,  \* Client.queued_commands
  exec,             \* the local variables of execute_command
  response          \* the reply being written, None when there is none

clientVars == <<in_transaction, queued_commands>>
dispatchVars == <<clientVars, exec, response>>
allVars == <<vars, dispatchVars>>

Transactional == {"MULTI", "EXEC", "DISCARD"}
Local         == {"LOCAL"}  \* PING, ECHO and SAVE, which leave the maps alone

DbCommand(req, t) == [name |-> "DB", call |-> [req |-> req, issued |-> t]]
Plain(name)       == [name |-> name]

Queueable == [name : {"DB"}, call : Command] \cup [name : Local]
Commands  == Queueable \cup [name : Transactional]

OkResp        == [type |-> "Simple"]
ErrResp       == [type |-> "Error"]
Queued        == [type |-> "Queued"]
Bulk(v)       == [type |-> "Bulk", str |-> v]
Array(items)  == [type |-> "Array", items |-> items]

BulkReply == [type : {"Bulk"}, str : Vals \cup {Nil}]
ItemReply == {OkResp} \cup BulkReply \cup [type : {"Array"}, items : Seq(BulkReply)]
Response  == {ErrResp, Queued} \cup ItemReply \cup [type : {"Array"}, items : Seq(ItemReply)]

\* exec.mode: no command, one command outside a transaction, or an EXEC, which
\* still has todo to execute and has collected replies.
Execution ==
  [mode : {"none", "one", "exec"}, todo : Seq(Queueable), replies : Seq(ItemReply)]

NotRunning == [mode |-> "none", todo |-> <<>>, replies |-> <<>>]

DInit ==
  /\ Init
  /\ in_transaction = [c \in Clients |-> FALSE]
  /\ queued_commands = [c \in Clients |-> <<>>]
  /\ exec = [c \in Clients |-> NotRunning]
  /\ response = [c \in Clients |-> None]
-----------------------------------------------------------------------------
\* How execute_command turns the result of a DB method into a reply.  GET finds
\* a list: an error.
Resp(req, result) ==
  CASE result.type = "Ok"     -> OkResp
    [] result.type = "Err"    -> ErrResp
    [] result.type = "String" -> Bulk(result.str)
    [] result.type = "List"   ->
         IF req.op = "GET" THEN ErrResp
         ELSE Array([i \in DOMAIN result.list |-> Bulk(result.list[i])])

Respond(c, r) ==
  /\ response' = [response EXCEPT ![c] = r]
  /\ exec' = [exec EXCEPT ![c] = NotRunning]

Ready(c) == exec[c].mode = "none" /\ response[c] = None

\* dispatch: in a transaction everything but MULTI, EXEC and DISCARD is queued.
QueueMutant(c, command) ==  \* a bug: EXEC and DISCARD are queued too
  /\ Ready(c)
  /\ in_transaction[c]
  /\ Len(queued_commands[c]) < MaxQueue
  /\ queued_commands' = [queued_commands EXCEPT ![c] = Append(@, command)]
  /\ Respond(c, Queued)
  /\ UNCHANGED <<vars, in_transaction>>

Queue(c, command) ==
  /\ Ready(c)
  /\ in_transaction[c]
  /\ command.name \notin Transactional
  /\ Len(queued_commands[c]) < MaxQueue
  /\ queued_commands' = [queued_commands EXCEPT ![c] = Append(@, command)]
  /\ Respond(c, Queued)
  /\ UNCHANGED <<vars, in_transaction>>

NestedMulti(c) ==
  /\ Ready(c)
  /\ in_transaction[c]
  /\ Respond(c, ErrResp)
  /\ UNCHANGED <<vars, clientVars>>

Multi(c) ==
  /\ Ready(c)
  /\ ~in_transaction[c]
  /\ in_transaction' = [in_transaction EXCEPT ![c] = TRUE]
  /\ queued_commands' = [queued_commands EXCEPT ![c] = <<>>]
  /\ Respond(c, OkResp)
  /\ UNCHANGED vars

\* DISCARD and EXEC do not ask whether there is a transaction.
DiscardMutant(c) ==  \* a bug: the queue is kept
  /\ Ready(c)
  /\ in_transaction' = [in_transaction EXCEPT ![c] = FALSE]
  /\ Respond(c, OkResp)
  /\ UNCHANGED <<vars, queued_commands>>

Discard(c) ==
  /\ Ready(c)
  /\ in_transaction' = [in_transaction EXCEPT ![c] = FALSE]
  /\ queued_commands' = [queued_commands EXCEPT ![c] = <<>>]
  /\ Respond(c, OkResp)
  /\ UNCHANGED vars

ExecuteLocal(c) ==
  /\ Ready(c)
  /\ ~in_transaction[c]
  /\ Respond(c, OkResp)
  /\ UNCHANGED <<vars, clientVars>>

ExecuteDbMutant(c, call) ==  \* a bug: the transaction is not looked at
  /\ Ready(c)
  /\ Call(c, call)
  /\ exec' = [exec EXCEPT ![c].mode = "one"]
  /\ UNCHANGED <<clientVars, response>>

ExecuteDb(c, call) ==
  /\ Ready(c)
  /\ ~in_transaction[c]
  /\ Call(c, call)
  /\ exec' = [exec EXCEPT ![c].mode = "one"]
  /\ UNCHANGED <<clientVars, response>>

\* The DB method has returned; Reply frees the task.
ExecuteDbDone(c) ==
  /\ exec[c].mode = "one"
  /\ Reply(c)
  /\ Respond(c, Resp(cmd[c].req, reply[c]))
  /\ UNCHANGED clientVars
-----------------------------------------------------------------------------
(* EXEC *)

\* Bound: EXEC is not asked for again while a list it pushes to is long.  (An
\* EXEC that fails can be repeated, and pushes again each time.)
ShortLists(c) ==
  \A i \in DOMAIN queued_commands[c] :
    queued_commands[c][i].name = "DB" => ShortList(queued_commands[c][i].call.req)

Exec(c) ==
  /\ Ready(c)
  /\ ShortLists(c)
  /\ exec' = [exec EXCEPT ![c] = [mode |-> "exec", todo |-> queued_commands[c],
                                  replies |-> <<>>]]
  /\ UNCHANGED <<vars, clientVars, response>>

ExecReply(c, r) ==
  exec' = [exec EXCEPT ![c].todo = Tail(@), ![c].replies = Append(@, r)]

ExecLocalMutant(c) ==  \* a bug: a reply is not collected
  /\ exec[c].mode = "exec" /\ exec[c].todo # <<>>
  /\ Head(exec[c].todo).name \in Local
  /\ exec' = [exec EXCEPT ![c].todo = Tail(@)]
  /\ UNCHANGED <<vars, clientVars, response>>

ExecLocal(c) ==
  /\ exec[c].mode = "exec" /\ exec[c].todo # <<>>
  /\ Head(exec[c].todo).name \in Local
  /\ ExecReply(c, OkResp)
  /\ UNCHANGED <<vars, clientVars, response>>

ExecDb(c) ==
  /\ exec[c].mode = "exec" /\ exec[c].todo # <<>>
  /\ Head(exec[c].todo).name = "DB"
  /\ Call(c, Head(exec[c].todo).call)
  /\ UNCHANGED dispatchVars

ExecDbDone(c) ==
  LET r == Resp(cmd[c].req, reply[c])
  IN  /\ exec[c].mode = "exec"
      /\ Reply(c)
      /\ r # ErrResp
      /\ ExecReply(c, r)
      /\ UNCHANGED <<clientVars, response>>

\* A queued command fails: EXEC returns at once, before the two statements that
\* end the transaction.
ExecFailMutant(c) ==  \* a bug: EXEC stops and ends as if it had succeeded
  /\ exec[c].mode = "exec"
  /\ Reply(c)
  /\ Resp(cmd[c].req, reply[c]) = ErrResp
  /\ in_transaction' = [in_transaction EXCEPT ![c] = FALSE]
  /\ queued_commands' = [queued_commands EXCEPT ![c] = <<>>]
  /\ Respond(c, Array(exec[c].replies))

ExecFailRetryMutant(c) ==  \* a bug: the failing command is tried again
  /\ exec[c].mode = "exec"
  /\ Reply(c)
  /\ Resp(cmd[c].req, reply[c]) = ErrResp
  /\ UNCHANGED dispatchVars

ExecFail(c) ==
  /\ exec[c].mode = "exec"
  /\ Reply(c)
  /\ Resp(cmd[c].req, reply[c]) = ErrResp
  /\ Respond(c, ErrResp)
  /\ UNCHANGED clientVars

ExecDone(c) ==
  /\ exec[c].mode = "exec" /\ exec[c].todo = <<>>
  /\ in_transaction' = [in_transaction EXCEPT ![c] = FALSE]
  /\ queued_commands' = [queued_commands EXCEPT ![c] = <<>>]
  /\ Respond(c, Array(exec[c].replies))
  /\ UNCHANGED vars
-----------------------------------------------------------------------------
\* The connection has written the reply and goes on to the next command.
Send(c) ==
  /\ response[c] # None
  /\ response' = [response EXCEPT ![c] = None]
  /\ UNCHANGED <<vars, clientVars, exec>>
-----------------------------------------------------------------------------
\* A parsed command reaches dispatch.
Dispatch(c) ==
  \/ \E req \in Requests : Bounded(req) /\ \/ Queue(c, DbCommand(req, now))
                                           \/ ExecuteDb(c, DbCommand(req, now).call)
  \/ \E name \in Local \cup Transactional : Queue(c, Plain(name))
  \/ NestedMulti(c) \/ Multi(c) \/ Discard(c) \/ ExecuteLocal(c) \/ Exec(c)

\* The task goes on with the command it is executing.
ExecStep(c) ==
  \/ ExecuteDbDone(c)
  \/ ExecLocal(c) \/ ExecDb(c) \/ ExecDbDone(c) \/ ExecFail(c) \/ ExecDone(c)

StoreStep == ReaperStep \/ Tick \/ \E c \in Clients : DbStep(c)

DNext ==
  \/ \E c \in Clients : Dispatch(c) \/ ExecStep(c) \/ Send(c)
  \/ StoreStep /\ UNCHANGED dispatchVars

DSpec == DInit /\ [][DNext]_allVars

\* A task that has begun a command runs on to its end.
DFairness ==
  \A c \in Clients : WF_allVars(\/ ExecStep(c)
                                \/ DbStep(c) /\ UNCHANGED dispatchVars)

DFairSpec == DSpec /\ DFairness
-----------------------------------------------------------------------------
(* Properties *)

\* Client state is well formed; no MULTI, EXEC or DISCARD is ever queued, so
\* execute_command calls itself at most once and an EXEC cannot change the
\* transaction it runs in.
DTypeOK ==
  /\ in_transaction \in [Clients -> BOOLEAN]
  /\ queued_commands \in [Clients -> Seq(Queueable)]
  /\ exec \in [Clients -> Execution]
  /\ response \in [Clients -> Response \cup {None}]

\* Commands are only kept for a transaction: MULTI never finds old ones, and
\* nothing queued survives DISCARD or a successful EXEC.
QueueOnlyInTransaction ==
  \A c \in Clients : ~in_transaction[c] => queued_commands[c] = <<>>

\* A command sent inside a transaction touches no key before EXEC.
QueuedHasNoEffect ==
  \A c \in Clients : in_transaction[c] /\ exec[c].mode # "exec" => pc[c] = "idle"

\* EXEC answers the queued commands one by one, in the order they were queued:
\* what it has answered and what it still has to do make up the queue.
ExecInOrder ==
  \A c \in Clients : exec[c].mode = "exec" =>
    /\ Len(exec[c].replies) <= Len(queued_commands[c])
    /\ exec[c].todo = SubSeq(queued_commands[c], Len(exec[c].replies) + 1,
                             Len(queued_commands[c]))

\* A transaction ends only by DISCARD or by an EXEC whose queued commands all
\* succeeded; a failing EXEC leaves it open with its whole queue.
TransactionEnds ==
  [][\A c \in Clients : in_transaction[c] =>
       \/ in_transaction'[c] /\ IsPrefix(queued_commands[c], queued_commands'[c])
       \/ ~in_transaction'[c] /\ exec[c].mode = "none"
       \/ ~in_transaction'[c] /\ Len(response'[c].items) = Len(queued_commands[c])]_allVars

\* Every command that dispatch begins to execute is answered.
EveryCommandAnswered ==
  \A c \in Clients : exec[c].mode # "none" ~> response[c] # None
=============================================================================
