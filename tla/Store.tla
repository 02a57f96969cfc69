------------------------------- MODULE Store -------------------------------
(***************************************************************************)
(* The database of Ember (struct DB, database/core.rs): two concurrent     *)
(* maps, data and expirations, shared by the connection tasks and by the   *)
(* active-expiration task.                                                 *)
(*                                                                         *)
(* A method of DB holds no lock of its own.  Each call on a DashMap is     *)
(* atomic for its key (the shard lock), and between two calls every other  *)
(* task may run, so one step of this module is one DashMap call together   *)
(* with the computation up to the next one.  pc[c] names the call that     *)
(* task c makes next.  Two cases where several calls are one step:         *)
(*   - get and lrange keep the guard of expirations.get while is_expired   *)
(*     reads the same entry again, so both reads see one value;            *)
(*   - a push to an existing list edits it under the guard of get_mut.     *)
(***************************************************************************)
EXTENDS Objects

CONSTANTS
  Clients,           \* the connection tasks
  ActiveExpiration,  \* TRUE for DB::new, FALSE for DB::new_in_memory
  SampleSize,        \* SAMPLE_SIZE, 20 in the code
  Snapshots,         \* the pairs of maps the server may start from
  MaxTime,           \* bound: the clock stops here
  MaxLen             \* bound: no push is issued for a list this long

VARIABLES
  data,         \* data: the object of each key, None for no entry
  expirations,  \* expirations: the deadline of each key, None for no entry
  now,          \* the monotonic clock, Instant::now()
  pc,           \* the next DashMap call of each connection task
  cmd,          \* the command the task executes, None when idle
  reply,        \* what its DB method returned, None until it has
  removed,      \* what the task's expirations.remove in set returned
                \* (the code drops it; kept for the refinement mapping)
  reaper        \* the active-expiration task

maps == <<data, expirations>>
tasks == <<pc, cmd, reply, removed>>
vars == <<maps, now, tasks, reaper>>

Entry ==
  [SET |-> "set_unexpire", GET |-> "lazy_check", LRANGE |-> "lazy_check",
   DELETE |-> "delete_data", LPUSH |-> "push_get", RPUSH |-> "push_get",
   EXPIRE |-> "expire_find"]

SetSteps    == {"set_unexpire", "set_insert", "set_expire"}
ReadSteps   == {"lazy_check", "lazy_data", "lazy_exp", "read"}
DeleteSteps == {"delete_data", "delete_exp"}
PushSteps   == {"push_get", "push_insert"}
ExpireSteps == {"expire_find", "expire_option", "expire_insert"}
DbSteps     == SetSteps \cup ReadSteps \cup DeleteSteps \cup PushSteps
                 \cup ExpireSteps

Asleep ==
  [pc |-> "sleep", now |-> 0, skip |-> 0, unvisited |-> {}, sampled |-> {},
   key |-> None, checked |-> 0, expired |-> 0]

ASSUME StoreAssumption ==
  /\ SampleSize \in Nat \ {0}
  /\ MaxTime \in Nat
  /\ MaxLen \in Nat
  /\ ActiveExpiration \in BOOLEAN
  /\ None \notin Keys
  /\ Snapshots \subseteq [data : [Keys -> RedisObject \cup {None}],
                          expirations : [Keys -> Nat \cup {None}]]

\* DB::new starts from what load_rdb returned, new_in_memory from empty maps.
Init ==
  /\ \E s \in Snapshots : data = s.data /\ expirations = s.expirations
  /\ now = 0
  /\ pc = [c \in Clients |-> "idle"]
  /\ cmd = [c \in Clients |-> None]
  /\ reply = [c \in Clients |-> None]
  /\ removed = [c \in Clients |-> None]
  /\ reaper = Asleep
-----------------------------------------------------------------------------
Key(c) == cmd[c].req.key

Goto(c, step) == pc' = [pc EXCEPT ![c] = step]

Return(c, result) ==
  /\ Goto(c, "return")
  /\ reply' = [reply EXCEPT ![c] = result]

IsExpired(k) == expirations[k] # None /\ expirations[k] < now

\* The task calls the DB method of command m.
Call(c, m) ==
  /\ pc[c] = "idle"
  /\ cmd' = [cmd EXCEPT ![c] = m]
  /\ Goto(c, Entry[m.req.op])
  /\ UNCHANGED <<maps, now, reply, removed, reaper>>

Size(obj) ==
  IF obj = None THEN 0 ELSE IF obj.type = "List" THEN Len(obj.list) ELSE 0

\* Bounds on what the clients ask for.  Lists stay short, and a lifetime is only
\* given while it can still end before the clock stops: a deadline that the model
\* never reaches would look like a value that is never cleared.  So the supply of
\* lifetimes ends, which the liveness properties that depend on it say.
ShortList(req) ==
  req.op \in {"LPUSH", "RPUSH"} => Size(data[req.key]) + Len(req.vals) <= MaxLen

Bounded(req) ==
  /\ req.ttl # None => now + req.ttl < MaxTime
  /\ ShortList(req)

\* A request arrives and is parsed and executed at once.
Begin(c, req) ==
  /\ Bounded(req)
  /\ Call(c, [req |-> req, issued |-> now])

\* The method has returned and the task takes its result.
Reply(c) ==
  /\ pc[c] = "return"
  /\ Goto(c, "idle")
  /\ cmd' = [cmd EXCEPT ![c] = None]
  /\ reply' = [reply EXCEPT ![c] = None]
  /\ UNCHANGED <<maps, now, removed, reaper>>
-----------------------------------------------------------------------------
(* DB::set *)

\* A bug: the old deadline is left in place.
SetUnexpireMutant(c) ==
  /\ pc[c] = "set_unexpire"
  /\ removed' = [removed EXCEPT ![c] = expirations[Key(c)]]
  /\ Goto(c, "set_insert")
  /\ UNCHANGED <<maps, now, cmd, reply, reaper>>

SetUnexpire(c) ==
  /\ pc[c] = "set_unexpire"
  /\ expirations' = [expirations EXCEPT ![Key(c)] = None]
  /\ removed' = [removed EXCEPT ![c] = expirations[Key(c)]]
  /\ Goto(c, "set_insert")
  /\ UNCHANGED <<data, now, cmd, reply, reaper>>

SetInsert(c) ==
  /\ pc[c] = "set_insert"
  /\ data' = [data EXCEPT ![Key(c)] = Str(cmd[c].req.vals[1])]
  /\ removed' = [removed EXCEPT ![c] = None]
  /\ IF Deadline(cmd[c]) = None
     THEN Return(c, Ok)
     ELSE Goto(c, "set_expire") /\ UNCHANGED reply
  /\ UNCHANGED <<expirations, now, cmd, reaper>>

SetExpire(c) ==
  /\ pc[c] = "set_expire"
  /\ expirations' = [expirations EXCEPT ![Key(c)] = Deadline(cmd[c])]
  /\ Return(c, Ok)
  /\ UNCHANGED <<data, now, cmd, removed, reaper>>
-----------------------------------------------------------------------------
(* DB::get and DB::lrange, which begin with the same lazy expiration *)

LazyCheck(c) ==
  /\ pc[c] = "lazy_check"
  /\ Goto(c, IF IsExpired(Key(c)) THEN "lazy_data" ELSE "read")
  /\ UNCHANGED <<maps, now, cmd, reply, removed, reaper>>

LazyRemoveData(c) ==
  /\ pc[c] = "lazy_data"
  /\ data' = [data EXCEPT ![Key(c)] = None]
  /\ Goto(c, "lazy_exp")
  /\ UNCHANGED <<expirations, now, cmd, reply, removed, reaper>>

LazyRemoveExpiration(c) ==
  /\ pc[c] = "lazy_exp"
  /\ expirations' = [expirations EXCEPT ![Key(c)] = None]
  /\ Return(c, NilStr)
  /\ UNCHANGED <<data, now, cmd, removed, reaper>>

ReadResult(req, obj) ==
  IF obj = None THEN NilStr
  ELSE IF req.op = "GET" THEN obj
  ELSE IF obj.type = "List" THEN List(LRange(obj.list, req.range[1], req.range[2]))
  ELSE Err

Read(c) ==
  /\ pc[c] = "read"
  /\ Return(c, ReadResult(cmd[c].req, data[Key(c)]))
  /\ UNCHANGED <<maps, now, cmd, removed, reaper>>
-----------------------------------------------------------------------------
(* DB::delete *)

DeleteData(c) ==
  /\ pc[c] = "delete_data"
  /\ data' = [data EXCEPT ![Key(c)] = None]
  /\ Goto(c, "delete_exp")
  /\ UNCHANGED <<expirations, now, cmd, reply, removed, reaper>>

\* A bug: the deadline survives the value.
DeleteExpirationMutant(c) ==
  /\ pc[c] = "delete_exp"
  /\ Return(c, Ok)
  /\ UNCHANGED <<maps, now, cmd, removed, reaper>>

DeleteExpiration(c) ==
  /\ pc[c] = "delete_exp"
  /\ expirations' = [expirations EXCEPT ![Key(c)] = None]
  /\ Return(c, Ok)
  /\ UNCHANGED <<data, now, cmd, removed, reaper>>
-----------------------------------------------------------------------------
(* DB::lpush and DB::rpush *)

PushGet(c) ==
  LET k   == Key(c)
      req == cmd[c].req
  IN  /\ pc[c] = "push_get"
      /\ \/ /\ data[k] = None
            /\ Goto(c, "push_insert")
            /\ UNCHANGED <<data, reply>>
         \/ /\ data[k] # None
            /\ data[k].type = "List"
            /\ data' = [data EXCEPT ![k] = List(Push(req.op, req.vals, data[k].list))]
            /\ Return(c, Ok)
         \/ /\ data[k] # None
            /\ data[k].type = "String"
            /\ Return(c, Err)
            /\ UNCHANGED data
      /\ UNCHANGED <<expirations, now, cmd, removed, reaper>>

PushInsert(c) ==
  /\ pc[c] = "push_insert"
  /\ data' = [data EXCEPT ![Key(c)] = List(NewList(cmd[c].req.op, cmd[c].req.vals))]
  /\ Return(c, Ok)
  /\ UNCHANGED <<expirations, now, cmd, removed, reaper>>
-----------------------------------------------------------------------------
(* DB::expire: without an option the expirations map is not read *)

ExpireFind(c) ==
  /\ pc[c] = "expire_find"
  /\ IF data[Key(c)] = None
     THEN Return(c, Err)
     ELSE /\ Goto(c, IF cmd[c].req.opt = None THEN "expire_insert" ELSE "expire_option")
          /\ UNCHANGED reply
  /\ UNCHANGED <<maps, now, cmd, removed, reaper>>

ExpireOption(c) ==
  /\ pc[c] = "expire_option"
  /\ IF MayExpire(cmd[c].req.opt, expirations[Key(c)], Deadline(cmd[c]))
     THEN Goto(c, "expire_insert") /\ UNCHANGED reply
     ELSE Return(c, Ok)
  /\ UNCHANGED <<maps, now, cmd, removed, reaper>>

ExpireInsert(c) ==
  /\ pc[c] = "expire_insert"
  /\ expirations' = [expirations EXCEPT ![Key(c)] = Deadline(cmd[c])]
  /\ Return(c, Ok)
  /\ UNCHANGED <<data, now, cmd, removed, reaper>>
-----------------------------------------------------------------------------
(* active_expiration_task and active_expiration_cycle *)

WithExpiry == {k \in Keys : expirations[k] # None}

\* The 100 ms sleep is over, or the last cycle found many expired keys and runs
\* again: read the clock and the number of entries, and choose how many to skip.
CycleStartMutant ==  \* a bug: a single entry is never sampled
  /\ ActiveExpiration
  /\ reaper.pc \in {"sleep", "rerun"}
  /\ \/ /\ Cardinality(WithExpiry) <= 1
        /\ reaper' = Asleep
     \/ \E skip \in 1 .. Cardinality(WithExpiry) - 1 :
          reaper' = [Asleep EXCEPT !.pc = "sample", !.now = now, !.skip = skip - 1,
                                   !.unvisited = Keys]
  /\ UNCHANGED <<maps, now, tasks>>

CycleStart ==
  /\ ActiveExpiration
  /\ reaper.pc \in {"sleep", "rerun"}
  /\ \/ /\ WithExpiry = {}
        /\ reaper' = Asleep
     \/ \E skip \in 0 .. Cardinality(WithExpiry) - 1 :
          reaper' = [Asleep EXCEPT !.pc = "sample", !.now = now, !.skip = skip,
                                   !.unvisited = Keys]
  /\ UNCHANGED <<maps, now, tasks>>

\* take(SAMPLE_SIZE) is exhausted.
SampleFull(S) == Cardinality(S) = SampleSize

\* The iterator over the entries reaches (the place of) key k.  It goes shard by
\* shard, in the order of the hash table, while other tasks change the map.
CycleVisit(k) ==
  /\ reaper.pc = "sample"
  /\ k \in reaper.unvisited
  /\ LET found == expirations[k] # None
         S     == IF found /\ reaper.skip = 0 THEN reaper.sampled \cup {k}
                  ELSE reaper.sampled
         left  == reaper.unvisited \ {k}
         done  == left = {} \/ SampleFull(S)
     IN  reaper' = [reaper EXCEPT
                      !.skip      = IF found /\ @ > 0 THEN @ - 1 ELSE @,
                      !.unvisited = IF done THEN {} ELSE left,
                      !.sampled   = S,
                      !.checked   = Cardinality(S),
                      !.pc        = IF done THEN "check" ELSE "sample"]
  /\ UNCHANGED <<maps, now, tasks>>

\* A bug: the entry is not compared with the clock.
CycleCheckMutant(k) ==
  /\ reaper.pc = "check"
  /\ k \in reaper.sampled
  /\ reaper' = [reaper EXCEPT !.sampled = @ \ {k}, !.pc = "data", !.key = k]
  /\ UNCHANGED <<maps, now, tasks>>

\* The loop body reads the entry again and compares it with the clock value the
\* cycle began with.
CycleCheck(k) ==
  /\ reaper.pc = "check"
  /\ k \in reaper.sampled
  /\ reaper' = IF expirations[k] # None /\ expirations[k] < reaper.now
               THEN [reaper EXCEPT !.sampled = @ \ {k}, !.pc = "data", !.key = k]
               ELSE [reaper EXCEPT !.sampled = @ \ {k}]
  /\ UNCHANGED <<maps, now, tasks>>

\* A bug: the deadline is removed in place of the value.
CycleRemoveDataMutant ==
  /\ reaper.pc = "data"
  /\ expirations' = [expirations EXCEPT ![reaper.key] = None]
  /\ reaper' = [reaper EXCEPT !.pc = "exp"]
  /\ UNCHANGED <<data, now, tasks>>

CycleRemoveData ==
  /\ reaper.pc = "data"
  /\ data' = [data EXCEPT ![reaper.key] = None]
  /\ reaper' = [reaper EXCEPT !.pc = "exp"]
  /\ UNCHANGED <<expirations, now, tasks>>

\* A bug: only the value is removed.
CycleRemoveExpirationMutant ==
  /\ reaper.pc = "exp"
  /\ reaper' = [reaper EXCEPT !.pc = "check", !.key = None, !.expired = @ + 1]
  /\ UNCHANGED <<maps, now, tasks>>

CycleRemoveExpiration ==
  /\ reaper.pc = "exp"
  /\ expirations' = [expirations EXCEPT ![reaper.key] = None]
  /\ reaper' = [reaper EXCEPT !.pc = "check", !.key = None, !.expired = @ + 1]
  /\ UNCHANGED <<data, now, tasks>>

\* A bug: the comparison is the wrong way round.
CycleEndMutant ==
  /\ reaper.pc = "check"
  /\ reaper.sampled = {}
  /\ reaper' = [Asleep EXCEPT !.pc = IF 4 * reaper.expired < Max({reaper.checked, 1})
                                     THEN "rerun" ELSE "sleep"]
  /\ UNCHANGED <<maps, now, tasks>>

\* expired / checked > 0.25, with checked at least 1, runs the cycle again.
CycleEnd ==
  /\ reaper.pc = "check"
  /\ reaper.sampled = {}
  /\ reaper' = [Asleep EXCEPT !.pc = IF 4 * reaper.expired > Max({reaper.checked, 1})
                                     THEN "rerun" ELSE "sleep"]
  /\ UNCHANGED <<maps, now, tasks>>
-----------------------------------------------------------------------------
Tick ==
  /\ now < MaxTime
  /\ now' = now + 1
  /\ UNCHANGED <<maps, tasks, reaper>>

DbStep(c) ==
  \/ SetUnexpire(c) \/ SetInsert(c) \/ SetExpire(c)
  \/ LazyCheck(c) \/ LazyRemoveData(c) \/ LazyRemoveExpiration(c) \/ Read(c)
  \/ DeleteData(c) \/ DeleteExpiration(c)
  \/ PushGet(c) \/ PushInsert(c)
  \/ ExpireFind(c) \/ ExpireOption(c) \/ ExpireInsert(c)

ReaperStep ==
  \/ CycleStart
  \/ \E k \in Keys : CycleVisit(k) \/ CycleCheck(k)
  \/ CycleRemoveData \/ CycleRemoveExpiration \/ CycleEnd

Next ==
  \/ \E c \in Clients, req \in Requests : Begin(c, req)
  \/ \E c \in Clients : DbStep(c) \/ Reply(c)
  \/ ReaperStep
  \/ Tick

Spec == Init /\ [][Next]_vars

\* A connection task that is inside a DB method keeps running, the active
\* expiration task wakes up after every sleep, and time passes.  skip is drawn
\* uniformly, so every entry that stays in the map is sampled again and again.
Sampled(k) == CycleVisit(k) /\ k \in reaper'.sampled

Fairness ==
  /\ \A c \in Clients : WF_vars(DbStep(c) \/ Reply(c))
  /\ WF_vars(ReaperStep)
  /\ SF_vars(CycleStart /\ reaper'.skip = 0)
  /\ \A k \in Keys : SF_vars(Sampled(k))
  /\ WF_vars(Tick)

FairSpec == Spec /\ Fairness
-----------------------------------------------------------------------------
(* Properties *)

Busy(c) == pc[c] \in DbSteps

Overdue(k) == IsExpired(k)

\* The steps of a DB method belong to the command being executed.
StepsOf(op) ==
  CASE op = "SET"                -> SetSteps
    [] op \in {"GET", "LRANGE"}  -> ReadSteps
    [] op = "DELETE"             -> DeleteSteps
    [] op \in {"LPUSH", "RPUSH"} -> PushSteps
    [] op = "EXPIRE"             -> ExpireSteps

\* The maps hold objects and deadlines, a task inside a DB method executes a
\* command of that method, and a task has a result exactly when its method has
\* returned.
TypeOK ==
  /\ data \in [Keys -> RedisObject \cup {None}]
  /\ expirations \in [Keys -> Nat \cup {None}]
  /\ now \in Nat
  /\ pc \in [Clients -> DbSteps \cup {"idle", "return"}]
  /\ cmd \in [Clients -> Command \cup {None}]
  /\ reply \in [Clients -> Result \cup {None}]
  /\ removed \in [Clients -> Nat \cup {None}]
  /\ reaper \in [pc : {"sleep", "sample", "check", "data", "exp", "rerun"},
                 now : Nat, skip : Nat, unvisited : SUBSET Keys,
                 sampled : SUBSET Keys, key : Keys \cup {None},
                 checked : Nat, expired : Nat]
  /\ reaper.pc \in {"data", "exp"} <=> reaper.key # None
  /\ \A c \in Clients :
       /\ pc[c] = "idle" <=> cmd[c] = None
       /\ pc[c] = "return" <=> reply[c] # None
       /\ Busy(c) => pc[c] \in StepsOf(cmd[c].req.op)
       /\ pc[c] = "set_expire" => cmd[c].req.ttl # None

\* Nobody is at work on k and its deadline, if it has one, has not passed.
Protected(k) ==
  /\ \A c \in Clients : Busy(c) => Key(c) # k
  /\ reaper.key # k
  /\ ~Overdue(k)

\* A key that is protected keeps its value and its deadline, and it stays
\* protected until its deadline passes or a command on it begins: commands on
\* other keys and the sampling of active_expiration_cycle, which compares
\* deadlines with a clock value read earlier, never affect it.
KeyUntouched ==
  [][\A k \in Keys : Protected(k) =>
       /\ data'[k] = data[k]
       /\ expirations'[k] = expirations[k]
       /\ \/ Protected(k)'
          \/ Overdue(k)'
          \/ \E c \in Clients : pc[c] = "idle" /\ Busy(c)' /\ Key(c)' = k]_vars

Settled(k) ==
  /\ \A c \in Clients : Busy(c) => Key(c) # k
  /\ reaper.key # k

\* set: "Removing the old expiration (if any) before inserting the new value
\* keeps the two maps in sync": when no task is at work on a key, the key has a
\* deadline only if it has a value.
MapsInSync ==
  \A k \in Keys : Settled(k) /\ expirations[k] # None => data[k] # None

\* A value disappears only by DELETE or because the deadline of its key has
\* passed: lazy and active expiration never remove a key that is not overdue.
PurgeOnlyOverdue ==
  [][\A k \in Keys : data[k] # None /\ data'[k] = None =>
       \/ Overdue(k)
       \/ \E c \in Clients : pc[c] = "delete_data" /\ Key(c) = k]_vars

\* A deadline that has passed does not stay in the expirations map.
OverdueCleared == \A k \in Keys : Overdue(k) ~> ~Overdue(k)

\* k is given a deadline that it did not have.
NewDeadline(k) == expirations'[k] \notin {None, expirations[k]}

\* A value whose key was given a deadline does not outlive it for ever, unless
\* clients give the key new deadlines for ever: EXPIRE also finds a value that is
\* overdue and not removed yet.
ExpiringValueCleared ==
  \A k \in Keys : \/ []<><<NewDeadline(k)>>_vars
                  \/ Overdue(k) ~> data[k] = None

\* The re-runs of active_expiration_cycle, which calls itself without going back
\* to the scheduler, come to an end, unless clients give keys new deadlines for
\* ever: a supply of short lifetimes, and nothing else, can keep them going.
ReaperSleeps ==
  \/ \E k \in Keys : []<><<NewDeadline(k)>>_vars
  \/ []<>(reaper.pc = "sleep")
=============================================================================
