------------------------------- MODULE Server -------------------------------
(***************************************************************************)
(* From the command line to a connection being served (main.rs,            *)
(* server.rs): the port is read from the arguments, Server::new looks for  *)
(* a free one, run binds one listener for each worker, and the acceptors   *)
(* spawn a task for each connection.                                       *)
(*                                                                         *)
(* An argument is a number here: Flag is "--port", a natural is the number *)
(* that it spells, any other is some other text.  Other applications take  *)
(* and release ports while the server looks for one; they do not set       *)
(* SO_REUSEPORT, and what they do later no longer matters to it.           *)
(*                                                                         *)
(* The tasks share Threads worker threads of Tokio and give them up only   *)
(* when they wait.  A connection that holds part of a frame does not wait: *)
(* it asks the socket again and again (Client::handle, try_read_buf) and   *)
(* holds its thread until the rest comes.  Bytes are counted in halves of  *)
(* frames; what is done with a frame is the matter of Connection, where a  *)
(* peer may also leave its replies unread; here it takes them.             *)
(***************************************************************************)
EXTENDS Integers, Sequences, FiniteSets

CONSTANTS
  Arguments,    \* the argument lists the program may be started with
  MaxPort,      \* the largest u16, 65535 in the code
  DefaultPort,  \* DEFAULT_PORT, 6379 in the code
  MaxOthers,    \* bound: ports that other applications hold at once
  Workers,      \* num_cpus::get()
  MaxErrors,    \* bound: failures of accept(), which are transient
  Peers,
  Unruly,       \* peers whose frames may come in parts, or make the task panic
  MaxFrames     \* bound: frames sent by one peer

Flag == -1
Ports == 0 .. MaxPort

ASSUME ServerAssumption ==
  /\ MaxPort \in Nat /\ DefaultPort \in Ports
  /\ Arguments \subseteq Seq(Int)
  /\ Workers \in Nat \ {0}
  /\ MaxOthers \in Nat /\ MaxErrors \in Nat /\ MaxFrames \in Nat
  /\ Unruly \subseteq Peers

VARIABLES
  overflow_checks,  \* a debug build
  args, next_arg,   \* the arguments, and the one parse_args looks at next
  asked,            \* the port that parse_args has returned
  pc,               \* "args", "probe", "bind", "serving" or "failed"
  port,             \* the port of Server.addr
  others,           \* the ports other applications hold
  refused,          \* history: the ports that were found in use
  bound,            \* the ports of the listeners, one per worker
  asleep, errors,   \* acceptors that sleep after an error, and the errors so far
  conn,             \* "new", "backlog", "open" or "closed"
  worker,           \* the worker in whose backlog the connection was put
  sent, got         \* the half frames that the peer has sent, the task has read

search  == <<overflow_checks, args, next_arg, asked, port, refused>>
accepts == <<asleep, errors>>
conns   == <<conn, worker, sent, got>>
vars == <<search, pc, others, bound, accepts, conns>>

Init ==
  /\ overflow_checks \in BOOLEAN
  /\ args \in Arguments /\ next_arg = 1
  /\ asked = DefaultPort /\ port = DefaultPort
  /\ pc = "args"
  /\ others = {} /\ refused = {} /\ bound = <<>>
  /\ asleep = {} /\ errors = 0
  /\ conn = [c \in Peers |-> "new"] /\ worker = [c \in Peers |-> 1]
  /\ sent = [c \in Peers |-> 0] /\ got = [c \in Peers |-> 0]
-----------------------------------------------------------------------------
(* main *)
ParsePortMutant(a) ==   \* a bug: cut to 16 bits
  IF a >= 0 THEN a % (MaxPort + 1) ELSE DefaultPort

\* args[i + 1].parse::<u16>().unwrap_or(DEFAULT_PORT)
ParsePort(a) == IF a \in Ports THEN a ELSE DefaultPort

\* One turn of the loop of parse_args; an option without a value is passed over.
ParseArg ==
  /\ pc = "args"
  /\ next_arg <= Len(args)
  /\ IF args[next_arg] = Flag /\ next_arg < Len(args)
     THEN port' = ParsePort(args[next_arg + 1]) /\ next_arg' = next_arg + 2
     ELSE next_arg' = next_arg + 1 /\ UNCHANGED port
  /\ UNCHANGED <<overflow_checks, args, asked, refused, pc, others, bound, accepts, conns>>

\* parse_args returns, and its list is dropped.
ArgsParsed ==
  /\ pc = "args"
  /\ next_arg > Len(args)
  /\ asked' = port
  /\ args' = <<>> /\ next_arg' = 1
  /\ pc' = "probe"
  /\ UNCHANGED <<overflow_checks, port, refused, others, bound, accepts, conns>>
-----------------------------------------------------------------------------
(* Server::new and Server::run *)
Own == {bound[w] : w \in DOMAIN bound}

\* The ports that build_listener can bind: port 0 means any that is free.
Available == IF port = 0 THEN Ports \ ({0} \cup others \cup Own) ELSE {port} \ others

\* The process ends: the runtime is dropped with its listeners and connections.
Fail ==
  /\ pc' = "failed"
  /\ bound' = <<>>
  /\ conn' = [c \in Peers |-> "closed"]
  /\ UNCHANGED <<search, others, accepts, worker, sent, got>>

\* The listener that was bound to try the port is dropped.
Probe ==
  /\ pc = "probe"
  /\ Available # {}
  /\ pc' = "bind"
  /\ UNCHANGED <<search, others, bound, accepts, conns>>

SkipPortMutant(p) == (p + 2) % (MaxPort + 1)   \* a bug: added in the warning too

NextPort(p) == (p + 1) % (MaxPort + 1)

ProbeInUseMutant ==   \* a bug: the warning is printed, the port stays
  /\ pc = "probe"
  /\ Available = {}
  /\ refused' = refused \cup {port}
  /\ UNCHANGED <<overflow_checks, args, next_arg, asked, port, pc, others, bound, accepts,
                 conns>>

\* AddrInUse: the next port is tried.
ProbeInUse ==
  /\ pc = "probe"
  /\ Available = {}
  /\ ~(overflow_checks /\ port = MaxPort)
  /\ refused' = refused \cup {port}
  /\ port' = NextPort(port)
  /\ UNCHANGED <<overflow_checks, args, next_arg, asked, pc, others, bound, accepts, conns>>

\* After the last port, a debug build panics.
ProbeOverflow ==
  /\ pc = "probe"
  /\ Available = {} /\ overflow_checks /\ port = MaxPort
  /\ Fail

\* Any other error of build_listener ends the program, in new and in run.
BuildError == pc \in {"probe", "bind"} /\ Fail

BindMutant ==   \* a bug: the workers that cannot bind are left out
  /\ pc = "bind"
  /\ IF Available = {} THEN UNCHANGED bound ELSE \E p \in Available : bound' = Append(bound, p)
  /\ pc' = IF Available = {} \/ Len(bound) + 1 >= Workers THEN "serving" ELSE "bind"
  /\ UNCHANGED <<search, others, accepts, conns>>

\* The next worker's listener, and its acceptor, which starts at once.
Bind ==
  /\ pc = "bind"
  /\ \E p \in Available : bound' = Append(bound, p)
  /\ pc' = IF Len(bound) + 1 >= Workers THEN "serving" ELSE "bind"
  /\ UNCHANGED <<search, others, accepts, conns>>

\* "worker {} failed to bind": the port was taken after it was tried.
BindInUse ==
  /\ pc = "bind"
  /\ Available = {}
  /\ Fail
-----------------------------------------------------------------------------
(* The tasks.  One that waits is run as long as a thread is left; the      *)
(* thread that is left also polls the sockets for the tasks that spin.     *)
Holding == {c \in Peers : conn[c] = "open" /\ got[c] % 2 = 1}

ThreadsMutant == 1   \* a bug: flavor = "current_thread"

\* #[tokio::main] starts as many threads as there are CPUs.
Threads == Workers

ThreadLeft == Cardinality(Holding) < Threads

AcceptOk(w) ==
  /\ ThreadLeft
  /\ w \in DOMAIN bound \ asleep
  /\ \E c \in Peers :
       /\ conn[c] = "backlog" /\ worker[c] = w
       /\ conn' = [conn EXCEPT ![c] = "open"]
  /\ UNCHANGED <<search, pc, others, bound, accepts, worker, sent, got>>

AcceptErr(w) ==
  /\ ThreadLeft
  /\ w \in DOMAIN bound \ asleep
  /\ errors < MaxErrors
  /\ errors' = errors + 1
  /\ asleep' = asleep \cup {w}
  /\ UNCHANGED <<search, pc, others, bound, conns>>

\* The ten milliseconds after an error are over.
Wake(w) ==
  /\ ThreadLeft
  /\ w \in asleep
  /\ asleep' = asleep \ {w}
  /\ UNCHANGED <<search, pc, others, bound, errors, conns>>

\* Client::handle reads some of what the peer has sent.
ReadSome(c) ==
  /\ ThreadLeft
  /\ conn[c] = "open"
  /\ \E n \in got[c] + 1 .. sent[c] :
       /\ c \in Unruly \/ n % 2 = 0
       /\ got' = [got EXCEPT ![c] = n]
  /\ UNCHANGED <<search, pc, others, bound, accepts, worker, sent>>

Handle(c) == ReadSome(c) /\ UNCHANGED conn

\* A frame makes extract_command panic: the task ends, and no other.
HandlePanic(c) ==
  /\ c \in Unruly
  /\ ReadSome(c)
  /\ got'[c] \div 2 > got[c] \div 2
  /\ conn' = [conn EXCEPT ![c] = "closed"]

\* The peer has hung up, maybe inside a frame.
HandleEnds(c) ==
  /\ ThreadLeft
  /\ conn[c] = "open"
  /\ got[c] = sent[c]
  /\ conn' = [conn EXCEPT ![c] = "closed"]
  /\ UNCHANGED <<search, pc, others, bound, accepts, worker, sent, got>>
-----------------------------------------------------------------------------
(* The outside *)
Searching == pc \in {"args", "probe", "bind"}

Grab ==
  /\ Searching /\ Cardinality(others) < MaxOthers
  /\ \E p \in Ports \ ({0} \cup others \cup Own) : others' = others \cup {p}
  /\ UNCHANGED <<search, pc, bound, accepts, conns>>

Release ==
  /\ Searching
  /\ \E p \in others : others' = others \ {p}
  /\ UNCHANGED <<search, pc, bound, accepts, conns>>

\* The kernel completes a connection and picks a listener by a hash.
Connect(c) ==
  /\ conn[c] = "new"
  /\ \E w \in DOMAIN bound : worker' = [worker EXCEPT ![c] = w]
  /\ conn' = [conn EXCEPT ![c] = "backlog"]
  /\ UNCHANGED <<search, pc, others, bound, accepts, sent, got>>

\* Whole frames, but for the unruly peers.
Send(c) ==
  /\ conn[c] \in {"backlog", "open"}
  /\ sent' = [sent EXCEPT ![c] = @ + (IF c \in Unruly THEN 1 ELSE 2)]
  /\ sent'[c] <= 2 * MaxFrames
  /\ UNCHANGED <<search, pc, others, bound, accepts, conn, worker, got>>
-----------------------------------------------------------------------------
Start ==
  \/ ParseArg \/ ArgsParsed
  \/ Probe \/ ProbeInUse \/ ProbeOverflow
  \/ Bind \/ BindInUse

Next ==
  \/ Start \/ BuildError \/ Grab \/ Release
  \/ \E w \in DOMAIN bound : AcceptOk(w) \/ AcceptErr(w) \/ Wake(w)
  \/ \E c \in Peers : Connect(c) \/ Send(c) \/ Handle(c) \/ HandlePanic(c) \/ HandleEnds(c)

Spec == Init /\ [][Next]_vars

\* Tokio runs every task that can run, and main runs to the end of run; the
\* peers and the other applications owe nothing.
FairSpec ==
  /\ Spec
  /\ WF_vars(Start)
  /\ \A w \in 1 .. Workers : WF_vars(AcceptOk(w)) /\ WF_vars(Wake(w))
  /\ \A c \in Peers : WF_vars(Handle(c))
-----------------------------------------------------------------------------
\* The value behind the last "--port"; one that is itself such a value, or the
\* last argument, is none.
Wanted(list) ==
  LET option(i) ==
        /\ list[i] = Flag
        /\ Cardinality({j \in 1 .. i - 1 : \A k \in j .. i - 1 : list[k] = Flag}) % 2 = 0
      options == {i \in 1 .. Len(list) - 1 : option(i)}
      last == CHOOSE i \in options : \A j \in options : j <= i
  IN  IF options # {} /\ list[last + 1] \in Ports THEN list[last + 1] ELSE DefaultPort

\* parse_args takes the last port that is given, and the default for one that
\* is not a u16, wherever the option stands among the arguments.
ArgsUnderstood == [][pc = "args" /\ pc' = "probe" => asked' = Wanted(args)]_vars

\* Server::new skips no port: every port between the one that was asked for and
\* the one that is announced was in use when it was tried, also when the search
\* goes on at 0 after the last port, as it does in a release build.  This is what
\* the loop, its warning (server.rs:55) and its test (tests/server.rs:20) say;
\* the comment on the function (server.rs:27-28) says something else, that a port
\* in use is returned as an error, which the code never does.
FirstFree ==
  pc \in {"probe", "bind", "serving"} =>
    IF port >= asked THEN asked .. port - 1 \subseteq refused
    ELSE (asked .. MaxPort) \cup (0 .. port - 1) \subseteq refused

\* "Ember is listening on": all listeners are on the announced port, one for
\* each worker, and no other application has it, although the port was free for
\* a moment between the try and the first bind.  (Port 0 is the exception: each
\* listener then gets a port of its own.)
ListenersAnnounced ==
  pc = "serving" /\ port # 0 =>
    port \notin others /\ bound = [w \in 1 .. Workers |-> port]

\* The search for a port ends, although other applications take and release
\* ports all the time, in a build without overflow checks too.
StartEnds == <>(pc \in {"serving", "failed"})

\* "Serve all commands arriving on 'socket'": a frame that was sent in full is
\* handled, if the peer takes its replies.  The acceptor takes the connection out of its backlog although accept
\* fails now and then, and it does not matter that other peers stop inside a
\* frame or make their tasks panic, as long as there are fewer of them than
\* threads.
Served ==
  \A c \in Peers, n \in 1 .. MaxFrames :
    sent[c] >= 2 * n ~> got[c] >= 2 * n \/ conn[c] = "closed"
=============================================================================
