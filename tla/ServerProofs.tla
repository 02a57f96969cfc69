---------------------------- MODULE ServerProofs ----------------------------
(***************************************************************************)
(* Proofs about the server process.  About its start, for any arguments,   *)
(* ports and numbers of workers: which port it takes and what listens on   *)
(* it.  About the snapshot file that the next start finds, for any number  *)
(* of saves of any sizes and any sequence of failures, stops and restarts: *)
(* with one writer at a time dump.rdb is always a whole snapshot.          *)
(***************************************************************************)
EXTENDS Server, RdbFile, TLAPS, SequenceTheorems, FiniteSetTheorems

\* The steps of the tasks and of the peers.
Serving ==
  \/ \E w \in DOMAIN bound : AcceptOk(w) \/ AcceptErr(w) \/ Wake(w)
  \/ \E c \in Peers :
       Connect(c) \/ Send(c) \/ Handle(c) \/ HandlePanic(c) \/ HandleEnds(c)

\* What the start works on.
startVars == <<asked, port, pc, others, refused, bound, args, next_arg>>

\* Serving and being served does not disturb what the start has set up.
LEMMA ServingFrame == Serving => UNCHANGED startVars
<1>1. ASSUME NEW w \in DOMAIN bound, AcceptOk(w) \/ AcceptErr(w) \/ Wake(w)
      PROVE  UNCHANGED startVars
  BY <1>1 DEF AcceptOk, AcceptErr, Wake, startVars, search
<1>2. ASSUME NEW c \in Peers,
             Connect(c) \/ Send(c) \/ Handle(c) \/ HandlePanic(c) \/ HandleEnds(c)
      PROVE  UNCHANGED startVars
  BY <1>2 DEF Connect, Send, Handle, HandlePanic, HandleEnds, ReadSome, startVars, search
<1> QED
  BY <1>1, <1>2 DEF Serving

LEMMA NextCases ==
  ASSUME [Next]_vars
  PROVE  \/ ParseArg \/ ArgsParsed \/ Probe \/ ProbeInUse \/ Bind \/ Grab \/ Release
         \/ Fail
         \/ UNCHANGED startVars
<1>1. CASE Start \/ BuildError
  BY <1>1 DEF Start, BuildError, ProbeOverflow, BindInUse
<1>2. CASE Grab \/ Release
  BY <1>2
<1>3. CASE Serving
  BY <1>3, ServingFrame
<1>4. CASE UNCHANGED vars
  BY <1>4 DEF vars, search, startVars
<1> QED
  BY <1>1, <1>2, <1>3, <1>4 DEF Next, Serving
-----------------------------------------------------------------------------
(* The search *)
SearchInv ==
  /\ args \in Seq(Int) /\ next_arg \in Nat \ {0}
  /\ asked \in Ports /\ port \in Ports
  /\ FirstFree

LEMMA SearchInit == Init => SearchInv
  BY ServerAssumption DEF Init, SearchInv, FirstFree

LEMMA ParsePortType == ASSUME NEW a PROVE ParsePort(a) \in Ports
  BY ServerAssumption DEF ParsePort

\* The next port is the one above, or 0.
LEMMA NextPortType ==
  ASSUME NEW p \in Ports
  PROVE  /\ NextPort(p) \in Ports
         /\ p < MaxPort => NextPort(p) = p + 1
         /\ p = MaxPort => NextPort(p) = 0
<1>1. MaxPort \in Nat /\ p \in Nat /\ p <= MaxPort
  BY ServerAssumption DEF Ports
<1>2. CASE p < MaxPort
  <2>1. (p + 1) % (MaxPort + 1) = p + 1
    BY <1>1, <1>2
  <2> QED
    BY <1>1, <1>2, <2>1 DEF NextPort, Ports
<1>3. CASE p = MaxPort
  <2>1. (MaxPort + 1) % (MaxPort + 1) = 0
    BY <1>1
  <2> QED
    BY <1>1, <1>3, <2>1 DEF NextPort, Ports
<1> QED
  BY <1>1, <1>2, <1>3

LEMMA SearchStep == SearchInv /\ [Next]_vars => SearchInv'
<1> SUFFICES ASSUME SearchInv, [Next]_vars PROVE SearchInv'
  OBVIOUS
<1>0. MaxPort \in Nat /\ asked \in 0 .. MaxPort /\ port \in 0 .. MaxPort
  BY ServerAssumption DEF SearchInv, Ports
<1>1. CASE ParseArg
  <2>1. port' \in Ports /\ next_arg' \in Nat \ {0} /\ args' = args /\ asked' = asked
    BY <1>1, ParsePortType DEF ParseArg, SearchInv
  <2>2. pc' = "args"
    BY <1>1 DEF ParseArg
  <2> QED
    BY <2>1, <2>2 DEF SearchInv, FirstFree
<1>2. CASE ArgsParsed
  <2>1. asked' = port /\ port' = port /\ args' = <<>> /\ next_arg' = 1
    BY <1>2 DEF ArgsParsed
  <2>2. port >= port /\ port .. port - 1 = {}
    BY <1>0
  <2>3. FirstFree'
    BY <2>1, <2>2 DEF FirstFree
  <2>4. <<>> \in Seq(Int) /\ 1 \in Nat \ {0}
    OBVIOUS
  <2> QED
    BY <2>1, <2>3, <2>4 DEF SearchInv
<1>3. CASE Probe
  BY <1>3 DEF Probe, search, SearchInv, FirstFree
<1>4. CASE ProbeInUse
  <2>1. /\ refused' = refused \cup {port} /\ port' = NextPort(port)
        /\ asked' = asked /\ args' = args /\ next_arg' = next_arg /\ pc = "probe"
    BY <1>4 DEF ProbeInUse
  <2>2. IF port >= asked THEN asked .. port - 1 \subseteq refused
        ELSE (asked .. MaxPort) \cup (0 .. port - 1) \subseteq refused
    BY <2>1 DEF SearchInv, FirstFree
  <2>3. port' \in Ports
    BY <2>1, NextPortType DEF SearchInv
  <2>4. CASE port < MaxPort
    <3>1. port' = port + 1
      BY <2>1, <2>4, NextPortType DEF SearchInv
    <3>2. CASE port >= asked
      <4>1. asked .. port \subseteq refused \cup {port}
        BY <1>0, <2>2, <3>2
      <4> QED
        BY <1>0, <2>1, <2>3, <3>1, <3>2, <4>1 DEF SearchInv, FirstFree
    <3>3. CASE port + 1 = asked
      BY <1>0, <2>1, <2>3, <3>1, <3>3 DEF SearchInv, FirstFree
    <3>4. CASE port + 1 < asked
      <4>1. (asked .. MaxPort) \cup (0 .. port) \subseteq refused \cup {port}
        BY <1>0, <2>2, <3>4
      <4> QED
        BY <1>0, <2>1, <2>3, <3>1, <3>4, <4>1 DEF SearchInv, FirstFree
    <3> QED
      BY <1>0, <3>2, <3>3, <3>4
  <2>5. CASE port = MaxPort
    <3>1. port' = 0
      BY <2>1, <2>5, NextPortType DEF SearchInv
    <3>2. asked .. MaxPort \subseteq refused \cup {port}
      BY <1>0, <2>2, <2>5
    <3>3. 0 .. 0 - 1 = {}
      OBVIOUS
    <3> QED
      BY <1>0, <2>1, <2>3, <3>1, <3>2, <3>3 DEF SearchInv, FirstFree
  <2> QED
    BY <1>0, <2>4, <2>5
<1>5. CASE Bind
  BY <1>5 DEF Bind, search, SearchInv, FirstFree
<1>6. CASE Grab \/ Release
  BY <1>6 DEF Grab, Release, search, SearchInv, FirstFree
<1>7. CASE Fail
  BY <1>7 DEF Fail, search, SearchInv, FirstFree
<1>8. CASE UNCHANGED startVars
  BY <1>8 DEF startVars, SearchInv, FirstFree
<1> QED
  BY <1>1, <1>2, <1>3, <1>4, <1>5, <1>6, <1>7, <1>8, NextCases

\* The server never passes over a port that was free when it came to it, for
\* every port that is asked for and in both builds.
THEOREM NoPortSkipped == Spec => []FirstFree
<1>1. SearchInv => FirstFree
  BY DEF SearchInv
<1> QED
  BY <1>1, SearchInit, SearchStep, PTL DEF Spec
-----------------------------------------------------------------------------
(***************************************************************************)
(* The listeners.  Between the try and the first bind nothing holds the    *)
(* port; from the first bind on the kernel refuses it to others, and every *)
(* further bind either gets the same port or ends the program.             *)
(***************************************************************************)
BindInv ==
  /\ pc \in {"args", "probe"} => bound = <<>>
  /\ bound \in Seq(Ports)
  /\ pc = "serving" => Len(bound) = Workers
  /\ pc = "bind" => Len(bound) < Workers
  /\ port # 0 => \A w \in 1 .. Len(bound) : bound[w] = port
  /\ port # 0 /\ Len(bound) > 0 => port \notin others

LEMMA BindInit == Init => BindInv
  BY DEF Init, BindInv

\* Nothing is bound.
LEMMA NothingBound ==
  ASSUME bound' = <<>>, pc' \notin {"serving", "bind"} \/ (pc' = "bind" /\ Workers > 0)
  PROVE  BindInv'
<1>1. Len(bound') = 0 /\ bound' \in Seq(Ports)
  OBVIOUS
<1> QED
  BY <1>1 DEF BindInv

LEMMA BindStep == SearchInv /\ BindInv /\ [Next]_vars => BindInv'
<1> SUFFICES ASSUME SearchInv, BindInv, [Next]_vars PROVE BindInv'
  OBVIOUS
<1>0. Len(bound) \in Nat /\ Workers \in Nat /\ Workers > 0 /\ bound \in Seq(Ports)
  BY ServerAssumption, LenProperties DEF BindInv
<1>1. CASE ParseArg \/ ArgsParsed \/ ProbeInUse
  BY <1>1, NothingBound DEF ParseArg, ArgsParsed, ProbeInUse, BindInv
<1>2. CASE Probe
  BY <1>0, <1>2, NothingBound DEF Probe, BindInv
<1>3. CASE Bind
  <2>1. PICK p \in Available : bound' = Append(bound, p)
    BY <1>3 DEF Bind
  <2>2. p \in Ports /\ (port # 0 => p = port /\ port \notin others)
    <3>1. CASE port = 0
      BY <2>1, <3>1 DEF Available
    <3>2. CASE port # 0
      <4>1. p = port /\ port \notin others
        BY <2>1, <3>2 DEF Available
      <4>2. port \in Ports
        BY DEF SearchInv
      <4> QED
        BY <4>1, <4>2
    <3> QED
      BY <3>1, <3>2
  <2>3. bound' \in Seq(Ports) /\ Len(bound') = Len(bound) + 1
    BY <1>0, <2>1, <2>2, AppendProperties
  <2>4. \A w \in 1 .. Len(bound) : bound'[w] = bound[w]
    BY <1>0, <2>1, <2>2, AppendProperties
  <2>5. bound'[Len(bound) + 1] = p
    BY <1>0, <2>1, <2>2, AppendProperties
  <2>6. port' = port /\ others' = others /\ Len(bound) < Workers
    BY <1>3 DEF Bind, BindInv, search
  <2>7. pc' = IF Len(bound) + 1 >= Workers THEN "serving" ELSE "bind"
    BY <1>3 DEF Bind
  <2>8. port # 0 => \A w \in 1 .. Len(bound') : bound'[w] = port
    BY <1>0, <2>2, <2>3, <2>4, <2>5 DEF BindInv
  <2> QED
    BY <1>0, <2>2, <2>3, <2>6, <2>7, <2>8 DEF BindInv
<1>4. CASE Grab
  <2>1. PICK p \in Ports \ ({0} \cup others \cup Own) : others' = others \cup {p}
    BY <1>4 DEF Grab
  <2>2. ASSUME port # 0, Len(bound) > 0 PROVE port \notin others'
    <3>1. bound[1] = port /\ 1 \in DOMAIN bound
      BY <1>0, <2>2, LenProperties DEF BindInv
    <3>2. port \in Own
      BY <3>1 DEF Own
    <3> QED
      BY <2>1, <2>2, <3>2 DEF BindInv
  <2> QED
    BY <1>4, <2>2 DEF Grab, search, BindInv
<1>5. CASE Release
  BY <1>5 DEF Release, search, BindInv
<1>6. CASE Fail
  BY <1>6, NothingBound DEF Fail
<1>7. CASE UNCHANGED startVars
  BY <1>7 DEF startVars, BindInv
<1> QED
  BY <1>1, <1>2, <1>3, <1>4, <1>5, <1>6, <1>7, NextCases

LEMMA BindGoal == BindInv => ListenersAnnounced
<1> SUFFICES ASSUME BindInv, pc = "serving", port # 0
             PROVE  port \notin others /\ bound = [w \in 1 .. Workers |-> port]
  BY DEF ListenersAnnounced
<1>1. Len(bound) = Workers /\ Workers > 0 /\ port \notin others
  BY ServerAssumption DEF BindInv
<1>2. bound \in [1 .. Workers -> Ports]
  BY <1>1, LenProperties DEF BindInv
<1>3. \A w \in 1 .. Workers : bound[w] = port
  BY <1>1 DEF BindInv
<1> QED
  BY <1>1, <1>2, <1>3

\* When the server says that it listens, all of its workers listen on the port
\* that it names and nobody else does, for every number of workers.
THEOREM AllWorkersListen == Spec => []ListenersAnnounced
  BY SearchInit, SearchStep, BindInit, BindStep, BindGoal, PTL DEF Spec
-----------------------------------------------------------------------------
(* The arguments *)

\* The flags that stand next to each other in front of i.
Run(list, i) == {j \in 1 .. i - 1 : \A k \in j .. i - 1 : list[k] = Flag}

IsOption(list, i) == list[i] = Flag /\ Cardinality(Run(list, i)) % 2 = 0

\* The options in front of n, and the port that the last of them asks for.
OptionsBefore(list, n) == {i \in 1 .. Len(list) - 1 : i < n /\ IsOption(list, i)}

Choice(list, S) ==
  LET last == CHOOSE i \in S : \A j \in S : j <= i
  IN  IF S # {} /\ list[last + 1] \in Ports THEN list[last + 1] ELSE DefaultPort

(***************************************************************************)
(* The loop of parse_args stands at an argument that is not the value of   *)
(* an option, so a flag there is an option just if an even number of flags *)
(* stands in front of it; and port is what the options so far ask for.     *)
(***************************************************************************)
ArgsInv ==
  pc = "args" =>
    /\ next_arg <= Len(args) + 1
    /\ next_arg <= Len(args) => Cardinality(Run(args, next_arg)) % 2 = 0
    /\ port = Choice(args, OptionsBefore(args, next_arg))

LEMMA WantedIsChoice ==
  ASSUME NEW list \in Seq(Int), NEW n \in Nat, n > Len(list)
  PROVE  Wanted(list) = Choice(list, OptionsBefore(list, n))
<1> DEFINE S == {i \in 1 .. Len(list) - 1 : IsOption(list, i)}
<1>1. Wanted(list) = Choice(list, S)
  BY Zenon DEF Wanted, Choice, IsOption, Run
<1>2. \A i \in 1 .. Len(list) - 1 : i < n
  OBVIOUS
<1>3. OptionsBefore(list, n) = S
  BY <1>2, Zenon DEF OptionsBefore
<1> QED
  BY <1>1, <1>3

LEMMA RunGrows ==
  ASSUME NEW list, NEW n \in Nat \ {0}
  PROVE  /\ IsFiniteSet(Run(list, n)) /\ Cardinality(Run(list, n)) \in Nat
         /\ list[n] # Flag => Cardinality(Run(list, n + 1)) = 0
         /\ list[n] = Flag => Cardinality(Run(list, n + 1)) = Cardinality(Run(list, n)) + 1
<1> DEFINE R == Run(list, n)
<1>1. IsFiniteSet(R)
  <2>1. IsFiniteSet(1 .. n - 1)
    BY FS_Interval
  <2>2. R \in SUBSET (1 .. n - 1)
    BY Zenon DEF Run
  <2> HIDE DEF R
  <2> QED
    BY <2>1, <2>2, FS_Subset
<1>2. Cardinality(R) \in Nat
  <2> HIDE DEF R
  <2> QED
    BY <1>1, FS_CardinalityType
<1>3. ASSUME list[n] # Flag PROVE Run(list, n + 1) = {}
  <2>1. ASSUME NEW j \in Run(list, n + 1) PROVE FALSE
    <3>1. j \in 1 .. (n + 1) - 1 /\ \A k \in j .. (n + 1) - 1 : list[k] = Flag
      BY <2>1, Zenon DEF Run
    <3>2. n \in j .. (n + 1) - 1
      BY <3>1
    <3> QED
      BY <1>3, <3>1, <3>2, Zenon
  <2> QED
    BY <2>1
<1>4. ASSUME list[n] = Flag PROVE Run(list, n + 1) = R \cup {n} /\ n \notin R
  <2>1. (n + 1) - 1 = n /\ n \notin 1 .. n - 1
    OBVIOUS
  <2>2. \A j \in 1 .. n : (j \in 1 .. n - 1 \/ j = n) /\ j .. n = (j .. n - 1) \cup {n}
    OBVIOUS
  <2>3. Run(list, n + 1) = {j \in 1 .. n : \A k \in j .. n : list[k] = Flag}
    BY <2>1, Zenon DEF Run
  <2>4. \A j : j \in Run(list, n + 1) <=> j \in R \/ j = n
    <3>1. ASSUME NEW j \in Run(list, n + 1) PROVE j \in R \/ j = n
      <4>1. j \in 1 .. n /\ \A k \in j .. n : list[k] = Flag
        BY <2>3, <3>1, Zenon
      <4>2. \A k \in j .. n - 1 : list[k] = Flag
        BY <2>2, <4>1, Zenon
      <4> QED
        BY <2>2, <4>1, <4>2, Zenon DEF Run
    <3>2. n \in Run(list, n + 1)
      <4>1. n \in 1 .. n /\ \A k \in n .. n : k = n
        OBVIOUS
      <4> QED
        BY <1>4, <2>3, <4>1, Zenon
    <3>3. ASSUME NEW j \in R PROVE j \in Run(list, n + 1)
      <4>1. j \in 1 .. n - 1 /\ \A k \in j .. n - 1 : list[k] = Flag
        BY <3>3, Zenon DEF Run
      <4>2. j \in 1 .. n
        BY <4>1
      <4>3. \A k \in j .. n : list[k] = Flag
        BY <1>4, <2>2, <4>1, <4>2, Zenon
      <4> QED
        BY <2>3, <4>2, <4>3, Zenon
    <3> QED
      BY <3>1, <3>2, <3>3, Zenon
  <2>5. n \notin R
    BY <2>1, Zenon DEF Run
  <2> HIDE DEF R
  <2> QED
    BY <2>4, <2>5
<1> HIDE DEF R
<1>5. ASSUME list[n] # Flag PROVE Cardinality(Run(list, n + 1)) = 0
  BY <1>3, <1>5, FS_EmptySet, Zenon
<1>6. ASSUME list[n] = Flag PROVE Cardinality(Run(list, n + 1)) = Cardinality(R) + 1
  <2>1. Cardinality(R \cup {n}) = IF n \in R THEN Cardinality(R) ELSE Cardinality(R) + 1
    BY <1>1, FS_AddElement
  <2> QED
    BY <1>4, <1>6, <2>1, Zenon
<1> QED
  BY <1>1, <1>2, <1>5, <1>6, Zenon DEF R

\* An argument that is no option changes nothing.
LEMMA PassedOver ==
  ASSUME NEW list \in Seq(Int), NEW n \in 1 .. Len(list), ~(list[n] = Flag /\ n < Len(list))
  PROVE  /\ n + 1 <= Len(list) => Cardinality(Run(list, n + 1)) % 2 = 0
         /\ OptionsBefore(list, n + 1) = OptionsBefore(list, n)
<1>0. Len(list) \in Nat /\ n \in Nat \ {0}
  OBVIOUS
<1>1. ASSUME n + 1 <= Len(list) PROVE Cardinality(Run(list, n + 1)) % 2 = 0
  <2>1. list[n] # Flag
    BY <1>0, <1>1
  <2>2. Cardinality(Run(list, n + 1)) = 0
    BY <1>0, <2>1, RunGrows, Zenon
  <2> QED
    BY <2>2
<1>2. \A i \in 1 .. Len(list) - 1 : i < n + 1 <=> i < n \/ i = n
  BY <1>0
<1>3. ~(n \in 1 .. Len(list) - 1 /\ IsOption(list, n))
  <2>1. n \in 1 .. Len(list) - 1 => n < Len(list)
    BY <1>0
  <2> QED
    BY <2>1, Zenon DEF IsOption
<1>4. OptionsBefore(list, n + 1) = OptionsBefore(list, n)
  BY <1>2, <1>3, Zenon DEF OptionsBefore
<1> QED
  BY <1>1, <1>4

\* An option is the last so far, and its value is none even if it is a flag.
LEMMA Obeyed ==
  ASSUME NEW list \in Seq(Int), NEW n \in 1 .. Len(list), n < Len(list), list[n] = Flag,
         Cardinality(Run(list, n)) % 2 = 0
  PROVE  /\ n + 2 <= Len(list) => Cardinality(Run(list, n + 2)) % 2 = 0
         /\ Choice(list, OptionsBefore(list, n + 2)) = ParsePort(list[n + 1])
<1> DEFINE c == Cardinality(Run(list, n))
           S == OptionsBefore(list, n + 2)
<1>0. Len(list) \in Nat /\ n \in Nat \ {0} /\ n + 1 \in Nat \ {0} /\ (n + 1) + 1 = n + 2
  OBVIOUS
<1>1. c \in Nat /\ c % 2 = 0 /\ Cardinality(Run(list, n + 1)) = c + 1
  BY <1>0, RunGrows, Zenon
<1> HIDE DEF c
<1>2. (c + 1) % 2 # 0 /\ (c + 1 + 1) % 2 = 0 /\ 0 % 2 = 0
  BY <1>1
<1>3. Cardinality(Run(list, n + 2)) \in {0, c + 1 + 1}
  <2>1. \/ Cardinality(Run(list, (n + 1) + 1)) = 0
        \/ Cardinality(Run(list, (n + 1) + 1)) = Cardinality(Run(list, n + 1)) + 1
    BY <1>0, RunGrows, Zenon
  <2> QED
    BY <1>0, <1>1, <2>1, Zenon
<1>4. Cardinality(Run(list, n + 2)) % 2 = 0
  BY <1>2, <1>3, Zenon
<1>5. ~IsOption(list, n + 1)
  BY <1>1, <1>2, Zenon DEF IsOption
<1>6. n \in S
  <2>1. n \in 1 .. Len(list) - 1 /\ n < n + 2
    BY <1>0
  <2> QED
    BY <1>1, <2>1, Zenon DEF OptionsBefore, IsOption, c
<1>7. \A j \in S : j <= n
  <2> TAKE j \in S
  <2>1. j \in 1 .. Len(list) - 1 /\ j < n + 2 /\ IsOption(list, j)
    BY Zenon DEF OptionsBefore
  <2>2. j # n + 1
    BY <1>5, <2>1, Zenon
  <2> QED
    BY <1>0, <2>1, <2>2
<1>8. S \subseteq Nat
  <2>1. S \subseteq 1 .. Len(list) - 1
    BY Zenon DEF OptionsBefore
  <2> QED
    BY <1>0, <2>1
<1> HIDE DEF S
<1> DEFINE last == CHOOSE i \in S : \A j \in S : j <= i
<1>9. last = n
  <2>1. last \in S /\ \A j \in S : j <= last
    BY <1>6, <1>7, Zenon
  <2>2. last <= n /\ n <= last /\ last \in Nat
    BY <1>6, <1>7, <1>8, <2>1, Zenon
  <2> HIDE DEF last
  <2> QED
    BY <1>0, <2>2
<1>10. Choice(list, S) = IF S # {} /\ list[n + 1] \in Ports THEN list[n + 1] ELSE DefaultPort
  <2>1. Choice(list, S) =
          IF S # {} /\ list[last + 1] \in Ports THEN list[last + 1] ELSE DefaultPort
    BY Zenon DEF Choice
  <2> HIDE DEF last
  <2> QED
    BY <1>9, <2>1
<1>11. Choice(list, S) = ParsePort(list[n + 1])
  BY <1>6, <1>10, Zenon DEF ParsePort
<1> QED
  BY <1>4, <1>11, Zenon DEF S

LEMMA ArgsInit == Init => ArgsInv
<1> SUFFICES ASSUME Init PROVE ArgsInv
  OBVIOUS
<1>1. args \in Arguments /\ next_arg = 1 /\ port = DefaultPort
  BY Zenon DEF Init
<1>2. args \in Seq(Int)
  BY <1>1, ServerAssumption
<1>3. next_arg <= Len(args) + 1
  BY <1>1, <1>2
<1>4. Run(args, 1) = {} /\ OptionsBefore(args, 1) = {}
  <2>1. 1 .. 1 - 1 = {}
    OBVIOUS
  <2>2. \A i \in 1 .. Len(args) - 1 : ~(i < 1)
    OBVIOUS
  <2> QED
    BY <2>1, <2>2, Zenon DEF Run, OptionsBefore
<1>5. Cardinality(Run(args, 1)) % 2 = 0
  BY <1>4, FS_EmptySet
<1>6. Choice(args, OptionsBefore(args, 1)) = DefaultPort
  BY <1>4, Zenon DEF Choice
<1> QED
  BY <1>1, <1>3, <1>5, <1>6, Zenon DEF ArgsInv

LEMMA ArgsStep == SearchInv /\ ArgsInv /\ [Next]_vars => ArgsInv'
<1> SUFFICES ASSUME SearchInv, ArgsInv, [Next]_vars, pc' = "args" PROVE ArgsInv'
  BY DEF ArgsInv
<1>1. CASE ParseArg
  <2>1. pc = "args" /\ next_arg <= Len(args) /\ args' = args
    BY <1>1, Zenon DEF ParseArg
  <2>2. args \in Seq(Int) /\ next_arg \in Nat \ {0}
    BY Zenon DEF SearchInv
  <2>3. next_arg \in 1 .. Len(args)
    BY <2>1, <2>2
  <2>4. Cardinality(Run(args, next_arg)) % 2 = 0
        /\ port = Choice(args, OptionsBefore(args, next_arg))
    BY <2>1, Zenon DEF ArgsInv
  <2>5. CASE args[next_arg] = Flag /\ next_arg < Len(args)
    <3>1. port' = ParsePort(args[next_arg + 1]) /\ next_arg' = next_arg + 2
      BY <1>1, <2>5, Zenon DEF ParseArg
    <3>2. next_arg + 2 <= Len(args) + 1
      BY <2>2, <2>5
    <3>3. /\ next_arg + 2 <= Len(args) => Cardinality(Run(args, next_arg + 2)) % 2 = 0
          /\ Choice(args, OptionsBefore(args, next_arg + 2)) = ParsePort(args[next_arg + 1])
      BY <2>2, <2>3, <2>4, <2>5, Obeyed, Zenon
    <3> QED
      BY <2>1, <3>1, <3>2, <3>3, Zenon DEF ArgsInv
  <2>6. CASE ~(args[next_arg] = Flag /\ next_arg < Len(args))
    <3>1. port' = port /\ next_arg' = next_arg + 1
      BY <1>1, <2>6, Zenon DEF ParseArg
    <3>2. next_arg + 1 <= Len(args) + 1
      BY <2>1, <2>2
    <3>3. /\ next_arg + 1 <= Len(args) => Cardinality(Run(args, next_arg + 1)) % 2 = 0
          /\ OptionsBefore(args, next_arg + 1) = OptionsBefore(args, next_arg)
      BY <2>2, <2>3, <2>6, PassedOver, Zenon
    <3> QED
      BY <2>1, <2>4, <3>1, <3>2, <3>3, Zenon DEF ArgsInv
  <2> QED
    BY <2>5, <2>6, Zenon
<1>2. ASSUME UNCHANGED <<pc, args, next_arg, port>> PROVE ArgsInv'
  BY <1>2, Zenon DEF ArgsInv
<1>3. CASE Grab \/ Release
  BY <1>2, <1>3, Zenon DEF Grab, Release, search
<1>4. CASE ArgsParsed \/ Probe \/ ProbeInUse \/ Bind \/ Fail
  <2>1. pc' # "args"
    BY <1>4 DEF ArgsParsed, Probe, ProbeInUse, Bind, Fail
  <2> QED
    BY <2>1, Zenon
<1>5. CASE UNCHANGED startVars
  BY <1>2, <1>5, Zenon DEF startVars
<1> QED
  BY <1>1, <1>3, <1>4, <1>5, NextCases, Zenon

\* The one pass of parse_args, which skips the value of an option without
\* looking at it, finds the last port that is asked for in every argument list.
THEOREM LastPortWins == Spec => ArgsUnderstood
<1>1. SearchInv /\ ArgsInv /\ [Next]_vars =>
        [pc = "args" /\ pc' = "probe" => asked' = Wanted(args)]_vars
  <2> SUFFICES ASSUME SearchInv, ArgsInv, [Next]_vars, pc = "args", pc' = "probe"
               PROVE  asked' = Wanted(args)
    BY Zenon
  <2>1. CASE ArgsParsed
    <3>1. asked' = port /\ next_arg > Len(args)
      BY <2>1, Zenon DEF ArgsParsed
    <3>2. args \in Seq(Int) /\ next_arg \in Nat
      BY DEF SearchInv
    <3>3. port = Choice(args, OptionsBefore(args, next_arg))
      BY Zenon DEF ArgsInv
    <3>4. Wanted(args) = Choice(args, OptionsBefore(args, next_arg))
      BY <3>1, <3>2, WantedIsChoice, Zenon
    <3> QED
      BY <3>1, <3>3, <3>4, Zenon
  <2>2. CASE ParseArg \/ Probe \/ ProbeInUse \/ Bind \/ Grab \/ Release \/ Fail
    <3>1. pc' = pc \/ pc # "args" \/ pc' = "failed"
      BY <2>2 DEF ParseArg, Probe, ProbeInUse, Bind, Grab, Release, Fail
    <3> QED
      BY <3>1
  <2>3. CASE UNCHANGED startVars
    <3>1. pc' = pc
      BY <2>3, Zenon DEF startVars
    <3> QED
      BY <3>1
  <2> QED
    BY <2>1, <2>2, <2>3, NextCases, Zenon
<1>2. Init => SearchInv /\ ArgsInv
  BY SearchInit, ArgsInit, Zenon
<1>3. SearchInv /\ ArgsInv /\ [Next]_vars => (SearchInv /\ ArgsInv)'
  BY SearchStep, ArgsStep, Zenon
<1> QED
  BY <1>1, <1>2, <1>3, PTL DEF Spec, ArgsUnderstood
-----------------------------------------------------------------------------
(* The snapshot file *)

\* The serialization of a snapshot is a sequence of blocks.
LEMMA ImageType ==
  ASSUME NEW n \in Snapshots
  PROVE  /\ Image(n) \in Seq(Block \cup {Hole})
         /\ Len(Image(n)) = Blocks[n]
         /\ \A i \in 1 .. Blocks[n] : Image(n)[i] \in Block
<1>1. \A i \in 1 .. Blocks[n] : [snapshot |-> n, part |-> i] \in Block
  BY FileAssumption DEF Block, Snapshots
<1>2. Blocks[n] \in Nat
  BY FileAssumption
<1>3. Image(n) \in [1 .. Blocks[n] -> Block \cup {Hole}]
  BY <1>1 DEF Image
<1>4. Image(n) \in Seq(Block \cup {Hole})
  BY <1>2, <1>3
<1>5. Len(Image(n)) = Blocks[n]
  BY <1>2, <1>4, LenProperties DEF Image
<1> QED
  BY <1>1, <1>4, <1>5 DEF Image

\* A write keeps a sequence of blocks a sequence of blocks.
LEMMA WriteAtType ==
  ASSUME NEW s \in Seq(Block \cup {Hole}), NEW o \in Nat, NEW b \in Block
  PROVE  WriteAt(s, o, b) \in Seq(Block \cup {Hole})
<1> DEFINE m == IF o < Len(s) THEN Len(s) ELSE o + 1
<1>1. m \in Nat
  BY LenProperties
<1>2. WriteAt(s, o, b) \in [1 .. m -> Block \cup {Hole}]
  BY ElementOfSeq DEF WriteAt
<1> QED
  BY <1>1, <1>2

LEMMA FileTypeInit == FileInit => TypeOK
<1> SUFFICES ASSUME FileInit PROVE TypeOK
  OBVIOUS
<1>1. 0 \in Snapshots /\ 0 \in Inodes
  BY FileAssumption DEF Snapshots, Inodes
<1>2. Image(0) \in Seq(Block \cup {Hole})
  BY <1>1, ImageType
<1>3. <<>> \in Seq(Block \cup {Hole})
  OBVIOUS
<1>4. files \in [Inodes -> Seq(Block \cup {Hole})]
  BY <1>2, <1>3 DEF FileInit
<1> QED
  BY <1>1, <1>4, FileAssumption DEF FileInit, TypeOK

LEMMA FileTypeStep == TypeOK /\ [FileNext]_fileVars => TypeOK'
<1> SUFFICES ASSUME TypeOK, [FileNext]_fileVars PROVE TypeOK'
  OBVIOUS
<1> USE FileAssumption
<1>1. CASE Save
  <2>1. saves + 1 \in Saves /\ saves + 1 \in 0 .. MaxSaves
    BY <1>1 DEF Save, TypeOK, Saves
  <2> QED
    BY <1>1, <2>1 DEF Save, TypeOK
<1>2. CASE Crash
  BY <1>2 DEF Crash, TypeOK, Running
<1>3. CASE Restart
  <2>1. server' \in {"up", "panicked"}
    BY <1>3 DEF Restart, Starts
  <2> QED
    BY <1>3, <2>1 DEF Restart, TypeOK
<1>4. ASSUME NEW n \in Saves, Create(n) PROVE TypeOK'
  <2>1. n \in Inodes
    BY DEF Saves, Inodes
  <2>2. tmp' \in Inodes
    BY <1>4, <2>1 DEF Create, TypeOK
  <2> QED
    <3>1. files' \in [Inodes -> Seq(Block \cup {Hole})]
      BY <1>4, <2>2 DEF Create, TypeOK
    <3>2. writer' \in [Saves -> [pc  : {"unborn", "create", "write", "done", "failed"},
                                 fd  : Inodes \cup {NoFile},
                                 off : Nat]]
      BY <1>4, <2>2 DEF Create, TypeOK
    <3> QED
      BY <1>4, <2>2, <3>1, <3>2 DEF Create, TypeOK
<1>5. ASSUME NEW n \in Saves, Write(n) PROVE TypeOK'
  <2>1. n \in Snapshots
    BY DEF Saves, Snapshots
  <2>2. writer[n].off \in Nat /\ Blocks[n] \in Nat
    BY <2>1 DEF TypeOK
  <2>3. Image(n)[writer[n].off + 1] \in Block
    BY <1>5, <2>1, <2>2, ImageType DEF Write
  <2>4. files' \in [Inodes -> Seq(Block \cup {Hole})]
    BY <1>5, <2>2, <2>3, WriteAtType DEF Write, TypeOK
  <2>5. writer[n].off + 1 \in Nat
    BY <2>2
  <2>6. writer' = [writer EXCEPT ![n].off = writer[n].off + 1]
    BY <1>5 DEF Write
  <2>7. writer' \in [Saves -> [pc  : {"unborn", "create", "write", "done", "failed"},
                              fd  : Inodes \cup {NoFile},
                              off : Nat]]
    BY <2>5, <2>6 DEF TypeOK
  <2> QED
    BY <1>5, <2>4, <2>7 DEF Write, TypeOK
<1>6. ASSUME NEW n \in Saves, Rename(n) PROVE TypeOK'
  BY <1>6 DEF Rename, TypeOK
<1>7. ASSUME NEW n \in Saves, SaveFails(n) PROVE TypeOK'
  BY <1>7 DEF SaveFails, TypeOK
<1>8. CASE UNCHANGED fileVars
  BY <1>8 DEF fileVars, TypeOK
<1> QED
  BY <1>1, <1>2, <1>3, <1>4, <1>5, <1>6, <1>7, <1>8 DEF FileNext

\* The types hold for any number of saves and any overlap of their writers.
THEOREM FileTypes == FileSpec => []TypeOK
  BY FileTypeInit, FileTypeStep, PTL DEF FileSpec
-----------------------------------------------------------------------------
(***************************************************************************)
(* One writer at a time.  DumpIntact is not inductive: it needs to know    *)
(* that the one running writer is the one of the last SAVE, that it writes *)
(* the file of the temporary name, which is never the file named dump.rdb, *)
(* and that this file holds the part of its image written so far.          *)
(***************************************************************************)
OneWriter ==
  /\ \A n \in Saves : n > saves => writer[n].pc = "unborn"
  /\ \A n \in Saves : Running(n) => n = saves

\* What a writer that has the file open has written.
Written ==
  \A n \in Saves : writer[n].pc = "write" =>
    /\ tmp # NoFile
    /\ writer[n].fd = tmp
    /\ writer[n].off <= Blocks[n]
    /\ Len(files[tmp]) = writer[n].off
    /\ \A i \in 1 .. writer[n].off : files[tmp][i] = Image(n)[i]

\* Names are of distinct files, and the file a writer would make is unnamed.
Names ==
  /\ tmp # NoFile => tmp # dump
  /\ \A n \in Saves : writer[n].pc \in {"unborn", "create"} => tmp # n /\ dump # n

FInv ==
  /\ TypeOK
  /\ OneWriter
  /\ Written
  /\ Names
  /\ DumpIntact
  /\ NewestSurvives

LEMMA FInvInit == FileInit => FInv
<1> SUFFICES ASSUME FileInit PROVE FInv
  OBVIOUS
<1>1. TypeOK
  BY FileTypeInit
<1>2. \A n \in Saves : writer[n].pc = "unborn"
  BY DEF FileInit
<1>3. OneWriter /\ Written /\ NewestSurvives
  BY <1>2 DEF OneWriter, Written, NewestSurvives, Running
<1>4. Names
  <2>1. 0 \notin Saves /\ NoFile \notin Saves
    BY FileAssumption DEF Saves
  <2> QED
    BY <2>1 DEF FileInit, Names
<1>5. DumpIntact
  <2>1. 0 \in Inodes /\ 0 \in Snapshots
    BY FileAssumption DEF Inodes, Snapshots
  <2>2. dump # NoFile => dump = 0 /\ files[0] = Image(0)
    BY <2>1, FileAssumption DEF FileInit
  <2> QED
    BY <2>1, <2>2 DEF DumpIntact, Intact
<1> QED
  BY <1>1, <1>3, <1>4, <1>5 DEF FInv

\* Nothing that leaves the file named dump.rdb alone can tear it.
LEMMA DumpFrame ==
  ASSUME DumpIntact, NewestSurvives, dump' = dump,
         dump # NoFile => files'[dump] = files[dump],
         \A n \in Saves : writer[n]'.pc = "done" => writer[n].pc = "done"
  PROVE  DumpIntact' /\ NewestSurvives' /\ DumpContent' = DumpContent
<1>1. DumpContent' = DumpContent
  BY DEF DumpContent
<1>2. DumpIntact'
  BY DEF DumpIntact, Intact
<1>3. NewestSurvives'
  BY <1>1 DEF NewestSurvives
<1> QED
  BY <1>1, <1>2, <1>3

\* Two sequences with the same length and elements are equal.
LEMMA WholeImage ==
  ASSUME NEW n \in Snapshots, NEW s \in Seq(Block \cup {Hole}),
         Len(s) = Blocks[n], \A i \in 1 .. Blocks[n] : s[i] = Image(n)[i]
  PROVE  s = Image(n)
  BY ImageType, SeqEqual
\* What one step does to dump.rdb: nothing, or a finished writer's snapshot.
DumpStep ==
  DumpContent' # DumpContent =>
    \E n \in Saves : Rename(n) /\ DumpContent' = Image(n)

\* Steps that touch no file: SAVE, a failure, a stop, a start.
LEMMA QuietStep ==
  ASSUME FInv, TypeOK', UNCHANGED <<files, dump, tmp>>, OneWriter',
         \A n \in Saves : writer[n]'.pc \in {"unborn", "create", "write", "done"} =>
           \/ writer'[n] = writer[n]
           \/ writer[n].pc = "unborn" /\ writer'[n].pc = "create"
  PROVE  FInv' /\ DumpStep
<1>1. DumpIntact' /\ NewestSurvives' /\ DumpContent' = DumpContent
  BY DumpFrame DEF FInv
<1>2. Written'
  BY DEF FInv, Written
<1>3. Names'
  BY DEF FInv, Names
<1> QED
  BY <1>1, <1>2, <1>3 DEF FInv, DumpStep

LEMMA CreateStep ==
  ASSUME FInv, TypeOK', NEW n \in Saves, Create(n)
  PROVE  FInv' /\ DumpStep
<1> USE FileAssumption
<1>1. n \in Inodes /\ n # NoFile /\ n = saves
  BY DEF Saves, Inodes, Create, FInv, OneWriter, Running
<1>2. tmp' \in Inodes /\ tmp' # NoFile /\ tmp' # dump
  BY <1>1 DEF Create, FInv, Names, TypeOK, Inodes
<1>3. writer' = [writer EXCEPT ![n] = [pc |-> "write", fd |-> tmp', off |-> 0]]
  BY DEF Create
<1>4. files' = [files EXCEPT ![tmp'] = <<>>] /\ UNCHANGED <<dump, saves>>
  BY DEF Create
<1>5. /\ writer'[n] = [pc |-> "write", fd |-> tmp', off |-> 0]
      /\ \A m \in Saves \ {n} : writer'[m] = writer[m]
      /\ \A m \in Saves \ {n} : ~Running(m)
  BY <1>1, <1>3 DEF FInv, TypeOK, OneWriter
<1>6. OneWriter'
  BY <1>1, <1>4, <1>5 DEF FInv, OneWriter, Running, Saves
<1>7. Written'
  <2>1. files'[tmp'] = <<>>
    BY <1>2, <1>4 DEF FInv, TypeOK
  <2>2. n \in Snapshots /\ 0 <= Blocks[n]
    BY DEF Saves, Snapshots
  <2>3. Len(<<>>) = 0 /\ 1 .. 0 = {}
    OBVIOUS
  <2> SUFFICES ASSUME NEW m \in Saves, writer'[m].pc = "write"
               PROVE  /\ tmp' # NoFile
                      /\ writer'[m].fd = tmp'
                      /\ writer'[m].off <= Blocks[m]
                      /\ Len(files'[tmp']) = writer'[m].off
                      /\ \A i \in 1 .. writer'[m].off : files'[tmp'][i] = Image(m)'[i]
    BY Zenon DEF Written
  <2>4. m = n
    BY <1>5, Zenon DEF Running
  <2>5. writer'[m].fd = tmp' /\ writer'[m].off = 0
    BY <1>5, <2>4
  <2> QED
    BY <1>2, <2>1, <2>2, <2>3, <2>4, <2>5
<1>8. Names'
  BY <1>1, <1>2, <1>4, <1>5 DEF FInv, Names, Running, Create
<1>9. dump # NoFile => files'[dump] = files[dump]
  BY <1>2, <1>4 DEF FInv, TypeOK
<1>10. DumpIntact' /\ NewestSurvives' /\ DumpContent' = DumpContent
  <2>1. ASSUME NEW m \in Saves, writer[m]'.pc = "done" PROVE writer[m].pc = "done"
    <3>1. writer'[n].pc # "done"
      BY <1>5
    <3> QED
      BY <1>5, <2>1, <3>1, Zenon
  <2>2. DumpIntact /\ NewestSurvives /\ dump' = dump
    BY <1>4, Zenon DEF FInv
  <2> QED
    BY <1>9, <2>1, <2>2, DumpFrame, Zenon
<1> QED
  BY <1>6, <1>7, <1>8, <1>10 DEF FInv, DumpStep

LEMMA WriteStep ==
  ASSUME FInv, TypeOK', NEW n \in Saves, Write(n)
  PROVE  FInv' /\ DumpStep
<1> USE FileAssumption
<1> DEFINE o == writer[n].off
<1>1. n = saves /\ n \in Snapshots /\ o \in Nat /\ Blocks[n] \in Nat /\ o < Blocks[n]
  BY DEF Saves, Snapshots, Write, FInv, OneWriter, Running, TypeOK
<1>2. tmp \in Inodes /\ tmp # dump /\ writer[n].fd = tmp /\ Len(files[tmp]) = o
  BY DEF Write, FInv, Names, Written, TypeOK
<1>3. /\ files' = [files EXCEPT ![tmp] = WriteAt(@, o, Image(n)[o + 1])]
      /\ writer' = [writer EXCEPT ![n].off = o + 1]
      /\ UNCHANGED <<dump, tmp, saves>>
  BY <1>2 DEF Write
<1>4. /\ writer'[n] = [writer[n] EXCEPT !.off = o + 1]
      /\ \A m \in Saves \ {n} : writer'[m] = writer[m]
      /\ \A m \in Saves \ {n} : ~Running(m)
  BY <1>1, <1>3 DEF FInv, TypeOK, OneWriter
<1>5. writer'[n].pc = "write" /\ writer'[n].fd = tmp /\ writer'[n].off = o + 1
  BY <1>2, <1>4 DEF FInv, TypeOK, Write
<1>6. OneWriter'
  BY <1>1, <1>3, <1>4, <1>5 DEF FInv, OneWriter, Running, Write
<1>7. Written'
  <2> DEFINE s == WriteAt(files[tmp], o, Image(n)[o + 1])
  <2>1. files'[tmp] = s
    BY <1>2, <1>3 DEF FInv, TypeOK
  <2>2. s = [i \in 1 .. o + 1 |->
               IF i = o + 1 THEN Image(n)[o + 1] ELSE IF i <= o THEN files[tmp][i] ELSE Hole]
    BY <1>1, <1>2 DEF WriteAt
  <2>3. s \in Seq(Block \cup {Hole})
    BY <1>2, <2>1 DEF TypeOK
  <2>4. Len(s) = o + 1
    BY <1>1, <2>2, <2>3, LenProperties
  <2>5. \A i \in 1 .. o : files[tmp][i] = Image(n)[i]
    BY DEF FInv, Written, Write
  <2>6. \A i \in 1 .. o + 1 : s[i] = Image(n)[i]
    BY <1>1, <2>2, <2>5
  <2>7. o + 1 <= Blocks[n]
    BY <1>1
  <2> HIDE DEF s
  <2>8. tmp' = tmp /\ tmp # NoFile
    BY <1>2, <1>3 DEF Inodes
  <2>9. ASSUME NEW m \in Saves, writer'[m].pc = "write"
        PROVE  m = n
    BY <1>4, <2>9 DEF Running
  <2>10. /\ writer'[n].fd = tmp' /\ Len(files'[tmp']) = writer'[n].off
         /\ writer'[n].off <= Blocks[n]
         /\ \A i \in 1 .. writer'[n].off : files'[tmp'][i] = Image(n)[i]
    BY <1>5, <2>1, <2>4, <2>6, <2>7, <2>8
  <2> QED
    BY <2>8, <2>9, <2>10 DEF Written
<1>8. Names'
  BY <1>3, <1>4, <1>5 DEF FInv, Names
<1>9. dump # NoFile => files'[dump] = files[dump]
  BY <1>2, <1>3 DEF FInv, TypeOK
<1>10. DumpIntact' /\ NewestSurvives' /\ DumpContent' = DumpContent
  <2>1. ASSUME NEW m \in Saves, writer[m]'.pc = "done" PROVE writer[m].pc = "done"
    <3>1. writer'[n].pc # "done"
      BY <1>5
    <3> QED
      BY <1>4, <2>1, <3>1, Zenon
  <2>2. DumpIntact /\ NewestSurvives /\ dump' = dump
    BY <1>3, Zenon DEF FInv
  <2> QED
    BY <1>9, <2>1, <2>2, DumpFrame, Zenon
<1> QED
  BY <1>6, <1>7, <1>8, <1>10 DEF FInv, DumpStep
LEMMA RenameStep ==
  ASSUME FInv, TypeOK', NEW n \in Saves, Rename(n)
  PROVE  FInv' /\ DumpStep
<1> USE FileAssumption
<1>1. n = saves /\ n \in Snapshots /\ tmp \in Inodes
  BY DEF Saves, Snapshots, Rename, FInv, OneWriter, Running, TypeOK
<1>2. dump' = tmp /\ tmp' = NoFile /\ UNCHANGED <<files, saves>>
  BY DEF Rename
<1>3. files[tmp] = Image(n)
  <2>1. files[tmp] \in Seq(Block \cup {Hole})
    BY <1>1 DEF FInv, TypeOK
  <2>2. Len(files[tmp]) = Blocks[n]
    BY DEF FInv, Written, Rename
  <2>3. \A i \in 1 .. Blocks[n] : files[tmp][i] = Image(n)[i]
    BY DEF FInv, Written, Rename
  <2> QED
    BY <1>1, <2>1, <2>2, <2>3, WholeImage
<1>4. /\ writer'[n].pc = "done"
      /\ \A m \in Saves \ {n} : writer'[m] = writer[m]
      /\ \A m \in Saves \ {n} : ~Running(m)
  BY <1>1 DEF FInv, TypeOK, OneWriter, Rename
<1>5. OneWriter'
  BY <1>1, <1>2, <1>4 DEF FInv, OneWriter, Running, Saves
<1>6. Written'
  BY <1>4 DEF Written, Running
<1>7. Names'
  <2>1. NoFile \notin Saves
    BY DEF Saves
  <2> QED
    BY <1>2, <1>4, <2>1 DEF FInv, Names
<1>8. DumpContent' = Image(n)
  BY <1>1, <1>2, <1>3 DEF DumpContent, Inodes
<1>9. DumpIntact'
  BY <1>1, <1>2, <1>3 DEF DumpIntact, Intact
<1>10. NewestSurvives'
  <2>1. ASSUME NEW m \in Saves, writer'[m].pc = "done"
        PROVE  n \in m .. MaxSaves
    BY <1>1, <1>4, <2>1 DEF FInv, OneWriter, Saves
  <2> QED
    BY <1>8, <2>1 DEF NewestSurvives
<1> QED
  BY <1>5, <1>6, <1>7, <1>8, <1>9, <1>10 DEF FInv, DumpStep

LEMMA FInvStep ==
  ASSUME Exclusive, FInv, [FileNext]_fileVars
  PROVE  FInv' /\ DumpStep
<1> USE FileAssumption
<1>0. TypeOK /\ TypeOK'
  BY FileTypeStep DEF FInv
<1>1. CASE Save
  <2>1. saves + 1 \in Saves /\ saves \in Nat
    BY <1>0, <1>1 DEF Save, TypeOK, Saves
  <2>2. /\ writer[saves + 1].pc = "unborn"
        /\ \A n \in Saves : ~Running(n)
    BY <1>1, <2>1 DEF Save, FInv, OneWriter
  <2>3. /\ writer'[saves + 1].pc = "create"
        /\ \A m \in Saves \ {saves + 1} : writer'[m] = writer[m]
    BY <1>0, <1>1, <2>1 DEF Save, TypeOK
  <2>4. OneWriter'
    BY <1>1, <2>1, <2>2, <2>3 DEF FInv, OneWriter, Running, Save, Saves
  <2> QED
    BY <1>0, <1>1, <2>2, <2>3, <2>4, QuietStep DEF Save
<1>2. CASE Crash
  <2>1. \A n \in Saves : IF Running(n) THEN writer'[n].pc = "failed"
                         ELSE writer'[n] = writer[n]
    BY <1>0, <1>2 DEF Crash, TypeOK
  <2>2. OneWriter'
    BY <1>2, <2>1 DEF FInv, OneWriter, Running, Crash, Saves, TypeOK
  <2> QED
    BY <1>0, <1>2, <2>1, <2>2, QuietStep DEF Crash
<1>3. CASE Restart
  <2>1. OneWriter'
    BY <1>3 DEF FInv, OneWriter, Running, Restart
  <2> QED
    BY <1>0, <1>3, <2>1, QuietStep DEF Restart
<1>4. ASSUME NEW n \in Saves, Create(n) PROVE FInv' /\ DumpStep
  BY <1>0, <1>4, CreateStep
<1>5. ASSUME NEW n \in Saves, Write(n) PROVE FInv' /\ DumpStep
  BY <1>0, <1>5, WriteStep
<1>6. ASSUME NEW n \in Saves, Rename(n) PROVE FInv' /\ DumpStep
  BY <1>0, <1>6, RenameStep
<1>7. ASSUME NEW n \in Saves, SaveFails(n) PROVE FInv' /\ DumpStep
  <2>1. /\ writer'[n].pc = "failed"
        /\ \A m \in Saves \ {n} : writer'[m] = writer[m]
    BY <1>0, <1>7 DEF SaveFails, TypeOK
  <2>2. OneWriter'
    BY <1>7, <2>1 DEF FInv, OneWriter, Running, SaveFails, Saves, TypeOK
  <2> QED
    BY <1>0, <1>7, <2>1, <2>2, QuietStep DEF SaveFails
<1>8. CASE UNCHANGED fileVars
  <2>1. OneWriter'
    BY <1>8 DEF FInv, OneWriter, Running, fileVars
  <2> QED
    BY <1>0, <1>8, <2>1, QuietStep DEF fileVars
<1> QED
  BY <1>1, <1>2, <1>3, <1>4, <1>5, <1>6, <1>7, <1>8 DEF FileNext

LEMMA FInvariant ==
  ASSUME Exclusive
  PROVE  FileSpec => []FInv
<1>1. FInv /\ [FileNext]_fileVars => FInv'
  BY FInvStep
<1> QED
  BY FInvInit, <1>1, PTL DEF FileSpec

\* With one save at a time, whatever fails and wherever the process stops,
\* dump.rdb is the whole serialization of one snapshot.
THEOREM DumpNeverTorn ==
  ASSUME Exclusive
  PROVE  FileSpec => []DumpIntact
<1>1. FInv => DumpIntact
  BY DEF FInv
<1> QED
  BY <1>1, FInvariant, PTL

\* With one save at a time, a snapshot that was saved is only ever replaced by
\* a later one.
THEOREM LaterSnapshotsWin ==
  ASSUME Exclusive
  PROVE  FileSpec => []NewestSurvives
<1>1. FInv => NewestSurvives
  BY DEF FInv
<1> QED
  BY <1>1, FInvariant, PTL

\* With one save at a time, a save that fails or is cut off leaves dump.rdb as
\* it was.
THEOREM FailedSaveChangesNothing ==
  ASSUME Exclusive
  PROVE  FileSpec => DumpChangesOnlyByRename
<1>1. FInv /\ [FileNext]_fileVars => [DumpStep]_fileVars
  BY FInvStep
<1> QED
  BY <1>1, FInvariant, PTL DEF FileSpec, DumpChangesOnlyByRename, DumpStep
=============================================================================
