-------------------------- MODULE ConnectionProofs --------------------------
(***************************************************************************)
(* Proofs about Connection, for scripts of any frames and any length.      *)
(***************************************************************************)
EXTENDS Connection, TLAPS, SequenceTheorems

LEMMA ScriptType ==
  ASSUME script \in Scripts
  PROVE  script \in Seq(Kinds) /\ Len(script) \in Nat
  BY ConnectionAssumption

\* A flush joins the replies that were kept back to the delivered ones.
LEMMA DeliverType ==
  ASSUME NEW S, out \in Seq(S), delivered \in Seq(S), Deliver
  PROVE  out' \in Seq(S) /\ delivered' \in Seq(S) /\ Len(out') = 0
  BY ConcatProperties DEF Deliver

\* The three counters of a state.
Counters ==
  /\ Len(script) \in Nat
  /\ sent \in Nat /\ received \in Nat /\ consumed \in Nat
  /\ consumed <= received /\ received <= sent /\ sent <= 2 * Len(script)

LEMMA CountersType == ASSUME TypeOK PROVE Counters
<1>1. Len(script) \in Nat
  BY ScriptType DEF TypeOK
<1> QED
  BY <1>1 DEF TypeOK, Counters

\* What parse finds ends inside the buffer.
LEMMA ParseType ==
  ASSUME Counters, NEW p \in Parse
  PROVE  p.to \in Nat /\ p.to <= received /\ p.to >= consumed
<1>1. CASE BufferEmpty
  BY <1>1 DEF Parse, Counters, BufferEmpty
<1>2. CASE ~BufferEmpty /\ consumed % 2 = 1
  BY <1>2 DEF Parse, Counters
<1>3. CASE ~BufferEmpty /\ ~(consumed % 2 = 1) /\ consumed + 2 <= received
  BY <1>3 DEF Parse, Counters
<1>4. CASE ~BufferEmpty /\ ~(consumed % 2 = 1) /\ ~(consumed + 2 <= received)
  BY <1>4 DEF Parse, Counters
<1> QED
  BY <1>1, <1>2, <1>3, <1>4

LEMMA TypeInit == Init => TypeOK
<1> SUFFICES ASSUME Init PROVE TypeOK
  OBVIOUS
<1>1. Len(script) \in Nat
  BY ScriptType DEF Init
<1>2. <<>> \in Seq(0 .. Len(script))
  OBVIOUS
<1>3. 0 \in 0 .. 0 /\ 0 \in 0 .. 2 * Len(script) /\ 0 \in Nat
  BY <1>1
<1> QED
  BY <1>2, <1>3, Zenon DEF Init, TypeOK

\* A reply to a frame of the script goes into the writer, or does not.
LEMMA BufferType ==
  ASSUME TypeOK, NEW n \in 0 .. Len(script), out' = out \/ out' = Append(out, n)
  PROVE  out' \in Seq(0 .. Len(script))
<1>1. out \in Seq(0 .. Len(script))
  BY DEF TypeOK
<1>2. Append(out, n) \in Seq(0 .. Len(script))
  BY <1>1, AppendProperties
<1> QED
  BY <1>1, <1>2

\* Taking a frame keeps the types.
LEMMA TakeType ==
  ASSUME TypeOK, NEW p \in Parse, Take(p), pc' \in {"parse", "midflush", "closed"},
         out' = out \/ out' = Append(out, Number(p))
  PROVE  TypeOK'
<1>1. Counters
  BY CountersType
<1>2. p.to \in Nat /\ p.to <= received
  BY <1>1, ParseType
<1>3. Number(p) \in 0 .. Len(script)
  BY <1>1, <1>2 DEF Counters, Number
<1>4. out' \in Seq(0 .. Len(script))
  BY <1>3, BufferType
<1>5. consumed' \in 0 .. received
  BY <1>1, <1>2 DEF Take, Counters
<1>6. pipeline_count' \in Nat /\ made_progress' \in BOOLEAN
  BY DEF Take, TypeOK
<1> QED
  BY <1>4, <1>5, <1>6 DEF Take, TypeOK, peer

LEMMA TypeStep == TypeOK /\ [Next]_vars => TypeOK'
<1> SUFFICES ASSUME TypeOK, [Next]_vars PROVE TypeOK'
  OBVIOUS
<1>0. Counters
  BY CountersType
<1>1. CASE Send
  BY <1>0, <1>1 DEF Send, TypeOK, Counters, loop, replies
<1>2. CASE HangUp \/ Break \/ StopReading
  BY <1>2 DEF HangUp, Break, StopReading, TypeOK, loop, replies
<1>3. CASE Read
  <2>1. received' \in 0 .. sent /\ consumed' \in 0 .. received'
    BY <1>0, <1>3 DEF Read, Counters
  <2>2. 0 \in Nat
    OBVIOUS
  <2> QED
    BY <1>3, <2>1, <2>2, Zenon DEF Read, Drain, TypeOK, peer, replies
<1>4. CASE ReadEof \/ ReadError
  BY <1>4 DEF ReadEof, ReadError, TypeOK, peer, loop, replies
<1>5. CASE ReadNothing
  BY <1>5 DEF ReadNothing, Drain, TypeOK, peer, replies
<1>6. CASE Drained
  BY <1>6 DEF Drained, TypeOK, peer, loop, replies
<1>7. CASE Invalid
  <2>1. delivered \o out \in Seq(0 .. Len(script))
    BY ConcatProperties DEF TypeOK
  <2>2. <<0>> \in Seq(0 .. Len(script))
    BY <1>0 DEF Counters
  <2>3. delivered' \in Seq(0 .. Len(script))
    <3>1. delivered \o out \o <<0>> \in Seq(0 .. Len(script))
      BY <2>1, <2>2, ConcatProperties
    <3>2. delivered \in Seq(0 .. Len(script))
      BY DEF TypeOK
    <3> QED
      BY <1>7, <3>1, <3>2, Zenon DEF Invalid
  <2>4. out' \in Seq(0 .. Len(script))
    <3>1. 0 \in 0 .. Len(script)
      BY <1>0 DEF Counters
    <3>2. CASE broken
      BY <1>7, <3>1, <3>2, BufferType DEF Invalid, Buffer
    <3>3. CASE ~broken
      BY <1>7, <3>3 DEF Invalid
    <3> QED
      BY <3>2, <3>3
  <2>5. consumed' \in 0 .. received
    BY <1>0, <1>7 DEF Invalid, Counters
  <2> QED
    BY <1>7, <2>3, <2>4, <2>5 DEF Invalid, TypeOK, peer, loop
<1>8. CASE Refuse
  BY <1>8, TakeType DEF Refuse, Buffer, TypeOK
<1>9. CASE Answer
  BY <1>9, TakeType DEF Answer
<1>10. CASE WriteError \/ Panic
  BY <1>10, TakeType DEF WriteError, Panic
<1>11. CASE MidFlush
  <2>1. out' \in Seq(0 .. Len(script)) /\ delivered' \in Seq(0 .. Len(script))
    BY <1>11, DeliverType DEF MidFlush, TypeOK
  <2> QED
    BY <1>11, <2>1 DEF MidFlush, TypeOK, peer
<1>12. CASE Flush
  <2>1. out' \in Seq(0 .. Len(script)) /\ delivered' \in Seq(0 .. Len(script))
    BY <1>12, DeliverType DEF Flush, TypeOK, replies
  <2> QED
    BY <1>12, <2>1 DEF Flush, TypeOK, peer, loop
<1>13. CASE Leave
  <2>1. out' \in Seq(0 .. Len(script)) /\ delivered' \in Seq(0 .. Len(script))
    BY <1>13, DeliverType DEF Leave, TypeOK, replies
  <2> QED
    BY <1>13, <2>1 DEF Leave, TypeOK, peer, loop
<1>14. CASE MidFlushError \/ FlushError
  BY <1>14 DEF MidFlushError, FlushError, TypeOK, peer, loop, replies
<1>15. CASE UNCHANGED vars
  BY <1>15 DEF TypeOK, vars, peer, loop, replies
<1> QED
  BY <1>1, <1>2, <1>3, <1>4, <1>5, <1>6, <1>7, <1>8, <1>9, <1>10, <1>11, <1>12,
     <1>13, <1>14, <1>15 DEF Next, Work

\* The buffer's bounds and the replies' types hold for every script.
THEOREM ConnectionTypes == Spec => []TypeOK
  BY TypeInit, TypeStep, PTL DEF Spec
-----------------------------------------------------------------------------
(***************************************************************************)
(* NothingHeldBack is not inductive: the flush after the inner loop is     *)
(* made only if made_progress is set, so one must know that an inner loop  *)
(* that took nothing has left no reply in the writer.                      *)
(***************************************************************************)
HeldInv ==
  /\ NothingHeldBack
  /\ pc \in {"parse", "midflush", "flush"} /\ ~made_progress /\ ~broken => out = <<>>

LEMMA HeldInit == Init => HeldInv
  BY DEF Init, HeldInv, NothingHeldBack

LEMMA HeldStep == HeldInv /\ [Next]_vars => HeldInv'
<1> SUFFICES ASSUME HeldInv, [Next]_vars PROVE HeldInv'
  OBVIOUS
<1> USE DEF HeldInv, NothingHeldBack
<1>1. CASE Send \/ HangUp \/ Break \/ StopReading
  BY <1>1 DEF Send, HangUp, Break, StopReading, loop, replies
<1>2. CASE Read \/ ReadNothing
  BY <1>2 DEF Read, ReadNothing, Drain, replies, peer
<1>3. CASE ReadEof \/ ReadError
  BY <1>3 DEF ReadEof, ReadError
<1>4. CASE Drained
  BY <1>4 DEF Drained, loop, replies, peer
<1>5. CASE Invalid
  BY <1>5 DEF Invalid, peer
<1>6. CASE Refuse
  BY <1>6 DEF Refuse, Take
<1>7. CASE Answer
  BY <1>7 DEF Answer, Take
<1>8. CASE MidFlush
  BY <1>8 DEF MidFlush, Deliver
<1>9. CASE Flush
  BY <1>9 DEF Flush, Deliver, replies, peer
<1>10. CASE Leave
  BY <1>10 DEF Leave
<1>11. CASE WriteError \/ Panic \/ MidFlushError \/ FlushError
  BY <1>11 DEF WriteError, Panic, MidFlushError, FlushError
<1>12. CASE UNCHANGED vars
  BY <1>12 DEF vars, loop, replies, peer
<1> QED
  BY <1>1, <1>2, <1>3, <1>4, <1>5, <1>6, <1>7, <1>8, <1>9, <1>10, <1>11, <1>12
     DEF Next, Work

\* The task never waits for the peer with replies in its writer, whatever the
\* peer sends, invalid frames included, while the connection holds.
THEOREM RepliesAreFlushed == Spec => []NothingHeldBack
<1>1. HeldInv => NothingHeldBack
  BY DEF HeldInv
<1> QED
  BY HeldInit, HeldStep, <1>1, PTL DEF Spec
-----------------------------------------------------------------------------
(***************************************************************************)
(* The depth cap.  It holds for peers whose commands are all answered: the *)
(* parser is then always at the start of a frame, pipeline_count counts    *)
(* the replies in the writer, and it reaches the cap only on the way to    *)
(* the flush.  A broken connection changes nothing here: such a peer's     *)
(* replies are all the product of an inner loop that made progress.        *)
(***************************************************************************)
AllAnswered == \A i \in DOMAIN script : script[i] = "ok"

DepthInv ==
  /\ TypeOK
  /\ pc = "read" => out = <<>>
  /\ pc \in {"parse", "midflush", "flush"} /\ ~made_progress => out = <<>>
  /\ consumed % 2 = 0
  /\ pc = "parse" => Len(out) <= pipeline_count /\ pipeline_count < MaxDepth
  /\ Len(out) <= MaxDepth

LEMMA DepthInit == Init => DepthInv
<1> SUFFICES ASSUME Init PROVE DepthInv
  OBVIOUS
<1>1. TypeOK
  BY TypeInit
<1>2. Len(<<>>) = 0 /\ 0 % 2 = 0
  OBVIOUS
<1> QED
  BY <1>1, <1>2, ConnectionAssumption DEF Init, DepthInv

\* The frames that the peer sends are given once and for all.
LEMMA ScriptFixed == ASSUME [Next]_vars PROVE script' = script
<1>1. CASE Send \/ HangUp \/ Break \/ StopReading
  BY <1>1 DEF Send, HangUp, Break, StopReading
<1>2. CASE Read \/ ReadEof \/ ReadNothing \/ ReadError \/ Drained \/ Invalid
  BY <1>2 DEF Read, ReadEof, ReadNothing, ReadError, Drained, Invalid, peer
<1>3. CASE Refuse \/ Answer \/ WriteError \/ Panic
  BY <1>3 DEF Refuse, Answer, WriteError, Panic, Take, peer
<1>4. CASE MidFlush \/ MidFlushError \/ Flush \/ FlushError \/ Leave
  BY <1>4 DEF MidFlush, MidFlushError, Flush, FlushError, Leave, peer
<1>5. CASE UNCHANGED vars
  BY <1>5 DEF vars, peer
<1> QED
  BY <1>1, <1>2, <1>3, <1>4, <1>5 DEF Next, Work

\* With such a peer, parse finds an answered command or nothing.
LEMMA ParseAnswered ==
  ASSUME AllAnswered, DepthInv, NEW p \in Parse, p.kind # "incomplete"
  PROVE  p.kind = "ok" /\ p.to = consumed + 2
<1>1. Counters /\ DOMAIN script = 1 .. Len(script) /\ consumed % 2 = 0
  BY CountersType, ScriptType, LenProperties DEF DepthInv, TypeOK
<1>2. CASE BufferEmpty
  BY <1>2 DEF Parse
<1>3. CASE ~BufferEmpty
  <2>1. (consumed \div 2) + 1 \in 1 .. Len(script)
    BY <1>1, <1>3 DEF Counters, BufferEmpty
  <2>2. Frame(consumed) = "ok"
    BY <1>1, <2>1 DEF Frame, AllAnswered
  <2> QED
    BY <1>1, <1>3, <2>2 DEF Parse
<1> QED
  BY <1>2, <1>3

LEMMA DepthStep ==
  ASSUME AllAnswered, DepthInv, [Next]_vars
  PROVE  DepthInv'
<1> USE ConnectionAssumption
<1>0. TypeOK /\ TypeOK' /\ Len(<<>>) = 0 /\ Len(out) \in Nat
  BY TypeStep, LenProperties DEF DepthInv, TypeOK
<1>1. CASE Send \/ HangUp \/ Break \/ StopReading
  BY <1>0, <1>1 DEF DepthInv, Send, HangUp, Break, StopReading, loop, replies
<1>2. CASE Read \/ ReadNothing
  BY <1>0, <1>2 DEF DepthInv, Read, ReadNothing, Drain, replies
<1>3. CASE ReadEof \/ ReadError
  BY <1>0, <1>3 DEF DepthInv, ReadEof, ReadError, replies
<1>4. CASE Drained
  BY <1>0, <1>4 DEF DepthInv, Drained, loop, replies
<1>5. CASE Invalid
  BY <1>5, ParseAnswered DEF Invalid
<1>6. CASE Refuse \/ Panic
  BY <1>6, ParseAnswered DEF Refuse, Panic
<1>7. CASE Answer
  <2>1. PICK p \in Parse : p.kind = "ok" /\ Take(p) /\ out' = Append(out, Number(p))
    BY <1>7 DEF Answer
  <2>2. p.to = consumed + 2 /\ consumed \in Nat
    BY <1>0, <2>1, ParseAnswered, CountersType DEF Counters
  <2>3. Len(out') = Len(out) + 1
    BY <1>0, <2>1 DEF TypeOK
  <2>4. pipeline_count' = pipeline_count + 1 /\ pipeline_count \in Nat
    BY <1>0, <2>1 DEF Take, TypeOK
  <2>5. consumed' % 2 = 0
    BY <2>1, <2>2 DEF Take, DepthInv
  <2>6. Len(out) <= pipeline_count /\ pipeline_count < MaxDepth
    BY <1>7 DEF Answer, DepthInv
  <2> QED
    BY <1>0, <1>7, <2>1, <2>3, <2>4, <2>5, <2>6 DEF DepthInv, Answer, Take
<1>8. CASE MidFlush
  BY <1>0, <1>8 DEF DepthInv, MidFlush, Deliver
<1>9. CASE Flush
  BY <1>0, <1>9 DEF DepthInv, Flush, Deliver, replies
<1>10. CASE Leave
  BY <1>0, <1>10 DEF DepthInv, Leave, Deliver, replies
<1>11. CASE WriteError
  BY <1>0, <1>11, ParseAnswered, CountersType DEF DepthInv, WriteError, Take, Counters
<1>12. CASE MidFlushError \/ FlushError
  BY <1>0, <1>12 DEF DepthInv, MidFlushError, FlushError, replies
<1>13. CASE UNCHANGED vars
  BY <1>0, <1>13 DEF DepthInv, vars, loop, replies
<1> QED
  BY <1>1, <1>2, <1>3, <1>4, <1>5, <1>6, <1>7, <1>8, <1>9, <1>10, <1>11,
     <1>12, <1>13 DEF Next, Work

\* For a peer whose commands are all answered, at most MAX_PIPELINE_DEPTH of them
\* are handled between two flushes, however many arrive at once.
THEOREM CapHolds == Spec => []DepthCapped
<1> DEFINE Inv == AllAnswered => DepthInv
<1>1. Init => Inv
  BY DepthInit
<1>2. Inv /\ [Next]_vars => Inv'
  <2> SUFFICES ASSUME Inv, [Next]_vars, AllAnswered' PROVE DepthInv'
    OBVIOUS
  <2>1. AllAnswered
    BY ScriptFixed DEF AllAnswered
  <2> QED
    BY <2>1, DepthStep
<1>3. Inv => DepthCapped
  BY DEF DepthInv, DepthCapped, AllAnswered
<1> QED
  BY <1>1, <1>2, <1>3, PTL DEF Spec
-----------------------------------------------------------------------------
(***************************************************************************)
(* One reply for each command.  For a peer that sends no invalid frame the *)
(* parser is always at the start of a frame, so each step of the inner     *)
(* loop answers the frame after the last one, or panics, which ends the    *)
(* task; a flush moves replies and changes neither their number nor order. *)
(***************************************************************************)
UpTo(n) == [i \in 1 .. n |-> i]

NoPanicYet == consumed > 0 => script[consumed \div 2] # "panic"

OrderInv ==
  /\ TypeOK
  /\ consumed % 2 = 0
  /\ pc # "closed" => NoPanicYet
  /\ ~broken => delivered \o out = UpTo(Handled)

LEMMA UpToNext ==
  ASSUME NEW n \in Nat
  PROVE  UpTo(n) \in Seq(Nat) /\ Append(UpTo(n), n + 1) = UpTo(n + 1)
<1>1. UpTo(n) \in Seq(Nat) /\ UpTo(n + 1) \in Seq(Nat)
  BY DEF UpTo
<1>2. Len(UpTo(n)) = n /\ Len(UpTo(n + 1)) = n + 1
  BY DEF UpTo
<1>3. \A i \in 1 .. n : UpTo(n)[i] = i
  BY DEF UpTo
<1>4. \A i \in 1 .. n + 1 : UpTo(n + 1)[i] = i
  BY DEF UpTo
<1> DEFINE a == Append(UpTo(n), n + 1)
<1>5. a \in Seq(Nat) /\ Len(a) = n + 1
  BY <1>1, <1>2, AppendProperties
<1>6. \A i \in 1 .. n + 1 : a[i] = i
  <2> SUFFICES ASSUME NEW i \in 1 .. n + 1 PROVE a[i] = i
    OBVIOUS
  <2>1. CASE i = n + 1
    BY <1>1, <1>2, <2>1, AppendProperties
  <2>2. CASE i \in 1 .. n
    <3>1. a[i] = UpTo(n)[i]
      BY <1>1, <1>2, <2>2, AppendProperties
    <3> QED
      BY <1>3, <2>2, <3>1
  <2>3. i = n + 1 \/ i \in 1 .. n
    OBVIOUS
  <2> QED
    BY <2>1, <2>2, <2>3
<1>7. a = UpTo(n + 1)
  <2>1. \A i \in 1 .. Len(a) : a[i] = UpTo(n + 1)[i]
    BY <1>4, <1>5, <1>6
  <2> HIDE DEF a
  <2> QED
    BY <1>1, <1>2, <1>5, <2>1, SeqEqual
<1> QED
  BY <1>1, <1>7

\* The replies that the peer has and will have grow at the end.
LEMMA ConcatAppend ==
  ASSUME NEW S, NEW s \in Seq(S), NEW t \in Seq(S), NEW e \in S
  PROVE  s \o Append(t, e) = Append(s \o t, e)
<1>1. <<e>> \in Seq(S) /\ s \o t \in Seq(S)
  BY ConcatProperties
<1>2. Append(t, e) = t \o <<e>>
  BY AppendIsConcat
<1>3. Append(s \o t, e) = (s \o t) \o <<e>>
  BY <1>1, AppendIsConcat
<1>4. (s \o t) \o <<e>> = s \o (t \o <<e>>)
  BY <1>1, ConcatAssociative
<1> QED
  BY <1>2, <1>3, <1>4

LEMMA NatReplies == ASSUME TypeOK PROVE delivered \in Seq(Nat) /\ out \in Seq(Nat)
<1>1. ASSUME NEW s \in Seq(0 .. Len(script)) PROVE s \in Seq(Nat)
  <2>1. Len(s) \in Nat /\ s \in [1 .. Len(s) -> 0 .. Len(script)]
    BY LenProperties
  <2>2. s \in [1 .. Len(s) -> Nat]
    BY <2>1
  <2> QED
    BY <2>1, <2>2
<1> QED
  BY <1>1 DEF TypeOK

LEMMA OrderInit == Init => OrderInv
<1> SUFFICES ASSUME Init PROVE OrderInv
  OBVIOUS
<1>1. TypeOK
  BY TypeInit
<1>2. Handled = 0
  BY DEF Init, Handled
<1>3. <<>> \o <<>> = UpTo(0)
  BY DEF UpTo
<1>4. consumed = 0 /\ 0 % 2 = 0 /\ ~(0 > 0)
  BY DEF Init
<1> QED
  BY <1>1, <1>2, <1>3, <1>4 DEF Init, OrderInv, NoPanicYet

\* Without invalid frames, parse finds the frame after the last one, or nothing.
LEMMA ParseNext ==
  ASSUME ~Has("invalid"), OrderInv, NEW p \in Parse, p.kind # "incomplete"
  PROVE  /\ p.to = consumed + 2 /\ p.kind = script[(consumed \div 2) + 1]
         /\ p.kind # "invalid"
<1>1. Counters /\ DOMAIN script = 1 .. Len(script) /\ consumed % 2 = 0
  BY CountersType, ScriptType, LenProperties DEF OrderInv, TypeOK
<1>2. CASE BufferEmpty
  BY <1>2 DEF Parse
<1>3. CASE ~BufferEmpty
  <2>1. (consumed \div 2) + 1 \in 1 .. Len(script)
    BY <1>1, <1>3 DEF Counters, BufferEmpty
  <2>2. Frame(consumed) # "invalid"
    BY <1>1, <2>1 DEF Frame, Has
  <2> QED
    BY <1>1, <1>3, <2>2 DEF Parse, Frame
<1> QED
  BY <1>2, <1>3

\* What taking a frame does to the counters.
LEMMA TakeNext ==
  ASSUME ~Has("invalid"), OrderInv, pc # "closed",
         NEW p \in Parse, p.kind # "incomplete", Take(p)
  PROVE  /\ consumed' % 2 = 0 /\ consumed' > 0
         /\ consumed' \div 2 = (consumed \div 2) + 1
         /\ script' = script /\ broken' = broken /\ delivered' = delivered
         /\ p.kind = script[(consumed \div 2) + 1]
         /\ Number(p) = (consumed \div 2) + 1
         /\ Handled = consumed \div 2 /\ consumed \div 2 \in Nat
<1>1. consumed \in Nat /\ consumed % 2 = 0
  BY CountersType DEF OrderInv, Counters
<1>2. p.to = consumed + 2 /\ p.kind = script[(consumed \div 2) + 1]
  BY ParseNext
<1>3. consumed' = consumed + 2
  BY <1>2 DEF Take
<1>4. PICK k \in Nat : consumed = 2 * k
  BY <1>1
<1>5. consumed \div 2 = k /\ (consumed + 2) \div 2 = k + 1 /\ (consumed + 3) \div 2 = k + 1
  BY <1>4
<1>6. Number(p) = k + 1
  BY <1>2, <1>4, <1>5 DEF Number
<1>7. Handled = k
  BY <1>4, <1>5 DEF Handled, OrderInv, NoPanicYet
<1>8. script' = script /\ broken' = broken /\ delivered' = delivered
  BY DEF Take, peer
<1>9. (consumed + 2) % 2 = 0 /\ consumed + 2 > 0
  BY <1>4
<1> QED
  BY <1>2, <1>3, <1>5, <1>6, <1>7, <1>8, <1>9

\* A frame that is answered or refused adds its number.
LEMMA ReplyNext ==
  ASSUME ~Has("invalid"), OrderInv, pc # "closed", TypeOK',
         NEW p \in Parse, p.kind \in {"ok", "error"}, Take(p),
         out' = Append(out, Number(p)) \/ (broken /\ out' = out)
  PROVE  OrderInv'
<1>1. PICK n \in Nat :
        /\ consumed' % 2 = 0 /\ consumed' > 0 /\ consumed' \div 2 = n + 1
        /\ script' = script /\ broken' = broken /\ delivered' = delivered
        /\ p.kind = script[n + 1] /\ Number(p) = n + 1 /\ Handled = n
  BY TakeNext
<1>2. script'[consumed' \div 2] # "panic"
  BY <1>1
<1>3. Handled' = n + 1
  BY <1>1, <1>2 DEF Handled
<1>4. ASSUME ~broken PROVE (delivered \o out)' = UpTo(n + 1)
  <2>1. delivered \o out = UpTo(n) /\ out' = Append(out, n + 1)
    BY <1>1, <1>4 DEF OrderInv
  <2>2. delivered \in Seq(Nat) /\ out \in Seq(Nat)
    BY NatReplies DEF OrderInv
  <2>3. n + 1 \in Nat
    OBVIOUS
  <2>4. delivered \o Append(out, n + 1) = Append(delivered \o out, n + 1)
    BY <2>2, <2>3, ConcatAppend, SMTT(30)
  <2>5. Append(UpTo(n), n + 1) = UpTo(n + 1)
    BY UpToNext
  <2> QED
    BY <1>1, <2>1, <2>4, <2>5, Zenon
<1> QED
  BY <1>1, <1>2, <1>3, <1>4 DEF OrderInv, NoPanicYet

\* A flush changes where the replies are, not which they are.
LEMMA FlushOrder ==
  ASSUME OrderInv, TypeOK', pc # "closed", Deliver,
         UNCHANGED <<script, broken, consumed>>
  PROVE  OrderInv'
<1>1. delivered \in Seq(Nat) /\ out \in Seq(Nat)
  BY NatReplies DEF OrderInv
<1>2. delivered' \o out' = delivered \o out
  BY <1>1, ConcatProperties, ConcatEmptySeq DEF Deliver
<1>3. Handled' = Handled
  BY DEF Handled
<1> QED
  BY <1>2, <1>3 DEF OrderInv, NoPanicYet

\* A step that leaves the replies and the buffer's start alone.
LEMMA OtherOrder ==
  ASSUME OrderInv, TypeOK', pc = "closed" => pc' = "closed", broken => broken',
         UNCHANGED <<script, consumed, replies>>
  PROVE  OrderInv'
<1>1. Handled' = Handled
  BY DEF Handled
<1> QED
  BY <1>1 DEF OrderInv, NoPanicYet, replies, TypeOK

LEMMA OrderStep ==
  ASSUME ~Has("invalid"), OrderInv, [Next]_vars
  PROVE  OrderInv'
<1>0. TypeOK' /\ broken \in BOOLEAN
  BY TypeStep DEF OrderInv, TypeOK
<1>1. CASE Send \/ HangUp \/ Break \/ StopReading
  BY <1>0, <1>1, OtherOrder DEF Send, HangUp, Break, StopReading
<1>2. CASE Read \/ ReadNothing \/ ReadEof \/ ReadError
  BY <1>0, <1>2, OtherOrder DEF Read, ReadNothing, ReadEof, ReadError, peer
<1>3. CASE Drained \/ MidFlushError \/ FlushError
  BY <1>0, <1>3, OtherOrder DEF Drained, MidFlushError, FlushError, peer
<1>4. CASE Invalid
  BY <1>4, ParseNext DEF Invalid
<1>5. CASE Refuse
  BY <1>0, <1>5, ReplyNext DEF Refuse, Buffer
<1>6. CASE Answer
  BY <1>0, <1>6, ReplyNext DEF Answer
<1>7. CASE WriteError
  <2>1. PICK p \in Parse : p.kind = "ok" /\ Take(p)
    BY <1>7 DEF WriteError
  <2>2. consumed' % 2 = 0 /\ broken'
    BY <1>7, <2>1, TakeNext DEF WriteError
  <2> QED
    BY <1>0, <1>7, <2>2 DEF WriteError, OrderInv
<1>8. CASE Panic
  <2>1. PICK p \in Parse : p.kind = "panic" /\ Take(p)
    BY <1>8 DEF Panic
  <2> DEFINE n == consumed \div 2
  <2>2. /\ consumed' % 2 = 0 /\ consumed' > 0 /\ consumed' \div 2 = n + 1
        /\ script' = script /\ broken' = broken /\ delivered' = delivered
        /\ p.kind = script[n + 1] /\ Handled = n /\ n \in Nat
    BY <1>8, <2>1, TakeNext DEF Panic
  <2>3. Handled' = n
    BY <2>1, <2>2 DEF Handled
  <2> QED
    BY <1>0, <1>8, <2>2, <2>3 DEF Panic, OrderInv
<1>9. CASE MidFlush
  BY <1>0, <1>9, FlushOrder DEF MidFlush, peer
<1>10. CASE Flush
  <2>1. CASE made_progress
    BY <1>0, <1>10, <2>1, FlushOrder DEF Flush, peer
  <2>2. CASE ~made_progress
    BY <1>0, <1>10, <2>2, OtherOrder DEF Flush, peer
  <2> QED
    BY <2>1, <2>2
<1>11. CASE Leave
  <2>1. CASE broken
    BY <1>0, <1>11, <2>1, OtherOrder DEF Leave, peer
  <2>2. CASE ~broken
    BY <1>0, <1>11, <2>2, FlushOrder DEF Leave, peer
  <2> QED
    BY <2>1, <2>2
<1>12. CASE UNCHANGED vars
  BY <1>0, <1>12, OtherOrder DEF vars, peer
<1> QED
  BY <1>1, <1>2, <1>3, <1>4, <1>5, <1>6, <1>7, <1>8, <1>9, <1>10, <1>11, <1>12
     DEF Next, Work

\* Every command gets one reply, in order, whatever the length of the pipeline
\* and wherever the reads and flushes fall, while the connection holds.
THEOREM RepliesInOrder == Spec => []OneReplyEach
<1> DEFINE Inv == ~Has("invalid") => OrderInv
<1>1. Init => Inv
  BY OrderInit
<1>2. Inv /\ [Next]_vars => Inv'
  <2> SUFFICES ASSUME Inv, [Next]_vars, ~Has("invalid")' PROVE OrderInv'
    OBVIOUS
  <2>1. ~Has("invalid")
    BY ScriptFixed DEF Has
  <2> QED
    BY <2>1, OrderStep
<1>3. Inv => OneReplyEach
  BY DEF OrderInv, OneReplyEach, UpTo
<1> QED
  BY <1>1, <1>2, <1>3, PTL DEF Spec
=============================================================================
