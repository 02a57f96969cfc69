--------------------------- MODULE RequestProofs ---------------------------
(***************************************************************************)
(* Proofs about the way from bytes to commands, for any texts and any      *)
(* stream of frames: that what parse made of the buffer a read does not    *)
(* change; that the division into reads does not matter; and what          *)
(* extract_command makes of the values.                                    *)
(***************************************************************************)
EXTENDS RequestStream, RespProofs

-----------------------------------------------------------------------------
(* The recursive functions of the model, unfolded *)

NextValue(prev, i, args) ==
  IF i > 1 /\ Is("bulk", args[i]) THEN Append(prev, TextOf(args[i])) ELSE prev

ValuesUpTo(args) ==
  CHOOSE f : f = [i \in 0 .. Len(args) |->
                    IF i = 0 THEN <<>> ELSE NextValue(f[i - 1], i, args)]

\* The values of a push, one by one.
LEMMA ValuesRecursion ==
  ASSUME NEW args, Len(args) \in Nat
  PROVE  /\ PushValues(args) = ValuesUpTo(args)[Len(args)]
         /\ ValuesUpTo(args)[0] = <<>>
         /\ \A i \in 0 .. Len(args) - 1 : ValuesUpTo(args)[i + 1] = NextValue(ValuesUpTo(args)[i], i + 1, args)
<1> DEFINE first == <<>>
           To(f, m) == f = [j \in 0 .. m |-> IF j = 0 THEN first ELSE NextValue(f[j - 1], j, args)]
           S == {m \in Nat : \E f : To(f, m)}
<1> HIDE DEF first
<1>1. 0 \in S
  <2>1. To([j \in 0 .. 0 |-> first], 0)
    OBVIOUS
  <2> QED
    BY <2>1, Zenon
<1>2. ASSUME NEW m \in 0 .. Len(args) - 1, m \in S PROVE m + 1 \in S
  <2>1. PICK f : To(f, m)
    BY <1>2
  <2> DEFINE g == [j \in 0 .. m + 1 |-> IF j = 0 THEN first ELSE NextValue(f[j - 1], j, args)]
  <2>2. \A j \in 0 .. m : g[j] = f[j]
    <3>1. \A j \in 0 .. m : f[j] = IF j = 0 THEN first ELSE NextValue(f[j - 1], j, args)
      BY <2>1
    <3> QED
      BY <3>1
  <2>3. ASSUME NEW j \in 0 .. m + 1, j # 0 PROVE g[j - 1] = f[j - 1]
    <3>1. j - 1 \in 0 .. m
      BY <2>3
    <3> QED
      BY <2>2, <3>1, Zenon
  <2>4. g = [j \in 0 .. m + 1 |-> IF j = 0 THEN first ELSE NextValue(g[j - 1], j, args)]
    <3> HIDE DEF g
    <3>1. g = [j \in 0 .. m + 1 |-> IF j = 0 THEN first ELSE NextValue(f[j - 1], j, args)]
      BY DEF g
    <3> QED
      BY <2>3, <3>1, Zenon
  <2>5. To(g, m + 1)
    BY <2>4
  <2> QED
    <3> HIDE DEF To, g
    <3> QED BY <2>5
<1>3. \E f : To(f, Len(args))
  <2> HIDE DEF To
  <2>1. 0 .. Len(args) \subseteq S
    <3> HIDE DEF S
    <3> QED
      BY <1>1, <1>2, Induction, Zenon
  <2> QED
    BY <2>1
<1>4. To(ValuesUpTo(args), Len(args))
  BY <1>3, Zenon DEF ValuesUpTo, first
<1>5. PushValues(args) = ValuesUpTo(args)[Len(args)]
  BY DEF PushValues, ValuesUpTo, NextValue
<1> DEFINE R == ValuesUpTo(args)
<1>6. \A j \in 0 .. Len(args) : R[j] = IF j = 0 THEN first ELSE NextValue(R[j - 1], j, args)
  BY <1>4
<1> HIDE DEF R
<1>7. ASSUME NEW i \in 0 .. Len(args) - 1 PROVE R[i + 1] = NextValue(R[i], i + 1, args)
  <2>1. PICK m \in 0 .. Len(args) : m = i + 1 /\ m # 0 /\ m - 1 = i
    OBVIOUS
  <2>2. R[m] = NextValue(R[m - 1], m, args)
    BY <1>6, <2>1, Zenon
  <2> QED
    BY <2>1, <2>2
<1>8. R[0] = first
  BY <1>6
<1> QED
  BY <1>5, <1>7, <1>8, Zenon DEF R, first


-----------------------------------------------------------------------------
(* The stream *)

Pieces(s) == [i \in DOMAIN s |-> s[i].bytes]

BytesUpTo(s) == ConcatUpTo(Pieces(s))

LEMMA PiecesAre ==
  ASSUME NEW s \in Streams
  PROVE  /\ Len(s) \in Nat /\ Pieces(s) \in Seq(Seq(Byte)) /\ Len(Pieces(s)) = Len(s)
         /\ \A i \in 1 .. Len(s) : Pieces(s)[i] = s[i].bytes
<1> DEFINE n == Len(s)
<1>1. n \in Nat /\ DOMAIN s = 1 .. n /\ \A i \in 1 .. n : s[i].bytes \in Seq(Byte)
  BY StreamsAssumption, Zenon
<1> HIDE DEF n
<1>2. Pieces(s) \in Seq(Seq(Byte)) /\ Len(Pieces(s)) = n /\ \A i \in 1 .. n : Pieces(s)[i] = s[i].bytes
  BY <1>1 DEF Pieces
<1> QED
  BY <1>1, <1>2, Zenon DEF n

\* The bytes of a stream, frame by frame.
LEMMA BytesRecursion ==
  ASSUME NEW s \in Streams
  PROVE  /\ Bytes(s) = BytesUpTo(s)[Len(s)]
         /\ BytesUpTo(s)[0] = <<>>
         /\ \A i \in 0 .. Len(s) - 1 : BytesUpTo(s)[i + 1] = BytesUpTo(s)[i] \o s[i + 1].bytes
<1> DEFINE p == Pieces(s)
<1>1. Len(s) \in Nat /\ Len(p) = Len(s) /\ \A i \in 1 .. Len(s) : p[i] = s[i].bytes
  BY PiecesAre, Zenon
<1>2. Bytes(s) = Concat(p)
  BY Zenon DEF Bytes, Pieces
<1> HIDE DEF p
<1>3. /\ Concat(p) = ConcatUpTo(p)[Len(p)] /\ ConcatUpTo(p)[0] = <<>>
      /\ \A i \in 0 .. Len(p) - 1 : ConcatUpTo(p)[i + 1] = ConcatUpTo(p)[i] \o p[i + 1]
  BY <1>1, ConcatRecursion, Zenon
<1>4. \A i \in 0 .. Len(s) - 1 : i + 1 \in 1 .. Len(s)
  BY <1>1
<1> QED
  BY <1>1, <1>2, <1>3, <1>4, Zenon DEF BytesUpTo, p

LEMMA BytesSplit ==
  ASSUME NEW s \in Streams, NEW k \in 0 .. Len(s)
  PROVE  /\ Len(s) \in Nat /\ BytesUpTo(s)[k] \in Seq(Byte) /\ Bytes(s) \in Seq(Byte)
         /\ \E t \in Seq(Byte) : Bytes(s) = BytesUpTo(s)[k] \o t
<1>1. Bytes(s) = Concat(Pieces(s))
  BY Zenon DEF Bytes, Pieces
<1> DEFINE p == Pieces(s)
<1>2. Len(s) \in Nat /\ p \in Seq(Seq(Byte)) /\ Len(p) = Len(s)
  BY PiecesAre, Zenon
<1> HIDE DEF p
<1>3. k \in 0 .. Len(p)
  BY <1>2
<1>4. /\ ConcatUpTo(p)[k] \in Seq(Byte) /\ Concat(p) \in Seq(Byte)
      /\ \E t \in Seq(Byte) : Concat(p) = ConcatUpTo(p)[k] \o t
  BY <1>2, <1>3, ConcatSplit, Zenon
<1> QED
  BY <1>1, <1>2, <1>4, Zenon DEF BytesUpTo, p

StreamType ==
  /\ frames \in Streams
  /\ rest \in Seq(Byte)
  /\ buf \in Seq(Byte)
  /\ IsSeq(taken)

\* A read moves bytes from rest to the end of buf.
LEMMA Reads ==
  ASSUME StreamType, Arrive
  PROVE  \E m \in Seq(Byte) : /\ rest' \in Seq(Byte)
                              /\ buf' = buf \o m
                              /\ rest = m \o rest'
<1>1. PICK n \in 1 .. Len(rest) : /\ buf' = buf \o SubSeq(rest, 1, n)
                                  /\ rest' = SubSeq(rest, n + 1, Len(rest))
  BY Zenon DEF Arrive
<1>2. rest \in Seq(Byte)
  BY Zenon DEF StreamType
<1>3. SubSeq(rest, 1, n) \in Seq(Byte)
  BY <1>2
<1>4. SubSeq(rest, n + 1, Len(rest)) \in Seq(Byte)
  BY <1>2, Rest, Zenon
<1>5. SubSeq(rest, 1, n) \o SubSeq(rest, n + 1, Len(rest)) = rest
  <2>1. 1 \in 1 .. Len(rest) + 1 /\ n \in 0 .. Len(rest) /\ Len(rest) \in n .. Len(rest) /\ 1 - 1 = 0
    BY <1>2
  <2>2. SubSeq(rest, 1, n) \o SubSeq(rest, n + 1, Len(rest)) = SubSeq(rest, 1, Len(rest))
    BY <1>2, <2>1, ConcatAdjacentSubSeq
  <2>3. SubSeq(rest, 1, Len(rest)) = rest
    BY <1>2, SubSeqFull
  <2> QED
    BY <2>2, <2>3, Zenon
<1> QED
  BY <1>1, <1>3, <1>4, <1>5, Zenon

\* A value that is parsed ends inside the buffer.
LEMMA Takes ==
  ASSUME NEW b \in Seq(Byte), Is("ok", Parse(b))
  PROVE  \E v : \E n \in 1 .. Len(b) :
           /\ Parse(b) = Ok(v, n) /\ Parse(b).ok = v /\ Parse(b).n = n
           /\ IsValue(v)
           /\ SubSeq(b, n + 1, Len(b)) \in Seq(Byte)
<1>1. PICK v : \E n \in 1 .. Len(b) : Parse(b) = Ok(v, n) /\ IsValue(v)
  BY ParseResult, Kinds, Zenon DEF IsResult
<1>2. PICK n \in 1 .. Len(b) : Parse(b) = Ok(v, n) /\ IsValue(v)
  BY <1>1
<1>3. Ok(v, n).ok = v /\ Ok(v, n).n = n
  BY Kinds, Zenon
<1>4. SubSeq(b, n + 1, Len(b)) \in Seq(Byte)
  BY Rest, Zenon
<1> QED
  BY <1>2, <1>3, <1>4, Zenon

LEMMA StreamTypeInit == Init => StreamType
<1> SUFFICES ASSUME Init PROVE StreamType
  OBVIOUS
<1>1. frames \in Streams /\ rest = Bytes(frames) /\ buf = <<>> /\ taken = <<>>
  BY Zenon DEF Init
<1>2. 0 \in 0 .. Len(frames)
  BY <1>1, StreamsAssumption
<1>3. Bytes(frames) \in Seq(Byte)
  BY <1>1, <1>2, BytesSplit, Zenon
<1>4. <<>> \in Seq(Byte)
  OBVIOUS
<1> QED
  BY <1>1, <1>3, <1>4, EmptyIsSeq, Zenon DEF StreamType

LEMMA StreamTypeStep == StreamType /\ [Next]_vars => StreamType'
<1> SUFFICES ASSUME StreamType, [Next]_vars PROVE StreamType'
  OBVIOUS
<1>0. buf \in Seq(Byte) /\ IsSeq(taken)
  BY Zenon DEF StreamType
<1>1. CASE Arrive
  <2>1. PICK m \in Seq(Byte) : rest' \in Seq(Byte) /\ buf' = buf \o m
    BY <1>1, Reads, Zenon
  <2>2. buf \o m \in Seq(Byte)
    BY <1>0, ConcatProperties
  <2>3. frames' = frames /\ taken' = taken
    BY <1>1, Zenon DEF Arrive
  <2> QED
    BY <2>1, <2>2, <2>3, Zenon DEF StreamType
<1>2. CASE Take
  <2>1. /\ Is("ok", Parse(buf)) /\ buf' = SubSeq(buf, Parse(buf).n + 1, Len(buf))
        /\ taken' = Append(taken, Parse(buf).ok) /\ frames' = frames /\ rest' = rest
    BY <1>2, Zenon DEF Take
  <2>2. buf' \in Seq(Byte)
    BY <1>0, <2>1, Takes, Zenon
  <2>3. IsSeq(taken')
    BY <1>0, <2>1, Sequence, Zenon
  <2> QED
    BY <2>1, <2>2, <2>3, Zenon DEF StreamType
<1>3. CASE Reject
  <2>1. buf' = <<>> /\ frames' = frames /\ rest' = rest /\ taken' = taken
    BY <1>3, Zenon DEF Reject
  <2>2. <<>> \in Seq(Byte)
    OBVIOUS
  <2> QED
    BY <2>1, <2>2, Zenon DEF StreamType
<1>4. CASE UNCHANGED vars
  BY <1>4, Zenon DEF vars, StreamType
<1> QED
  BY <1>1, <1>2, <1>3, <1>4, Zenon DEF Next

\* A read never changes what parse made of the buffer before it: the loop of
\* Client::handle may call it after every read, and none of its answers but
\* Incomplete is premature.
THEOREM ParsedStays == Spec => ParseStable
<1>1. StreamType /\ [Next]_vars =>
        [Arrive => Parse(buf) = Incomplete \/ Parse(buf') = Parse(buf)]_vars
  <2> SUFFICES ASSUME StreamType, Arrive, Parse(buf) # Incomplete PROVE Parse(buf') = Parse(buf)
    OBVIOUS
  <2>1. PICK m \in Seq(Byte) : buf' = buf \o m
    BY Reads, Zenon
  <2>2. buf \in Seq(Byte)
    BY Zenon DEF StreamType
  <2>3. Parse(buf \o m) = Parse(buf)
    BY <2>2, ParseSettles, Zenon
  <2> QED
    BY <2>1, <2>3
<1> QED
  BY <1>1, StreamTypeInit, StreamTypeStep, PTL DEF Spec, ParseStable

\* Each frame of the streams, alone in the buffer, is parsed as meant: as its
\* value, to the last byte, or as malformed.
FramesMeant ==
  \A s \in Streams : \A i \in 1 .. Len(s) :
    Parse(s[i].bytes) = IF s[i].value = None THEN Invalid ELSE Ok(s[i].value, Len(s[i].bytes))

\* What has not been taken is what follows the frames that have.
Aligned ==
  /\ Len(taken) <= Len(frames)
  /\ \A i \in 1 .. Len(taken) : taken[i] = frames[i].value
  /\ status = "open" => BytesUpTo(frames)[Len(taken)] \o (buf \o rest) = Bytes(frames)
  /\ status = "invalid" => Len(taken) < Len(frames) /\ frames[Len(taken) + 1].value = None

LEMMA Framed ==
  ASSUME StreamType, Aligned
  PROVE  /\ Len(taken) \in Nat /\ Len(frames) \in Nat
         /\ Len(taken) \in 0 .. Len(frames) /\ DOMAIN frames = 1 .. Len(frames)
         /\ DOMAIN taken = 1 .. Len(taken)
         /\ buf \o rest \in Seq(Byte)
         /\ BytesUpTo(frames)[Len(taken)] \in Seq(Byte)
         /\ Bytes(frames) \in Seq(Byte)
<1>1. frames \in Streams /\ buf \in Seq(Byte) /\ rest \in Seq(Byte) /\ IsSeq(taken)
  BY Zenon DEF StreamType
<1>2. Len(frames) \in Nat /\ DOMAIN frames = 1 .. Len(frames)
  BY <1>1, StreamsAssumption, Zenon
<1>3. Len(taken) \in Nat /\ DOMAIN taken = 1 .. Len(taken)
  BY <1>1, Sequence, Zenon
<1>4. Len(taken) \in 0 .. Len(frames)
  BY <1>2, <1>3 DEF Aligned
<1>5. /\ BytesUpTo(frames)[Len(taken)] \in Seq(Byte) /\ Bytes(frames) \in Seq(Byte)
  BY <1>1, <1>4, BytesSplit, Zenon
<1> QED
  BY <1>1, <1>2, <1>3, <1>4, <1>5, Joined, Zenon

\* While frames are left, buf and rest begin with the next one, and parse makes of
\* them what it makes of that one.
LEMMA NextFrame ==
  ASSUME FramesMeant, StreamType, Aligned, status = "open", Len(taken) < Len(frames)
  PROVE  \E t \in Seq(Byte) :
           LET f == frames[Len(taken) + 1] IN
           /\ f.bytes \in Seq(Byte)
           /\ buf \o rest = f.bytes \o t
           /\ BytesUpTo(frames)[Len(taken) + 1] \o t = Bytes(frames)
           /\ Parse(buf \o rest) = IF f.value = None THEN Invalid ELSE Ok(f.value, Len(f.bytes))
<1> DEFINE k == Len(taken)
           n == Len(frames)
           B == BytesUpTo(frames)
           f == frames[k + 1]
           fb == f.bytes
<1>1. frames \in Streams /\ B[k] \o (buf \o rest) = Bytes(frames)
  BY Zenon DEF StreamType, Aligned
<1>2. k \in Nat /\ n \in Nat /\ B[k] \in Seq(Byte) /\ buf \o rest \in Seq(Byte) /\ k < n
  BY Framed, Zenon
<1>3. B[0] = <<>> /\ \A i \in 0 .. n - 1 : B[i + 1] = B[i] \o frames[i + 1].bytes
  BY <1>1, BytesRecursion, Zenon
<1>4. k \in 0 .. n - 1 /\ k + 1 \in 1 .. n /\ k + 1 \in 0 .. n
  <2> HIDE DEF k, n
  <2> QED
    BY <1>2
<1>5. fb \in Seq(Byte) /\ B[k + 1] = B[k] \o fb
  BY <1>1, <1>2, <1>3, <1>4, StreamsAssumption, Zenon
<1>6. PICK t \in Seq(Byte) : Bytes(frames) = B[k + 1] \o t
  BY <1>1, <1>4, BytesSplit, Zenon
<1>7. Parse(fb) = IF f.value = None THEN Invalid ELSE Ok(f.value, Len(fb))
  BY <1>1, <1>4, Zenon DEF FramesMeant
<1>8. Parse(fb) # Incomplete
  BY <1>7, Kinds, Zenon
<1> HIDE DEF k, n, B, f
<1>9. buf \o rest = fb \o t
  <2>1. (B[k] \o fb) \o t = B[k] \o (fb \o t)
    BY <1>2, <1>5, Associative, Zenon
  <2>2. B[k] \o (buf \o rest) = B[k] \o (fb \o t)
    BY <1>1, <1>5, <1>6, <2>1, Zenon
  <2>3. fb \o t \in Seq(Byte)
    BY <1>5, Joined, Zenon
  <2> QED
    BY <1>2, <2>2, <2>3, Cancels, Zenon
<1>10. Parse(fb \o t) = Parse(fb)
  BY <1>5, <1>8, ParseSettles, Zenon
<1>11. Parse(buf \o rest) = IF f.value = None THEN Invalid ELSE Ok(f.value, Len(fb))
  BY <1>7, <1>9, <1>10, Zenon
<1> QED
  BY <1>5, <1>6, <1>9, <1>11, Zenon DEF k, f, B

\* When all are taken, nothing is left.
LEMMA NothingLeft ==
  ASSUME StreamType, Aligned, status = "open", Len(taken) = Len(frames)
  PROVE  Parse(buf) = Incomplete
<1> DEFINE k == Len(taken)
           B == BytesUpTo(frames)
<1>1. /\ buf \in Seq(Byte) /\ rest \in Seq(Byte) /\ frames \in Streams
      /\ B[k] \o (buf \o rest) = Bytes(frames)
  BY Zenon DEF StreamType, Aligned
<1>2. k \in Nat /\ B[k] \in Seq(Byte) /\ buf \o rest \in Seq(Byte) /\ k = Len(frames)
  BY Framed, Zenon
<1>3. Bytes(frames) = B[k]
  <2>1. Bytes(frames) = B[Len(frames)]
    BY <1>1, BytesRecursion, Zenon
  <2> QED
    BY <1>2, <2>1, Zenon
<1> HIDE DEF k, B
<1>4. buf \o rest = <<>>
  <2>1. B[k] \o <<>> = B[k] /\ <<>> \in Seq(Byte)
    BY <1>2, Joined
  <2>2. B[k] \o (buf \o rest) = B[k] \o <<>>
    BY <1>1, <1>3, <2>1, Zenon
  <2> QED
    BY <1>2, <2>1, <2>2, Cancels, Zenon
<1>5. Len(buf) = 0
  <2>1. Len(buf \o rest) = Len(buf) + Len(rest) /\ Len(buf) \in Nat /\ Len(rest) \in Nat
    BY <1>1, ConcatProperties
  <2>2. Len(buf \o rest) = 0
    BY <1>4
  <2> QED
    BY <2>1, <2>2
<1>6. CrlfAt(buf) = 0
  BY <1>1, <1>5, EmptyBuffer, Zenon
<1>7. Parse(buf) = ParseWith(ParseFcn, buf)
  BY <1>1, ParseUnfolds, Zenon
<1> QED
  BY <1>6, <1>7, ParseCases, Zenon

\* What parse makes of the buffer it makes of all that is left of the stream.
LEMMA Foreseen ==
  ASSUME StreamType, Parse(buf) # Incomplete
  PROVE  Parse(buf \o rest) = Parse(buf)
<1>1. buf \in Seq(Byte) /\ rest \in Seq(Byte)
  BY Zenon DEF StreamType
<1> QED
  BY <1>1, ParseSettles, Zenon

LEMMA AlignedInit == Init => Aligned
<1> SUFFICES ASSUME Init PROVE Aligned
  OBVIOUS
<1>1. /\ frames \in Streams /\ rest = Bytes(frames) /\ buf = <<>> /\ taken = <<>>
      /\ status = "open"
  BY Zenon DEF Init
<1>2. Len(frames) \in Nat /\ Len(taken) = 0
  BY <1>1, StreamsAssumption, EmptyIsSeq, Zenon
<1>3. Len(taken) <= Len(frames) /\ 0 \in 0 .. Len(frames) /\ 1 .. Len(taken) = {}
  BY <1>2
<1>4. Bytes(frames) \in Seq(Byte) /\ BytesUpTo(frames)[0] = <<>>
  <2>1. Bytes(frames) \in Seq(Byte)
    BY <1>1, <1>3, BytesSplit, Zenon
  <2>2. BytesUpTo(frames)[0] = <<>>
    BY <1>1, BytesRecursion, Zenon
  <2> QED
    BY <2>1, <2>2
<1>5. <<>> \o (<<>> \o Bytes(frames)) = Bytes(frames)
  <2>1. <<>> \o Bytes(frames) = Bytes(frames)
    BY <1>4, Joined
  <2> QED
    BY <2>1
<1> QED
  BY <1>1, <1>2, <1>3, <1>4, <1>5, Zenon DEF Aligned

LEMMA AlignedStep ==
  ASSUME FramesMeant, StreamType, Aligned, [Next]_vars
  PROVE  Aligned'
<1> DEFINE k == Len(taken)
           n == Len(frames)
<1>0. k \in Nat /\ n \in Nat /\ k <= n /\ k \in 0 .. n
  BY Framed, Zenon DEF Aligned
<1>1. CASE Arrive
  <2>1. PICK m \in Seq(Byte) : /\ rest' \in Seq(Byte) /\ buf' = buf \o m /\ rest = m \o rest'
    BY <1>1, Reads, Zenon
  <2>2. /\ status = "open" /\ status' = status /\ frames' = frames /\ taken' = taken
    BY <1>1, Zenon DEF Arrive
  <2>3. buf \in Seq(Byte)
    BY Zenon DEF StreamType
  <2>4. (buf \o m) \o rest' = buf \o (m \o rest')
    BY <2>1, <2>3, Associative, Zenon
  <2>5. buf' \o rest' = buf \o rest
    BY <2>1, <2>4, Zenon
  <2> QED
    BY <2>2, <2>5, Zenon DEF Aligned
<1>2. CASE Take
  <2>1. /\ status = "open" /\ Is("ok", Parse(buf))
        /\ buf' = SubSeq(buf, Parse(buf).n + 1, Len(buf))
        /\ taken' = Append(taken, Parse(buf).ok)
        /\ status' \in {"panicked", "open"}
        /\ frames' = frames /\ rest' = rest
    BY <1>2, Zenon DEF Take
  <2>2. buf \in Seq(Byte) /\ rest \in Seq(Byte) /\ IsSeq(taken)
    BY Zenon DEF StreamType
  <2>3. PICK v : \E p \in 1 .. Len(buf) :
                   Parse(buf) = Ok(v, p) /\ Parse(buf).ok = v /\ Parse(buf).n = p
    BY <2>1, <2>2, Takes, Zenon
  <2>4. PICK p \in 1 .. Len(buf) :
                   Parse(buf) = Ok(v, p) /\ Parse(buf).ok = v /\ Parse(buf).n = p
    BY <2>3
  <2>5. Parse(buf) # Incomplete
    BY <2>4, Kinds, Zenon
  <2>6. k < n
    <3>1. k # n
      BY <2>1, <2>5, NothingLeft, Zenon
    <3> HIDE DEF k, n
    <3> QED
      BY <1>0, <3>1
  <2> DEFINE f == frames[k + 1]
             fb == f.bytes
  <2>7. PICK t \in Seq(Byte) :
           /\ fb \in Seq(Byte)
           /\ buf \o rest = fb \o t
           /\ BytesUpTo(frames)[k + 1] \o t = Bytes(frames)
           /\ Parse(buf \o rest) = IF f.value = None THEN Invalid ELSE Ok(f.value, Len(fb))
    BY <2>1, <2>6, NextFrame, Zenon
  <2> HIDE DEF f
  <2>8. v = f.value /\ p = Len(fb)
    <3>1. Ok(v, p) = IF f.value = None THEN Invalid ELSE Ok(f.value, Len(fb))
      BY <2>4, <2>5, <2>7, Foreseen, Zenon
    <3>2. Ok(v, p) = Ok(f.value, Len(fb))
      BY <3>1, Kinds, Zenon
    <3>3. Ok(v, p).ok = v /\ Ok(v, p).n = p /\ Ok(f.value, Len(fb)).ok = f.value
          /\ Ok(f.value, Len(fb)).n = Len(fb)
      BY Kinds, Zenon
    <3> QED
      BY <3>2, <3>3, Zenon
  <2>9. SubSeq(buf, p + 1, Len(buf)) \o rest = t
    <3>1. p \in 0 .. Len(buf) /\ p \in 0 .. Len(fb)
      BY <2>7, <2>8
    <3>2. SubSeq(buf \o rest, p + 1, Len(buf \o rest)) = SubSeq(buf, p + 1, Len(buf)) \o rest
      BY <2>2, <3>1, RestBefore, Zenon
    <3>3. SubSeq(fb \o t, p + 1, Len(fb \o t)) = SubSeq(fb, p + 1, Len(fb)) \o t
      BY <2>7, <3>1, RestBefore, Zenon
    <3>4. SubSeq(fb, p + 1, Len(fb)) = <<>>
      <4>1. p + 1 \in Int /\ Len(fb) \in Int /\ Len(fb) < p + 1
        BY <2>7, <2>8
      <4> QED
        BY <4>1, SubSeqEmpty
    <3>5. <<>> \o t = t
      BY ConcatEmptySeq
    <3> QED
      BY <2>7, <3>2, <3>3, <3>4, <3>5, Zenon
  <2>10. buf' \o rest' = t
    BY <2>1, <2>4, <2>9, Zenon
  <2>11. /\ Len(taken') = k + 1 /\ taken'[k + 1] = v
         /\ \A i \in 1 .. k : taken'[i] = taken[i]
    <3>1. taken' = Append(taken, v)
      BY <2>1, <2>4, Zenon
    <3>2. /\ Len(Append(taken, v)) = k + 1 /\ Append(taken, v)[k + 1] = v
          /\ \A i \in 1 .. k : Append(taken, v)[i] = taken[i]
      BY <2>2, Sequence
    <3> QED
      BY <3>1, <3>2, Zenon
  <2>12. ASSUME NEW i \in 1 .. k + 1 PROVE taken'[i] = frames[i].value
    <3>1. i = k + 1 \/ i \in 1 .. k
      <4> HIDE DEF k
      <4> QED
        BY <1>0
    <3>2. CASE i = k + 1
      BY <2>8, <2>11, <3>2, Zenon DEF f
    <3>3. CASE i \in 1 .. k
      BY <2>11, <3>3, Zenon DEF Aligned
    <3> QED
      BY <3>1, <3>2, <3>3, Zenon
  <2>13. k + 1 <= n
    <3> HIDE DEF k, n
    <3> QED
      BY <1>0, <2>6
  <2>14. status' # "invalid"
    BY <2>1
  <2> QED
    BY <2>1, <2>7, <2>10, <2>11, <2>12, <2>13, <2>14, Zenon DEF Aligned
<1>3. CASE Reject
  <2>1. /\ status = "open" /\ Parse(buf) = Invalid /\ status' = "invalid"
        /\ frames' = frames /\ rest' = rest /\ taken' = taken
    BY <1>3, Zenon DEF Reject
  <2>2. Parse(buf) # Incomplete
    BY <2>1, Kinds, Zenon
  <2>3. k < n
    <3>1. k # n
      BY <2>1, <2>2, NothingLeft, Zenon
    <3> HIDE DEF k, n
    <3> QED
      BY <1>0, <3>1
  <2> DEFINE f == frames[k + 1]
  <2>4. Parse(buf \o rest) = IF f.value = None THEN Invalid ELSE Ok(f.value, Len(f.bytes))
    BY <2>1, <2>3, NextFrame
  <2>5. f.value = None
    BY <2>1, <2>2, <2>4, Foreseen, Kinds, ZenonT(30)
  <2>6. status' # "open"
    BY <2>1
  <2> QED
    BY <2>1, <2>3, <2>5, <2>6, Zenon DEF Aligned
<1>4. CASE UNCHANGED vars
  BY <1>4, Zenon DEF vars, Aligned
<1> QED
  BY <1>1, <1>2, <1>3, <1>4, Zenon DEF Next

LEMMA AlignedGives ==
  ASSUME FramesMeant, StreamType, Aligned
  PROVE  SegmentsDoNotMatter
<1>0. /\ buf \in Seq(Byte) /\ Len(taken) \in Nat /\ Len(frames) \in Nat
      /\ Len(taken) \in 0 .. Len(frames) /\ DOMAIN frames = 1 .. Len(frames)
      /\ DOMAIN taken = 1 .. Len(taken)
  BY Framed, Zenon DEF StreamType
<1>1. Is("ok", Parse(buf)) => Parse(buf).n \in 1 .. Len(buf)
  BY <1>0, Takes, Zenon
<1>2. \A i \in DOMAIN taken : i \in DOMAIN frames /\ taken[i] = frames[i].value
  <2>1. \A i \in DOMAIN taken : i \in DOMAIN frames
    BY <1>0
  <2> QED
    BY <1>0, <2>1, Zenon DEF Aligned
<1>3. status = "invalid" => frames[Len(taken) + 1].value = None
  BY Zenon DEF Aligned
<1>4. ASSUME status = "open", rest = <<>>, Parse(buf) = Incomplete
      PROVE  Len(taken) = Len(frames)
  <2> SUFFICES ASSUME Len(taken) # Len(frames) PROVE FALSE
    BY Zenon
  <2>1. Len(taken) < Len(frames)
    <3>1. \A k, n \in Nat : k \in 0 .. n /\ k # n => k < n
      OBVIOUS
    <3> QED
      BY <1>0, <3>1, Zenon
  <2> DEFINE f == frames[Len(taken) + 1]
  <2>2. Parse(buf \o rest) = IF f.value = None THEN Invalid ELSE Ok(f.value, Len(f.bytes))
    BY <1>4, <2>1, NextFrame
  <2>3. buf \o rest = buf
    BY <1>0, <1>4, ConcatEmptySeq, Zenon
  <2> HIDE DEF f
  <2> QED
    BY <1>4, <2>2, <2>3, Kinds, Zenon
<1> QED
  BY <1>1, <1>2, <1>3, <1>4, Zenon DEF SegmentsDoNotMatter

\* If parse makes of each frame alone what is meant, then of any stream of frames,
\* in whatever pieces it arrives, Client::handle takes the values that were sent,
\* all of them, in their order, and stops at a malformed one and at no other.
THEOREM PiecesDoNotMatter ==
  ASSUME FramesMeant
  PROVE  Spec => []SegmentsDoNotMatter
<1>1. StreamType /\ Aligned /\ [Next]_vars => Aligned'
  BY AlignedStep
<1>2. StreamType /\ Aligned => SegmentsDoNotMatter
  BY AlignedGives
<1> QED
  BY <1>1, <1>2, StreamTypeInit, StreamTypeStep, AlignedInit, PTL DEF Spec

\* Each frame is what write_to makes of a value with no CRLF in a simple string or an
\* error (as a request is: an array of bulk strings), and is meant as what parse takes that
\* value for.
FramesWritten ==
  \A s \in Streams : \A i \in 1 .. Len(s) :
    /\ s[i].value # None
    /\ \E v \in ValuesOf(OneLiners) : s[i].bytes = WriteTo[v] /\ s[i].value = Reread[v]

LEMMA WrittenMeant == FramesWritten => FramesMeant
<1> SUFFICES ASSUME FramesWritten, NEW s \in Streams, NEW i \in 1 .. Len(s)
             PROVE  s[i].value # None /\ Parse(s[i].bytes) = Ok(s[i].value, Len(s[i].bytes))
  BY Zenon DEF FramesMeant
<1>1. s[i].value # None
  BY Zenon DEF FramesWritten
<1>2. PICK v \in ValuesOf(OneLiners) : s[i].bytes = WriteTo[v] /\ s[i].value = Reread[v]
  BY Zenon DEF FramesWritten
<1>3. Parse(WriteTo[v]) = Ok(Reread[v], Len(WriteTo[v]))
  BY ParseInvertsWrite, Zenon
<1> QED
  BY <1>1, <1>2, <1>3, Zenon

\* End to end: of any stream of values that were written by write_to, in whatever pieces
\* it arrives, Client::handle takes the values that were written, all of them and in their
\* order, and never finds the stream malformed.
THEOREM WrittenStreamsAreRead ==
  ASSUME FramesWritten
  PROVE  Spec => [](SegmentsDoNotMatter /\ status # "invalid")
<1>1. FramesMeant
  BY WrittenMeant
<1>2. StreamType /\ Aligned /\ [Next]_vars => Aligned'
  BY <1>1, AlignedStep
<1>3. StreamType /\ Aligned => SegmentsDoNotMatter
  BY <1>1, AlignedGives
<1>4. StreamType /\ Aligned => status # "invalid"
  <2> SUFFICES ASSUME StreamType, Aligned, status = "invalid" PROVE FALSE
    OBVIOUS
  <2>1. frames \in Streams /\ frames[Len(taken) + 1].value = None /\ Len(taken) < Len(frames)
    BY Zenon DEF StreamType, Aligned
  <2>2. Len(taken) + 1 \in 1 .. Len(frames)
    <3>1. \A k, n \in Nat : k < n => k + 1 \in 1 .. n
      OBVIOUS
    <3> QED
      BY <2>1, <3>1, Framed, Zenon
  <2> QED
    BY <2>1, <2>2, Zenon DEF FramesWritten
<1> QED
  BY <1>2, <1>3, <1>4, StreamTypeInit, StreamTypeStep, AlignedInit, PTL DEF Spec
-----------------------------------------------------------------------------
(* Commands *)

LEMMA OutcomeKinds ==
  /\ ~Is("cmd", Panic) /\ ~Is("cmd", Refused) /\ Panic # Refused
  /\ \A c : /\ Is("cmd", Cmd(c)) /\ Cmd(c).cmd = c
            /\ Cmd(c) # Panic /\ Cmd(c) # Refused
BY DEF Is, Panic, Refused, Cmd

Words_ == Texts \cup {"?"}

LEMMA TextType == \A v : TextOf(v) \in Words_
<1> SUFFICES ASSUME NEW v PROVE TextOf(v) \in Words_
  OBVIOUS
<1>1. CASE \E t \in Texts : BytesOf(t) = v.bulk
  <2>1. TextOf(v) = CHOOSE t \in Texts : BytesOf(t) = v.bulk
    BY <1>1, Zenon DEF TextOf
  <2>2. TextOf(v) \in Texts
    BY <1>1, <2>1, Zenon
  <2> QED
    BY <2>2, Zenon DEF Words_
<1>2. CASE ~\E t \in Texts : BytesOf(t) = v.bulk
  BY <1>2, Zenon DEF TextOf, Words_
<1> QED
  BY <1>1, <1>2, Zenon

LEMMA NumberType == \A v : NumberOf(v) \in -I32Max - 1 .. I32Max
<1> SUFFICES ASSUME NEW v PROVE NumberOf(v) \in -I32Max - 1 .. I32Max
  OBVIOUS
<1>1. CASE TextOf(v) = "?"
  <2>1. 0 \in -I32Max - 1 .. I32Max
    BY CommandAssumption
  <2> QED
    BY <1>1, <2>1, Zenon DEF NumberOf
<1>2. CASE TextOf(v) # "?"
  <2>1. TextOf(v) \in Texts
    BY <1>2, TextType, Zenon DEF Words_
  <2>2. Number[TextOf(v)] \in -I32Max - 1 .. I32Max
    BY <2>1, CommandAssumption, Zenon
  <2> QED
    BY <1>2, <2>2, Zenon DEF NumberOf
<1> QED
  BY <1>1, <1>2, Zenon

LEMMA Remainder ==
  ASSUME NEW a \in Int, NEW b \in Nat \ {0}
  PROVE  a % b \in 0 .. b - 1 /\ (a \in 0 .. b - 1 => a % b = a)
<1>1. a % b \in 0 .. b - 1
  BY SMTT(30)
<1>2. ASSUME a \in 0 .. b - 1 PROVE a % b = a
  BY <1>2, SMTT(30)
<1> QED
  BY <1>1, <1>2

\* i32 arithmetic gives an i32, and the exact number if it is one.
LEMMA Wraps ==
  ASSUME NEW n \in Int
  PROVE  /\ Wrap(n) \in -I32Max - 1 .. I32Max
         /\ n \in -I32Max - 1 .. I32Max => Wrap(n) = n
<1> DEFINE b == 2 * (I32Max + 1)
           a == n + I32Max + 1
           r == a % b
<1>0. I32Max \in Nat
  BY CommandAssumption
<1>1. a \in Int /\ b \in Nat \ {0}
  BY <1>0
<1>2. Wrap(n) = r - I32Max - 1
  BY Zenon DEF Wrap
<1> HIDE DEF Wrap
<1>3. r \in 0 .. b - 1 /\ (a \in 0 .. b - 1 => r = a)
  <2> HIDE DEF a, b
  <2> QED
    BY <1>1, Remainder
<1> HIDE DEF r
<1>4. r \in Int /\ r >= 0 /\ r <= 2 * I32Max + 1
  BY <1>0, <1>3
<1>5. Wrap(n) \in -I32Max - 1 .. I32Max
  BY <1>0, <1>2, <1>4
<1>6. ASSUME n \in -I32Max - 1 .. I32Max PROVE Wrap(n) = n
  <2>1. a \in 0 .. b - 1
    BY <1>0, <1>6
  <2>2. r = n + I32Max + 1
    BY <1>3, <2>1
  <2> QED
    BY <1>0, <1>2, <2>2
<1> QED
  BY <1>5, <1>6

LEMMA Unsigned ==
  ASSUME NEW n \in -I32Max - 1 .. I32Max
  PROVE  AsU64(n) \in Nat /\ AsU64(n) # None /\ (n >= 0 => AsU64(n) = n)
<1>1. AsU64(n) \in Nat /\ (n >= 0 => AsU64(n) = n)
  BY CommandAssumption DEF AsU64
<1> QED
  BY <1>1, CommandAssumption

LEMMA PushValuesType ==
  ASSUME NEW args, Len(args) \in Nat
  PROVE  PushValues(args) \in Seq(Words_)
<1> DEFINE V == ValuesUpTo(args)
           n == Len(args)
           S == {i \in 0 .. n : V[i] \in Seq(Words_)}
<1>1. /\ PushValues(args) = V[n] /\ V[0] = <<>>
      /\ \A i \in 0 .. n - 1 : V[i + 1] = NextValue(V[i], i + 1, args)
  BY ValuesRecursion
<1>2. n \in Nat
  OBVIOUS
<1> HIDE DEF V, n
<1>3. 0 \in S
  <2>1. <<>> \in Seq(Words_) /\ 0 \in 0 .. n
    BY <1>2
  <2> QED
    BY <1>1, <2>1, Zenon
<1>4. ASSUME NEW i \in 0 .. n - 1, i \in S PROVE i + 1 \in S
  <2>1. V[i] \in Seq(Words_)
    BY <1>4, Zenon
  <2>2. V[i + 1] \in {V[i], Append(V[i], TextOf(args[i + 1]))}
    BY <1>1, Zenon DEF NextValue
  <2>3. Append(V[i], TextOf(args[i + 1])) \in Seq(Words_)
    <3>1. TextOf(args[i + 1]) \in Words_
      BY TextType, Zenon
    <3> QED
      BY <2>1, <3>1, AppendProperties
  <2>4. V[i + 1] \in Seq(Words_)
    BY <2>1, <2>2, <2>3, Zenon
  <2>5. i + 1 \in 0 .. n
    BY <1>2
  <2> QED
    BY <2>4, <2>5, Zenon
<1>5. n \in S
  <2>1. 0 .. n \subseteq S
    <3> HIDE DEF S
    <3> QED
      BY <1>2, <1>3, <1>4, Induction
  <2>2. n \in 0 .. n
    BY <1>2
  <2> QED
    BY <2>1, <2>2, Zenon
<1> QED
  BY <1>1, <1>5, Zenon

\* The fields of a command for the store.
Form(op, key, vals, ttl, opt, range) ==
  [op |-> op, key |-> key, vals |-> vals, ttl |-> ttl, opt |-> opt, range |-> range]

FitsStore(c) ==
  c.op \in Store!DbOps =>
    /\ c \in Store!Request
    /\ c.op = "SET" => Len(c.vals) = 1
    /\ c.op = "EXPIRE" => c.ttl # None

\* The lifetime of a SET or an EXPIRE is the argument, if it fits.
KeepsLifetime(c, args) ==
  /\ c.op = "SET" /\ c.ttl # None =>
       /\ Len(args) >= 4
       /\ LET n    == NumberOf(args[4])
              unit == IF UpperOf(args[3]) = "EX" THEN PerSecond ELSE 1
          IN  n >= 0 /\ n * unit <= I32Max => c.ttl = n * unit
  /\ c.op = "EXPIRE" =>
       /\ Len(args) >= 2
       /\ LET n == NumberOf(args[2]) IN n >= 0 /\ n * 1 <= I32Max => c.ttl = n * 1

LEMMA FormFits ==
  ASSUME NEW op \in {"SET", "GET", "DELETE", "LPUSH", "RPUSH", "LRANGE", "EXPIRE"},
         NEW key \in Words_, NEW vals \in Seq(Words_), NEW ttl \in Nat \cup {None},
         NEW opt \in {"NX", "XX", "GT", "LT", None}, NEW range \in Int \X Int,
         op = "SET" => Len(vals) = 1, op = "EXPIRE" => ttl # None
  PROVE  FitsStore(Form(op, key, vals, ttl, opt, range))
<1> DEFINE c == Form(op, key, vals, ttl, opt, range)
<1>1. c.op = op /\ c.vals = vals /\ c.ttl = ttl
  BY DEF Form
<1>2. opt \in Store!ExpireOptions \cup {None} /\ op \in Store!DbOps
  BY DEF Store!ExpireOptions, Store!DbOps
<1>3. c \in Store!Request
  BY <1>2 DEF Store!Request, Form, Words_
<1> HIDE DEF c
<1> QED
  BY <1>1, <1>3, Zenon DEF FitsStore, c

\* The same for the commands that have no lifetime and no option.
LEMMA PlainFits ==
  ASSUME NEW op \in {"GET", "DELETE", "LPUSH", "RPUSH", "LRANGE"},
         NEW key \in Words_, NEW vals \in Seq(Words_), NEW range \in Int \X Int
  PROVE  FitsStore(Form(op, key, vals, None, None, range))
<1>1. /\ op \in {"SET", "GET", "DELETE", "LPUSH", "RPUSH", "LRANGE", "EXPIRE"}
      /\ op # "SET" /\ op # "EXPIRE"
  OBVIOUS
<1>2. None \in Nat \cup {None} /\ None \in {"NX", "XX", "GT", "LT", None}
  OBVIOUS
<1> QED
  BY <1>1, <1>2, FormFits, Zenon

LEMMA NoValues == <<>> \in Seq(Words_) /\ <<0, 0>> \in Int \X Int
  OBVIOUS

\* What parse_command can make of the arguments.
Answers(o, cmd, args, bld) ==
  \/ o = Refused
  \/ /\ o = Panic
     /\ \/ Len(args) < Arity(cmd)
        \/ /\ cmd = "SET" /\ bld = "debug" /\ Len(args) >= 4
           /\ NumberOf(args[4]) * PerSecond \notin -I32Max - 1 .. I32Max
  \/ \E c : o = Cmd(c) /\ FitsStore(c) /\ KeepsLifetime(c, args)

LEMMA SetAnswers ==
  ASSUME NEW args, Len(args) \in Nat, NEW bld
  PROVE  Answers(ParseSet(args, bld), "SET", args, bld)
<1> DEFINE key  == TextOf(args[1])
           vals == <<TextOf(args[2])>>
           flag == UpperOf(args[3])
           n    == NumberOf(args[4])
           set  == Form("SET", key, vals, None, None, <<0, 0>>)
           with(t) == Form("SET", key, vals, t, None, <<0, 0>>)
           o    == ParseSet(args, bld)
<1>1. [Request("SET", key) EXCEPT !.vals = vals] = set /\ \A t : [set EXCEPT !.ttl = t] = with(t)
  BY DEF Request, Form
<1>2. n \in -I32Max - 1 .. I32Max /\ key \in Words_ /\ TextOf(args[2]) \in Words_
  BY NumberType, TextType, Zenon
<1>3. vals \in Seq(Words_) /\ Len(vals) = 1 /\ <<0, 0>> \in Int \X Int
  BY <1>2
<1>4. ASSUME NEW t \in Nat \cup {None}
      PROVE  FitsStore(with(t)) /\ with(t).op = "SET" /\ with(t).ttl = t
  <2> HIDE DEF vals, key
  <2>1. FitsStore(with(t))
    BY <1>2, <1>3, FormFits
  <2>2. with(t).op = "SET" /\ with(t).ttl = t
    BY DEF Form
  <2> QED
    BY <2>1, <2>2, Zenon
<1> HIDE DEF key, vals
<1>5. \/ o = Refused \/ o = Cmd(set)
      \/ /\ ~(Len(args) < 4)
         /\ \/ flag = "EX" /\ ExPanics(n, bld) /\ o = Panic
            \/ flag = "EX" /\ o = Cmd(with(AsU64(Ex(n))))
            \/ flag = "PX" /\ o = Cmd(with(AsU64(n)))
  <2> DEFINE rest_ == CASE flag = "EX" /\ ExPanics(n, bld) -> Panic
             [] flag = "EX" /\ ~ExPanics(n, bld) -> Cmd([set EXCEPT !.ttl = AsU64(Ex(n))])
             [] flag = "PX" -> Cmd([set EXCEPT !.ttl = AsU64(n)])
             [] OTHER       -> Refused
  <2>1. o = IF Len(args) < 2 THEN Refused
            ELSE IF ~AllBulk(args, 2) THEN Refused
            ELSE IF Len(args) < 4 THEN Cmd(set)
            ELSE IF ~AllBulk(args, 4) THEN Refused
            ELSE rest_
    <3> HIDE DEF set
    <3>1. o = IF Len(args) < 2 THEN Refused
            ELSE IF ~AllBulk(args, 2) THEN Refused
            ELSE IF Len(args) < 4 THEN Cmd([Request("SET", key) EXCEPT !.vals = vals])
            ELSE IF ~AllBulk(args, 4) THEN Refused
            ELSE CASE flag = "EX" /\ ExPanics(n, bld) -> Panic
             [] flag = "EX" /\ ~ExPanics(n, bld) ->
                  Cmd([[Request("SET", key) EXCEPT !.vals = vals] EXCEPT !.ttl = AsU64(Ex(n))])
             [] flag = "PX" -> Cmd([[Request("SET", key) EXCEPT !.vals = vals] EXCEPT !.ttl = AsU64(n)])
             [] OTHER       -> Refused
      BY DEF ParseSet, key, vals
    <3> QED
      BY <1>1, <3>1, Zenon
  <2>2. \/ flag = "EX" /\ ExPanics(n, bld) /\ rest_ = Panic
        \/ flag = "EX" /\ rest_ = Cmd([set EXCEPT !.ttl = AsU64(Ex(n))])
        \/ flag = "PX" /\ rest_ = Cmd([set EXCEPT !.ttl = AsU64(n)])
        \/ rest_ = Refused
    <3> HIDE DEF flag, set, n
    <3> QED
      OBVIOUS
  <2> HIDE DEF rest_, set, flag, n, o
  <2>3. \/ flag = "EX" /\ ExPanics(n, bld) /\ rest_ = Panic
        \/ flag = "EX" /\ rest_ = Cmd(with(AsU64(Ex(n))))
        \/ flag = "PX" /\ rest_ = Cmd(with(AsU64(n)))
        \/ rest_ = Refused
    BY <1>1, <2>2, Zenon
  <2> HIDE DEF with
  <2> QED
    BY <2>1, <2>3, Zenon
<1> DEFINE unit == IF flag = "EX" THEN PerSecond ELSE 1
<1>6. PerSecond \in Nat \ {0} /\ I32Max \in Nat /\ n * PerSecond \in Int
  <2> HIDE DEF n
  <2> QED
    BY <1>2, CommandAssumption
<1>7. ASSUME NEW t \in Nat, ~(Len(args) < 4), n >= 0 /\ n * unit <= I32Max => t = n * unit
      PROVE  KeepsLifetime(with(t), args)
  <2>1. Len(args) >= 4
    BY <1>7
  <2>2. with(t).op = "SET" /\ with(t).ttl = t
    BY <1>4, Zenon
  <2> HIDE DEF with
  <2>3. with(t).op # "EXPIRE"
    BY <2>2
  <2> QED
    BY <1>7, <2>1, <2>2, <2>3, Zenon DEF KeepsLifetime
<1> HIDE DEF o, with
<1>8. CASE o = Cmd(set)
  <2>1. set = with(None)
    BY Zenon DEF with
  <2> HIDE DEF set
  <2>2. with(None).op # "EXPIRE" /\ with(None).ttl = None /\ FitsStore(with(None))
    <3>1. with(None).op = "SET" /\ with(None).ttl = None /\ FitsStore(with(None))
      BY <1>4, Zenon
    <3> QED
      BY <3>1
  <2>3. KeepsLifetime(with(None), args)
    BY <2>2, Zenon DEF KeepsLifetime
  <2> QED
    BY <1>8, <2>1, <2>2, <2>3, Zenon DEF Answers, o
<1>9. CASE ~(Len(args) < 4) /\ flag = "EX" /\ ExPanics(n, bld) /\ o = Panic
  <2>1. Len(args) >= 4
    BY <1>9
  <2>2. bld = "debug" /\ n * PerSecond # Wrap(n * PerSecond)
    BY <1>9, Zenon DEF ExPanics
  <2>3. n * PerSecond \notin -I32Max - 1 .. I32Max
    BY <1>6, <2>2, Wraps, Zenon
  <2> QED
    BY <1>9, <2>1, <2>2, <2>3, Zenon DEF Answers, o
<1>10. CASE ~(Len(args) < 4) /\ flag = "EX" /\ o = Cmd(with(AsU64(Ex(n))))
  <2> DEFINE t == AsU64(Ex(n))
             p == n * PerSecond
  <2>1. Ex(n) = Wrap(p) /\ Wrap(p) \in -I32Max - 1 .. I32Max
        /\ (p \in -I32Max - 1 .. I32Max => Wrap(p) = p)
    BY <1>6, Wraps, Zenon DEF Ex
  <2>2. t \in Nat /\ (Wrap(p) >= 0 => t = Wrap(p))
    BY <2>1, Unsigned, Zenon
  <2>3. unit = PerSecond
    BY <1>10, Zenon
  <2>4. ASSUME n >= 0, n * unit <= I32Max PROVE t = n * unit
    <3>1. p >= 0
      <4> HIDE DEF n
      <4> QED
        BY <1>2, <1>6, <2>4
    <3> HIDE DEF t, n, unit
    <3>2. p \in -I32Max - 1 .. I32Max
      BY <1>6, <2>3, <2>4, <3>1
    <3> HIDE DEF p
    <3>3. t = p
      BY <2>1, <2>2, <3>1, <3>2
    <3> QED
      BY <2>3, <3>3 DEF p
  <2> HIDE DEF t
  <2>5. KeepsLifetime(with(t), args)
    BY <1>7, <1>10, <2>2, <2>4
  <2>6. FitsStore(with(t)) /\ o = Cmd(with(t))
    BY <1>4, <1>10, <2>2, Zenon DEF t
  <2> QED
    BY <2>5, <2>6, Zenon DEF Answers, o
<1>11. CASE ~(Len(args) < 4) /\ flag = "PX" /\ o = Cmd(with(AsU64(n)))
  <2> DEFINE t == AsU64(n)
  <2>1. t \in Nat /\ (n >= 0 => t = n)
    BY <1>2, Unsigned, Zenon
  <2>2. unit = 1
    BY <1>11
  <2>3. ASSUME n >= 0, n * unit <= I32Max PROVE t = n * unit
    <3> HIDE DEF t, n, unit
    <3> QED
      BY <2>1, <2>2, <2>3
  <2> HIDE DEF t
  <2>4. KeepsLifetime(with(t), args)
    BY <1>7, <1>11, <2>1, <2>3
  <2>5. FitsStore(with(t)) /\ o = Cmd(with(t))
    BY <1>4, <1>11, <2>1, Zenon DEF t
  <2> QED
    BY <2>4, <2>5, Zenon DEF Answers, o
<1>12. CASE o = Refused
  BY <1>12, Zenon DEF Answers, o
<1> QED
  BY <1>5, <1>8, <1>9, <1>10, <1>11, <1>12, Zenon

\* An indexed argument that is missing panics: the arity is the number indexed.
LEMMA IndexedAnswers ==
  ASSUME NEW args, NEW o, NEW cmd, NEW bld, NEW n, n = Arity(cmd),
         ~(Len(args) < n) => Answers(o, cmd, args, bld)
  PROVE  Answers(Indexed(args, n, o), cmd, args, bld)
<1>1. \/ Indexed(args, n, o) = Panic /\ Len(args) < n
      \/ Indexed(args, n, o) = Refused
      \/ Indexed(args, n, o) = o /\ ~(Len(args) < n)
  BY Zenon DEF Indexed
<1>2. CASE Indexed(args, n, o) = Panic /\ Len(args) < n
  BY <1>2, Zenon DEF Answers
<1>3. CASE Indexed(args, n, o) = Refused
  BY <1>3, Zenon DEF Answers
<1>4. CASE Indexed(args, n, o) = o /\ ~(Len(args) < n)
  BY <1>4, Zenon
<1> QED
  BY <1>1, <1>2, <1>3, <1>4, Zenon

LEMMA Answered ==
  ASSUME NEW c, NEW cmd, NEW args, NEW bld, FitsStore(c), c.op \notin {"SET", "EXPIRE"}
  PROVE  Answers(Cmd(c), cmd, args, bld)
<1>1. c.op # "SET" /\ c.op # "EXPIRE"
  OBVIOUS
<1>2. KeepsLifetime(c, args)
  BY <1>1, Zenon DEF KeepsLifetime
<1> QED
  BY <1>2, Zenon DEF Answers

LEMMA KeyAnswers ==
  ASSUME NEW args, NEW cmd \in {"GET", "DELETE"}, NEW bld
  PROVE  Answers(Indexed(args, 1, Cmd(Request(cmd, TextOf(args[1])))), cmd, args, bld)
<1> DEFINE key == TextOf(args[1])
           c   == Form(cmd, key, <<>>, None, None, <<0, 0>>)
<1>1. key \in Words_
  BY TextType, Zenon
<1>2. 1 = Arity(cmd)
  BY DEF Arity
<1> HIDE DEF key
<1>3. FitsStore(c)
  BY <1>1, NoValues, PlainFits, Zenon
<1>4. Request(cmd, key) = c /\ c.op \notin {"SET", "EXPIRE"}
  BY DEF Request, Form
<1> HIDE DEF c
<1>5. Answers(Cmd(c), cmd, args, bld)
  BY <1>3, <1>4, Answered
<1> QED
  BY <1>2, <1>4, <1>5, IndexedAnswers DEF key

LEMMA PushAnswers ==
  ASSUME NEW args, Len(args) \in Nat, NEW cmd \in {"LPUSH", "RPUSH"}, NEW bld
  PROVE  Answers(ParsePush(cmd, args), cmd, args, bld)
<1> DEFINE key  == TextOf(args[1])
           vals == PushValues(args)
           c    == Form(cmd, key, vals, None, None, <<0, 0>>)
<1>1. key \in Words_
  BY TextType, Zenon
<1>2. 1 = Arity(cmd)
  BY DEF Arity
<1>3. vals \in Seq(Words_)
  BY PushValuesType
<1> HIDE DEF key, vals
<1>4. FitsStore(c)
  BY <1>1, <1>3, NoValues, PlainFits
<1>5. [Request(cmd, key) EXCEPT !.vals = vals] = c /\ c.op \notin {"SET", "EXPIRE"}
  BY DEF Request, Form
<1> HIDE DEF c
<1>6. ParsePush(cmd, args) = Indexed(args, 1, Cmd(c))
  BY <1>5 DEF ParsePush, key, vals
<1>7. Answers(Cmd(c), cmd, args, bld)
  BY <1>4, <1>5, Answered
<1> QED
  BY <1>2, <1>6, <1>7, IndexedAnswers

LEMMA LRangeAnswers ==
  ASSUME NEW args, NEW bld
  PROVE  Answers(ParseLRange(args), "LRANGE", args, bld)
<1> DEFINE key   == TextOf(args[1])
           range == <<NumberOf(args[2]), NumberOf(args[3])>>
           c     == Form("LRANGE", key, <<>>, None, None, range)
<1>1. key \in Words_ /\ NumberOf(args[2]) \in -I32Max - 1 .. I32Max
        /\ NumberOf(args[3]) \in -I32Max - 1 .. I32Max
  BY TextType, NumberType, Zenon
<1>2. 3 = Arity("LRANGE")
  BY DEF Arity
<1>3. range \in Int \X Int
  BY <1>1, CommandAssumption
<1> HIDE DEF key, range
<1>4. FitsStore(c)
  BY <1>1, <1>3, NoValues, PlainFits, Zenon
<1>5. [Request("LRANGE", key) EXCEPT !.range = range] = c /\ c.op \notin {"SET", "EXPIRE"}
  BY DEF Request, Form
<1> HIDE DEF c
<1>6. ParseLRange(args) = Indexed(args, 3, Cmd(c))
  BY <1>5 DEF ParseLRange, key, range
<1>7. Answers(Cmd(c), "LRANGE", args, bld)
  BY <1>4, <1>5, Answered
<1> QED
  BY <1>2, <1>6, <1>7, IndexedAnswers

LEMMA ExpireAnswers ==
  ASSUME NEW args, Len(args) \in Nat, NEW bld
  PROVE  Answers(ParseExpire(args), "EXPIRE", args, bld)
<1> DEFINE key == TextOf(args[1])
           n   == NumberOf(args[2])
           t   == AsU64(n)
           opt == TextOf(args[3])
           c   == Form("EXPIRE", key, <<>>, t, None, <<0, 0>>)
           d   == Form("EXPIRE", key, <<>>, t, opt, <<0, 0>>)
           o   == IF Len(args) = 2 THEN Cmd(c)
                  ELSE IF ~Is("bulk", args[3]) \/ opt \notin {"NX", "XX", "GT", "LT"}
                  THEN Refused
                  ELSE Cmd(d)
<1>1. key \in Words_ /\ n \in -I32Max - 1 .. I32Max
  BY TextType, NumberType, Zenon
<1>2. t \in Nat /\ t # None /\ (n >= 0 => t = n)
  BY <1>1, Unsigned, Zenon
<1>3. 2 = Arity("EXPIRE")
  BY DEF Arity
<1>4. ParseExpire(args) = Indexed(args, 2, o)
  <2>1. /\ [Request("EXPIRE", key) EXCEPT !.ttl = t] = c
        /\ [[Request("EXPIRE", key) EXCEPT !.ttl = t] EXCEPT !.opt = opt] = d
    <3> HIDE DEF key, t, opt
    <3>1. [Request("EXPIRE", key) EXCEPT !.ttl = t] = c
      BY DEF Request, Form
    <3>2. [c EXCEPT !.opt = opt] = d
      BY DEF Form
    <3> HIDE DEF c, d
    <3> QED
      BY <3>1, <3>2, Zenon
  <2> HIDE DEF c, d
  <2> QED
    BY <2>1 DEF ParseExpire
<1>5. ASSUME NEW p \in {"NX", "XX", "GT", "LT", None}, ~(Len(args) < 2)
      PROVE  Answers(Cmd(Form("EXPIRE", key, <<>>, t, p, <<0, 0>>)), "EXPIRE", args, bld)
  <2> DEFINE e == Form("EXPIRE", key, <<>>, t, p, <<0, 0>>)
  <2> HIDE DEF key, t
  <2>0. /\ "EXPIRE" \in {"SET", "GET", "DELETE", "LPUSH", "RPUSH", "LRANGE", "EXPIRE"}
        /\ "EXPIRE" # "SET" /\ t \in Nat \cup {None}
    BY <1>2
  <2>1. FitsStore(e)
    BY <1>1, <1>2, <1>5, <2>0, NoValues, FormFits, Zenon
  <2>2. e.op # "SET" /\ e.ttl = t
    BY DEF Form
  <2>3. Len(args) >= 2
    BY <1>5
  <2>4. ASSUME n >= 0 PROVE t = n * 1
    <3> HIDE DEF n
    <3> QED
      BY <1>1, <1>2, <2>4, CommandAssumption
  <2> HIDE DEF e
  <2>5. KeepsLifetime(e, args)
    BY <2>2, <2>3, <2>4, Zenon DEF KeepsLifetime
  <2> QED
    BY <2>1, <2>5, Zenon DEF Answers, e
<1>6. ASSUME ~(Len(args) < 2) PROVE Answers(o, "EXPIRE", args, bld)
  <2>1. CASE Len(args) = 2
    <3>1. Answers(Cmd(c), "EXPIRE", args, bld)
      BY <1>5, <1>6
    <3> HIDE DEF c, d
    <3> QED
      BY <2>1, <3>1, Zenon
  <2>2. CASE Len(args) # 2 /\ (~Is("bulk", args[3]) \/ opt \notin {"NX", "XX", "GT", "LT"})
    <3> HIDE DEF c, d
    <3>1. o = Refused
      BY <2>2, Zenon
    <3> QED
      BY <3>1, Zenon DEF Answers
  <2>3. CASE Len(args) # 2 /\ Is("bulk", args[3]) /\ opt \in {"NX", "XX", "GT", "LT"}
    <3>1. Answers(Cmd(d), "EXPIRE", args, bld)
      BY <1>5, <1>6, <2>3
    <3> HIDE DEF c, d
    <3>2. o = Cmd(d)
      BY <2>3, Zenon
    <3> QED
      BY <3>1, <3>2
  <2> QED
    BY <2>1, <2>2, <2>3, Zenon
<1> HIDE DEF o
<1> QED
  BY <1>3, <1>4, <1>6, IndexedAnswers

LEMMA OtherAnswers ==
  ASSUME NEW c, c.op \in {"PING", "ECHO", "MULTI", "DISCARD", "EXEC", "SAVE"},
         NEW cmd, NEW args, NEW bld
  PROVE  Answers(Cmd(c), cmd, args, bld)
<1>1. c.op \notin {"SET", "EXPIRE"} /\ c.op \notin Store!DbOps
  BY DEF Store!DbOps
<1>2. FitsStore(c)
  BY <1>1, Zenon DEF FitsStore
<1> QED
  BY <1>1, <1>2, Answered

\* parse_command answers with a command that the store takes, with an error, or
\* with a panic for a missing argument or an EX that overflows.
LEMMA CommandAnswers ==
  ASSUME NEW cmd, NEW args, Len(args) \in Nat, NEW bld
  PROVE  Answers(ParseCommand(cmd, args, bld), cmd, args, bld)
<1> DEFINE o == ParseCommand(cmd, args, bld)
<1>1. CASE cmd \in {"PING", "COMMAND"}
  <2>1. o = Cmd([op |-> "PING"]) /\ [op |-> "PING"].op = "PING"
    BY <1>1 DEF ParseCommand
  <2> QED
    BY <2>1, OtherAnswers
<1>2. CASE cmd = "ECHO"
  <2> DEFINE c == [op |-> "ECHO", msg |-> TextOf(args[1])]
  <2>1. o = Indexed(args, 1, Cmd(c)) /\ c.op = "ECHO" /\ 1 = Arity(cmd)
    BY <1>2 DEF ParseCommand, Arity
  <2> HIDE DEF c
  <2>2. Answers(Cmd(c), cmd, args, bld)
    BY <2>1, OtherAnswers
  <2> QED
    BY <2>1, <2>2, IndexedAnswers
<1>3. CASE cmd = "SET"
  BY <1>3, SetAnswers DEF ParseCommand
<1>4. CASE cmd \in {"GET", "DELETE"}
  BY <1>4, KeyAnswers DEF ParseCommand
<1>5. CASE cmd \in {"LPUSH", "RPUSH"}
  BY <1>5, PushAnswers DEF ParseCommand
<1>6. CASE cmd = "LRANGE"
  BY <1>6, LRangeAnswers DEF ParseCommand
<1>7. CASE cmd = "EXPIRE"
  BY <1>7, ExpireAnswers DEF ParseCommand
<1>8. CASE cmd \in {"MULTI", "DISCARD", "EXEC", "SAVE"}
  <2> DEFINE c == [op |-> cmd]
  <2>1. o = Cmd(c) /\ c.op = cmd
    BY <1>8 DEF ParseCommand
  <2> HIDE DEF c
  <2> QED
    BY <1>8, <2>1, OtherAnswers
<1>9. CASE cmd \notin {"PING", "COMMAND", "ECHO", "SET", "GET", "DELETE", "LPUSH", "RPUSH",
                       "LRANGE", "EXPIRE", "MULTI", "DISCARD", "EXEC", "SAVE"}
  <2>1. o = Refused
    BY <1>9 DEF ParseCommand
  <2> QED
    BY <2>1, Zenon DEF Answers
<1> HIDE DEF o
<1> QED
  BY <1>1, <1>2, <1>3, <1>4, <1>5, <1>6, <1>7, <1>8, <1>9 DEF o

\* extract_command takes the first element for the name, the others for arguments.
LEMMA ExtractAnswers ==
  ASSUME NEW v, IsValue(v), NEW bld
  PROVE  \/ ExtractCommand(v, bld) = Refused
         \/ \E args : /\ Len(args) \in Nat /\ Len(v.array) = Len(args) + 1
                      /\ \A j \in 1 .. Len(args) : args[j] = v.array[j + 1]
                      /\ Answers(ExtractCommand(v, bld), UpperOf(v.array[1]), args, bld)
<1> DEFINE o == ExtractCommand(v, bld)
<1>1. \/ o = Refused
      \/ /\ Is("array", v) /\ v.array # <<>>
         /\ o = ParseCommand(UpperOf(Head(v.array)), Tail(v.array), bld)
  BY Zenon DEF ExtractCommand
<1>2. ASSUME Is("array", v), v.array # <<>>,
             o = ParseCommand(UpperOf(Head(v.array)), Tail(v.array), bld)
      PROVE  \E args : /\ Len(args) \in Nat /\ Len(v.array) = Len(args) + 1
                       /\ \A j \in 1 .. Len(args) : args[j] = v.array[j + 1]
                       /\ Answers(o, UpperOf(v.array[1]), args, bld)
  <2> DEFINE a == v.array
  <2>1. PICK S : a \in Seq(S)
    BY <1>2, Zenon DEF IsValue, IsSeq
  <2>2. a # <<>>
    BY <1>2
  <2> HIDE DEF o
  <2> SUFFICES /\ Len(Tail(a)) \in Nat /\ Len(a) = Len(Tail(a)) + 1
               /\ \A j \in 1 .. Len(Tail(a)) : Tail(a)[j] = a[j + 1]
               /\ Answers(o, UpperOf(a[1]), Tail(a), bld)
    BY Zenon
  <2> HIDE DEF a
  <2>3. /\ Tail(a) \in Seq(S) /\ Len(Tail(a)) = Len(a) - 1
        /\ \A j \in 1 .. Len(Tail(a)) : Tail(a)[j] = a[j + 1]
    BY <2>1, <2>2, HeadTailProperties
  <2>4. Len(Tail(a)) \in Nat /\ Len(a) = Len(Tail(a)) + 1
    BY <2>1, <2>3
  <2>5. Head(a) = a[1]
    BY <2>1, <2>2
  <2>6. o = ParseCommand(UpperOf(a[1]), Tail(a), bld)
    BY <1>2, <2>5, Zenon DEF a
  <2>7. Answers(o, UpperOf(a[1]), Tail(a), bld)
    BY <2>4, <2>6, CommandAnswers, Zenon
  <2> QED
    BY <2>3, <2>4, <2>7, Zenon
<1> QED
  BY <1>1, <1>2, Zenon

\* What the three properties say of one value and its outcome.
LifetimeOf(c, a) ==
  LET n    == NumberOf(IF c.op = "SET" THEN a[5] ELSE a[3])
      unit == IF c.op = "SET" /\ UpperOf(a[4]) = "EX" THEN PerSecond ELSE 1
  IN  c.op \in {"SET", "EXPIRE"} /\ c.ttl # None /\ n >= 0 /\ n * unit <= I32Max
        => c.ttl = n * unit

PanicOf(a, bld) ==
  \/ Len(a) - 1 < Arity(UpperOf(a[1]))
  \/ /\ UpperOf(a[1]) = "SET" /\ bld = "debug"
     /\ NumberOf(a[5]) * PerSecond \notin -I32Max - 1 .. I32Max

LEMMA LifetimeMoves ==
  ASSUME NEW c, NEW args, NEW a, Len(args) \in Nat,
         \A j \in 1 .. Len(args) : args[j] = a[j + 1], KeepsLifetime(c, args)
  PROVE  LifetimeOf(c, a)
<1>1. CASE c.op = "SET" /\ c.ttl # None
  <2>1. Len(args) >= 4
    BY <1>1, Zenon DEF KeepsLifetime
  <2>2. args[4] = a[5] /\ args[3] = a[4]
    BY <2>1
  <2> QED
    BY <1>1, <2>2, Zenon DEF KeepsLifetime, LifetimeOf
<1>2. CASE c.op = "EXPIRE"
  <2>1. Len(args) >= 2
    BY <1>2, Zenon DEF KeepsLifetime
  <2>2. args[2] = a[3] /\ c.op # "SET"
    BY <1>2, <2>1
  <2> QED
    BY <1>2, <2>2, Zenon DEF KeepsLifetime, LifetimeOf
<1>3. CASE ~(c.op = "SET" /\ c.ttl # None) /\ c.op # "EXPIRE"
  BY <1>3, Zenon DEF LifetimeOf
<1> QED
  BY <1>1, <1>2, <1>3, Zenon

LEMMA OutcomeGives ==
  ASSUME NEW v, IsValue(v), NEW bld, NEW o, o = ExtractCommand(v, bld)
  PROVE  /\ Is("cmd", o) => FitsStore(o.cmd) /\ LifetimeOf(o.cmd, v.array)
         /\ o = Panic => PanicOf(v.array, bld)
<1> DEFINE a == v.array
<1>1. CASE o = Refused
  BY <1>1, OutcomeKinds, Zenon
<1>2. ASSUME NEW args, Len(args) \in Nat, Len(a) = Len(args) + 1,
             \A j \in 1 .. Len(args) : args[j] = a[j + 1],
             Answers(o, UpperOf(a[1]), args, bld)
      PROVE  /\ Is("cmd", o) => FitsStore(o.cmd) /\ LifetimeOf(o.cmd, a)
             /\ o = Panic => PanicOf(a, bld)
  <2> HIDE DEF a
  <2>1. ASSUME Is("cmd", o) PROVE FitsStore(o.cmd) /\ LifetimeOf(o.cmd, a)
    <3>1. PICK c : o = Cmd(c) /\ FitsStore(c) /\ KeepsLifetime(c, args)
      BY <1>2, <2>1, OutcomeKinds, Zenon DEF Answers
    <3>2. LifetimeOf(c, a)
      BY <1>2, <3>1, LifetimeMoves, Zenon
    <3>3. o.cmd = c
      BY <3>1, OutcomeKinds, Zenon
    <3> QED
      BY <3>1, <3>2, <3>3, Zenon
  <2>2. ASSUME o = Panic PROVE PanicOf(a, bld)
    <3>1. \/ Len(args) < Arity(UpperOf(a[1]))
          \/ /\ UpperOf(a[1]) = "SET" /\ bld = "debug" /\ Len(args) >= 4
             /\ NumberOf(args[4]) * PerSecond \notin -I32Max - 1 .. I32Max
      BY <1>2, <2>2, OutcomeKinds, Zenon DEF Answers
    <3>2. Len(a) - 1 = Len(args)
      BY <1>2
    <3>3. Len(args) >= 4 => args[4] = a[5]
      BY <1>2
    <3> QED
      BY <3>1, <3>2, <3>3, Zenon DEF PanicOf
  <2> QED
    BY <2>1, <2>2, Zenon
<1> QED
  BY <1>1, <1>2, ExtractAnswers, Zenon

\* Each outcome is what extract_command made of the value with its number.
Outcomes ==
  /\ IsSeq(outcomes)
  /\ Len(outcomes) = Len(taken)
  /\ \A i \in 1 .. Len(taken) :
       IsValue(taken[i]) /\ outcomes[i] = ExtractCommand(taken[i], build)

LEMMA OutcomesInit == Init => Outcomes
<1> SUFFICES ASSUME Init PROVE Outcomes
  OBVIOUS
<1>1. taken = <<>> /\ outcomes = <<>>
  BY Zenon DEF Init
<1>2. Len(taken) = 0 /\ 1 .. 0 = {}
  BY <1>1
<1> QED
  BY <1>1, <1>2, EmptyIsSeq, Zenon DEF Outcomes

LEMMA OutcomesStep == StreamType /\ Outcomes /\ [Next]_vars => Outcomes'
<1> SUFFICES ASSUME StreamType, Outcomes, [Next]_vars PROVE Outcomes'
  OBVIOUS
<1>1. CASE taken' = taken /\ outcomes' = outcomes /\ build' = build
  BY <1>1, Zenon DEF Outcomes
<1>2. CASE Take
  <2> DEFINE v == Parse(buf).ok
             o == ExtractCommand(v, build)
             n == Len(taken)
  <2>1. /\ Is("ok", Parse(buf)) /\ taken' = Append(taken, v)
        /\ outcomes' = Append(outcomes, o) /\ build' = build
    BY <1>2, Zenon DEF Take
  <2>2. buf \in Seq(Byte) /\ IsSeq(taken) /\ IsSeq(outcomes) /\ Len(outcomes) = n
    BY Zenon DEF StreamType, Outcomes
  <2>3. IsValue(v)
    BY <2>1, <2>2, Takes, Zenon
  <2> HIDE DEF v
  <2>4. /\ n \in Nat /\ Len(taken') = n + 1
        /\ \A i \in 1 .. n : taken'[i] = taken[i]
        /\ taken'[n + 1] = v
    BY <2>1, <2>2, Sequence
  <2> HIDE DEF o
  <2>5. /\ IsSeq(outcomes') /\ Len(outcomes') = n + 1
        /\ \A i \in 1 .. n : outcomes'[i] = outcomes[i]
        /\ outcomes'[n + 1] = o
    <3> HIDE DEF n
    <3> QED
      BY <2>1, <2>2, Sequence
  <2>6. ASSUME NEW i \in 1 .. Len(taken')
        PROVE  IsValue(taken'[i]) /\ outcomes'[i] = ExtractCommand(taken'[i], build')
    <3>1. CASE i \in 1 .. n
      BY <2>1, <2>4, <2>5, <3>1, Zenon DEF Outcomes
    <3>2. CASE i = n + 1
      BY <2>1, <2>3, <2>4, <2>5, <3>2, Zenon DEF o
    <3>3. i \in 1 .. n \/ i = n + 1
      <4> HIDE DEF n
      <4> QED
        BY <2>4, <2>6
    <3> QED
      BY <3>1, <3>2, <3>3, Zenon
  <2> QED
    BY <2>4, <2>5, <2>6, Zenon DEF Outcomes
<1>3. CASE Arrive
  <2>1. taken' = taken /\ outcomes' = outcomes /\ build' = build
    BY <1>3, Zenon DEF Arrive
  <2> QED
    BY <1>1, <2>1, Zenon
<1>4. CASE Reject
  <2>1. taken' = taken /\ outcomes' = outcomes /\ build' = build
    BY <1>4, Zenon DEF Reject
  <2> QED
    BY <1>1, <2>1, Zenon
<1>5. CASE UNCHANGED vars
  <2>1. taken' = taken /\ outcomes' = outcomes /\ build' = build
    BY <1>5, Zenon DEF vars
  <2> QED
    BY <1>1, <2>1, Zenon
<1> QED
  BY <1>2, <1>3, <1>4, <1>5, Zenon DEF Next

LEMMA OutcomeAt ==
  ASSUME Outcomes, NEW i \in DOMAIN outcomes
  PROVE  IsValue(taken[i]) /\ outcomes[i] = ExtractCommand(taken[i], build)
<1>1. IsSeq(outcomes) /\ Len(outcomes) = Len(taken)
  BY Zenon DEF Outcomes
<1>2. DOMAIN outcomes = 1 .. Len(outcomes)
  BY <1>1, Sequence
<1> QED
  BY <1>1, <1>2, Zenon DEF Outcomes

LEMMA OutcomesInvariant == Spec => []Outcomes
<1>1. Init => StreamType /\ Outcomes
  BY StreamTypeInit, OutcomesInit, Zenon
<1>2. StreamType /\ Outcomes /\ [Next]_vars => (StreamType /\ Outcomes)'
  BY StreamTypeStep, OutcomesStep, Zenon
<1> QED
  BY <1>1, <1>2, PTL DEF Spec

\* Whatever is parsed, a command that reaches the store has the form that the
\* methods of DB rely on: the arguments extract_command has not checked for
\* (command.rs) are never missed behind it.
THEOREM OnlyFittingCommands == Spec => []CommandsFitStore
<1>1. Outcomes => CommandsFitStore
  <2> SUFFICES ASSUME Outcomes, NEW i \in DOMAIN outcomes, Is("cmd", outcomes[i])
               PROVE  FitsStore(outcomes[i].cmd)
    BY Zenon DEF CommandsFitStore, FitsStore
  <2> QED
    BY OutcomeAt, OutcomeGives, Zenon
<1> QED
  BY <1>1, OutcomesInvariant, PTL

\* The lifetime of a SET or an EXPIRE is the number that was sent, in its unit,
\* for every number whose milliseconds an i32 holds.
THEOREM LifetimesKept == Spec => []LifetimeKept
<1>1. Outcomes => LifetimeKept
  <2> SUFFICES ASSUME Outcomes, NEW i \in DOMAIN outcomes, Is("cmd", outcomes[i])
               PROVE  LifetimeOf(outcomes[i].cmd, taken[i].array)
    <3>1. 4 + 1 = 5 /\ 2 + 1 = 3 /\ 3 + 1 = 4
      OBVIOUS
    <3> QED
      BY <3>1 DEF LifetimeKept, LifetimeOf, Arg
  <2> QED
    BY OutcomeAt, OutcomeGives, Zenon
<1> QED
  BY <1>1, OutcomesInvariant, PTL

\* A request that has the arguments its command indexes cannot panic the task of
\* its connection, but for an EX that overflows where overflow is checked.
THEOREM FullRequestsDoNotPanic == Spec => []OnlyShortRequestsPanic
<1>1. Outcomes => OnlyShortRequestsPanic
  <2> SUFFICES ASSUME Outcomes, NEW i \in DOMAIN outcomes, outcomes[i] = Panic
               PROVE  PanicOf(taken[i].array, build)
    BY Zenon DEF OnlyShortRequestsPanic, PanicOf
  <2> QED
    BY OutcomeAt, OutcomeGives, Zenon
<1> QED
  BY <1>1, OutcomesInvariant, PTL
=============================================================================
