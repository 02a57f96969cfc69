--------------------------- MODULE RdbCodecProofs ---------------------------
(***************************************************************************)
(* Proofs about the snapshot format, for any keys, values, lists and       *)
(* deadlines: what write_db writes, parse reads back; what it reads back   *)
(* of a stream that was cut is a part of it; and a deadline survives the   *)
(* two conversions between Instant and milliseconds of the wall clock.     *)
(***************************************************************************)
EXTENDS RdbCodec, FiniteSetTheorems, WellFoundedInduction, TLAPS

\* Division by the ticks of a millisecond rounds down by less than one.
LEMMA Rounding ==
  ASSUME NEW x \in Nat
  PROVE  /\ x \div PerMs \in Nat
         /\ (x \div PerMs) * PerMs <= x
         /\ (x \div PerMs) * PerMs > x - PerMs
  BY CodecAssumption, SMTT(30)

LEMMA Modulus ==
  ASSUME NEW a \in Nat, NEW b \in Nat \ {0}
  PROVE  a % b \in Nat /\ a % b <= a /\ (a < b => a % b = a)
<1>1. CASE a < b
  BY <1>1, SMTT(30)
<1>2. CASE a >= b
  <2>1. a % b \in 0 .. b - 1
    BY SMTT(30)
  <2> QED
    BY <1>2, <2>1
<1> QED
  BY <1>1, <1>2

\* A deadline written at w and read at r, not earlier, comes back neither later
\* nor a millisecond earlier, or as the moment of the reading when it was over
\* by then, if it fits into the eight bytes: this is what DeadlineKept says of
\* every key.
THEOREM ReloadedDeadline ==
  ASSUME NEW d \in Nat, NEW w \in Nat, NEW r \in Nat, w <= r,
         Millis(d) < MillisRange
  PROVE  LET l == FromMillis(ToMillis(d, w), r) IN
         \/ l = r /\ d - PerMs < r
         \/ l <= d /\ l > d - PerMs
<1> DEFINE l == FromMillis(ToMillis(d, w), r)
<1>0. PerMs \in Nat \ {0} /\ Epoch \in Nat /\ MillisRange \in Nat \ {0}
  BY CodecAssumption
<1>1. ASSUME NEW t \in Nat
      PROVE  /\ Millis(t) \in Nat /\ Millis(t) * PerMs \in Nat
             /\ Millis(t) * PerMs <= Epoch + t /\ Millis(t) * PerMs > Epoch + t - PerMs
  <2> DEFINE x == Epoch + t
             q == x \div PerMs
  <2>1. x \in Nat
    BY <1>0
  <2>2. Millis(t) = q
    BY DEF Millis
  <2> HIDE DEF x
  <2>3. q \in Nat /\ q * PerMs <= x /\ q * PerMs > x - PerMs
    BY <2>1, Rounding
  <2> HIDE DEF q
  <2>4. q * PerMs \in Nat
    BY <1>0, <2>3
  <2>5. Millis(t) \in Nat /\ Millis(t) * PerMs \in Nat
    BY <2>2, <2>3, <2>4
  <2>6. Millis(t) * PerMs <= Epoch + t
    BY <2>2, <2>3 DEF x
  <2>7. Millis(t) * PerMs > Epoch + t - PerMs
    BY <1>0, <2>2, <2>3, <2>4 DEF x
  <2> QED
    BY <2>5, <2>6, <2>7
<1>2. CASE d > w
  <2>1. Millis(d) % MillisRange = Millis(d)
    BY <1>0, <1>1, Modulus, Zenon
  <2>2. ToMillis(d, w) = Millis(d)
    BY <1>2, <2>1 DEF ToMillis
  <2>3. l = IF Millis(d) * PerMs - Epoch > r THEN Millis(d) * PerMs - Epoch ELSE r
    BY <2>2 DEF FromMillis
  <2> DEFINE m == Millis(d) * PerMs
  <2>4. m \in Nat /\ m <= Epoch + d /\ m > Epoch + d - PerMs
    BY <1>1
  <2> HIDE DEF m
  <2>5. l = IF m - Epoch > r THEN m - Epoch ELSE r
    BY <2>3 DEF m
  <2>6. (l = r /\ d - PerMs < r) \/ (l <= d /\ l > d - PerMs)
    <3> HIDE DEF l
    <3> QED
      BY <1>0, <2>4, <2>5
  <2> QED
    BY <2>6
<1>3. CASE ~(d > w)
  <2> DEFINE ms == Millis(w) % MillisRange
  <2>1. ms \in Nat /\ ms <= Millis(w)
    BY <1>0, <1>1, Modulus, Zenon
  <2>2. ms * PerMs <= Millis(w) * PerMs
    BY <1>0, <1>1, <2>1
  <2>3. ms * PerMs - Epoch <= r
    <3>1. ms * PerMs \in Nat
      BY <1>0, <2>1
    <3> QED
      BY <1>0, <1>1, <2>2, <3>1
  <2>4. ToMillis(d, w) = ms
    BY <1>3 DEF ToMillis
  <2> HIDE DEF ms
  <2>5. l = r
    <3>1. ms * PerMs - Epoch \in Int
      BY <1>0, <2>1
    <3> QED
      BY <2>3, <2>4, <3>1 DEF FromMillis
  <2> QED
    BY <1>0, <1>3, <2>5
<1> QED
  BY <1>2, <1>3
-----------------------------------------------------------------------------
\* Induction up to n, stated with the set of the numbers that have the property.
LEMMA Induction ==
  ASSUME NEW n \in Nat, NEW S, 0 \in S, \A i \in 0 .. n - 1 : i \in S => i + 1 \in S
  PROVE  0 .. n \subseteq S
<1> SUFFICES ASSUME NEW m \in 0 .. n, m \notin S PROVE FALSE
  OBVIOUS
<1> DEFINE T == {0 .. i : i \in {j \in 0 .. n : j \notin S}}
<1>1. T \subseteq FiniteSubsetsOf(Nat)
  <2>1. \A j \in 0..n : 0 .. j \subseteq Nat /\ IsFiniteSet(0 .. j)
    BY FS_Interval
  <2> QED BY <2>1 DEF FiniteSubsetsOf
<1>2. T # {}
  OBVIOUS
<1>3. PICK x \in T : \A y \in T : ~(<<y, x>> \in StrictSubsetOrdering(Nat))
  <2>1. IsWellFoundedOn(StrictSubsetOrdering(Nat), FiniteSubsetsOf(Nat))
    BY FS_StrictSubsetOrderingWellFounded, Zenon
  <2> QED BY <1>1, <1>2, <2>1, WFMin, Zenon
<1>4. PICK i \in 0 .. n : i \notin S /\ x = 0 .. i
  OBVIOUS
<1>5. i # 0 /\ i - 1 \in 0 .. n - 1 /\ i - 1 \notin S
  BY <1>4
<1>6. 0 .. i - 1 \in T
  BY <1>5
<1>7. <<0 .. i - 1, x>> \in StrictSubsetOrdering(Nat)
  BY <1>4, <1>5 DEF StrictSubsetOrdering
<1> QED BY <1>3, <1>6, <1>7, Zenon

-----------------------------------------------------------------------------
\* The tokens of s stand in the file from p on, as far as the file goes.
Stands(s, p) ==
  \A i \in 1 .. Len(s) : p + i - 1 <= Len(file) => file[p + i - 1] = s[i]

\* What a read gives that should stop at q with v: it fails if the file is cut
\* before q.
UpTo(v, q) == IF q <= Len(file) + 1 THEN Got(v, q) ELSE Fail

Texts  == Keys \cup Items \cup {"string", "list"}
Tokens == {Header} \cup {Byte(b) : b \in Nat} \cup {U32(n) : n \in Nat}
            \cup {U64(n) : n \in Nat} \cup {Text(s) : s \in Texts}

LEMMA Joined ==
  ASSUME NEW a \in Seq(Tokens), NEW b \in Seq(Tokens)
  PROVE  a \o b \in Seq(Tokens) /\ Len(a \o b) = Len(a) + Len(b)
  OBVIOUS

LEMMA Concatenated ==
  ASSUME NEW a \in Seq(Tokens), NEW b \in Seq(Tokens)
  PROVE  /\ a \o b \in Seq(Tokens) /\ Len(a \o b) = Len(a) + Len(b)
         /\ \A i \in 1 .. Len(a) : (a \o b)[i] = a[i]
         /\ \A i \in 1 .. Len(b) : (a \o b)[Len(a) + i] = b[i]
  OBVIOUS

\* A sequence of tokens stands in the file when its two parts do.
LEMMA StandsParts ==
  ASSUME NEW a \in Seq(Tokens), NEW b \in Seq(Tokens), NEW p \in Nat \ {0}, Stands(a \o b, p)
  PROVE  Stands(a, p) /\ Stands(b, p + Len(a))
<1>1. Len(a) \in Nat /\ Len(b) \in Nat /\ Len(a \o b) = Len(a) + Len(b)
  OBVIOUS
<1>2. ASSUME NEW i \in 1 .. Len(a), p + i - 1 <= Len(file) PROVE file[p + i - 1] = a[i]
  <2>1. i \in 1 .. Len(a \o b) /\ (a \o b)[i] = a[i]
    BY <1>1
  <2> QED
    BY <1>2, <2>1 DEF Stands
<1>3. ASSUME NEW i \in 1 .. Len(b), p + Len(a) + i - 1 <= Len(file)
      PROVE  file[p + Len(a) + i - 1] = b[i]
  <2>1. Len(a) + i \in 1 .. Len(a \o b) /\ (a \o b)[Len(a) + i] = b[i]
    BY <1>1
  <2>2. p + (Len(a) + i) - 1 = p + Len(a) + i - 1
    BY <1>1
  <2> QED
    BY <1>3, <2>1, <2>2 DEF Stands
<1> QED
  BY <1>2, <1>3 DEF Stands

\* A token read where one of its kind stands.
LEMMA TokenRead ==
  ASSUME NEW tok \in Tokens, NEW p \in Nat \ {0}, Len(file) \in Nat, Stands(<<tok>>, p)
  PROVE  ReadToken(tok.t, p) = UpTo(tok.v, p + 1)
<1>1. p <= Len(file) => file[p] = tok
  <2>1. 1 \in 1 .. Len(<<tok>>) /\ <<tok>>[1] = tok /\ p + 1 - 1 = p
    OBVIOUS
  <2> QED
    BY <2>1 DEF Stands
<1>2. p <= Len(file) <=> p + 1 <= Len(file) + 1
  OBVIOUS
<1> QED
  BY <1>1, <1>2 DEF ReadToken, UpTo

\* The first byte of a length.
FirstByte(len) == IF len < 64 THEN len ELSE 128

LEMMA LengthTokens ==
  ASSUME NEW len \in 0 .. Wide - 1
  PROVE  /\ WriteLength(len) \in Seq(Tokens) /\ Len(WriteLength(len)) \in {1, 2}
         /\ WriteLength(len) = IF len < 64 THEN <<Byte(len)>> ELSE <<Byte(128)>> \o <<U32(len)>>
         /\ Byte(FirstByte(len)) \in Tokens /\ U32(len) \in Tokens
         /\ FirstByte(len) \in 0 .. 63 \cup {128}
<1>0. Wide \in Nat /\ len \in Nat /\ len < Wide /\ len % Wide = len
  <2>1. Wide \in Nat \ {0} /\ len \in Nat /\ len < Wide
    BY CodecAssumption
  <2> QED
    BY <2>1, Modulus
<1>1. Byte(len) \in Tokens /\ Byte(128) \in Tokens /\ U32(len) \in Tokens
  BY <1>0 DEF Tokens
<1>2. WriteLength(len) = IF len < 64 THEN <<Byte(len)>> ELSE <<Byte(128)>> \o <<U32(len)>>
  <2>1. <<Byte(128), U32(len)>> = <<Byte(128)>> \o <<U32(len)>>
    BY <1>1
  <2> QED
    BY <1>0, <2>1, Zenon DEF WriteLength
<1> QED
  BY <1>0, <1>1, <1>2 DEF FirstByte

\* read_length gives back every length that write_length writes and stops behind
\* it, in the short and in the long form, on both sides of the boundary; it fails
\* if the file ends before.
THEOREM LengthsAgree ==
  ASSUME NEW len \in 0 .. Wide - 1, NEW p \in Nat \ {0}, Len(file) \in Nat,
         Stands(WriteLength(len), p)
  PROVE  /\ ReadToken("byte", p) = UpTo(FirstByte(len), p + 1)
         /\ p <= Len(file) =>
              ReadLengthWithFirst(FirstByte(len), p + 1) = UpTo(len, p + Len(WriteLength(len)))
         /\ ReadLength(p) = UpTo(len, p + Len(WriteLength(len)))
<1>0. Wide \in Nat /\ len \in Nat
  BY CodecAssumption
<1>1. CASE len < 64
  <2>1. WriteLength(len) = <<Byte(len)>> /\ Len(WriteLength(len)) = 1 /\ FirstByte(len) = len
    <3>1. WriteLength(len) = <<Byte(len)>> /\ FirstByte(len) = len
      BY <1>1, LengthTokens, Zenon DEF FirstByte
    <3>2. Len(<<Byte(len)>>) = 1
      OBVIOUS
    <3> QED
      BY <3>1, <3>2
  <2>2. ReadToken("byte", p) = UpTo(len, p + 1)
    <3>1. Byte(len) \in Tokens /\ Byte(len).t = "byte" /\ Byte(len).v = len
      BY <2>1, LengthTokens, Zenon DEF Byte
    <3>2. Stands(<<Byte(len)>>, p)
      BY <2>1
    <3> QED
      BY <3>1, <3>2, TokenRead
  <2>3. ReadLengthWithFirst(len, p + 1) = Got(len, p + 1)
    BY <1>1 DEF ReadLengthWithFirst
  <2> QED
    BY <2>1, <2>2, <2>3 DEF ReadLength, UpTo, Got, Fail
<1>2. CASE ~(len < 64)
  <2>1. WriteLength(len) = <<Byte(128)>> \o <<U32(len)>> /\ FirstByte(len) = 128
    BY <1>2, LengthTokens DEF FirstByte
  <2>2. Len(<<Byte(128)>>) = 1 /\ Len(WriteLength(len)) = 2
    BY <2>1
  <2>3. Byte(128) \in Tokens /\ U32(len) \in Tokens
    BY <2>1, LengthTokens
  <2>4. Stands(<<Byte(128)>>, p) /\ Stands(<<U32(len)>>, p + 1)
    <3>1. Stands(<<Byte(128)>> \o <<U32(len)>>, p)
      BY <2>1
    <3>2. <<Byte(128)>> \in Seq(Tokens) /\ <<U32(len)>> \in Seq(Tokens)
      BY <2>3
    <3> QED
      BY <2>2, <3>1, <3>2, StandsParts, Zenon
  <2>5. ReadToken("byte", p) = UpTo(128, p + 1)
    BY <2>3, <2>4, TokenRead DEF Byte
  <2>6. ReadToken("u32", p + 1) = UpTo(len, p + 2)
    <3>1. U32(len).t = "u32" /\ U32(len).v = len /\ p + 1 \in Nat \ {0} /\ p + 1 + 1 = p + 2
      BY DEF U32
    <3>2. ReadToken(U32(len).t, p + 1) = UpTo(U32(len).v, p + 1 + 1)
      BY <2>3, <2>4, <3>1, TokenRead
    <3> QED
      BY <3>1, <3>2
  <2>7. ReadLengthWithFirst(128, p + 1) = UpTo(len, p + 2)
    BY <2>6 DEF ReadLengthWithFirst
  <2> QED
    BY <2>1, <2>2, <2>5, <2>7 DEF ReadLength, UpTo, Got, Fail
<1> QED
  BY <1>1, <1>2

\* The text behind a length that was read.
LEMMA TextRead ==
  ASSUME NEW t \in Texts, NEW q \in Nat \ {0}, Len(file) \in Nat, Stands(<<Text(t)>>, q)
  PROVE  ReadText(UpTo(Size[t], q)) = UpTo(t, q + 1)
<1>1. Text(t) \in Tokens /\ Text(t).t = "text" /\ Text(t).v = t
  BY DEF Tokens, Text
<1>2. ReadToken("text", q) = UpTo(t, q + 1)
  BY <1>1, TokenRead
<1>3. CASE q <= Len(file) + 1
  <2>1. UpTo(Size[t], q) = Got(Size[t], q)
    BY <1>3 DEF UpTo
  <2>2. Got(Size[t], q).p = q /\ Got(Size[t], q).ok /\ Got(Size[t], q).v = Size[t]
    BY DEF Got
  <2>3. UpTo(t, q + 1).ok => UpTo(t, q + 1).v = t
    BY DEF UpTo, Got, Fail
  <2>4. ~UpTo(t, q + 1).ok => UpTo(t, q + 1) = Fail
    BY DEF UpTo, Got
  <2> QED
    BY <1>2, <2>1, <2>2, <2>3, <2>4 DEF ReadText
<1>4. CASE ~(q <= Len(file) + 1)
  <2>1. UpTo(Size[t], q) = Fail /\ UpTo(t, q + 1) = Fail
    BY <1>4 DEF UpTo
  <2>2. ~Fail.ok
    BY DEF Fail
  <2> QED
    BY <2>1, <2>2 DEF ReadText
<1> QED
  BY <1>3, <1>4

LEMMA StringTokens ==
  ASSUME NEW t \in Texts
  PROVE  /\ Size[t] \in 0 .. Wide - 1
         /\ WriteString(t) = WriteLength(Size[t]) \o <<Text(t)>>
         /\ WriteString(t) \in Seq(Tokens) /\ Len(WriteString(t)) \in {2, 3}
         /\ Len(WriteString(t)) = Len(WriteLength(Size[t])) + 1
         /\ <<Text(t)>> \in Seq(Tokens)
<1>1. Size[t] \in 0 .. Wide - 1
  BY CodecAssumption DEF Texts
<1>2. WriteLength(Size[t]) \in Seq(Tokens) /\ Len(WriteLength(Size[t])) \in {1, 2}
  BY <1>1, LengthTokens, ZenonT(30)
<1>3. Text(t) \in Tokens
  BY DEF Tokens
<1> HIDE DEF Tokens
<1>4. WriteString(t) = WriteLength(Size[t]) \o <<Text(t)>>
  BY <1>2, <1>3 DEF WriteString
<1> QED
  BY <1>1, <1>2, <1>3, <1>4

\* read_string gives back every text that write_string writes, also when the first
\* byte of its length was read before (read_string_with_first_len).
LEMMA StringsAgree ==
  ASSUME NEW t \in Texts, NEW p \in Nat \ {0}, Len(file) \in Nat, Stands(WriteString(t), p)
  PROVE  /\ ReadToken("byte", p) = UpTo(FirstByte(Size[t]), p + 1)
         /\ p <= Len(file) => ReadStringWithFirstLen(FirstByte(Size[t]), p + 1)
                                = UpTo(t, p + Len(WriteString(t)))
         /\ ReadString(p) = UpTo(t, p + Len(WriteString(t)))
<1> DEFINE n == Len(WriteLength(Size[t]))
<1>1. /\ WriteLength(Size[t]) \in Seq(Tokens) /\ n \in {1, 2} /\ <<Text(t)>> \in Seq(Tokens)
      /\ Size[t] \in 0 .. Wide - 1
      /\ WriteString(t) = WriteLength(Size[t]) \o <<Text(t)>> /\ Len(WriteString(t)) = n + 1
  BY StringTokens, LengthTokens, Zenon
<1>2. Stands(WriteLength(Size[t]), p) /\ Stands(<<Text(t)>>, p + n)
  BY <1>1, StandsParts, Zenon
<1>3. p + n \in Nat \ {0} /\ p + n + 1 = p + Len(WriteString(t))
  BY <1>1
<1>4. ReadText(UpTo(Size[t], p + n)) = UpTo(t, p + Len(WriteString(t)))
  BY <1>2, <1>3, TextRead
<1> QED
  BY <1>1, <1>2, <1>4, LengthsAgree, Zenon DEF ReadString, ReadStringWithFirstLen

LEMMA ValueTokens ==
  ASSUME NEW k \in Texts, NEW v \in Texts
  PROVE  /\ WriteValue(k, v) \in Seq(Tokens)
         /\ <<Byte(0)>> \o WriteString(k) \in Seq(Tokens)
         /\ Len(<<Byte(0)>> \o WriteString(k)) = 1 + Len(WriteString(k))
         /\ Len(WriteValue(k, v)) = 1 + Len(WriteString(k)) + Len(WriteString(v))
         /\ Byte(0) \in Tokens /\ <<Byte(0)>> \in Seq(Tokens) /\ Len(<<Byte(0)>>) = 1
<1>1. Byte(0) \in Tokens
  BY DEF Tokens
<1>2. WriteString(k) \in Seq(Tokens) /\ WriteString(v) \in Seq(Tokens)
  BY StringTokens, Zenon
<1> HIDE DEF Tokens
<1>3. <<Byte(0)>> \in Seq(Tokens) /\ Len(<<Byte(0)>>) = 1
  BY <1>1
<1>4. /\ <<Byte(0)>> \o WriteString(k) \in Seq(Tokens)
      /\ Len(<<Byte(0)>> \o WriteString(k)) = 1 + Len(WriteString(k))
  BY <1>2, <1>3
<1>5. /\ WriteValue(k, v) \in Seq(Tokens)
      /\ Len(WriteValue(k, v)) = 1 + Len(WriteString(k)) + Len(WriteString(v))
  BY <1>2, <1>4 DEF WriteValue
<1> QED
  BY <1>1, <1>3, <1>4, <1>5

\* A string, or one item of a list, comes back with its key.
LEMMA ValuesAgree ==
  ASSUME NEW k \in Texts, NEW v \in Texts, NEW p \in Nat \ {0}, Len(file) \in Nat,
         Stands(WriteValue(k, v), p)
  PROVE  ReadValue(p) = UpTo([key |-> k, value |-> v], p + Len(WriteValue(k, v)))
<1> DEFINE a == Len(WriteString(k))
           b == Len(WriteString(v))
<1>1. /\ WriteString(k) \in Seq(Tokens) /\ WriteString(v) \in Seq(Tokens)
      /\ a \in {2, 3} /\ b \in {2, 3} /\ <<Byte(0)>> \in Seq(Tokens)
      /\ Len(WriteValue(k, v)) = 1 + a + b
      /\ <<Byte(0)>> \o WriteString(k) \in Seq(Tokens)
      /\ Len(<<Byte(0)>>) = 1 /\ Len(<<Byte(0)>> \o WriteString(k)) = 1 + a
  <2>1. /\ WriteString(k) \in Seq(Tokens) /\ WriteString(v) \in Seq(Tokens)
        /\ a \in {2, 3} /\ b \in {2, 3}
    BY StringTokens, Zenon
  <2> QED
    BY <2>1, ValueTokens
<1>2. /\ Stands(<<Byte(0)>>, p) /\ Stands(WriteString(k), p + 1)
      /\ Stands(WriteString(v), p + 1 + a)
  <2>1. Stands((<<Byte(0)>> \o WriteString(k)) \o WriteString(v), p)
    BY DEF WriteValue
  <2>2. Stands(<<Byte(0)>> \o WriteString(k), p) /\ Stands(WriteString(v), p + (1 + a))
    BY <1>1, <2>1, StandsParts, Zenon
  <2>3. p + (1 + a) = p + 1 + a
    BY <1>1
  <2> QED
    BY <1>1, <2>2, <2>3, StandsParts, Zenon
<1> HIDE DEF a, b
<1>3. ReadToken("byte", p) = UpTo(0, p + 1)
  BY <1>2, ValueTokens, TokenRead DEF Byte
<1>4. ReadString(p + 1) = UpTo(k, p + 1 + a)
  BY <1>2, StringsAgree DEF a
<1>5. ReadString(p + 1 + a) = UpTo(v, p + 1 + a + b)
  <2>1. p + 1 + a \in Nat \ {0}
    BY <1>1
  <2> QED
    BY <1>2, <2>1, StringsAgree DEF b
<1>6. CASE p + 1 + a + b <= Len(file) + 1
  <2>1. /\ ReadToken("byte", p) = Got(0, p + 1) /\ ReadString(p + 1) = Got(k, p + 1 + a)
        /\ ReadString(p + 1 + a) = Got(v, p + 1 + a + b)
    BY <1>1, <1>3, <1>4, <1>5, <1>6 DEF UpTo
  <2>2. ReadValue(p) = Got([key |-> k, value |-> v], p + 1 + a + b)
    <3>1. \A x, q : Got(x, q).ok /\ Got(x, q).v = x /\ Got(x, q).p = q
      BY DEF Got
    <3> DEFINE B == ReadToken("byte", p)
               K == ReadString(B.p)
               V == ReadString(K.p)
    <3>2. B.ok /\ B.v = 0 /\ B.p = p + 1
      BY <2>1, <3>1
    <3>3. K.ok /\ K.v = k /\ K.p = p + 1 + a
      BY <2>1, <3>1, <3>2
    <3>4. V.ok /\ V.v = v /\ V.p = p + 1 + a + b
      BY <2>1, <3>1, <3>3
    <3>5. ReadValue(p) = IF B.ok /\ B.v = 0 /\ K.ok /\ V.ok
                         THEN Got([key |-> K.v, value |-> V.v], V.p) ELSE Fail
      BY DEF ReadValue
    <3> HIDE DEF B, K, V
    <3> QED
      BY <3>2, <3>3, <3>4, <3>5
  <2> QED
    BY <1>1, <1>6, <2>2 DEF UpTo
<1>7. CASE ~(p + 1 + a + b <= Len(file) + 1)
  <2>1. ~ReadString(p + 1 + a).ok
    BY <1>5, <1>7 DEF UpTo, Fail
  <2>2. ReadToken("byte", p).ok => ReadToken("byte", p).p = p + 1
    BY <1>3 DEF UpTo, Got, Fail
  <2>3. ReadString(p + 1).ok => ReadString(p + 1).p = p + 1 + a
    BY <1>4 DEF UpTo, Got, Fail
  <2>4. ReadValue(p) = Fail
    BY <2>1, <2>2, <2>3 DEF ReadValue
  <2> QED
    BY <1>1, <1>7, <2>4 DEF UpTo
<1> QED
  BY <1>6, <1>7
-----------------------------------------------------------------------------
\* The tokens of the first i items of a list, and what read_list has after the
\* first i items: the functions of the recursion in WriteItems and in ReadItems.
ItemsWritten(k, s) ==
  CHOOSE W : W = [i \in 0 .. Len(s) |-> IF i = 0 THEN <<>> ELSE W[i - 1] \o WriteValue(k, s[i])]

NextItem(prev, i) ==
  LET item == ReadValue(prev.p) IN
  IF ~prev.ok \/ ~item.ok THEN Fail
  ELSE Got([key   |-> IF i = 1 THEN item.v.key ELSE prev.v.key,
            value |-> Append(prev.v.value, item.v.value)], item.p)

ItemsRead(n, p) ==
  CHOOSE R : R = [i \in 0 .. n |-> IF i = 0 THEN Got([key |-> None, value |-> <<>>], p)
                                   ELSE NextItem(R[i - 1], i)]

\* The recursive definitions have a value: the function of the recursion exists.
LEMMA WriteRecursion ==
  ASSUME NEW k, NEW s, Len(s) \in Nat
  PROVE  /\ WriteItems(k, s) = ItemsWritten(k, s)[Len(s)]
         /\ ItemsWritten(k, s)[0] = <<>>
         /\ \A i \in 0 .. Len(s) - 1 :
              ItemsWritten(k, s)[i + 1] = ItemsWritten(k, s)[i] \o WriteValue(k, s[i + 1])
<1> DEFINE Is(f, n) == f = [j \in 0 .. n |-> IF j = 0 THEN <<>> ELSE f[j - 1] \o WriteValue(k, s[j])]
           S == {n \in Nat : \E f : Is(f, n)}
<1>1. 0 \in S
  <2>1. Is([j \in 0 .. 0 |-> <<>>], 0)
    OBVIOUS
  <2> QED
    BY <2>1, Zenon
<1>2. ASSUME NEW n \in 0 .. Len(s) - 1, n \in S PROVE n + 1 \in S
  <2>1. PICK f : Is(f, n)
    BY <1>2, Zenon
  <2> DEFINE g == [j \in 0 .. n + 1 |-> IF j = 0 THEN <<>> ELSE f[j - 1] \o WriteValue(k, s[j])]
  <2>2. \A j \in 0 .. n : g[j] = f[j]
    <3>1. \A j \in 0 .. n : f[j] = IF j = 0 THEN <<>> ELSE f[j - 1] \o WriteValue(k, s[j])
      BY <2>1
    <3> QED
      BY <3>1
  <2>3. ASSUME NEW j \in 0 .. n + 1, j # 0 PROVE g[j - 1] = f[j - 1]
    <3>1. j - 1 \in 0 .. n
      BY <2>3
    <3> QED
      BY <2>2, <3>1, Zenon
  <2>4. g = [j \in 0 .. n + 1 |-> IF j = 0 THEN <<>> ELSE g[j - 1] \o WriteValue(k, s[j])]
    <3> HIDE DEF g
    <3>1. g = [j \in 0 .. n + 1 |-> IF j = 0 THEN <<>> ELSE f[j - 1] \o WriteValue(k, s[j])]
      BY DEF g
    <3> QED
      BY <2>3, <3>1, Zenon
  <2>5. Is(g, n + 1)
    BY <2>4, Zenon
  <2> QED
    <3> HIDE DEF Is, g
    <3> QED BY <2>5
<1>3. \E f : Is(f, Len(s))
  <2> HIDE DEF Is
  <2>1. 0 .. Len(s) \subseteq S
    <3> HIDE DEF S
    <3> QED
      BY <1>1, <1>2, Induction, Zenon
  <2> QED
    BY <2>1
<1>4. Is(ItemsWritten(k, s), Len(s))
  BY <1>3, Zenon DEF ItemsWritten
<1>5. WriteItems(k, s) = ItemsWritten(k, s)[Len(s)]
  BY DEF WriteItems, ItemsWritten
<1> DEFINE W == ItemsWritten(k, s)
<1>6. \A j \in 0 .. Len(s) : W[j] = IF j = 0 THEN <<>> ELSE W[j - 1] \o WriteValue(k, s[j])
  BY <1>4
<1> HIDE DEF W
<1>7. ASSUME NEW i \in 0 .. Len(s) - 1 PROVE W[i + 1] = W[i] \o WriteValue(k, s[i + 1])
  <2>1. PICK m \in 0 .. Len(s) : m = i + 1 /\ m # 0 /\ m - 1 = i
    OBVIOUS
  <2>2. W[m] = W[m - 1] \o WriteValue(k, s[m])
    BY <1>6, <2>1, Zenon
  <2> QED
    BY <2>1, <2>2, Zenon
<1>8. W[0] = <<>>
  <2>1. 0 \in 0 .. Len(s)
    OBVIOUS
  <2> QED
    BY <1>6, <2>1, Zenon
<1> QED
  BY <1>5, <1>7, <1>8, Zenon DEF W

LEMMA ReadRecursion ==
  ASSUME NEW n \in Nat, NEW p
  PROVE  /\ ReadItems(n, p) = ItemsRead(n, p)[n]
         /\ ItemsRead(n, p)[0] = Got([key |-> None, value |-> <<>>], p)
         /\ \A i \in 0 .. n - 1 :
              ItemsRead(n, p)[i + 1] = NextItem(ItemsRead(n, p)[i], i + 1)
<1> DEFINE first == Got([key |-> None, value |-> <<>>], p)
           Is(f, m) == f = [j \in 0 .. m |-> IF j = 0 THEN first ELSE NextItem(f[j - 1], j)]
           S == {m \in Nat : \E f : Is(f, m)}
<1> HIDE DEF first
<1>1. 0 \in S
  <2>1. Is([j \in 0 .. 0 |-> first], 0)
    OBVIOUS
  <2> QED
    BY <2>1, Zenon
<1>2. ASSUME NEW m \in 0 .. n - 1, m \in S PROVE m + 1 \in S
  <2>1. PICK f : Is(f, m)
    BY <1>2
  <2> DEFINE g == [j \in 0 .. m + 1 |-> IF j = 0 THEN first ELSE NextItem(f[j - 1], j)]
  <2>2. \A j \in 0 .. m : g[j] = f[j]
    <3>1. \A j \in 0 .. m : f[j] = IF j = 0 THEN first ELSE NextItem(f[j - 1], j)
      BY <2>1
    <3> QED
      BY <3>1
  <2>3. ASSUME NEW j \in 0 .. m + 1, j # 0 PROVE g[j - 1] = f[j - 1]
    <3>1. j - 1 \in 0 .. m
      BY <2>3
    <3> QED
      BY <2>2, <3>1, Zenon
  <2>4. g = [j \in 0 .. m + 1 |-> IF j = 0 THEN first ELSE NextItem(g[j - 1], j)]
    <3> HIDE DEF g
    <3>1. g = [j \in 0 .. m + 1 |-> IF j = 0 THEN first ELSE NextItem(f[j - 1], j)]
      BY DEF g
    <3> QED
      BY <2>3, <3>1, Zenon
  <2>5. Is(g, m + 1)
    BY <2>4
  <2> QED
    <3> HIDE DEF Is, g
    <3> QED BY <2>5
<1>3. \E f : Is(f, n)
  <2> HIDE DEF Is
  <2>1. 0 .. n \subseteq S
    <3> HIDE DEF S
    <3> QED
      BY <1>1, <1>2, Induction
  <2> QED
    BY <2>1
<1>4. Is(ItemsRead(n, p), n)
  BY <1>3, Zenon DEF ItemsRead, first
<1>5. ReadItems(n, p) = ItemsRead(n, p)[n]
  BY DEF ReadItems, ItemsRead, NextItem
<1> DEFINE R == ItemsRead(n, p)
<1>6. \A j \in 0 .. n : R[j] = IF j = 0 THEN first ELSE NextItem(R[j - 1], j)
  BY <1>4
<1> HIDE DEF R
<1>7. ASSUME NEW i \in 0 .. n - 1 PROVE R[i + 1] = NextItem(R[i], i + 1)
  <2>1. i + 1 \in 0 .. n /\ i + 1 # 0 /\ i + 1 - 1 = i
    OBVIOUS
  <2> QED
    BY <1>6, <2>1
<1> QED
  BY <1>5, <1>6, <1>7 DEF R, first
LEMMA ItemTokens ==
  ASSUME NEW k \in Keys, NEW s \in Seq(Items), NEW i \in 0 .. Len(s)
  PROVE  ItemsWritten(k, s)[i] \in Seq(Tokens)
<1> DEFINE W == ItemsWritten(k, s)
           S == {j \in 0 .. Len(s) : W[j] \in Seq(Tokens)}
<1>0. Len(s) \in Nat
  OBVIOUS
<1>1. W[0] = <<>> /\ \A j \in 0 .. Len(s) - 1 : W[j + 1] = W[j] \o WriteValue(k, s[j + 1])
  BY <1>0, WriteRecursion, Zenon
<1> HIDE DEF W
<1>2. 0 \in S
  <2>1. W[0] \in Seq(Tokens)
    BY <1>1
  <2> QED
    BY <1>0, <2>1
<1>3. ASSUME NEW j \in 0 .. Len(s) - 1, j \in S PROVE j + 1 \in S
  <2>1. j + 1 \in 1 .. Len(s)
    BY <1>0
  <2>2. W[j + 1] = W[j] \o WriteValue(k, s[j + 1])
    BY <1>1, <2>1, Zenon
  <2>3. s[j + 1] \in Texts /\ k \in Texts
    BY <2>1 DEF Texts
  <2>4. WriteValue(k, s[j + 1]) \in Seq(Tokens)
    BY <2>3, ValueTokens
  <2>5. W[j + 1] \in Seq(Tokens)
    BY <1>3, <2>2, <2>4
  <2> QED
    BY <1>0, <2>1, <2>5
<1>4. 0 .. Len(s) \subseteq S
  <2> HIDE DEF S
  <2> QED
    BY <1>0, <1>2, <1>3, Induction, Zenon
<1> QED
  BY <1>4 DEF W

\* Where the items of a list stand, the next one stands behind the first i.
LEMMA ItemsStand ==
  ASSUME NEW k \in Keys, NEW s \in Seq(Items), NEW p \in Nat \ {0},
         Stands(WriteItems(k, s), p), NEW i \in 0 .. Len(s) - 1
  PROVE  /\ Stands(WriteValue(k, s[i + 1]), p + Len(ItemsWritten(k, s)[i]))
         /\ Len(ItemsWritten(k, s)[i + 1])
              = Len(ItemsWritten(k, s)[i]) + Len(WriteValue(k, s[i + 1]))
<1> DEFINE W == ItemsWritten(k, s)
           n == Len(s)
           S == {j \in 0 .. n : Stands(W[n - j], p)}
<1>0. n \in Nat
  OBVIOUS
<1>1. W[n] = WriteItems(k, s) /\ \A j \in 0 .. n - 1 : W[j + 1] = W[j] \o WriteValue(k, s[j + 1])
  BY <1>0, WriteRecursion, Zenon
<1>2. \A j \in 0 .. n : W[j] \in Seq(Tokens)
  BY ItemTokens
<1>3. \A j \in 0 .. n - 1 : WriteValue(k, s[j + 1]) \in Seq(Tokens)
  <2>1. \A j \in 0 .. n - 1 : s[j + 1] \in Texts /\ k \in Texts
    BY DEF Texts
  <2> QED
    BY <2>1, ValueTokens
<1> HIDE DEF W, n
<1>4. ASSUME NEW j \in 0 .. n - 1, Stands(W[j + 1], p)
      PROVE  Stands(W[j], p) /\ Stands(WriteValue(k, s[j + 1]), p + Len(W[j]))
  <2>1. j \in 0 .. n
    BY <1>0
  <2>2. Stands(W[j] \o WriteValue(k, s[j + 1]), p)
    BY <1>1, <1>4, Zenon
  <2> QED
    BY <1>2, <1>3, <2>1, <2>2, StandsParts, Zenon
<1>5. 0 \in S
  <2>1. Stands(W[n - 0], p) /\ 0 \in 0 .. n
    BY <1>0, <1>1
  <2> QED
    BY <2>1
<1>6. ASSUME NEW j \in 0 .. n - 1, j \in S PROVE j + 1 \in S
  <2>1. n - (j + 1) \in 0 .. n - 1 /\ n - (j + 1) + 1 = n - j /\ j + 1 \in 0 .. n
    BY <1>0
  <2>2. Stands(W[n - j], p)
    BY <1>6
  <2>3. Stands(W[n - (j + 1)], p)
    BY <1>4, <2>1, <2>2
  <2> QED
    BY <2>1, <2>3
<1>7. 0 .. n \subseteq S
  <2> HIDE DEF S
  <2> QED
    BY <1>0, <1>5, <1>6, Induction
<1>8. i \in 0 .. n - 1 /\ i \in 0 .. n
  BY <1>0 DEF n
<1>9. Stands(W[i + 1], p)
  <2>1. n - (i + 1) \in 0 .. n /\ n - (n - (i + 1)) = i + 1
    BY <1>0, <1>8
  <2>2. n - (i + 1) \in S
    BY <1>7, <2>1
  <2>3. Stands(W[n - (n - (i + 1))], p)
    BY <2>2
  <2> QED
    BY <2>1, <2>3
<1>10. W[i + 1] = W[i] \o WriteValue(k, s[i + 1]) /\ W[i] \in Seq(Tokens)
  BY <1>1, <1>2, <1>8, Zenon
<1>11. Len(W[i + 1]) = Len(W[i]) + Len(WriteValue(k, s[i + 1]))
  BY <1>3, <1>8, <1>10
<1> QED
  BY <1>4, <1>8, <1>9, <1>11 DEF W

\* A list comes back with all its items in their order, or not at all.
LEMMA ItemsAgree ==
  ASSUME NEW k \in Keys, NEW s \in Seq(Items), NEW p \in Nat \ {0}, Len(file) \in Nat,
         p <= Len(file) + 1, Stands(WriteItems(k, s), p)
  PROVE  ReadItems(Len(s), p) = UpTo([key |-> IF s = <<>> THEN None ELSE k, value |-> s],
                                     p + Len(WriteItems(k, s)))
<1> DEFINE n == Len(s)
           W == ItemsWritten(k, s)
           R == ItemsRead(n, p)
           Result(i) == UpTo([key |-> IF i = 0 THEN None ELSE k, value |-> SubSeq(s, 1, i)],
                             p + Len(W[i]))
           S == {i \in 0 .. n : R[i] = Result(i)}
<1>0. n \in Nat
  OBVIOUS
<1>1. /\ ReadItems(n, p) = R[n] /\ R[0] = Got([key |-> None, value |-> <<>>], p)
      /\ \A i \in 0 .. n - 1 : R[i + 1] = NextItem(R[i], i + 1)
  BY <1>0, ReadRecursion
<1>2. W[n] = WriteItems(k, s) /\ W[0] = <<>>
  BY <1>0, WriteRecursion, Zenon
<1>3. \A i \in 0 .. n : W[i] \in Seq(Tokens) /\ Len(W[i]) \in Nat
  BY ItemTokens
<1>4. 0 \in S
  <2>1. Len(W[0]) = 0 /\ SubSeq(s, 1, 0) = <<>> /\ p + 0 = p
    BY <1>2
  <2>2. Result(0) = UpTo([key |-> None, value |-> <<>>], p)
    BY <2>1
  <2>3. Result(0) = R[0]
    BY <1>1, <2>2 DEF UpTo
  <2> QED
    BY <1>0, <2>3
<1>5. ASSUME NEW j \in 0 .. n - 1, j \in S PROVE j + 1 \in S
  <2> DEFINE i == j + 1
             a == p + Len(W[j])
             b == p + Len(W[i])
             v == s[i]
             before == [key |-> IF j = 0 THEN None ELSE k, value |-> SubSeq(s, 1, j)]
  <2>1. i \in 1 .. n /\ i \in 0 .. n /\ j \in 0 .. n /\ (i = 1 <=> j = 0) /\ i # 0
    BY <1>0
  <2>2. R[i] = NextItem(R[j], i) /\ R[j] = UpTo(before, a)
    BY <1>1, <1>5, <2>1
  <2>3. /\ Stands(WriteValue(k, v), a) /\ Len(W[i]) = Len(W[j]) + Len(WriteValue(k, v))
    BY <2>1, ItemsStand, Zenon
  <2>4. k \in Texts /\ v \in Texts
    BY <2>1 DEF Texts
  <2>5. a \in Nat \ {0} /\ b \in Nat \ {0} /\ Len(WriteValue(k, v)) \in Nat
        /\ a + Len(WriteValue(k, v)) = b /\ a <= b
    <3>1. Len(WriteValue(k, v)) \in Nat
      <4>1. WriteValue(k, v) \in Seq(Tokens)
        BY <2>4, ValueTokens
      <4> QED
        BY <4>1
    <3>2. Len(W[j]) \in Nat /\ Len(W[i]) \in Nat
      BY <1>3, <2>1
    <3> DEFINE x == Len(W[j])
               y == Len(W[i])
               z == Len(WriteValue(k, v))
    <3>3. x \in Nat /\ y \in Nat /\ z \in Nat /\ y = x + z
      BY <2>3, <3>1, <3>2, Zenon
    <3> HIDE DEF x, y, z
    <3>4. /\ p + x \in Nat \ {0} /\ p + y \in Nat \ {0}
          /\ p + x + z = p + y /\ p + x <= p + y
      BY <3>3
    <3> QED
      BY <3>3, <3>4, Zenon DEF x, y, z
  <2>6. ReadValue(a) = UpTo([key |-> k, value |-> v], b)
    BY <2>3, <2>4, <2>5, ValuesAgree, Zenon
  <2>7. Append(SubSeq(s, 1, j), v) = SubSeq(s, 1, i)
    BY <1>0, <2>1
  <2>8. Result(i) = UpTo([key |-> k, value |-> SubSeq(s, 1, i)], b)
    BY <2>1, Zenon
  <2>a. \A x, q : Got(x, q).ok /\ Got(x, q).v = x /\ Got(x, q).p = q /\ ~Fail.ok
    BY DEF Got, Fail
  <2>b. NextItem(R[j], i) = UpTo([key |-> k, value |-> SubSeq(s, 1, i)], b)
    <3>1. CASE ~(a <= Len(file) + 1)
      <4>1. ~R[j].ok
        BY <2>2, <2>a, <3>1 DEF UpTo
      <4>2. ~(b <= Len(file) + 1)
        BY <2>5, <3>1
      <4> QED
        BY <4>1, <4>2 DEF NextItem, UpTo
    <3>2. CASE a <= Len(file) + 1 /\ ~(b <= Len(file) + 1)
      <4>1. R[j] = Got(before, a) /\ ReadValue(a) = Fail
        BY <2>2, <2>6, <3>2 DEF UpTo
      <4>2. ~ReadValue(R[j].p).ok
        BY <2>a, <4>1
      <4> QED
        BY <3>2, <4>2 DEF NextItem, UpTo
    <3>3. CASE a <= Len(file) + 1 /\ b <= Len(file) + 1
      <4>1. R[j] = Got(before, a) /\ ReadValue(a) = Got([key |-> k, value |-> v], b)
        BY <2>2, <2>6, <3>3 DEF UpTo
      <4> DEFINE prev == R[j]
                 item == ReadValue(prev.p)
      <4>2. prev.ok /\ prev.v = before /\ prev.p = a
        <5> HIDE DEF before, a, b, R
        <5> QED
          BY <2>a, <4>1
      <4>3. item.ok /\ item.v = [key |-> k, value |-> v] /\ item.p = b
        <5> HIDE DEF before, a, b, R, v
        <5> QED
          BY <2>a, <4>1, <4>2
      <4>4. /\ item.v.key = k /\ item.v.value = v /\ (i # 1 => prev.v.key = k)
            /\ prev.v.value = SubSeq(s, 1, j)
        <5>1. before.key = (IF j = 0 THEN None ELSE k) /\ before.value = SubSeq(s, 1, j)
          OBVIOUS
        <5> HIDE DEF before, prev, item, v, i
        <5> QED
          BY <2>1, <4>2, <4>3, <5>1
      <4>5. NextItem(prev, i)
              = Got([key   |-> IF i = 1 THEN item.v.key ELSE prev.v.key,
                     value |-> Append(prev.v.value, item.v.value)], item.p)
        BY <4>2, <4>3 DEF NextItem
      <4> HIDE DEF item, prev, v, i, b
      <4>6. NextItem(prev, i) = Got([key |-> k, value |-> SubSeq(s, 1, i)], b)
        BY <2>7, <4>3, <4>4, <4>5, Zenon
      <4> QED
        BY <3>3, <4>6 DEF prev, UpTo
    <3> QED
      BY <3>1, <3>2, <3>3
  <2> QED
    BY <2>1, <2>2, <2>8, <2>b
<1>6. 0 .. n \subseteq S
  <2> HIDE DEF S, n
  <2> QED
    BY <1>0, <1>4, <1>5, Induction
<1>7. R[n] = Result(n)
  <2>1. n \in 0 .. n
    BY <1>0
  <2>2. n \in S
    BY <1>6, <2>1, Zenon
  <2> QED
    BY <2>2, Zenon
<1>8. SubSeq(s, 1, n) = s /\ (n = 0 <=> s = <<>>)
  OBVIOUS
<1> QED
  BY <1>1, <1>2, <1>7, <1>8
-----------------------------------------------------------------------------
(* One turn of the loop of parse, at the start of an entry. *)

\* What parse does behind a token at the start of an entry, in terms of the token
\* and in terms of the text t that ends before q.
AfterToken(token) ==
  LET len    == ReadLength(token.p)
      opcode == ReadToken("byte", token.p)
  IN  IF IsType(token.v, "STRING") THEN TakeData(ReadValue(token.p), "string")
      ELSE IF IsType(token.v, "LIST")
      THEN IF len.ok THEN TakeData(ReadItems(len.v, len.p), "list") ELSE Stop("failed")
      ELSE IF opcode.ok /\ opcode.v = 252 THEN TakeDeadline(token, ReadToken("u64", opcode.p))
      ELSE Stop("failed")

AfterText(t, q) ==
  LET len    == ReadLength(q)
      opcode == ReadToken("byte", q)
  IN  IF IsType(t, "STRING") THEN TakeData(ReadValue(q), "string")
      ELSE IF IsType(t, "LIST")
      THEN IF len.ok THEN TakeData(ReadItems(len.v, len.p), "list") ELSE Stop("failed")
      ELSE IF opcode.ok /\ opcode.v = 252 THEN TakeDeadline(Got(t, q), ReadToken("u64", opcode.p))
      ELSE Stop("failed")

\* The first byte of a text is no marker.
LEMMA TextFirst ==
  ASSUME NEW t \in Texts, pos \in Nat \ {0}, Len(file) \in Nat, Stands(WriteString(t), pos), ReadEntry
  PROVE  /\ pos <= Len(file) /\ UNCHANGED <<maps, file, todo, whole, now>>
         /\ IF pos + Len(WriteString(t)) <= Len(file) + 1
            THEN AfterText(t, pos + Len(WriteString(t)))
            ELSE Stop("failed")
<1> DEFINE marker == ReadToken("byte", pos)
           token  == ReadStringWithFirstLen(marker.v, marker.p)
           f      == FirstByte(Size[t])
           q      == pos + Len(WriteString(t))
<1>a. \A x, n : Got(x, n).ok /\ Got(x, n).v = x /\ Got(x, n).p = n /\ ~Fail.ok
  BY DEF Got, Fail
<1>1. marker.ok /\ UNCHANGED <<maps, file, todo, whole, now>>
  BY DEF ReadEntry
<1>2. marker = UpTo(f, pos + 1)
  BY StringsAgree
<1>3. pos <= Len(file) /\ marker = Got(f, pos + 1)
  <2>1. pos + 1 <= Len(file) + 1 /\ marker = Got(f, pos + 1)
    BY <1>a, <1>1, <1>2 DEF UpTo
  <2> QED
    BY <2>1
<1>4. token = UpTo(t, q)
  BY <1>a, <1>3, StringsAgree
<1>5. f # 252 /\ f # 255
  <2>1. Size[t] \in 0 .. Wide - 1
    BY StringTokens, Zenon
  <2> QED
    BY <2>1, CodecAssumption DEF FirstByte
<1>6. marker.v # 252 /\ marker.v # 255
  BY <1>a, <1>3, <1>5
<1>7. CASE q <= Len(file) + 1
  <2>1. token = Got(t, q)
    BY <1>4, <1>7 DEF UpTo
  <2>2. token.ok /\ token.v = t /\ token.p = q
    BY <1>a, <2>1
  <2>3. AfterText(t, q)
    <3>1. AfterToken(token)
      BY <1>6, <2>2, Zenon DEF ReadEntry, AfterToken
    <3> HIDE DEF token
    <3>2. AfterToken(Got(t, q))
      BY <2>1, <3>1, Zenon
    <3> DEFINE g == Got(t, q)
    <3>3. g.v = t /\ g.p = q /\ g = Got(t, q) /\ AfterToken(g)
      BY <1>a, <3>2, Zenon
    <3> HIDE DEF g, q
    <3> QED
      BY <3>3 DEF AfterToken, AfterText
  <2> QED
    BY <1>1, <1>3, <1>7, <2>3
<1>8. CASE ~(q <= Len(file) + 1)
  <2>1. ~token.ok
    BY <1>a, <1>4, <1>8 DEF UpTo
  <2>2. Stop("failed")
    BY <1>6, <2>1 DEF ReadEntry
  <2> QED
    BY <1>1, <1>3, <1>8, <2>2
<1> QED
  BY <1>7, <1>8

LEMMA TypeNames ==
  /\ "string" \in Texts /\ "list" \in Texts
  /\ IsType("string", "STRING") /\ ~IsType("list", "STRING") /\ IsType("list", "LIST")
<1>1. IsType("string", "STRING")
  BY CodecAssumption DEF IsType
<1>2. ~IsType("list", "STRING") /\ IsType("list", "LIST")
  BY CodecAssumption DEF IsType
<1> QED
  BY <1>1, <1>2 DEF Texts

LEMMA ObjectTokens ==
  ASSUME NEW k \in Keys, NEW obj \in Objects
  PROVE  /\ WriteObject(k, obj) \in Seq(Tokens) /\ Len(WriteObject(k, obj)) \in Nat \ {0}
         /\ \/ \E v \in Items : obj = Str(v)
            \/ \E s \in Lists : obj = List(s)
         /\ \A v \in Items : obj = Str(v) =>
              /\ WriteObject(k, obj) = WriteString("string") \o WriteValue(k, v)
              /\ v \in Texts /\ k \in Texts
         /\ \A s \in Lists : obj = List(s) =>
              /\ WriteObject(k, obj)
                   = (WriteString("list") \o WriteLength(Len(s))) \o WriteItems(k, s)
              /\ WriteItems(k, s) \in Seq(Tokens)
              /\ s \in Seq(Items) /\ Len(s) \in 0 .. Wide - 1
<1>1. ASSUME NEW v \in Items, obj = Str(v)
      PROVE  /\ WriteObject(k, obj) = WriteString("string") \o WriteValue(k, v)
             /\ v \in Texts /\ k \in Texts
             /\ WriteObject(k, obj) \in Seq(Tokens) /\ Len(WriteObject(k, obj)) \in Nat \ {0}
  <2>1. WriteObject(k, obj) = WriteString("string") \o WriteValue(k, v)
    BY <1>1 DEF WriteObject, Str
  <2>2. v \in Texts /\ k \in Texts
    BY DEF Texts
  <2>3. /\ WriteString("string") \in Seq(Tokens) /\ Len(WriteString("string")) \in {2, 3}
        /\ WriteValue(k, v) \in Seq(Tokens)
    BY <2>2, TypeNames, StringTokens, ValueTokens, Zenon
  <2>4. WriteObject(k, obj) \in Seq(Tokens) /\ Len(WriteObject(k, obj)) \in Nat \ {0}
    BY <2>1, <2>3
  <2> QED
    BY <2>1, <2>2, <2>4
<1>2. ASSUME NEW s \in Lists, obj = List(s)
      PROVE  /\ WriteObject(k, obj)
                  = (WriteString("list") \o WriteLength(Len(s))) \o WriteItems(k, s)
             /\ WriteItems(k, s) \in Seq(Tokens)
             /\ s \in Seq(Items) /\ Len(s) \in 0 .. Wide - 1
             /\ WriteObject(k, obj) \in Seq(Tokens) /\ Len(WriteObject(k, obj)) \in Nat \ {0}
  <2>1. WriteObject(k, obj) = (WriteString("list") \o WriteLength(Len(s))) \o WriteItems(k, s)
    BY <1>2 DEF WriteObject, List
  <2>2. s \in Seq(Items) /\ Len(s) \in Nat /\ Len(s) \in 0 .. Wide - 1
    BY CodecAssumption
  <2>3. WriteItems(k, s) \in Seq(Tokens)
    <3>1. WriteItems(k, s) = ItemsWritten(k, s)[Len(s)]
      BY <2>2, WriteRecursion, Zenon
    <3>2. Len(s) \in 0 .. Len(s)
      BY <2>2
    <3> QED
      BY <2>2, <3>1, <3>2, ItemTokens
  <2>4. /\ WriteString("list") \in Seq(Tokens) /\ Len(WriteString("list")) \in {2, 3}
        /\ WriteLength(Len(s)) \in Seq(Tokens) /\ Len(WriteLength(Len(s))) \in {1, 2}
    BY <2>2, TypeNames, StringTokens, LengthTokens, Zenon
  <2>5. /\ WriteString("list") \o WriteLength(Len(s)) \in Seq(Tokens)
        /\ Len(WriteString("list") \o WriteLength(Len(s))) \in Nat \ {0}
    <3>1. \A a, b \in Seq(Tokens) : Len(a) \in {2, 3} /\ Len(b) \in {1, 2} =>
            a \o b \in Seq(Tokens) /\ Len(a \o b) \in Nat \ {0}
      BY Concatenated
    <3> QED
      BY <2>4, <3>1, Zenon
  <2>6. /\ WriteObject(k, obj) \in Seq(Tokens) /\ Len(WriteObject(k, obj)) \in Nat \ {0}
    BY <2>1, <2>3, <2>5
  <2> QED
    BY <2>1, <2>2, <2>3, <2>6
<1>3. \/ \E v \in Items : obj = Str(v)
      \/ \E s \in Lists : obj = List(s)
  BY DEF Objects
<1> QED
  BY <1>1, <1>2, <1>3, Zenon

\* How the turn of the loop ends for the entry of key k: the value is taken, but
\* for an empty list, or the file ends before the entry does.
DataTaken(k, obj) ==
  LET end == pos + Len(WriteObject(k, obj)) IN
  /\ pos <= Len(file) /\ UNCHANGED <<maps, file, todo, whole, now>>
  /\ IF end <= Len(file) + 1
     THEN /\ pos' = end
          /\ db' = IF obj = List(<<>>) THEN db ELSE [db EXCEPT ![k] = obj]
          /\ UNCHANGED <<deadlines, loadedAt, state>>
     ELSE Stop("failed")

LEMMA StringEntry ==
  ASSUME NEW k \in Keys, NEW v \in Items, pos \in Nat \ {0}, Len(file) \in Nat,
         Stands(WriteObject(k, Str(v)), pos), ReadEntry
  PROVE  DataTaken(k, Str(v))
<1> DEFINE q == pos + Len(WriteString("string"))
           end == pos + Len(WriteObject(k, Str(v)))
           entry == [key |-> k, value |-> v]
<1>1. Str(v) \in Objects
  BY DEF Objects
<1>2. /\ WriteObject(k, Str(v)) = WriteString("string") \o WriteValue(k, v)
      /\ v \in Texts /\ k \in Texts
  BY <1>1, ObjectTokens
<1>3. /\ WriteString("string") \in Seq(Tokens) /\ Len(WriteString("string")) \in Nat
      /\ WriteValue(k, v) \in Seq(Tokens) /\ Len(WriteValue(k, v)) \in Nat
  <2>1. WriteString("string") \in Seq(Tokens) /\ WriteValue(k, v) \in Seq(Tokens)
    BY <1>2, TypeNames, StringTokens, ValueTokens
  <2> QED
    BY <2>1
<1>4. Stands(WriteString("string"), pos) /\ Stands(WriteValue(k, v), q)
  BY <1>2, <1>3, StandsParts
<1>5. q \in Nat \ {0} /\ q + Len(WriteValue(k, v)) = end /\ q <= end /\ end \in Nat
  BY <1>2, <1>3
<1>6. ReadValue(q) = UpTo(entry, end)
  BY <1>2, <1>4, <1>5, ValuesAgree, Zenon
<1>7. /\ pos <= Len(file) /\ UNCHANGED <<maps, file, todo, whole, now>>
      /\ IF q <= Len(file) + 1 THEN AfterText("string", q) ELSE Stop("failed")
  BY <1>4, TypeNames, TextFirst
<1>8. CASE ~(q <= Len(file) + 1)
  <2>1. ~(end <= Len(file) + 1)
    BY <1>5, <1>8
  <2> QED
    BY <1>7, <1>8, <2>1 DEF DataTaken
<1>9. CASE q <= Len(file) + 1
  <2>1. TakeData(ReadValue(q), "string")
    BY <1>7, <1>9, TypeNames DEF AfterText
  <2>2. CASE ~(end <= Len(file) + 1)
    <3>1. ~ReadValue(q).ok
      BY <1>6, <2>2 DEF UpTo, Fail
    <3>2. Stop("failed")
      BY <2>1, <3>1 DEF TakeData
    <3> QED
      BY <1>7, <2>2, <3>2 DEF DataTaken
  <2>3. CASE end <= Len(file) + 1
    <3>1. ReadValue(q) = Got(entry, end)
      BY <1>6, <2>3 DEF UpTo
    <3>2. /\ ReadValue(q).ok /\ ReadValue(q).p = end /\ ReadValue(q).v.key = k
          /\ ReadValue(q).v.value = v
      BY <3>1 DEF Got
    <3>3. k # None /\ Str(v) = [type |-> "string", value |-> v] /\ Str(v) # List(<<>>)
      BY CodecAssumption DEF Str, List
    <3>4. /\ pos' = end /\ db' = [db EXCEPT ![k] = Str(v)]
          /\ UNCHANGED <<deadlines, loadedAt, state>>
      BY <2>1, <3>2, <3>3 DEF TakeData
    <3> QED
      BY <1>7, <2>3, <3>3, <3>4 DEF DataTaken
  <2> QED
    BY <2>2, <2>3
<1> QED
  BY <1>8, <1>9

LEMMA ListEntry ==
  ASSUME NEW k \in Keys, NEW s \in Lists, pos \in Nat \ {0}, Len(file) \in Nat,
         Stands(WriteObject(k, List(s)), pos), ReadEntry
  PROVE  DataTaken(k, List(s))
<1> DEFINE q == pos + Len(WriteString("list"))
           r == q + Len(WriteLength(Len(s)))
           end == pos + Len(WriteObject(k, List(s)))
           entry == [key |-> IF s = <<>> THEN None ELSE k, value |-> s]
           len == ReadLength(q)
<1>1. List(s) \in Objects
  BY DEF Objects
<1>2. /\ WriteObject(k, List(s))
           = (WriteString("list") \o WriteLength(Len(s))) \o WriteItems(k, s)
      /\ WriteItems(k, s) \in Seq(Tokens) /\ s \in Seq(Items) /\ Len(s) \in 0 .. Wide - 1
  BY <1>1, ObjectTokens
<1>3. /\ WriteString("list") \in Seq(Tokens) /\ Len(WriteString("list")) \in Nat
      /\ WriteLength(Len(s)) \in Seq(Tokens) /\ Len(WriteLength(Len(s))) \in Nat
      /\ Len(WriteItems(k, s)) \in Nat
  <2>1. WriteString("list") \in Seq(Tokens) /\ WriteLength(Len(s)) \in Seq(Tokens)
    BY <1>2, TypeNames, StringTokens, LengthTokens, Zenon
  <2> QED
    BY <1>2, <2>1
<1>4. /\ WriteString("list") \o WriteLength(Len(s)) \in Seq(Tokens)
      /\ Len(WriteString("list") \o WriteLength(Len(s)))
           = Len(WriteString("list")) + Len(WriteLength(Len(s)))
  BY <1>3
<1>5. /\ q \in Nat \ {0} /\ r \in Nat \ {0} /\ end \in Nat
      /\ q <= r /\ r <= end /\ r + Len(WriteItems(k, s)) = end
      /\ pos + (Len(WriteString("list")) + Len(WriteLength(Len(s)))) = r
  BY <1>2, <1>3, <1>4
<1>6. /\ Stands(WriteString("list"), pos) /\ Stands(WriteLength(Len(s)), q)
      /\ Stands(WriteItems(k, s), r)
  <2> DEFINE a == WriteString("list") \o WriteLength(Len(s))
  <2>1. Stands(a, pos) /\ Stands(WriteItems(k, s), r)
    <3>1. /\ Stands(a \o WriteItems(k, s), pos) /\ a \in Seq(Tokens) /\ pos + Len(a) = r
          /\ WriteItems(k, s) \in Seq(Tokens)
      BY <1>2, <1>4, <1>5
    <3> HIDE DEF a, r
    <3>2. Stands(a, pos) /\ Stands(WriteItems(k, s), pos + Len(a))
      BY <3>1, StandsParts
    <3> QED
      BY <3>1, <3>2
  <2> QED
    BY <1>3, <2>1, StandsParts
<1>7. len = UpTo(Len(s), r)
  BY <1>2, <1>5, <1>6, LengthsAgree
<1>8. r <= Len(file) + 1 => ReadItems(Len(s), r) = UpTo(entry, end)
  BY <1>2, <1>5, <1>6, ItemsAgree, Zenon
<1>9. /\ pos <= Len(file) /\ UNCHANGED <<maps, file, todo, whole, now>>
      /\ IF q <= Len(file) + 1 THEN AfterText("list", q) ELSE Stop("failed")
  BY <1>6, TypeNames, TextFirst
<1> HIDE DEF q, r, end, len
<1>10. CASE ~(q <= Len(file) + 1)
  <2>1. ~(end <= Len(file) + 1)
    BY <1>5, <1>10
  <2> QED
    BY <1>9, <1>10, <2>1 DEF DataTaken, end
<1>11. CASE q <= Len(file) + 1
  <2>1. IF len.ok THEN TakeData(ReadItems(len.v, len.p), "list") ELSE Stop("failed")
    BY <1>9, <1>11, TypeNames DEF AfterText, len
  <2>2. CASE ~(r <= Len(file) + 1)
    <3>1. ~len.ok /\ ~(end <= Len(file) + 1)
      BY <1>5, <1>7, <2>2 DEF UpTo, Fail
    <3> QED
      BY <1>9, <2>1, <3>1 DEF DataTaken, end
  <2>3. CASE r <= Len(file) + 1
    <3> DEFINE items == ReadItems(Len(s), r)
    <3>1. len.ok /\ len.v = Len(s) /\ len.p = r
      BY <1>7, <2>3 DEF UpTo, Got
    <3>2. TakeData(items, "list")
      BY <2>1, <3>1
    <3>3. items = UpTo(entry, end)
      BY <1>8, <2>3
    <3> HIDE DEF items
    <3>4. CASE ~(end <= Len(file) + 1)
      <4>1. ~items.ok
        BY <3>3, <3>4 DEF UpTo, Fail
      <4>2. Stop("failed")
        BY <3>2, <4>1 DEF TakeData
      <4> QED
        BY <1>9, <3>4, <4>2 DEF DataTaken, end
    <3>5. CASE end <= Len(file) + 1
      <4>1. items = Got(entry, end)
        BY <3>3, <3>5 DEF UpTo
      <4>2. /\ items.ok /\ items.p = end /\ items.v.key = (IF s = <<>> THEN None ELSE k)
            /\ items.v.value = s
        BY <4>1 DEF Got
      <4>3. /\ k # None /\ List(s) = [type |-> "list", value |-> s]
            /\ List(s) = List(<<>>) <=> s = <<>>
        BY CodecAssumption DEF List
      <4>4. /\ pos' = end
            /\ db' = IF items.v.key = None THEN db
                     ELSE [db EXCEPT ![items.v.key] = [type |-> "list", value |-> items.v.value]]
            /\ UNCHANGED <<deadlines, loadedAt, state>>
        BY <3>2, <4>2 DEF TakeData
      <4>5. db' = IF List(s) = List(<<>>) THEN db ELSE [db EXCEPT ![k] = List(s)]
        <5>1. CASE s = <<>>
          BY <4>2, <4>3, <4>4, <5>1, Zenon
        <5>2. CASE s # <<>>
          BY <4>2, <4>3, <4>4, <5>2
        <5> QED
          BY <5>1, <5>2
      <4> QED
        BY <1>9, <3>5, <4>4, <4>5, Zenon DEF DataTaken, end
    <3> QED
      BY <3>4, <3>5
  <2> QED
    BY <2>2, <2>3
<1> QED
  BY <1>10, <1>11

LEMMA MillisNat ==
  ASSUME NEW d \in Nat, NEW w \in Nat
  PROVE  ToMillis(d, w) \in Nat
<1> DEFINE u == IF d > w THEN d ELSE w
<1>1. PerMs \in Nat \ {0} /\ Epoch + u \in Nat /\ MillisRange \in Nat \ {0}
  BY CodecAssumption
<1>2. Millis(u) \in Nat
  <2> HIDE DEF u
  <2> QED
    BY <1>1, Rounding DEF Millis
<1> HIDE DEF u
<1>3. Millis(u) % MillisRange \in Nat
  BY <1>1, <1>2, Modulus
<1> QED
  BY <1>3 DEF ToMillis, u

\* What write_db writes of a deadline behind its key.
ExpiryTail(k, w) == <<Byte(252)>> \o <<U64(ToMillis(expirations[k], w))>>

LEMMA ExpiryTokens ==
  ASSUME NEW k \in Keys, expirations[k] \in Nat, NEW w \in Nat
  PROVE  /\ WriteExpiry(k, w) \in Seq(Tokens) /\ Len(WriteExpiry(k, w)) \in Nat \ {0}
         /\ WriteExpiry(k, w) = WriteString(k) \o ExpiryTail(k, w)
         /\ Byte(252) \in Tokens /\ U64(ToMillis(expirations[k], w)) \in Tokens
         /\ Len(WriteExpiry(k, w)) = Len(WriteString(k)) + 2
<1> DEFINE ms == ToMillis(expirations[k], w)
<1>1. ms \in Nat
  BY MillisNat, Zenon
<1> HIDE DEF ms
<1>2. Byte(252) \in Tokens /\ U64(ms) \in Tokens /\ k \in Texts
  BY <1>1 DEF Tokens, Texts
<1>3. WriteString(k) \in Seq(Tokens) /\ Len(WriteString(k)) \in {2, 3}
  BY <1>2, StringTokens, Zenon
<1>4. <<Byte(252), U64(ms)>> = <<Byte(252)>> \o <<U64(ms)>>
  BY <1>2
<1>5. <<Byte(252)>> \o <<U64(ms)>> \in Seq(Tokens) /\ Len(<<Byte(252)>> \o <<U64(ms)>>) = 2
  BY <1>2
<1> DEFINE b == ExpiryTail(k, w)
<1>6. b = <<Byte(252)>> \o <<U64(ms)>> /\ WriteExpiry(k, w) = WriteString(k) \o b
  BY <1>4 DEF WriteExpiry, ExpiryTail, ms
<1>7. b \in Seq(Tokens) /\ Len(b) = 2
  BY <1>5, <1>6, Zenon
<1> HIDE DEF b
<1>8. WriteString(k) \o b \in Seq(Tokens) /\ Len(WriteString(k) \o b) = Len(WriteString(k)) + 2
  BY <1>3, <1>7, Joined, Zenon
<1>9. Len(WriteString(k)) + 2 \in Nat \ {0}
  BY <1>3
<1> QED
  BY <1>2, <1>6, <1>8, <1>9, Zenon DEF b, ms

\* How the turn of the loop ends for a deadline written at w: a key that reads
\* like a type is refused, the deadline of any other is taken, unless the file
\* ends before.
DeadlineTaken(k, w) ==
  LET end == pos + Len(WriteExpiry(k, w)) IN
  /\ pos <= Len(file) /\ UNCHANGED <<maps, file, todo, whole, now>>
  /\ IF Upper[k] = "OTHER" /\ end <= Len(file) + 1
     THEN /\ pos' = end
          /\ deadlines' = [deadlines EXCEPT ![k] = FromMillis(ToMillis(expirations[k], w), now)]
          /\ loadedAt' = [loadedAt EXCEPT ![k] = now]
          /\ UNCHANGED <<db, state>>
     ELSE Stop("failed")

LEMMA ExpiryEntry ==
  ASSUME NEW k \in Keys, expirations[k] \in Nat, NEW w \in Nat, pos \in Nat \ {0}, Len(file) \in Nat,
         Stands(WriteExpiry(k, w), pos), ReadEntry
  PROVE  DeadlineTaken(k, w)
<1> DEFINE q == pos + Len(WriteString(k))
           ms == ToMillis(expirations[k], w)
           end == pos + Len(WriteExpiry(k, w))
           opcode == ReadToken("byte", q)
<1>a. \A x, n : Got(x, n).ok /\ Got(x, n).v = x /\ Got(x, n).p = n /\ ~Fail.ok
  BY DEF Got, Fail
<1>1. /\ k \in Texts /\ WriteString(k) \in Seq(Tokens) /\ Len(WriteString(k)) \in {2, 3}
  BY StringTokens, Zenon DEF Texts
<1>2. /\ WriteExpiry(k, w) = WriteString(k) \o (<<Byte(252)>> \o <<U64(ms)>>)
      /\ Byte(252) \in Tokens /\ U64(ms) \in Tokens
      /\ Len(WriteExpiry(k, w)) = Len(WriteString(k)) + 2
  <2>1. /\ WriteExpiry(k, w) = WriteString(k) \o ExpiryTail(k, w)
        /\ Byte(252) \in Tokens /\ U64(ms) \in Tokens
        /\ Len(WriteExpiry(k, w)) = Len(WriteString(k)) + 2
    BY ExpiryTokens, Zenon
  <2> QED
    BY <2>1, Zenon DEF ExpiryTail
<1> HIDE DEF ms
<1>3. /\ <<Byte(252)>> \in Seq(Tokens) /\ <<U64(ms)>> \in Seq(Tokens)
      /\ <<Byte(252)>> \o <<U64(ms)>> \in Seq(Tokens) /\ Len(<<Byte(252)>>) = 1
  BY <1>2
<1>4. q \in Nat \ {0} /\ end = q + 2 /\ q + 1 \in Nat \ {0} /\ q + 1 + 1 = q + 2
  BY <1>1, <1>2
<1>5. Stands(WriteString(k), pos) /\ Stands(<<Byte(252)>> \o <<U64(ms)>>, q)
  <2> DEFINE b == <<Byte(252)>> \o <<U64(ms)>>
  <2>1. b \in Seq(Tokens) /\ Stands(WriteString(k) \o b, pos)
    BY <1>2, <1>3
  <2> HIDE DEF b
  <2>2. Stands(WriteString(k), pos) /\ Stands(b, q)
    BY <1>1, <2>1, StandsParts
  <2> QED
    BY <2>2 DEF b
<1> HIDE DEF q, end
<1>6. Stands(<<Byte(252)>>, q) /\ Stands(<<U64(ms)>>, q + 1)
  <2> DEFINE a == <<Byte(252)>>
             b == <<U64(ms)>>
  <2>1. a \in Seq(Tokens) /\ b \in Seq(Tokens) /\ Len(a) = 1 /\ Stands(a \o b, q)
    BY <1>3, <1>5
  <2> HIDE DEF a, b
  <2>2. Stands(a, q) /\ Stands(b, q + Len(a))
    BY <1>4, <2>1, StandsParts
  <2> QED
    BY <2>1, <2>2 DEF a, b
<1>7. opcode = UpTo(252, q + 1)
  BY <1>2, <1>4, <1>6, TokenRead DEF Byte
<1>8. ReadToken("u64", q + 1) = UpTo(ms, end)
  <2>1. U64(ms).t = "u64" /\ U64(ms).v = ms
    BY DEF U64
  <2>2. ReadToken(U64(ms).t, q + 1) = UpTo(U64(ms).v, q + 1 + 1)
    BY <1>2, <1>4, <1>6, TokenRead
  <2> QED
    BY <1>4, <2>1, <2>2
<1>9. /\ pos <= Len(file) /\ UNCHANGED <<maps, file, todo, whole, now>>
      /\ IF q <= Len(file) + 1 THEN AfterText(k, q) ELSE Stop("failed")
  BY <1>1, <1>5, TextFirst DEF q
<1>10. \A type \in {"STRING", "LIST"} : IsType(k, type) <=> Upper[k] = type
  BY DEF IsType
<1>11. Upper[k] \in {"STRING", "LIST", "OTHER"}
  BY CodecAssumption
<1> HIDE DEF opcode
<1>12. ASSUME Stop("failed"), ~(Upper[k] = "OTHER" /\ end <= Len(file) + 1)
       PROVE  DeadlineTaken(k, w)
  BY <1>9, <1>12, Zenon DEF DeadlineTaken, end
<1>13. CASE ~(q <= Len(file) + 1)
  <2>1. ~(end <= Len(file) + 1)
    BY <1>4, <1>13
  <2> QED
    BY <1>9, <1>12, <1>13, <2>1, Zenon
<1>14. CASE q <= Len(file) + 1 /\ Upper[k] = "STRING"
  <2>1. TakeData(ReadValue(q), "string")
    BY <1>9, <1>10, <1>14, Zenon DEF AfterText
  <2>2. ~(opcode.ok /\ opcode.v = 0)
    BY <1>a, <1>7 DEF UpTo
  <2>3. ~ReadValue(q).ok
    BY <1>a, <2>2, Zenon DEF ReadValue, opcode
  <2>4. Stop("failed")
    BY <2>1, <2>3 DEF TakeData
  <2> QED
    BY <1>12, <1>14, <2>4, Zenon
<1>15. CASE q <= Len(file) + 1 /\ Upper[k] = "LIST"
  <2>1. ~ReadLength(q).ok
    <3>1. CASE ~opcode.ok
      BY <1>a, <3>1 DEF ReadLength, opcode
    <3>2. CASE opcode.ok
      <4>1. opcode.v = 252
        BY <1>a, <1>7, <3>2 DEF UpTo
      <4>2. ReadLengthWithFirst(252, opcode.p) = Fail
        BY DEF ReadLengthWithFirst
      <4> QED
        BY <1>a, <3>2, <4>1, <4>2 DEF ReadLength, opcode
    <3> QED
      BY <3>1, <3>2
  <2>2. Stop("failed")
    BY <1>9, <1>10, <1>15, <2>1, Zenon DEF AfterText
  <2> QED
    BY <1>12, <1>15, <2>2
<1>16. CASE q <= Len(file) + 1 /\ Upper[k] = "OTHER"
  <2>1. IF opcode.ok /\ opcode.v = 252 THEN TakeDeadline(Got(k, q), ReadToken("u64", opcode.p))
        ELSE Stop("failed")
    BY <1>9, <1>10, <1>16, Zenon DEF AfterText, opcode
  <2>2. CASE ~(q + 1 <= Len(file) + 1)
    <3>1. ~opcode.ok /\ ~(end <= Len(file) + 1)
      BY <1>a, <1>4, <1>7, <2>2 DEF UpTo
    <3> QED
      BY <1>12, <2>1, <3>1, Zenon
  <2>3. CASE q + 1 <= Len(file) + 1
    <3>1. opcode.ok /\ opcode.v = 252 /\ opcode.p = q + 1
      BY <1>a, <1>7, <2>3 DEF UpTo
    <3>2. TakeDeadline(Got(k, q), UpTo(ms, end))
      BY <1>8, <2>1, <3>1
    <3>3. CASE ~(end <= Len(file) + 1)
      <4>1. ~UpTo(ms, end).ok
        BY <1>a, <3>3 DEF UpTo
      <4>2. Stop("failed")
        BY <3>2, <4>1 DEF TakeDeadline
      <4> QED
        BY <1>12, <3>3, <4>2
    <3>4. CASE end <= Len(file) + 1
      <4>1. UpTo(ms, end) = Got(ms, end)
        BY <3>4 DEF UpTo
      <4>2. TakeDeadline(Got(k, q), Got(ms, end))
        BY <3>2, <4>1
      <4>3. /\ pos' = end
            /\ deadlines' = [deadlines EXCEPT ![k] = FromMillis(ms, now)]
            /\ loadedAt' = [loadedAt EXCEPT ![k] = now]
            /\ UNCHANGED <<db, state>>
        <5> DEFINE key  == Got(k, q)
                   last == Got(ms, end)
        <5>1. key.ok /\ key.v = k /\ last.ok /\ last.v = ms /\ last.p = end
          BY <1>a, Zenon
        <5> HIDE DEF key, last
        <5>2. /\ pos' = last.p
              /\ deadlines' = [deadlines EXCEPT ![key.v] = FromMillis(last.v, now)]
              /\ loadedAt' = [loadedAt EXCEPT ![key.v] = now]
              /\ UNCHANGED <<db, state>>
          BY <4>2, <5>1, Zenon DEF TakeDeadline, key, last
        <5> QED
          BY <5>1, <5>2, Zenon
      <4> QED
        BY <1>9, <1>16, <3>4, <4>3, Zenon DEF DeadlineTaken, end, ms
    <3> QED
      BY <3>3, <3>4
  <2> QED
    BY <2>2, <2>3
<1> QED
  BY <1>11, <1>13, <1>14, <1>15, <1>16
-----------------------------------------------------------------------------
(* The inductive invariant: where the entries stand in the file, and which of *)
(* them the reader has behind it.                                             *)
CodecType ==
  /\ data \in [Keys -> Objects \cup {None}]
  /\ expirations \in [Keys -> Times \cup {None}]
  /\ file \in Seq(Tokens)
  /\ pos \in Nat \ {0}
  /\ db \in [Keys -> Objects \cup {None}]
  /\ deadlines \in [Keys -> Int \cup {None}]
  /\ loadedAt \in [Keys -> Nat \cup {None}]
  /\ state \in {"header", "data", "expirations", "read", "loaded", "failed"}
  /\ whole \in BOOLEAN
  /\ now \in Nat
  /\ state \in {"read", "loaded", "failed"} => todo = {}
  /\ state = "data" => todo \subseteq Entries(data)
  /\ state = "expirations" => todo \subseteq Entries(expirations)
  /\ state \in {"header", "data", "expirations"} => pos = 1 /\ whole

\* One entry for the value of each key and one for its deadline.
Entry == {"data", "exp"} \X Keys

\* The entries that write_db has written so far.
IsWritten(e) ==
  IF e[1] = "data" THEN /\ data[e[2]] # None
                        /\ state # "header" /\ ~(state = "data" /\ e[2] \in todo)
  ELSE /\ expirations[e[2]] # None
       /\ state \notin {"header", "data"} /\ e[2] \notin todo

\* s are the tokens of entry e: those of a deadline depend on the time of writing.
TokensOf(e, s) ==
  IF e[1] = "data" THEN data[e[2]] \in Objects /\ s = WriteObject(e[2], data[e[2]])
  ELSE expirations[e[2]] \in Nat /\ \E w \in 0 .. now : s = WriteExpiry(e[2], w)

\* The starts of the entries and the end of a file of n tokens.  Entry e starts
\* at at[e], which is 0 while it is not written, and has the tokens tok[e].
Stops(n, at) == {n + 1} \cup {at[e] : e \in {f \in Entry : at[f] # 0}}

\* The file, of n tokens before it was cut: the header and the selector, then
\* entry after entry without a gap and without an overlap.
Layout(n, at, tok) ==
  /\ Len(file) <= n /\ (whole => Len(file) = n)
  /\ state # "header" => n >= 3 /\ 4 \in Stops(n, at) /\ Stands(<<Header, Byte(254), Byte(0)>>, 1)
  /\ \A e \in Entry : at[e] # 0 <=> IsWritten(e)
  /\ \A e \in Entry : at[e] # 0 =>
       /\ at[e] \in 4 .. n /\ at[e] + Len(tok[e]) <= n + 1
       /\ at[e] + Len(tok[e]) \in Stops(n, at)
       /\ Len(tok[e]) \in Nat \ {0} /\ TokensOf(e, tok[e]) /\ Stands(tok[e], at[e])
  /\ \A e, f \in Entry : at[e] # 0 /\ at[f] # 0 /\ e # f =>
       at[e] + Len(tok[e]) <= at[f] \/ at[f] + Len(tok[f]) <= at[e]

\* The reader has taken exactly the entries before its position.
Reading(n, at) ==
  /\ pos \in {1, 2} \cup Stops(n, at)
  /\ \A k \in Keys :
       /\ db[k] = IF at[<<"data", k>>] \in 1 .. pos - 1 /\ data[k] # List(<<>>)
                  THEN data[k] ELSE None
       /\ deadlines[k] # None <=> at[<<"exp", k>>] \in 1 .. pos - 1
       /\ at[<<"exp", k>>] \in 1 .. pos - 1 => Upper[k] = "OTHER"
  /\ state = "loaded" => pos > Len(file)
  /\ state = "failed" /\ whole => \E k \in Entries(expirations) : Upper[k] # "OTHER"

CodecInv ==
  /\ CodecType
  /\ DeadlineKept
  /\ \E n \in Nat, at \in [Entry -> Nat], tok \in [Entry -> Seq(Tokens)] :
       Layout(n, at, tok) /\ Reading(n, at)

LEMMA CodecInit == Init => CodecInv
<1> SUFFICES ASSUME Init PROVE CodecInv
  OBVIOUS
<1>1. CodecType
  BY DEF Init, CodecType
<1>2. DeadlineKept
  BY DEF Init, DeadlineKept
<1> DEFINE at == [e \in Entry |-> 0]
           tok == [e \in Entry |-> <<>>]
<1>3. Layout(0, at, tok)
  BY DEF Init, Layout, IsWritten
<1>4. Reading(0, at)
  <2>1. \A k \in Keys : <<"data", k>> \in Entry /\ <<"exp", k>> \in Entry
    BY DEF Entry
  <2>2. \A k \in Keys : at[<<"data", k>>] = 0 /\ at[<<"exp", k>>] = 0
    BY <2>1, Zenon
  <2> QED
    BY <2>2 DEF Init, Reading
<1>5. 0 \in Nat /\ at \in [Entry -> Nat] /\ tok \in [Entry -> Seq(Tokens)]
  OBVIOUS
<1> HIDE DEF at, tok
<1> QED
  BY <1>1, <1>2, <1>3, <1>4, <1>5 DEF CodecInv

\* Nothing that the invariant speaks of changes in a step that only writes.
LEMMA WriterKeeps ==
  ASSUME NEW n \in Nat, NEW at \in [Entry -> Nat], NEW n1 \in Nat, NEW at1 \in [Entry -> Nat],
         CodecType, DeadlineKept, Reading(n, at), UNCHANGED <<maps, pos, db, deadlines, loadedAt>>,
         pos = 1, state' \notin {"loaded", "failed"}
  PROVE  DeadlineKept' /\ Reading(n1, at1)'
<1>1. DeadlineKept'
  BY Zenon DEF DeadlineKept, maps
<1>2. \A k \in Keys : db[k] = None /\ deadlines[k] = None
  <2>1. 1 .. pos - 1 = {}
    OBVIOUS
  <2>2. \A x : x \notin 1 .. pos - 1
    BY <2>1, Zenon
  <2> QED
    BY <2>2, Zenon DEF Reading
<1>3. \A k \in Keys : at1[<<"data", k>>] \notin 1 .. pos - 1 /\ at1[<<"exp", k>>] \notin 1 .. pos - 1
  OBVIOUS
<1> QED
  BY <1>1, <1>2, <1>3, Zenon DEF Reading, maps

\* The tokens of an entry are what they were when it was written.
LEMMA TokensKept ==
  ASSUME UNCHANGED maps, now \in Nat, now' \in Nat, now <= now',
         NEW e \in Entry, NEW s, TokensOf(e, s)
  PROVE  TokensOf(e, s)'
<1>1. CASE e[1] = "data"
  BY <1>1 DEF TokensOf, maps
<1>2. CASE e[1] # "data"
  <2>1. expirations[e[2]] \in Nat /\ expirations'[e[2]] = expirations[e[2]]
    BY <1>2 DEF TokensOf, maps
  <2>2. PICK w \in 0 .. now : s = WriteExpiry(e[2], w)
    BY <1>2 DEF TokensOf
  <2>3. WriteExpiry(e[2], w)' = WriteExpiry(e[2], w)
    BY <2>1 DEF WriteExpiry
  <2>4. w \in 0 .. now'
    OBVIOUS
  <2> QED
    BY <1>2, <2>1, <2>2, <2>3, <2>4, Zenon DEF TokensOf
<1> QED
  BY <1>1, <1>2

\* A new entry stands behind the ones before.
LEMMA EntryAppended ==
  ASSUME NEW n \in Nat, NEW at \in [Entry -> Nat], NEW tok \in [Entry -> Seq(Tokens)],
         CodecType, Layout(n, at, tok), whole, state # "header", now' = now, UNCHANGED <<maps, state, whole>>,
         NEW e \in Entry, at[e] = 0, NEW s \in Seq(Tokens), Len(s) \in Nat \ {0},
         file' = file \o s, TokensOf(e, s), IsWritten(e)',
         \A f \in Entry : f # e => (IsWritten(f)' <=> IsWritten(f))
  PROVE  Layout(n + Len(s), [at EXCEPT ![e] = n + 1], [tok EXCEPT ![e] = s])'
<1> DEFINE n1 == n + Len(s)
           at1 == [at EXCEPT ![e] = n + 1]
           tok1 == [tok EXCEPT ![e] = s]
<1>1. Len(file) = n /\ n >= 3 /\ file \in Seq(Tokens)
  BY Zenon DEF Layout, CodecType
<1>2. Len(file') = n1 /\ n1 \in Nat
  <2>1. Len(file \o s) = Len(file) + Len(s)
    BY <1>1, Concatenated, Zenon
  <2> QED
    BY <1>1, <2>1
<1>3. \A i \in 1 .. n : file'[i] = file[i]
  BY <1>1
<1>4. \A i \in 1 .. Len(s) : file'[n + i] = s[i]
  BY <1>1
<1>5. ASSUME NEW t, NEW p \in Nat \ {0}, Len(t) \in Nat, p + Len(t) <= n + 1, Stands(t, p)
      PROVE  Stands(t, p)'
  <2> SUFFICES ASSUME NEW i \in 1 .. Len(t) PROVE file'[p + i - 1] = t[i]
    BY Zenon DEF Stands
  <2>1. p + i - 1 \in 1 .. n
    BY <1>5
  <2>2. file[p + i - 1] = t[i]
    BY <1>1, <1>5, <2>1 DEF Stands
  <2> QED
    BY <1>3, <2>1, <2>2, Zenon
<1>6. \A f \in Entry : f # e => at1[f] = at[f] /\ tok1[f] = tok[f]
  OBVIOUS
<1>7. at1[e] = n + 1 /\ tok1[e] = s
  OBVIOUS
<1>8. \A f \in Entry : at1[f] # 0 <=> IsWritten(f)'
  BY <1>6, <1>7 DEF Layout
<1> HIDE DEF at1, tok1
<1>9. ASSUME NEW p \in Stops(n, at) PROVE p \in Stops(n1, at1)
  <2>1. CASE p = n + 1
    BY <1>7, <2>1 DEF Stops
  <2>2. CASE \E f \in Entry : at[f] # 0 /\ p = at[f]
    BY <1>6, <2>2, Zenon DEF Stops
  <2> QED
    BY <2>1, <2>2, Zenon DEF Stops
<1>10. ASSUME NEW f \in Entry, at1[f] # 0
       PROVE  /\ at1[f] \in 4 .. n1 /\ at1[f] + Len(tok1[f]) <= n1 + 1
              /\ at1[f] + Len(tok1[f]) \in Stops(n1, at1)
              /\ Len(tok1[f]) \in Nat \ {0} /\ TokensOf(f, tok1[f])' /\ Stands(tok1[f], at1[f])'
  <2>1. CASE f = e
    <3>1. at1[f] \in 4 .. n1 /\ at1[f] + Len(tok1[f]) = n1 + 1
      BY <1>1, <1>2, <1>7, <2>1
    <3>2. n1 + 1 \in Stops(n1, at1)
      BY Zenon DEF Stops
    <3>3. TokensOf(e, s)'
      BY TokensKept DEF CodecType
    <3>4. Stands(s, n + 1)'
      <4> SUFFICES ASSUME NEW i \in 1 .. Len(s) PROVE file'[n + 1 + i - 1] = s[i]
        BY Zenon DEF Stands
      <4>1. n + 1 + i - 1 = n + i
        OBVIOUS
      <4> QED
        BY <1>4, <4>1, Zenon
    <3>5. at1[f] = n + 1 /\ tok1[f] = s
      BY <1>7, <2>1
    <3>6. TokensOf(f, tok1[f])' /\ Stands(tok1[f], at1[f])'
      BY <2>1, <3>3, <3>4, <3>5
    <3>7. Len(tok1[f]) \in Nat \ {0} /\ at1[f] + Len(tok1[f]) <= n1 + 1
      <4>1. Len(s) \in Nat \ {0} /\ n1 + 1 <= n1 + 1
        BY <1>2
      <4> QED
        BY <3>1, <3>5, <4>1, Zenon
    <3> QED
      BY <3>1, <3>2, <3>6, <3>7, Zenon
  <2>2. CASE f # e
    <3>1. at1[f] = at[f] /\ tok1[f] = tok[f] /\ at[f] # 0
      BY <1>6, <1>10, <2>2, Zenon
    <3>2. /\ at[f] \in 4 .. n /\ at[f] + Len(tok[f]) <= n + 1
          /\ at[f] + Len(tok[f]) \in Stops(n, at)
          /\ Len(tok[f]) \in Nat \ {0} /\ TokensOf(f, tok[f]) /\ Stands(tok[f], at[f])
      BY <3>1, Zenon DEF Layout
    <3>3. TokensOf(f, tok[f])'
      BY <3>2, TokensKept DEF CodecType
    <3>4. Stands(tok[f], at[f])'
      BY <1>5, <3>2
    <3>5. at[f] \in 4 .. n1 /\ at[f] + Len(tok[f]) <= n1 + 1
      BY <1>2, <3>2
    <3> QED
      BY <1>9, <3>1, <3>2, <3>3, <3>4, <3>5, Zenon
  <2> QED
    BY <2>1, <2>2, Zenon
<1>11. ASSUME NEW f \in Entry, NEW g \in Entry, at1[f] # 0, at1[g] # 0, f # g
       PROVE  at1[f] + Len(tok1[f]) <= at1[g] \/ at1[g] + Len(tok1[g]) <= at1[f]
  <2>1. ASSUME NEW h \in Entry, h # e, at1[h] # 0 PROVE at1[h] + Len(tok1[h]) <= n + 1
    BY <1>6, <2>1, Zenon DEF Layout
  <2>2. CASE f = e \/ g = e
    BY <1>7, <1>11, <2>1, <2>2, Zenon
  <2>3. CASE f # e /\ g # e
    BY <1>6, <1>11, <2>3, Zenon DEF Layout
  <2> QED
    BY <2>2, <2>3, Zenon
<1>12. 4 \in Stops(n1, at1) /\ Stands(<<Header, Byte(254), Byte(0)>>, 1)' /\ n1 >= 3
  <2>1. 4 \in Stops(n, at) /\ Stands(<<Header, Byte(254), Byte(0)>>, 1)
    BY Zenon DEF Layout
  <2> DEFINE h == <<Header, Byte(254), Byte(0)>>
  <2>2. Len(h) = 3
    OBVIOUS
  <2> HIDE DEF h
  <2>3. Stands(h, 1)'
    <3>1. 1 \in Nat \ {0} /\ Len(h) \in Nat /\ 1 + Len(h) <= n + 1
      BY <1>1, <2>2
    <3> QED
      BY <1>5, <2>1, <3>1, Zenon DEF h
  <2> QED
    BY <1>1, <1>2, <1>9, <2>1, <2>3 DEF h
<1> HIDE DEF n1
<1>13. Layout(n1, at1, tok1)'
  <2>1. Len(file') <= n1
    BY <1>2
  <2> QED
    BY <1>2, <1>8, <1>10, <1>11, <1>12, <2>1, Zenon DEF Layout
<1> QED
  BY <1>13 DEF n1, at1, tok1

\* A sequence of three tokens, from one of two and one of one.
LEMMA ThreeTokens ==
  ASSUME NEW a \in Tokens, NEW b \in Tokens, NEW c \in Tokens, NEW t, t = <<a, b>> \o <<c>>
  PROVE  t \in Seq(Tokens) /\ Len(t) = 3 /\ t[1] = a /\ t[2] = b /\ t[3] = c
<1>1. ASSUME NEW s \in Seq(Tokens)
      PROVE  /\ s \o <<c>> \in Seq(Tokens) /\ Len(s \o <<c>>) = Len(s) + 1
             /\ \A i \in 1 .. Len(s) : (s \o <<c>>)[i] = s[i]
             /\ (s \o <<c>>)[Len(s) + 1] = c
  OBVIOUS
<1>2. <<a, b>> \in Seq(Tokens) /\ Len(<<a, b>>) = 2 /\ <<a, b>>[1] = a /\ <<a, b>>[2] = b
  OBVIOUS
<1>3. ASSUME NEW s, NEW u, Len(s) = 2, s[1] = a, s[2] = b, Len(u) = Len(s) + 1,
             \A i \in 1 .. Len(s) : u[i] = s[i], u[Len(s) + 1] = c
      PROVE  Len(u) = 3 /\ u[1] = a /\ u[2] = b /\ u[3] = c
  BY <1>3
<1>4. PICK s \in Seq(Tokens) : s = <<a, b>>
  BY <1>2, Zenon
<1>5. s \o <<c>> \in Seq(Tokens) /\ Len(s \o <<c>>) = 3
      /\ (s \o <<c>>)[1] = a /\ (s \o <<c>>)[2] = b /\ (s \o <<c>>)[3] = c
  <2>1. Len(s) = 2 /\ s[1] = a /\ s[2] = b
    BY <1>2, <1>4, Zenon
  <2> QED
    BY <1>1, <1>3, <2>1, Zenon
<1> QED
  BY <1>4, <1>5, Zenon

LEMMA WriterSteps ==
  ASSUME CodecInv,
         WriteHeader \/ (\E k \in Keys : WriteData(k) \/ WriteExpiration(k)) \/ WriteExpirations
  PROVE  CodecInv'
<1>0. CodecType /\ DeadlineKept
  BY DEF CodecInv
<1>1. PICK n \in Nat, at \in [Entry -> Nat], tok \in [Entry -> Seq(Tokens)] :
        Layout(n, at, tok) /\ Reading(n, at)
  BY DEF CodecInv
<1>2. /\ state \in {"header", "data", "expirations"} /\ pos = 1 /\ whole
      /\ UNCHANGED <<maps, pos, db, deadlines, loadedAt, whole, now>>
      /\ state' \notin {"loaded", "failed"}
  BY <1>0, Zenon DEF WriteHeader, WriteData, WriteExpiration, WriteExpirations, CodecType
<1>3. \A n1 \in Nat, at1 \in [Entry -> Nat] : DeadlineKept' /\ Reading(n1, at1)'
  BY <1>0, <1>1, <1>2, WriterKeeps, Zenon
<1>4. ASSUME file' \in Seq(Tokens), state' \in {"data", "expirations"},
             state' = "data" => todo' \subseteq Entries(data)',
             state' = "expirations" => todo' \subseteq Entries(expirations)'
      PROVE  CodecType'
  BY <1>0, <1>2, <1>4, Zenon DEF CodecType, maps
<1>5. CASE WriteHeader
  <2>4. /\ file' \in Seq(Tokens) /\ Len(file') = 3
        /\ file'[1] = Header /\ file'[2] = Byte(254) /\ file'[3] = Byte(0)
    <3>1. Byte(254) \in Tokens /\ Byte(0) \in Tokens /\ Header \in Tokens
      BY DEF Tokens
    <3>2. WriteLength(0) = <<Byte(0)>>
      BY DEF WriteLength
    <3>3. file' = <<Header, Byte(254)>> \o <<Byte(0)>>
      BY <1>5, <3>2, Zenon DEF WriteHeader
    <3> QED
      <4>1. PICK a \in Tokens, b \in Tokens, c \in Tokens :
              a = Header /\ b = Byte(254) /\ c = Byte(0)
        BY <3>1, Zenon
      <4>2. file' = <<a, b>> \o <<c>>
        BY <3>3, <4>1, Zenon
      <4>3. /\ file' \in Seq(Tokens) /\ Len(file') = 3
            /\ file'[1] = a /\ file'[2] = b /\ file'[3] = c
        BY <4>2, ThreeTokens
      <4> QED
        BY <4>1, <4>3
  <2>5. CodecType'
    BY <1>4, <1>5, <2>4, Zenon DEF WriteHeader, Entries, maps
  <2>6. \A e \in Entry : ~IsWritten(e) /\ ~IsWritten(e)'
    BY <1>5, Zenon DEF WriteHeader, IsWritten, Entries, Entry, maps
  <2>7. \A e \in Entry : at[e] = 0
    BY <1>1, <2>6 DEF Layout
  <2>8. Stands(<<Header, Byte(254), Byte(0)>>, 1)'
    <3> DEFINE h == <<Header, Byte(254), Byte(0)>>
    <3>1. Len(h) = 3 /\ h[1] = Header /\ h[2] = Byte(254) /\ h[3] = Byte(0)
      OBVIOUS
    <3> HIDE DEF h
    <3>2. \A i \in 1 .. Len(h) : file'[1 + i - 1] = h[i]
      BY <2>4, <3>1
    <3> QED
      BY <3>2 DEF Stands, h
  <2>9. Layout(3, at, tok)'
    <3>1. 4 \in Stops(3, at)
      BY DEF Stops
    <3> QED
      BY <2>4, <2>6, <2>7, <2>8, <3>1 DEF Layout
  <2> QED
    BY <1>3, <2>5, <2>9, Zenon DEF CodecInv
<1>6. ASSUME NEW e \in Entry, NEW s \in Seq(Tokens), Len(s) \in Nat \ {0}, file' = file \o s,
             TokensOf(e, s), ~IsWritten(e), IsWritten(e)',
             \A f \in Entry : f # e => (IsWritten(f)' <=> IsWritten(f)),
             state # "header", state' = state, CodecType'
      PROVE  CodecInv'
  <2>1. at[e] = 0
    BY <1>1, <1>6 DEF Layout
  <2> DEFINE n1 == n + Len(s)
             at1 == [at EXCEPT ![e] = n + 1]
             tok1 == [tok EXCEPT ![e] = s]
  <2>2. Layout(n1, at1, tok1)'
    BY <1>0, <1>1, <1>2, <1>6, <2>1, EntryAppended, Zenon
  <2>3. n1 \in Nat /\ at1 \in [Entry -> Nat] /\ tok1 \in [Entry -> Seq(Tokens)]
    BY <1>6
  <2> HIDE DEF n1, at1, tok1
  <2> QED
    BY <1>3, <1>6, <2>2, <2>3, Zenon DEF CodecInv
<1>7. ASSUME NEW k \in Keys, WriteData(k) PROVE CodecInv'
  <2> DEFINE e == <<"data", k>>
             s == WriteObject(k, data[k])
  <2>1. /\ state = "data" /\ k \in todo /\ file' = file \o s /\ todo' = todo \ {k}
        /\ state' = state /\ UNCHANGED maps
    BY <1>7 DEF WriteData
  <2>2. data[k] \in Objects /\ data[k] # None /\ file \in Seq(Tokens) /\ todo \subseteq Entries(data)
    BY <1>0, <2>1 DEF CodecType, Entries
  <2>3. s \in Seq(Tokens) /\ Len(s) \in Nat \ {0}
    BY <2>2, ObjectTokens
  <2>4. e \in Entry /\ e[1] = "data" /\ e[2] = k
    BY DEF Entry
  <2>5. TokensOf(e, s)
    BY <2>2, <2>4 DEF TokensOf
  <2>6. ~IsWritten(e) /\ IsWritten(e)'
    BY <2>1, <2>2, <2>4 DEF IsWritten, maps
  <2>7. \A f \in Entry : f # e => (IsWritten(f)' <=> IsWritten(f))
    <3>1. \A f \in Entry : f[1] = "data" /\ f # e => f[2] # k
      BY DEF Entry
    <3> QED
      BY <2>1, <3>1, Zenon DEF IsWritten, maps
  <2>8. CodecType'
    <3>1. file' \in Seq(Tokens)
      BY <2>1, <2>2, <2>3, Concatenated
    <3>2. todo' \subseteq Entries(data)'
      BY <2>1, <2>2 DEF Entries, maps
    <3> QED
      BY <1>4, <2>1, <3>1, <3>2
  <2> HIDE DEF e, s
  <2> QED
    BY <1>6, <2>1, <2>3, <2>4, <2>5, <2>6, <2>7, <2>8, Zenon
<1>8. ASSUME NEW k \in Keys, WriteExpiration(k) PROVE CodecInv'
  <2> DEFINE e == <<"exp", k>>
             s == WriteExpiry(k, now)
  <2>1. /\ state = "expirations" /\ k \in todo /\ file' = file \o s /\ todo' = todo \ {k}
        /\ state' = state /\ UNCHANGED maps
    BY <1>8 DEF WriteExpiration
  <2>2. /\ expirations[k] \in Nat /\ expirations[k] # None /\ file \in Seq(Tokens) /\ now \in Nat
        /\ todo \subseteq Entries(expirations)
    BY <1>0, <2>1, CodecAssumption, Zenon DEF CodecType, Entries
  <2>3. s \in Seq(Tokens) /\ Len(s) \in Nat \ {0}
    BY <2>2, ExpiryTokens, Zenon
  <2>4. e \in Entry /\ e[1] = "exp" /\ e[2] = k
    BY DEF Entry
  <2>5. TokensOf(e, s)
    BY <2>2, <2>4 DEF TokensOf
  <2>6. ~IsWritten(e) /\ IsWritten(e)'
    BY <2>1, <2>2, <2>4 DEF IsWritten, maps
  <2>7. \A f \in Entry : f # e => (IsWritten(f)' <=> IsWritten(f))
    <3>1. \A f \in Entry : f[1] # "data" /\ f # e => f[2] # k
      BY DEF Entry
    <3> QED
      BY <2>1, <3>1 DEF IsWritten, maps
  <2>8. CodecType'
    <3>1. file' \in Seq(Tokens)
      BY <2>1, <2>2, <2>3, Concatenated
    <3>2. todo' \subseteq Entries(expirations)'
      BY <2>1, <2>2 DEF Entries, maps
    <3> QED
      BY <1>4, <2>1, <3>1, <3>2
  <2> HIDE DEF e, s
  <2> QED
    BY <1>6, <2>1, <2>3, <2>4, <2>5, <2>6, <2>7, <2>8, Zenon
<1>9. CASE WriteExpirations
  <2>1. /\ state = "data" /\ todo = {} /\ todo' = Entries(expirations) /\ state' = "expirations"
        /\ UNCHANGED <<maps, file>>
    BY <1>9 DEF WriteExpirations
  <2>2. CodecType'
    BY <1>0, <1>4, <2>1, Zenon DEF CodecType, Entries, maps
  <2>3. \A e \in Entry : IsWritten(e)' <=> IsWritten(e)
    BY <2>1 DEF IsWritten, Entries, Entry, maps
  <2>4. \A s : \A e \in Entry : TokensOf(e, s) => TokensOf(e, s)'
    BY <1>0, <1>2, <2>1, TokensKept DEF CodecType
  <2>5. \A s, p : Stands(s, p) => Stands(s, p)'
    BY <2>1 DEF Stands
  <2>6. Layout(n, at, tok)'
    BY <1>1, <1>2, <2>1, <2>3, <2>4, <2>5 DEF Layout
  <2> QED
    BY <1>1, <1>3, <2>2, <2>6 DEF CodecInv
<1> QED
  BY <1>5, <1>7, <1>8, <1>9

\* Handing the file to the reader, cut or not, and waiting change nothing that is
\* written.
LEMMA QuietSteps ==
  ASSUME CodecInv, Open \/ Tick \/ UNCHANGED vars
  PROVE  CodecInv'
<1>0. CodecType /\ DeadlineKept
  BY DEF CodecInv
<1>1. PICK n \in Nat, at \in [Entry -> Nat], tok \in [Entry -> Seq(Tokens)] :
        Layout(n, at, tok) /\ Reading(n, at)
  BY DEF CodecInv
<1>2. CASE Open
  <2>1. /\ state = "expirations" /\ todo = {} /\ state' = "read"
        /\ UNCHANGED <<maps, todo, pos, db, deadlines, loadedAt, now>>
    BY <1>2 DEF Open
  <2>2. PICK m \in 0 .. Len(file) : file' = SubSeq(file, 1, m) /\ whole' = (m = Len(file))
    BY <1>2, Zenon DEF Open
  <2>3. pos = 1 /\ whole /\ file \in Seq(Tokens) /\ Len(file) \in Nat /\ now \in Nat
    BY <1>0, <2>1 DEF CodecType
  <2>4. file' \in Seq(Tokens) /\ Len(file') = m /\ \A i \in 1 .. m : file'[i] = file[i]
    BY <2>2, <2>3
  <2>5. CodecType'
    BY <1>0, <2>1, <2>2, <2>4 DEF CodecType, maps
  <2>6. DeadlineKept' /\ Reading(n, at)'
    BY <1>0, <1>1, <2>1, <2>3, WriterKeeps
  <2>7. ASSUME NEW s \in Seq(Tokens), NEW p \in Nat \ {0}, Stands(s, p) PROVE Stands(s, p)'
    <3> SUFFICES ASSUME NEW i \in 1 .. Len(s), p + i - 1 <= m PROVE file'[p + i - 1] = s[i]
      BY <2>4 DEF Stands
    <3>1. p + i - 1 \in 1 .. m /\ p + i - 1 <= Len(file)
      BY <2>3
    <3> QED
      BY <2>4, <2>7, <3>1 DEF Stands
  <2>8. \A e \in Entry : IsWritten(e)' <=> IsWritten(e)
    BY <2>1 DEF IsWritten, maps
  <2>9. \A s : \A e \in Entry : TokensOf(e, s) => TokensOf(e, s)'
    BY <2>1, <2>3, TokensKept
  <2>10. Stands(<<Header, Byte(254), Byte(0)>>, 1)'
    <3>1. <<Header, Byte(254), Byte(0)>> \in Seq(Tokens)
      BY DEF Tokens
    <3>2. Stands(<<Header, Byte(254), Byte(0)>>, 1)
      BY <1>1, <2>1 DEF Layout
    <3> DEFINE h == <<Header, Byte(254), Byte(0)>>
    <3>3. h \in Seq(Tokens) /\ Stands(h, 1) /\ 1 \in Nat \ {0}
      BY <3>1, <3>2
    <3> HIDE DEF h
    <3>4. Stands(h, 1)'
      BY <2>7, <3>3
    <3> QED
      BY <3>4 DEF h
  <2>11. \A e \in Entry : at[e] # 0 => Stands(tok[e], at[e])'
    <3>1. \A e \in Entry : at[e] # 0 => Stands(tok[e], at[e]) /\ at[e] \in Nat \ {0}
      BY <1>1 DEF Layout
    <3> QED
      BY <2>7, <3>1
  <2>12. Layout(n, at, tok)'
    <3>1. Len(file') <= n /\ (whole' => Len(file') = n)
      <4>1. Len(file) = n
        BY <1>1, <2>3 DEF Layout
      <4>2. whole' <=> m = Len(file)
        BY <2>2, Zenon
      <4>3. Len(file') = m
        BY <2>4
      <4> QED
        BY <4>1, <4>2, <4>3
    <3> QED
      BY <1>1, <2>1, <2>8, <2>9, <2>10, <2>11, <3>1 DEF Layout
  <2> QED
    BY <1>1, <2>5, <2>6, <2>12 DEF CodecInv
<1>3. CASE Tick \/ UNCHANGED vars
  <2>1. /\ UNCHANGED <<maps, file, todo, pos, db, deadlines, loadedAt, state, whole>>
        /\ now \in Nat /\ now' \in Nat /\ now <= now'
    <3>1. now \in Nat
      BY <1>0, Zenon DEF CodecType
    <3>2. CASE Tick
      BY <3>1, <3>2 DEF Tick
    <3>3. CASE UNCHANGED vars
      BY <3>1, <3>3 DEF vars, maps
    <3> QED
      BY <1>3, <3>2, <3>3
  <2>2. CodecType' /\ DeadlineKept'
    BY <1>0, <2>1 DEF CodecType, DeadlineKept, Entries, maps
  <2>3. Reading(n, at)'
    BY <1>1, <2>1 DEF Reading, Entries, maps
  <2>4. \A e \in Entry : IsWritten(e)' <=> IsWritten(e)
    BY <2>1, Zenon DEF IsWritten, maps
  <2>5. \A s : \A e \in Entry : TokensOf(e, s) => TokensOf(e, s)'
    BY <2>1, TokensKept
  <2>6. \A s, p : Stands(s, p) => Stands(s, p)'
    BY <2>1 DEF Stands
  <2>7. Layout(n, at, tok)'
    BY <1>1, <2>1, <2>4, <2>5, <2>6 DEF Layout
  <2> QED
    BY <1>1, <2>2, <2>3, <2>7 DEF CodecInv
<1> QED
  BY <1>2, <1>3

\* A step of the reader leaves the file as it is.
LEMMA LayoutKept ==
  ASSUME NEW n \in Nat, NEW at \in [Entry -> Nat], NEW tok \in [Entry -> Seq(Tokens)],
         CodecType, Layout(n, at, tok), UNCHANGED <<maps, file, todo, whole, now>>,
         state = "read", state' \in {"read", "loaded", "failed"}
  PROVE  Layout(n, at, tok)'
<1>1. \A e \in Entry : IsWritten(e)' <=> IsWritten(e)
  BY Zenon DEF IsWritten, maps
<1>2. \A s : \A e \in Entry : TokensOf(e, s) => TokensOf(e, s)'
  BY TokensKept DEF CodecType
<1>3. \A s, p : Stands(s, p) => Stands(s, p)'
  BY DEF Stands
<1> QED
  BY <1>1, <1>2, <1>3 DEF Layout

\* The reader stops: it has come to the end, or it fails, which it does in a whole
\* file only for a key that reads like a type.
LEMMA ReaderStops ==
  ASSUME CodecInv, state = "read", UNCHANGED <<maps, file, todo, whole, now>>,
         \/ Stop("loaded") /\ pos > Len(file)
         \/ Stop("failed") /\ (whole => \E k \in Entries(expirations) : Upper[k] # "OTHER")
  PROVE  CodecInv'
<1>0. CodecType /\ DeadlineKept
  BY DEF CodecInv
<1>1. PICK n \in Nat, at \in [Entry -> Nat], tok \in [Entry -> Seq(Tokens)] :
        Layout(n, at, tok) /\ Reading(n, at)
  BY DEF CodecInv
<1>2. state' \in {"loaded", "failed"} /\ UNCHANGED <<pos, db, deadlines, loadedAt>>
  BY DEF Stop
<1>3. CodecType' /\ DeadlineKept'
  BY <1>0, <1>2, Zenon DEF CodecType, DeadlineKept, maps
<1>4. Layout(n, at, tok)'
  BY <1>0, <1>1, <1>2, LayoutKept
<1>5. Reading(n, at)'
  <2>1. state' = "loaded" => pos > Len(file)
    BY DEF Stop
  <2>2. state' = "failed" /\ whole => \E k \in Entries(expirations) : Upper[k] # "OTHER"
    BY DEF Stop
  <2> QED
    BY <1>1, <1>2, <2>1, <2>2 DEF Reading, Entries, maps
<1> QED
  BY <1>1, <1>3, <1>4, <1>5 DEF CodecInv

\* The entries before the end of entry e are those before its start, and e.
LEMMA OneMore ==
  ASSUME NEW n \in Nat, NEW at \in [Entry -> Nat], NEW tok \in [Entry -> Seq(Tokens)],
         Layout(n, at, tok), NEW e \in Entry, at[e] # 0, NEW f \in Entry
  PROVE  at[f] \in 1 .. at[e] + Len(tok[e]) - 1 <=> at[f] \in 1 .. at[e] - 1 \/ f = e
<1>1. at[e] \in Nat /\ at[f] \in Nat /\ Len(tok[e]) \in Nat \ {0}
  BY DEF Layout
<1>2. CASE f = e
  BY <1>1, <1>2
<1>3. CASE f # e /\ at[f] # 0
  <2>1. Len(tok[f]) \in Nat \ {0}
    BY <1>3 DEF Layout
  <2>2. at[e] + Len(tok[e]) <= at[f] \/ at[f] + Len(tok[f]) <= at[e]
    BY <1>3 DEF Layout
  <2> QED
    BY <1>1, <1>3, <2>1, <2>2
<1>4. CASE f # e /\ at[f] = 0
  BY <1>1, <1>4
<1> QED
  BY <1>2, <1>3, <1>4

\* A data entry is taken, or it is cut off.
LEMMA DataStep ==
  ASSUME NEW n \in Nat, NEW at \in [Entry -> Nat], NEW tok \in [Entry -> Seq(Tokens)],
         CodecInv, Layout(n, at, tok), Reading(n, at), state = "read",
         NEW k \in Keys, at[<<"data", k>>] = pos, DataTaken(k, data[k])
  PROVE  CodecInv'
<1> DEFINE e == <<"data", k>>
           end == pos + Len(WriteObject(k, data[k]))
<1>0. CodecType /\ DeadlineKept /\ pos \in Nat \ {0}
  BY DEF CodecInv, CodecType
<1>1. e \in Entry /\ at[e] = pos /\ at[e] # 0 /\ e[1] = "data" /\ e[2] = k
  BY <1>0 DEF Entry
<1>2. /\ tok[e] = WriteObject(k, data[k]) /\ data[k] \in Objects
      /\ end \in Stops(n, at) /\ end <= n + 1 /\ Len(tok[e]) \in Nat \ {0}
  BY <1>1 DEF Layout, TokensOf
<1>3. UNCHANGED <<maps, file, todo, whole, now>>
  BY DEF DataTaken
<1>4. CASE end <= Len(file) + 1
  <2>1. /\ pos' = end /\ state' = "read" /\ UNCHANGED <<deadlines, loadedAt>>
        /\ db' = IF data[k] = List(<<>>) THEN db ELSE [db EXCEPT ![k] = data[k]]
    BY <1>4 DEF DataTaken
  <2>2. CodecType' /\ DeadlineKept'
    <3>1. end \in Nat \ {0}
      BY <1>0, <1>2
    <3>2. db' \in [Keys -> Objects \cup {None}]
      BY <1>0, <1>2, <2>1 DEF CodecType
    <3> QED
      BY <1>0, <1>3, <2>1, <3>1, <3>2 DEF CodecType, DeadlineKept, maps
  <2>3. Layout(n, at, tok)'
    BY <1>0, <1>3, <2>1, LayoutKept, Zenon
  <2>4. \A f \in Entry : at[f] \in 1 .. pos' - 1 <=> at[f] \in 1 .. pos - 1 \/ f = e
    <3> HIDE DEF e
    <3>1. \A f \in Entry : at[f] \in 1 .. at[e] + Len(tok[e]) - 1 <=> at[f] \in 1 .. at[e] - 1 \/ f = e
      BY <1>1, OneMore, Zenon
    <3>2. pos' = at[e] + Len(tok[e])
      BY <1>1, <1>2, <2>1
    <3> QED
      BY <1>1, <3>1, <3>2
  <2>5. \A j \in Keys : <<"data", j>> \in Entry /\ <<"exp", j>> \in Entry /\ <<"exp", j>> # e
    BY DEF Entry
  <2>6. ASSUME NEW j \in Keys
        PROVE  db'[j] = IF at[<<"data", j>>] \in 1 .. pos' - 1 /\ data[j] # List(<<>>)
                        THEN data[j] ELSE None
    <3>1. CASE j = k
      <4>1. at[e] \in 1 .. pos' - 1 /\ at[e] \notin 1 .. pos - 1
        BY <1>0, <1>1, <2>4
      <4>2. db[k] = None
        BY <4>1, Zenon DEF Reading
      <4>3. db'[k] = IF data[k] = List(<<>>) THEN db[k] ELSE data[k]
        BY <1>0, <2>1, Zenon DEF CodecType
      <4> QED
        BY <3>1, <4>1, <4>2, <4>3, Zenon
    <3>2. CASE j # k
      <4>1. at[<<"data", j>>] \in 1 .. pos' - 1 <=> at[<<"data", j>>] \in 1 .. pos - 1
        BY <2>4, <2>5, <3>2, Zenon
      <4>2. db'[j] = db[j]
        BY <1>0, <2>1, <3>2, Zenon DEF CodecType
      <4> QED
        BY <4>1, <4>2, Zenon DEF Reading
    <3> QED
      BY <3>1, <3>2, Zenon
  <2>7. Reading(n, at)'
    <3>1. \A j \in Keys : at[<<"exp", j>>] \in 1 .. pos' - 1 <=> at[<<"exp", j>>] \in 1 .. pos - 1
      BY <2>4, <2>5, Zenon
    <3> QED
      BY <1>2, <1>3, <2>1, <2>6, <3>1, Zenon DEF Reading, maps
  <2> QED
    BY <2>2, <2>3, <2>7 DEF CodecInv
<1>5. CASE ~(end <= Len(file) + 1)
  <2>1. Stop("failed")
    BY <1>5, Zenon DEF DataTaken
  <2>2. ~whole
    BY <1>2, <1>5, Zenon DEF Layout
  <2> QED
    BY <1>3, <2>1, <2>2, ReaderStops, Zenon
<1> QED
  BY <1>4, <1>5

\* A deadline is taken, or it is cut off, or its key reads like a type.
LEMMA DeadlineStep ==
  ASSUME NEW n \in Nat, NEW at \in [Entry -> Nat], NEW tok \in [Entry -> Seq(Tokens)],
         CodecInv, Layout(n, at, tok), Reading(n, at), state = "read",
         NEW k \in Keys, at[<<"exp", k>>] = pos, NEW w \in 0 .. now,
         tok[<<"exp", k>>] = WriteExpiry(k, w), expirations[k] \in Nat, DeadlineTaken(k, w)
  PROVE  CodecInv'
<1> DEFINE e == <<"exp", k>>
           end == pos + Len(WriteExpiry(k, w))
           l == FromMillis(ToMillis(expirations[k], w), now)
<1>0. CodecType /\ DeadlineKept /\ pos \in Nat \ {0} /\ now \in Nat
  BY Zenon DEF CodecInv, CodecType
<1>1. e \in Entry /\ at[e] = pos /\ at[e] # 0
  BY <1>0 DEF Entry
<1>2. end \in Stops(n, at) /\ end <= n + 1 /\ Len(tok[e]) \in Nat \ {0}
  BY <1>1, Zenon DEF Layout
<1>3. UNCHANGED <<maps, file, todo, whole, now>>
  BY Zenon DEF DeadlineTaken
<1>4. CASE Upper[k] = "OTHER" /\ end <= Len(file) + 1
  <2>1. /\ pos' = end /\ state' = "read" /\ db' = db
        /\ deadlines' = [deadlines EXCEPT ![k] = l]
        /\ loadedAt' = [loadedAt EXCEPT ![k] = now]
    BY <1>4, Zenon DEF DeadlineTaken
  <2>2. l \in Int /\ l # None
    <3>0. w \in Nat
      BY <1>0
    <3>1. ToMillis(expirations[k], w) \in Nat
      BY <3>0, MillisNat, Zenon
    <3>2. l \in Int
      <4>1. \A ms, t \in Nat : FromMillis(ms, t) \in Int
        BY CodecAssumption, SMTT(30) DEF FromMillis
      <4> QED
        BY <1>0, <3>1, <4>1, Zenon
    <3> HIDE DEF l
    <3> QED
      BY <3>2, CodecAssumption, Zenon
  <2>3. Millis(expirations[k]) < MillisRange =>
          \/ l = now /\ expirations[k] - PerMs < now
          \/ l <= expirations[k] /\ l > expirations[k] - PerMs
    <3>1. w \in Nat /\ w <= now
      BY <1>0
    <3> QED
      BY <1>0, <3>1, ReloadedDeadline, Zenon
  <2> HIDE DEF l
  <2>4. CodecType'
    <3>1. end \in Nat \ {0}
      BY <1>0, <1>2
    <3>2. /\ deadlines' \in [Keys -> Int \cup {None}] /\ loadedAt' \in [Keys -> Nat \cup {None}]
      BY <1>0, <2>1, <2>2, Zenon DEF CodecType
    <3> QED
      BY <1>0, <1>3, <2>1, <3>1, <3>2, Zenon DEF CodecType, maps
  <2>5. /\ deadlines'[k] = l /\ loadedAt'[k] = now
        /\ \A j \in Keys : j # k => deadlines'[j] = deadlines[j] /\ loadedAt'[j] = loadedAt[j]
    BY <1>0, <2>1 DEF CodecType
  <2>6. DeadlineKept'
    <3> SUFFICES ASSUME NEW j \in Keys, deadlines'[j] # None, Millis(expirations[j]) < MillisRange
                 PROVE  \/ deadlines'[j] = loadedAt'[j] /\ expirations[j] - PerMs < loadedAt'[j]
                        \/ deadlines'[j] <= expirations[j] /\ deadlines'[j] > expirations[j] - PerMs
      BY <1>3, Zenon DEF DeadlineKept, maps
    <3>1. CASE j = k
      BY <2>3, <2>5, <3>1, Zenon
    <3>2. CASE j # k
      BY <1>0, <2>5, <3>2, Zenon DEF DeadlineKept
    <3> QED
      BY <3>1, <3>2
  <2>7. Layout(n, at, tok)'
    BY <1>0, <1>3, <2>1, LayoutKept
  <2>8. \A f \in Entry : at[f] \in 1 .. pos' - 1 <=> at[f] \in 1 .. pos - 1 \/ f = e
    <3> HIDE DEF e
    <3>1. \A f \in Entry : at[f] \in 1 .. at[e] + Len(tok[e]) - 1 <=> at[f] \in 1 .. at[e] - 1 \/ f = e
      BY <1>1, OneMore, Zenon
    <3>2. pos' = at[e] + Len(tok[e])
      BY <1>1, <2>1 DEF e
    <3> QED
      BY <1>1, <3>1, <3>2
  <2>9. \A j \in Keys : <<"data", j>> \in Entry /\ <<"exp", j>> \in Entry /\ <<"data", j>> # e
                         /\ (<<"exp", j>> = e <=> j = k)
    BY DEF Entry
  <2>10. ASSUME NEW j \in Keys
         PROVE  /\ at[<<"data", j>>] \in 1 .. pos' - 1 <=> at[<<"data", j>>] \in 1 .. pos - 1
                /\ deadlines'[j] # None <=> at[<<"exp", j>>] \in 1 .. pos' - 1
                /\ at[<<"exp", j>>] \in 1 .. pos' - 1 => Upper[j] = "OTHER"
    <3>1. CASE j = k
      BY <1>4, <2>2, <2>5, <2>8, <2>9, <3>1, Zenon
    <3>2. CASE j # k
      BY <2>5, <2>8, <2>9, <3>2, Zenon DEF Reading
    <3> QED
      BY <3>1, <3>2, Zenon
  <2>11. Reading(n, at)'
    BY <1>2, <1>3, <2>1, <2>10, Zenon DEF Reading, maps
  <2> QED
    BY <2>4, <2>6, <2>7, <2>11, Zenon DEF CodecInv
<1>5. CASE ~(Upper[k] = "OTHER" /\ end <= Len(file) + 1)
  <2>1. Stop("failed")
    BY <1>5, Zenon DEF DeadlineTaken
  <2>2. whole => \E j \in Entries(expirations) : Upper[j] # "OTHER"
    <3>1. k \in Entries(expirations)
      <4>1. None \notin Int
        BY CodecAssumption, Zenon
      <4>2. expirations[k] \in Int
        OBVIOUS
      <4> QED
        BY <4>1, <4>2, Zenon DEF Entries
    <3>2. whole => end <= Len(file) + 1
      BY <1>2 DEF Layout
    <3> QED
      BY <1>5, <3>1, <3>2, Zenon
  <2> QED
    BY <1>3, <2>1, <2>2, ReaderStops
<1> QED
  BY <1>4, <1>5, Zenon

\* Every entry starts with a text: the name of a type or a key.
LEMMA EntryStarts ==
  ASSUME NEW n \in Nat, NEW at \in [Entry -> Nat], NEW tok \in [Entry -> Seq(Tokens)],
         Layout(n, at, tok), now \in Nat, NEW e \in Entry, at[e] # 0
  PROVE  \E t \in Texts : Stands(WriteString(t), at[e])
<1>1. e[2] \in Keys /\ e[1] \in {"data", "exp"} /\ at[e] \in Nat \ {0} /\ e[2] \in Texts
  BY DEF Entry, Texts
<1>2. TokensOf(e, tok[e]) /\ Stands(tok[e], at[e])
  BY DEF Layout
<1>3. CASE e[1] = "data"
  <2> DEFINE k == e[2]
             obj == data[e[2]]
             p == at[e]
  <2>1. obj \in Objects /\ Stands(WriteObject(k, obj), p) /\ k \in Keys /\ p \in Nat \ {0}
    BY <1>1, <1>2, <1>3 DEF TokensOf
  <2> HIDE DEF k, obj, p
  <2>2. CASE \E v \in Items : obj = Str(v)
    <3>1. PICK v \in Items : obj = Str(v)
      BY <2>2
    <3>2. WriteObject(k, obj) = WriteString("string") \o WriteValue(k, v) /\ v \in Texts /\ k \in Texts
      BY <2>1, <3>1, ObjectTokens
    <3>3. WriteString("string") \in Seq(Tokens) /\ WriteValue(k, v) \in Seq(Tokens) /\ "string" \in Texts
      BY <3>2, StringTokens, ValueTokens, TypeNames
    <3>4. Stands(WriteString("string"), p)
      BY <2>1, <3>2, <3>3, StandsParts
    <3> QED
      BY <3>3, <3>4 DEF p
  <2>3. CASE \E s \in Lists : obj = List(s)
    <3>1. PICK s \in Lists : obj = List(s)
      BY <2>3
    <3>2. /\ WriteObject(k, obj) = (WriteString("list") \o WriteLength(Len(s))) \o WriteItems(k, s)
          /\ WriteItems(k, s) \in Seq(Tokens) /\ Len(s) \in 0 .. Wide - 1
      BY <2>1, <3>1, ObjectTokens, Zenon
    <3>3. /\ WriteString("list") \in Seq(Tokens) /\ WriteLength(Len(s)) \in Seq(Tokens)
          /\ "list" \in Texts
      BY <3>2, StringTokens, LengthTokens, TypeNames, Zenon
    <3>4. WriteString("list") \o WriteLength(Len(s)) \in Seq(Tokens)
      BY <3>3, Concatenated
    <3>5. Stands(WriteString("list") \o WriteLength(Len(s)), p)
      <4>1. \A a, b \in Seq(Tokens) : Stands(a \o b, p) => Stands(a, p)
        BY <2>1, StandsParts
      <4>2. Stands((WriteString("list") \o WriteLength(Len(s))) \o WriteItems(k, s), p)
        BY <2>1, <3>2, Zenon
      <4> QED
        BY <3>2, <3>4, <4>1, <4>2, Zenon
    <3>6. Stands(WriteString("list"), p)
      BY <2>1, <3>3, <3>5, StandsParts
    <3> QED
      BY <3>3, <3>6 DEF p
  <2> QED
    BY <2>1, <2>2, <2>3, ObjectTokens, Zenon
<1>4. CASE e[1] = "exp"
  <2> DEFINE k == e[2]
             p == at[e]
  <2>1. PICK w \in 0 .. now : tok[e] = WriteExpiry(k, w)
    BY <1>2, <1>4 DEF TokensOf
  <2>2. /\ expirations[k] \in Nat /\ Stands(WriteExpiry(k, w), p) /\ k \in Keys /\ p \in Nat \ {0}
        /\ w \in Nat /\ k \in Texts
    BY <1>1, <1>2, <1>4, <2>1 DEF TokensOf
  <2> HIDE DEF k, p
  <2> DEFINE a == Byte(252)
             b == U64(ToMillis(expirations[k], w))
  <2>3. WriteExpiry(k, w) = WriteString(k) \o (<<a>> \o <<b>>) /\ a \in Tokens /\ b \in Tokens
    <3>1. WriteExpiry(k, w) = WriteString(k) \o ExpiryTail(k, w) /\ a \in Tokens /\ b \in Tokens
      BY <2>2, ExpiryTokens, Zenon
    <3> QED
      BY <3>1, Zenon DEF ExpiryTail
  <2>6. WriteString(k) \in Seq(Tokens)
    BY <2>2, StringTokens, Zenon
  <2> HIDE DEF a, b
  <2>4. <<a>> \o <<b>> \in Seq(Tokens)
    BY <2>3
  <2>5. Stands(WriteString(k), p)
    BY <2>2, <2>3, <2>4, <2>6, StandsParts, Zenon
  <2> QED
    BY <2>2, <2>5 DEF k, p
<1> QED
  BY <1>1, <1>3, <1>4

\* Before the end of the file the reader is at the selector or at an entry.
LEMMA Position ==
  ASSUME NEW n \in Nat, NEW at \in [Entry -> Nat], NEW tok \in [Entry -> Seq(Tokens)],
         CodecType, Layout(n, at, tok), Reading(n, at), pos > 1, pos <= Len(file)
  PROVE  pos = 2 \/ \E e \in Entry : at[e] = pos /\ at[e] # 0
<1>1. Len(file) \in Nat /\ Len(file) <= n /\ pos \in Nat
  BY DEF CodecType, Layout
<1>2. pos # n + 1 /\ pos # 1
  BY <1>1
<1> QED
  BY <1>2, Zenon DEF Reading, Stops

\* At the selector, the byte 0xFE and the length 0 follow.
LEMMA AtSelector ==
  ASSUME NEW n \in Nat, NEW at \in [Entry -> Nat], NEW tok \in [Entry -> Seq(Tokens)],
         CodecType, Layout(n, at, tok), state = "read", 2 <= Len(file)
  PROVE  ReadToken("byte", 2) = Got(254, 3) /\ ReadLength(3) = UpTo(0, 4)
<1> DEFINE s == <<Header, Byte(254), Byte(0)>>
<1>1. Stands(s, 1) /\ Len(s) = 3 /\ s[2] = Byte(254) /\ s[3] = Byte(0) /\ Len(file) \in Nat
  <2>1. Stands(s, 1) /\ file \in Seq(Tokens)
    BY Zenon DEF CodecType, Layout
  <2>2. Len(s) = 3 /\ s[2] = Byte(254) /\ s[3] = Byte(0)
    OBVIOUS
  <2> HIDE DEF s
  <2> QED
    BY <2>1, <2>2
<1> HIDE DEF s
<1>2. file[2] = Byte(254)
  BY <1>1 DEF Stands
<1>3. 3 <= Len(file) => file[3] = Byte(0)
  BY <1>1 DEF Stands
<1>4. 0 \in 0 .. Wide - 1 /\ WriteLength(0) = <<Byte(0)>>
  BY CodecAssumption DEF WriteLength
<1>5. Stands(<<Byte(0)>>, 3)
  <2> DEFINE b == Byte(0)
  <2> HIDE DEF b
  <2>1. 3 <= Len(file) => file[3] = b
    BY <1>3 DEF b
  <2>2. Stands(<<b>>, 3)
    BY <1>1, <2>1 DEF Stands
  <2> QED
    BY <2>2 DEF b
<1>6. ASSUME NEW len \in 0 .. Wide - 1, NEW p \in Nat \ {0}, len = 0, p = 3
      PROVE  ReadLength(p) = UpTo(len, p + 1)
  <2>1. Stands(WriteLength(len), p) /\ Len(WriteLength(len)) = 1
    BY <1>4, <1>5, <1>6
  <2>2. ReadLength(p) = UpTo(len, p + Len(WriteLength(len)))
    BY <1>1, <2>1, LengthsAgree, Zenon
  <2> QED
    BY <2>1, <2>2
<1>7. ReadLength(3) = UpTo(0, 3 + 1) /\ 3 + 1 = 4
  BY <1>4, <1>6
<1>8. ReadToken("byte", 2) = Got(254, 3)
  <2>1. file[2].t = "byte" /\ file[2].v = 254
    BY <1>2 DEF Byte
  <2> QED
    BY <2>1 DEF ReadToken
<1> QED
  BY <1>7, <1>8

\* The reader moves over the header and the selector: no entry lies there.
LEMMA ReaderMoves ==
  ASSUME NEW n \in Nat, NEW at \in [Entry -> Nat], NEW tok \in [Entry -> Seq(Tokens)],
         CodecInv, Layout(n, at, tok), Reading(n, at), state = "read",
         \/ pos = 1 /\ pos' = 2
         \/ pos = 2 /\ pos' = 4,
         UNCHANGED <<maps, file, todo, whole, now>>, UNCHANGED <<db, deadlines, loadedAt, state>>
  PROVE  CodecInv'
<1>0. CodecType /\ DeadlineKept
  BY DEF CodecInv
<1>1. CodecType' /\ DeadlineKept'
  <2>1. pos' \in Nat \ {0} /\ state' = "read" /\ todo' = todo
    BY <1>0
  <2>2. CodecType'
    BY <1>0, <2>1 DEF CodecType, maps
  <2>3. DeadlineKept'
    BY <1>0 DEF DeadlineKept, maps
  <2> QED
    BY <2>2, <2>3
<1>2. Layout(n, at, tok)'
  BY <1>0, LayoutKept
<1>3. \A e \in Entry : at[e] \notin 1 .. pos - 1 /\ at[e] \notin 1 .. pos' - 1
  BY DEF Layout
<1>4. pos' \in {1, 2} \cup Stops(n, at)
  BY DEF Layout
<1>5. \A k \in Keys : <<"data", k>> \in Entry /\ <<"exp", k>> \in Entry
  BY DEF Entry
<1>6. Reading(n, at)'
  BY <1>3, <1>4, <1>5, Zenon DEF Reading, maps
<1> QED
  BY <1>1, <1>2, <1>6 DEF CodecInv

\* Each step of the reader: at an entry it takes that entry or fails, and in a
\* whole file it fails only at the deadline of a key that reads like a type.
LEMMA ReaderSteps ==
  ASSUME CodecInv, ReadHeader \/ ReadSelector \/ ReadEntry \/ ReadEnd
  PROVE  CodecInv'
<1>0. CodecType /\ DeadlineKept
  BY DEF CodecInv
<1>1. PICK n \in Nat, at \in [Entry -> Nat], tok \in [Entry -> Seq(Tokens)] :
        Layout(n, at, tok) /\ Reading(n, at)
  BY DEF CodecInv
<1>2. /\ state = "read" /\ UNCHANGED <<maps, file, todo, whole, now>>
      /\ pos \in Nat \ {0} /\ Len(file) \in Nat /\ now \in Nat
  <2>1. state = "read" /\ UNCHANGED <<maps, file, todo, whole, now>>
    BY Zenon DEF ReadHeader, ReadSelector, ReadEntry, ReadEnd
  <2>2. pos \in Nat \ {0} /\ Len(file) \in Nat /\ now \in Nat
    BY <1>0 DEF CodecType
  <2> QED
    BY <2>1, <2>2, Zenon
<1>3. n >= 3 /\ (whole => Len(file) = n)
  BY <1>1, <1>2 DEF Layout
<1>4. CASE ReadHeader
  <2>1. CASE file = <<>>
    <3>1. Stop("failed") /\ ~whole
      <4>1. Len(file) = 0
        BY <2>1
      <4> QED
        BY <1>3, <1>4, <2>1, <4>1 DEF ReadHeader
    <3> QED
      BY <1>2, <3>1, ReaderStops
  <2>2. CASE file # <<>>
    <3>1. pos = 1 /\ pos' = 2 /\ UNCHANGED <<db, deadlines, loadedAt, state>>
      BY <1>4, <2>2 DEF ReadHeader
    <3> QED
      BY <1>1, <1>2, <3>1, ReaderMoves
  <2> QED
    BY <2>1, <2>2
<1>5. CASE ReadEnd
  <2>1. Stop("loaded") /\ pos > Len(file)
    BY <1>5 DEF ReadEnd
  <2> QED
    BY <1>2, <2>1, ReaderStops
<1>6. ASSUME ReadSelector \/ ReadEntry
      PROVE  pos > 1 /\ pos <= Len(file) /\ ReadToken("byte", pos).ok
  <2>1. pos > 1 /\ ReadToken("byte", pos).ok
    BY <1>6, Zenon DEF ReadSelector, ReadEntry
  <2> QED
    BY <2>1 DEF ReadToken, Fail
<1>7. ASSUME NEW e \in Entry, at[e] = pos, at[e] # 0, pos <= Len(file)
      PROVE  ReadToken("byte", pos).v # 254
  <2>1. PICK t \in Texts : Stands(WriteString(t), pos)
    BY <1>1, <1>2, <1>7, EntryStarts, Zenon
  <2>2. ReadToken("byte", pos) = UpTo(FirstByte(Size[t]), pos + 1)
    BY <1>2, <2>1, StringsAgree
  <2>3. ReadToken("byte", pos).v = FirstByte(Size[t])
    BY <1>2, <1>7, <2>2 DEF UpTo, Got
  <2>4. FirstByte(Size[t]) # 254
    BY StringTokens, LengthTokens DEF FirstByte
  <2> QED
    BY <2>3, <2>4
<1>8. CASE ReadSelector
  <2>1. ReadToken("byte", pos).v = 254
    BY <1>8 DEF ReadSelector
  <2>2. pos = 2 /\ 2 <= Len(file)
    BY <1>0, <1>1, <1>6, <1>7, <1>8, <2>1, Position
  <2>3. ReadToken("byte", pos) = Got(254, 3) /\ ReadLength(3) = UpTo(0, 4)
    BY <1>0, <1>1, <1>2, <2>2, AtSelector
  <2>4. IF UpTo(0, 4).ok THEN pos' = UpTo(0, 4).p /\ UNCHANGED <<db, deadlines, loadedAt, state>>
        ELSE Stop("failed")
    <3>1. Got(254, 3).p = 3
      BY DEF Got
    <3> DEFINE len == ReadLength(ReadToken("byte", pos).p)
    <3>2. len = UpTo(0, 4)
      BY <2>3, <3>1, Zenon
    <3>3. IF len.ok THEN pos' = len.p /\ UNCHANGED <<db, deadlines, loadedAt, state>>
          ELSE Stop("failed")
      BY <1>8, Zenon DEF ReadSelector
    <3> HIDE DEF len
    <3> QED
      BY <3>2, <3>3
  <2>5. CASE 4 <= Len(file) + 1
    <3>1. pos' = 4 /\ UNCHANGED <<db, deadlines, loadedAt, state>>
      BY <2>4, <2>5 DEF UpTo, Got
    <3> QED
      BY <1>1, <1>2, <2>2, <3>1, ReaderMoves
  <2>6. CASE ~(4 <= Len(file) + 1)
    <3>1. Stop("failed")
      BY <2>4, <2>6 DEF UpTo, Fail
    <3>2. ~whole
      BY <1>2, <1>3, <2>6
    <3> QED
      BY <1>2, <3>1, <3>2, ReaderStops
  <2> QED
    BY <2>5, <2>6
<1>9. CASE ReadEntry
  <2>1. pos # 2
    <3>1. ReadToken("byte", pos).v # 254
      BY <1>9, Zenon DEF ReadEntry
    <3> SUFFICES ASSUME pos = 2
                 PROVE  FALSE
      OBVIOUS
    <3>2. ReadToken("byte", pos) = Got(254, 3)
      BY <1>0, <1>1, <1>2, <1>6, <1>9, AtSelector
    <3> QED
      BY <3>1, <3>2 DEF Got
  <2>2. PICK e \in Entry : at[e] = pos /\ at[e] # 0
    BY <1>0, <1>1, <1>6, <1>9, <2>1, Position
  <2>3. TokensOf(e, tok[e]) /\ Stands(tok[e], pos)
    BY <1>1, <2>2 DEF Layout
  <2>4. PICK k \in Keys : e = <<"data", k>> \/ e = <<"exp", k>>
    BY DEF Entry
  <2>5. CASE e = <<"data", k>>
    <3>1. data[k] \in Objects /\ Stands(WriteObject(k, data[k]), pos) /\ at[<<"data", k>>] = pos
      BY <2>2, <2>3, <2>5 DEF TokensOf
    <3>2. DataTaken(k, data[k])
      <4>1. CASE \E v \in Items : data[k] = Str(v)
        BY <1>2, <1>9, <3>1, <4>1, StringEntry
      <4>2. CASE \E s \in Lists : data[k] = List(s)
        BY <1>2, <1>9, <3>1, <4>2, ListEntry
      <4> QED
        BY <3>1, <4>1, <4>2, ObjectTokens
    <3> QED
      BY <1>1, <1>2, <3>1, <3>2, DataStep, Zenon
  <2>6. CASE e = <<"exp", k>>
    <3>1. PICK w \in 0 .. now : tok[e] = WriteExpiry(k, w)
      BY <2>3, <2>6, Zenon DEF TokensOf
    <3>2. /\ expirations[k] \in Nat /\ Stands(WriteExpiry(k, w), pos) /\ at[<<"exp", k>>] = pos
          /\ tok[<<"exp", k>>] = WriteExpiry(k, w)
      BY <2>2, <2>3, <2>6, <3>1 DEF TokensOf
    <3>3. w \in Nat
      BY <1>2
    <3>4. DeadlineTaken(k, w)
      BY <1>2, <1>9, <3>2, <3>3, ExpiryEntry
    <3> QED
      BY <1>1, <1>2, <3>2, <3>4, DeadlineStep, Zenon
  <2> QED
    BY <2>4, <2>5, <2>6
<1> QED
  BY <1>4, <1>5, <1>8, <1>9

\* The file and the reader's place in it, through every run.
THEOREM CodecInvariant == Spec => []CodecInv
<1>1. Init => CodecInv
  BY CodecInit
<1>2. CodecInv /\ [Next]_vars => CodecInv'
  BY WriterSteps, QuietSteps, ReaderSteps DEF Next
<1> QED
  BY <1>1, <1>2, PTL DEF Spec

\* The reader of a whole file that has come to its end has taken every entry.
LEMMA AllTaken ==
  ASSUME NEW n \in Nat, NEW at \in [Entry -> Nat], NEW tok \in [Entry -> Seq(Tokens)],
         CodecType, Layout(n, at, tok), Reading(n, at), whole, state = "loaded", NEW e \in Entry
  PROVE  at[e] \in 1 .. pos - 1 <=>
           IF e[1] = "data" THEN data[e[2]] # None ELSE expirations[e[2]] # None
<1>1. todo = {} /\ pos \in Nat /\ at[e] \in Nat /\ pos > n
  BY DEF CodecType, Layout, Reading
<1>2. at[e] # 0 => at[e] \in 4 .. n
  BY DEF Layout
<1>3. at[e] \in 1 .. pos - 1 <=> at[e] # 0
  BY <1>1, <1>2
<1>4. at[e] # 0 <=> IsWritten(e)
  BY DEF Layout
<1>5. IsWritten(e) <=> IF e[1] = "data" THEN data[e[2]] # None ELSE expirations[e[2]] # None
  BY <1>1, Zenon DEF IsWritten
<1> QED
  BY <1>3, <1>4, <1>5, Zenon

\* RdbParser::parse accepts a whole file of write_db, and refuses it only if a key
\* that reads like a type has a deadline.
THEOREM WrittenFilesLoad == Spec => []WholeFileLoads
<1>1. CodecInv => WholeFileLoads
  <2> SUFFICES ASSUME CodecInv, whole, state = "loaded", NEW k \in Entries(expirations)
               PROVE  Upper[k] = "OTHER"
    BY Zenon DEF CodecInv, Reading, WholeFileLoads
  <2>1. PICK n \in Nat, at \in [Entry -> Nat], tok \in [Entry -> Seq(Tokens)] :
          Layout(n, at, tok) /\ Reading(n, at)
    BY DEF CodecInv
  <2> DEFINE e == <<"exp", k>>
  <2>2. e \in Entry /\ k \in Keys /\ e[1] # "data" /\ e[2] = k /\ expirations[k] # None
    BY DEF Entry, Entries
  <2> HIDE DEF e
  <2>3. at[e] \in 1 .. pos - 1
    BY <2>1, <2>2, AllTaken, Zenon DEF CodecInv
  <2> QED
    BY <2>1, <2>2, <2>3, Zenon DEF Reading, e
<1> QED
  BY <1>1, CodecInvariant, PTL

\* A whole file gives back the values and the lists that are not empty, and a
\* deadline for exactly the keys that had one, in whatever order write_db walks
\* its maps.
THEOREM SnapshotsReturn == Spec => []RoundTrip
<1>1. CodecInv => RoundTrip
  <2> SUFFICES ASSUME CodecInv, whole, state = "loaded"
               PROVE  /\ db = [k \in Keys |-> IF data[k] = List(<<>>) THEN None ELSE data[k]]
                      /\ Entries(deadlines) = Entries(expirations)
    BY DEF RoundTrip
  <2>1. PICK n \in Nat, at \in [Entry -> Nat], tok \in [Entry -> Seq(Tokens)] :
          Layout(n, at, tok) /\ Reading(n, at)
    BY DEF CodecInv
  <2>2. \A k \in Keys : at[<<"data", k>>] \in 1 .. pos - 1 <=> data[k] # None
    <3> TAKE k \in Keys
    <3> DEFINE e == <<"data", k>>
    <3>1. e \in Entry /\ e[1] = "data" /\ e[2] = k
      BY DEF Entry
    <3> HIDE DEF e
    <3>2. at[e] \in 1 .. pos - 1 <=> data[k] # None
      BY <2>1, <3>1, AllTaken, Zenon DEF CodecInv
    <3> QED
      BY <3>2 DEF e
  <2>3. \A k \in Keys : at[<<"exp", k>>] \in 1 .. pos - 1 <=> expirations[k] # None
    <3> TAKE k \in Keys
    <3> DEFINE e == <<"exp", k>>
    <3>1. e \in Entry /\ e[1] # "data" /\ e[2] = k
      BY DEF Entry
    <3> HIDE DEF e
    <3>2. at[e] \in 1 .. pos - 1 <=> expirations[k] # None
      BY <2>1, <3>1, AllTaken, Zenon DEF CodecInv
    <3> QED
      BY <3>2 DEF e
  <2>4. \A k \in Keys : db[k] = IF data[k] = List(<<>>) THEN None ELSE data[k]
    BY <2>1, <2>2, Zenon DEF Reading
  <2>5. \A k \in Keys : deadlines[k] # None <=> expirations[k] # None
    BY <2>1, <2>3, Zenon DEF Reading
  <2> QED
    BY <2>4, <2>5 DEF CodecInv, CodecType, Entries
<1> QED
  BY <1>1, CodecInvariant, PTL

\* What the reader has taken at any moment from a file cut anywhere is a part of
\* the snapshot: no list is shortened and nothing comes under another key.
THEOREM CutFilesGiveParts == Spec => []CutFileLoadsPart
<1>1. CodecInv => CutFileLoadsPart
  <2> SUFFICES ASSUME CodecInv, NEW k \in Keys
               PROVE  /\ db[k] # None => db[k] = data[k]
                      /\ deadlines[k] # None => expirations[k] # None
    BY DEF CutFileLoadsPart
  <2>1. PICK n \in Nat, at \in [Entry -> Nat], tok \in [Entry -> Seq(Tokens)] :
          Layout(n, at, tok) /\ Reading(n, at)
    BY DEF CodecInv
  <2>2. db[k] # None => db[k] = data[k]
    BY <2>1, Zenon DEF Reading
  <2>3. deadlines[k] # None => expirations[k] # None
    <3> DEFINE e == <<"exp", k>>
    <3>1. e \in Entry /\ e[1] # "data" /\ e[2] = k
      BY DEF Entry
    <3>2. deadlines[k] # None => at[e] \in 1 .. pos - 1
      BY <2>1, Zenon DEF Reading
    <3> HIDE DEF e
    <3>3. at[e] \in 1 .. pos - 1 => IsWritten(e)
      <4>1. at[e] # 0 => IsWritten(e)
        BY <2>1, <3>1 DEF Layout
      <4>2. pos \in Nat
        BY DEF CodecInv, CodecType
      <4> QED
        BY <4>1, <4>2
    <3> QED
      BY <3>1, <3>2, <3>3 DEF IsWritten
  <2> QED
    BY <2>2, <2>3
<1> QED
  BY <1>1, CodecInvariant, PTL

\* Saving and reloading never makes a key live longer and costs it less than a
\* millisecond, as long as the time passes only forwards.
THEOREM DeadlinesSurvive == Spec => []DeadlineKept
<1>1. CodecInv => DeadlineKept
  BY DEF CodecInv
<1> QED
  BY <1>1, CodecInvariant, PTL
=============================================================================
