----------------------------- MODULE RespProofs -----------------------------
(***************************************************************************)
(* Proofs about parse and write_to, for any texts and values: what parse   *)
(* makes of a buffer, and what does not depend on the bytes behind it; and *)
(* that it makes of what write_to wrote the value that was written.        *)
(***************************************************************************)
EXTENDS RespTypes, FiniteSetTheorems, SequenceTheorems, WellFoundedInduction, TLAPS

\* Induction up to n, stated with the set of the numbers that have the property.
LEMMA Induction ==
  ASSUME NEW n \in Nat, NEW S, 0 \in S, \A i \in 0 .. n - 1 : i \in S => i + 1 \in S
  PROVE  0 .. n \subseteq S
<1> SUFFICES ASSUME NEW m \in 0 .. n, m \notin S PROVE FALSE
  OBVIOUS
<1> DEFINE T == {0 .. i : i \in {j \in 0 .. n : j \notin S}}
<1>1. T \subseteq FiniteSubsetsOf(Nat)
  <2>1. \A j \in 0..n : 0 .. j \subseteq Nat /\ IsFiniteSet(0 .. j)
    BY FS_Interval
  <2> QED BY <2>1 DEF FiniteSubsetsOf
<1>2. T # {}
  OBVIOUS
<1>3. PICK x \in T : \A y \in T : ~(<<y, x>> \in StrictSubsetOrdering(Nat))
  <2>1. IsWellFoundedOn(StrictSubsetOrdering(Nat), FiniteSubsetsOf(Nat))
    BY FS_StrictSubsetOrderingWellFounded, Zenon
  <2> QED BY <1>1, <1>2, <2>1, WFMin, Zenon
<1>4. PICK i \in 0 .. n : i \notin S /\ x = 0 .. i
  OBVIOUS
<1>5. i # 0 /\ i - 1 \in 0 .. n - 1 /\ i - 1 \notin S
  BY <1>4
<1>6. 0 .. i - 1 \in T
  BY <1>5
<1>7. <<0 .. i - 1, x>> \in StrictSubsetOrdering(Nat)
  BY <1>4, <1>5 DEF StrictSubsetOrdering
<1> QED BY <1>3, <1>6, <1>7, Zenon

-----------------------------------------------------------------------------
(* The recursive functions of the model, unfolded *)

NextWord(prev, i, line) ==
  IF line[i] \in Whitespace THEN prev
  ELSE IF i = 1 \/ line[i - 1] \in Whitespace THEN Append(prev, <<line[i]>>)
  ELSE [prev EXCEPT ![Len(prev)] = Append(@, line[i])]

WordsUpTo(line) ==
  CHOOSE f : f = [i \in 0 .. Len(line) |->
                    IF i = 0 THEN <<>> ELSE NextWord(f[i - 1], i, line)]

NextElement(prev, b, parse) ==
  IF Is("err", prev) THEN prev
  ELSE IF Is("err", parse[SubSeq(b, prev.n + 1, Len(b))])
  THEN parse[SubSeq(b, prev.n + 1, Len(b))]
  ELSE Ok(Append(prev.ok, parse[SubSeq(b, prev.n + 1, Len(b))].ok),
          prev.n + parse[SubSeq(b, prev.n + 1, Len(b))].n)

ElementsUpTo(b, len, start, parse) ==
  CHOOSE f : f = [i \in 0 .. len |->
                    IF i = 0 THEN Ok(<<>>, start) ELSE NextElement(f[i - 1], b, parse)]

ArrayOf(all) == IF Is("err", all) THEN all ELSE Ok(Array(all.ok), all.n)

ConcatUpTo(s) ==
  CHOOSE f : f = [i \in 0 .. Len(s) |-> IF i = 0 THEN <<>> ELSE f[i - 1] \o s[i]]

\* The values that are nested up to i deep.
Levels(scalars) ==
  CHOOSE f : f = [i \in 0 .. MaxDepth |->
                    IF i = 0 THEN scalars ELSE scalars \cup [array : Vec(f[i - 1])]]

ValueUpTo(b) ==
  CHOOSE f : f = [i \in 0 .. Len(b) |-> IF i = 0 THEN 0 ELSE 10 * f[i - 1] + b[i].digit]

DigitsUpTo(n) ==
  CHOOSE f : f = [i \in 0 .. n |->
                    IF i < 10 THEN <<Digit(i)>> ELSE Append(f[i \div 10], Digit(i % 10))]

LEMMA WordsRecursion ==
  ASSUME NEW line, Len(line) \in Nat
  PROVE  /\ Words(line) = WordsUpTo(line)[Len(line)]
         /\ WordsUpTo(line)[0] = <<>>
         /\ \A i \in 0 .. Len(line) - 1 : WordsUpTo(line)[i + 1] = NextWord(WordsUpTo(line)[i], i + 1, line)
<1> DEFINE first == <<>>
           To(f, m) == f = [j \in 0 .. m |-> IF j = 0 THEN first ELSE NextWord(f[j - 1], j, line)]
           S == {m \in Nat : \E f : To(f, m)}
<1> HIDE DEF first
<1>1. 0 \in S
  <2>1. To([j \in 0 .. 0 |-> first], 0)
    OBVIOUS
  <2> QED
    BY <2>1, Zenon
<1>2. ASSUME NEW m \in 0 .. Len(line) - 1, m \in S PROVE m + 1 \in S
  <2>1. PICK f : To(f, m)
    BY <1>2
  <2> DEFINE g == [j \in 0 .. m + 1 |-> IF j = 0 THEN first ELSE NextWord(f[j - 1], j, line)]
  <2>2. \A j \in 0 .. m : g[j] = f[j]
    <3>1. \A j \in 0 .. m : f[j] = IF j = 0 THEN first ELSE NextWord(f[j - 1], j, line)
      BY <2>1
    <3> QED
      BY <3>1
  <2>3. ASSUME NEW j \in 0 .. m + 1, j # 0 PROVE g[j - 1] = f[j - 1]
    <3>1. j - 1 \in 0 .. m
      BY <2>3
    <3> QED
      BY <2>2, <3>1, Zenon
  <2>4. g = [j \in 0 .. m + 1 |-> IF j = 0 THEN first ELSE NextWord(g[j - 1], j, line)]
    <3> HIDE DEF g
    <3>1. g = [j \in 0 .. m + 1 |-> IF j = 0 THEN first ELSE NextWord(f[j - 1], j, line)]
      BY DEF g
    <3> QED
      BY <2>3, <3>1, Zenon
  <2>5. To(g, m + 1)
    BY <2>4
  <2> QED
    <3> HIDE DEF To, g
    <3> QED BY <2>5
<1>3. \E f : To(f, Len(line))
  <2> HIDE DEF To
  <2>1. 0 .. Len(line) \subseteq S
    <3> HIDE DEF S
    <3> QED
      BY <1>1, <1>2, Induction, Zenon
  <2> QED
    BY <2>1
<1>4. To(WordsUpTo(line), Len(line))
  BY <1>3, Zenon DEF WordsUpTo, first
<1>5. Words(line) = WordsUpTo(line)[Len(line)]
  BY DEF Words, WordsUpTo, NextWord
<1> DEFINE R == WordsUpTo(line)
<1>6. \A j \in 0 .. Len(line) : R[j] = IF j = 0 THEN first ELSE NextWord(R[j - 1], j, line)
  BY <1>4
<1> HIDE DEF R
<1>7. ASSUME NEW i \in 0 .. Len(line) - 1 PROVE R[i + 1] = NextWord(R[i], i + 1, line)
  <2>1. PICK m \in 0 .. Len(line) : m = i + 1 /\ m # 0 /\ m - 1 = i
    OBVIOUS
  <2>2. R[m] = NextWord(R[m - 1], m, line)
    BY <1>6, <2>1, Zenon
  <2> QED
    BY <2>1, <2>2
<1>8. R[0] = first
  BY <1>6
<1> QED
  BY <1>5, <1>7, <1>8, Zenon DEF R, first

\* The elements of an array, one by one.
LEMMA ElementsRecursion ==
  ASSUME NEW b, NEW len \in Nat, NEW start, NEW parse
  PROVE  /\ ParseArray(b, len, start, parse) = ArrayOf(ElementsUpTo(b, len, start, parse)[len])
         /\ ElementsUpTo(b, len, start, parse)[0] = Ok(<<>>, start)
         /\ \A i \in 0 .. len - 1 : ElementsUpTo(b, len, start, parse)[i + 1] = NextElement(ElementsUpTo(b, len, start, parse)[i], b, parse)
<1> DEFINE first == Ok(<<>>, start)
           To(f, m) == f = [j \in 0 .. m |-> IF j = 0 THEN first ELSE NextElement(f[j - 1], b, parse)]
           S == {m \in Nat : \E f : To(f, m)}
<1> HIDE DEF first
<1>1. 0 \in S
  <2>1. To([j \in 0 .. 0 |-> first], 0)
    OBVIOUS
  <2> QED
    BY <2>1, Zenon
<1>2. ASSUME NEW m \in 0 .. len - 1, m \in S PROVE m + 1 \in S
  <2>1. PICK f : To(f, m)
    BY <1>2
  <2> DEFINE g == [j \in 0 .. m + 1 |-> IF j = 0 THEN first ELSE NextElement(f[j - 1], b, parse)]
  <2>2. \A j \in 0 .. m : g[j] = f[j]
    <3>1. \A j \in 0 .. m : f[j] = IF j = 0 THEN first ELSE NextElement(f[j - 1], b, parse)
      BY <2>1
    <3> QED
      BY <3>1
  <2>3. ASSUME NEW j \in 0 .. m + 1, j # 0 PROVE g[j - 1] = f[j - 1]
    <3>1. j - 1 \in 0 .. m
      BY <2>3
    <3> QED
      BY <2>2, <3>1, Zenon
  <2>4. g = [j \in 0 .. m + 1 |-> IF j = 0 THEN first ELSE NextElement(g[j - 1], b, parse)]
    <3> HIDE DEF g
    <3>1. g = [j \in 0 .. m + 1 |-> IF j = 0 THEN first ELSE NextElement(f[j - 1], b, parse)]
      BY DEF g
    <3> QED
      BY <2>3, <3>1, Zenon
  <2>5. To(g, m + 1)
    BY <2>4, Zenon
  <2> QED
    <3> HIDE DEF To, g
    <3> QED BY <2>5
<1>3. \E f : To(f, len)
  <2> HIDE DEF To
  <2>1. 0 .. len \subseteq S
    <3> HIDE DEF S
    <3> QED
      BY <1>1, <1>2, Induction
  <2> QED
    BY <2>1
<1>4. To(ElementsUpTo(b, len, start, parse), len)
  BY <1>3, Zenon DEF ElementsUpTo, first
<1>5. ParseArray(b, len, start, parse) = ArrayOf(ElementsUpTo(b, len, start, parse)[len])
  BY DEF ParseArray, ElementsUpTo, NextElement, ArrayOf
<1> DEFINE R == ElementsUpTo(b, len, start, parse)
<1>6. \A j \in 0 .. len : R[j] = IF j = 0 THEN first ELSE NextElement(R[j - 1], b, parse)
  BY <1>4
<1> HIDE DEF R
<1>7. ASSUME NEW i \in 0 .. len - 1 PROVE R[i + 1] = NextElement(R[i], b, parse)
  <2>1. PICK m \in 0 .. len : m = i + 1 /\ m # 0 /\ m - 1 = i
    OBVIOUS
  <2>2. R[m] = NextElement(R[m - 1], b, parse)
    BY <1>6, <2>1, Zenon
  <2> QED
    BY <2>1, <2>2
<1>8. R[0] = first
  BY <1>6
<1> QED
  BY <1>5, <1>7, <1>8, Zenon DEF R, first

\* The values of a push, one by one.
LEMMA ConcatRecursion ==
  ASSUME NEW s, Len(s) \in Nat
  PROVE  /\ Concat(s) = ConcatUpTo(s)[Len(s)]
         /\ ConcatUpTo(s)[0] = <<>>
         /\ \A i \in 0 .. Len(s) - 1 :
              ConcatUpTo(s)[i + 1] = ConcatUpTo(s)[i] \o s[i + 1]
<1> DEFINE first == <<>>
           To(f, m) == f = [j \in 0 .. m |-> IF j = 0 THEN first ELSE f[j - 1] \o s[j]]
           S == {m \in Nat : \E f : To(f, m)}
<1> HIDE DEF first
<1>1. 0 \in S
  <2>1. To([j \in 0 .. 0 |-> first], 0)
    OBVIOUS
  <2> QED
    BY <2>1, Zenon
<1>2. ASSUME NEW m \in 0 .. Len(s) - 1, m \in S PROVE m + 1 \in S
  <2>1. PICK f : To(f, m)
    BY <1>2, Zenon
  <2> DEFINE g == [j \in 0 .. m + 1 |-> IF j = 0 THEN first ELSE f[j - 1] \o s[j]]
  <2>2. \A j \in 0 .. m : g[j] = f[j]
    <3>1. \A j \in 0 .. m : f[j] = IF j = 0 THEN first ELSE f[j - 1] \o s[j]
      BY <2>1, Zenon
    <3> QED
      BY <3>1
  <2>3. ASSUME NEW j \in 0 .. m + 1, j # 0 PROVE g[j - 1] = f[j - 1]
    <3>1. j - 1 \in 0 .. m
      BY <2>3
    <3> QED
      BY <2>2, <3>1, Zenon
  <2>4. g = [j \in 0 .. m + 1 |-> IF j = 0 THEN first ELSE g[j - 1] \o s[j]]
    <3> HIDE DEF g
    <3>1. g = [j \in 0 .. m + 1 |-> IF j = 0 THEN first ELSE f[j - 1] \o s[j]]
      BY DEF g
    <3> QED
      BY <2>3, <3>1, Zenon
  <2>5. To(g, m + 1)
    BY <2>4, Zenon
  <2> QED
    <3> HIDE DEF To, g
    <3> QED BY <2>5
<1>3. \E f : To(f, Len(s))
  <2> HIDE DEF To
  <2>1. 0 .. Len(s) \subseteq S
    <3> HIDE DEF S
    <3> QED
      BY <1>1, <1>2, Induction, Zenon
  <2> QED
    BY <2>1
<1>4. To(ConcatUpTo(s), Len(s))
  BY <1>3, Zenon DEF ConcatUpTo, first
<1>5. Concat(s) = ConcatUpTo(s)[Len(s)]
  BY DEF Concat, ConcatUpTo
<1> DEFINE R == ConcatUpTo(s)
<1>6. \A j \in 0 .. Len(s) : R[j] = IF j = 0 THEN first ELSE R[j - 1] \o s[j]
  BY <1>4, Zenon
<1> HIDE DEF R
<1>7. ASSUME NEW i \in 0 .. Len(s) - 1 PROVE R[i + 1] = R[i] \o s[i + 1]
  <2>1. PICK m \in 0 .. Len(s) : m = i + 1 /\ m # 0 /\ m - 1 = i
    OBVIOUS
  <2>2. R[m] = R[m - 1] \o s[m]
    BY <1>6, <2>1, Zenon
  <2> QED
    BY <2>1, <2>2, Zenon
<1>8. R[0] = first
  BY <1>6
<1> QED
  BY <1>5, <1>7, <1>8, Zenon DEF R, first

LEMMA LevelsRecursion ==
  ASSUME NEW scalars
  PROVE  /\ ValuesOf(scalars) = Levels(scalars)[MaxDepth]
         /\ Levels(scalars)[0] = scalars
         /\ \A i \in 0 .. MaxDepth - 1 :
              Levels(scalars)[i + 1] = scalars \cup [array : Vec(Levels(scalars)[i])]
<1> DEFINE first == scalars
           To(f, m) == f = [j \in 0 .. m |-> IF j = 0 THEN first ELSE scalars \cup [array : Vec(f[j - 1])]]
           S == {m \in Nat : \E f : To(f, m)}
<1> HIDE DEF first
<1>1. 0 \in S
  <2>1. To([j \in 0 .. 0 |-> first], 0)
    OBVIOUS
  <2> QED
    BY <2>1, Zenon
<1>2. ASSUME NEW m \in 0 .. MaxDepth - 1, m \in S PROVE m + 1 \in S
  <2>1. PICK f : To(f, m)
    BY <1>2, Zenon
  <2> DEFINE g == [j \in 0 .. m + 1 |-> IF j = 0 THEN first ELSE scalars \cup [array : Vec(f[j - 1])]]
  <2>2. \A j \in 0 .. m : g[j] = f[j]
    <3>1. \A j \in 0 .. m : f[j] = IF j = 0 THEN first ELSE scalars \cup [array : Vec(f[j - 1])]
      BY <2>1, Zenon
    <3>2. \A j \in 0 .. m : j \in 0 .. m + 1
      BY DepthAssumption
    <3> QED
      BY <3>1, <3>2, Zenon
  <2>3. ASSUME NEW j \in 0 .. m + 1, j # 0 PROVE g[j - 1] = f[j - 1]
    <3>1. j - 1 \in 0 .. m
      BY <2>3
    <3> QED
      BY <2>2, <3>1, Zenon
  <2>4. g = [j \in 0 .. m + 1 |-> IF j = 0 THEN first ELSE scalars \cup [array : Vec(g[j - 1])]]
    <3> HIDE DEF g
    <3>1. g = [j \in 0 .. m + 1 |-> IF j = 0 THEN first ELSE scalars \cup [array : Vec(f[j - 1])]]
      BY DEF g
    <3> QED
      BY <2>3, <3>1, Zenon
  <2>5. To(g, m + 1)
    BY <2>4, Zenon
  <2> QED
    <3> HIDE DEF To, g
    <3> QED BY <2>5
<1>3. \E f : To(f, MaxDepth)
  <2> HIDE DEF To
  <2>1. 0 .. MaxDepth \subseteq S
    <3> HIDE DEF S
    <3> QED
      BY <1>1, <1>2, Induction, DepthAssumption, Zenon
  <2> QED
    BY <2>1, DepthAssumption
<1>4. To(Levels(scalars), MaxDepth)
  BY <1>3, Zenon DEF Levels, first
<1>5. ValuesOf(scalars) = Levels(scalars)[MaxDepth]
  BY DEF ValuesOf, Levels
<1> DEFINE R == Levels(scalars)
<1>6. \A j \in 0 .. MaxDepth : R[j] = IF j = 0 THEN first ELSE scalars \cup [array : Vec(R[j - 1])]
  BY <1>4, Zenon
<1> HIDE DEF R
<1>7. ASSUME NEW i \in 0 .. MaxDepth - 1 PROVE R[i + 1] = scalars \cup [array : Vec(R[i])]
  <2>1. PICK m \in 0 .. MaxDepth : m = i + 1 /\ m # 0 /\ m - 1 = i
    BY DepthAssumption
  <2>2. R[m] = scalars \cup [array : Vec(R[m - 1])]
    BY <1>6, <2>1, Zenon
  <2> QED
    BY <2>1, <2>2, Zenon
<1>8. R[0] = first
  <2>1. 0 \in 0 .. MaxDepth
    BY DepthAssumption
  <2> QED
    BY <1>6, <2>1, ZenonT(30)
<1> QED
  BY <1>5, <1>7, <1>8, Zenon DEF R, first

LEMMA ValueRecursion ==
  ASSUME NEW b, Len(b) \in Nat
  PROVE  /\ ValueOf(b) = ValueUpTo(b)[Len(b)]
         /\ ValueUpTo(b)[0] = 0
         /\ \A i \in 0 .. Len(b) - 1 :
              ValueUpTo(b)[i + 1] = 10 * ValueUpTo(b)[i] + b[i + 1].digit
<1> DEFINE first == 0
           To(f, m) == f = [j \in 0 .. m |-> IF j = 0 THEN first ELSE 10 * f[j - 1] + b[j].digit]
           S == {m \in Nat : \E f : To(f, m)}
<1> HIDE DEF first
<1>1. 0 \in S
  <2>1. To([j \in 0 .. 0 |-> first], 0)
    OBVIOUS
  <2> QED
    BY <2>1, Zenon
<1>2. ASSUME NEW m \in 0 .. Len(b) - 1, m \in S PROVE m + 1 \in S
  <2>1. PICK f : To(f, m)
    BY <1>2, Zenon
  <2> DEFINE g == [j \in 0 .. m + 1 |-> IF j = 0 THEN first ELSE 10 * f[j - 1] + b[j].digit]
  <2>2. \A j \in 0 .. m : g[j] = f[j]
    <3>1. \A j \in 0 .. m : f[j] = IF j = 0 THEN first ELSE 10 * f[j - 1] + b[j].digit
      BY <2>1, Zenon
    <3> QED
      BY <3>1
  <2>3. ASSUME NEW j \in 0 .. m + 1, j # 0 PROVE g[j - 1] = f[j - 1]
    <3>1. j - 1 \in 0 .. m
      BY <2>3
    <3> QED
      BY <2>2, <3>1, Zenon
  <2>4. g = [j \in 0 .. m + 1 |-> IF j = 0 THEN first ELSE 10 * g[j - 1] + b[j].digit]
    <3> HIDE DEF g
    <3>1. g = [j \in 0 .. m + 1 |-> IF j = 0 THEN first ELSE 10 * f[j - 1] + b[j].digit]
      BY DEF g
    <3> QED
      BY <2>3, <3>1, Zenon
  <2>5. To(g, m + 1)
    BY <2>4, Zenon
  <2> QED
    <3> HIDE DEF To, g
    <3> QED BY <2>5
<1>3. \E f : To(f, Len(b))
  <2> HIDE DEF To
  <2>1. 0 .. Len(b) \subseteq S
    <3> HIDE DEF S
    <3> QED
      BY <1>1, <1>2, Induction, Zenon
  <2> QED
    BY <2>1
<1>4. To(ValueUpTo(b), Len(b))
  BY <1>3, Zenon DEF ValueUpTo, first
<1>5. ValueOf(b) = ValueUpTo(b)[Len(b)]
  BY DEF ValueOf, ValueUpTo
<1> DEFINE R == ValueUpTo(b)
<1>6. \A j \in 0 .. Len(b) : R[j] = IF j = 0 THEN first ELSE 10 * R[j - 1] + b[j].digit
  BY <1>4, Zenon
<1> HIDE DEF R
<1>7. ASSUME NEW i \in 0 .. Len(b) - 1 PROVE R[i + 1] = 10 * R[i] + b[i + 1].digit
  <2>1. PICK m \in 0 .. Len(b) : m = i + 1 /\ m # 0 /\ m - 1 = i
    OBVIOUS
  <2>2. R[m] = 10 * R[m - 1] + b[m].digit
    BY <1>6, <2>1, Zenon
  <2> QED
    BY <2>1, <2>2, Zenon
<1>8. R[0] = first
  BY <1>6
<1> QED
  BY <1>5, <1>7, <1>8, Zenon DEF R, first

LEMMA Division ==
  ASSUME NEW i \in Nat
  PROVE  /\ i % 10 \in 0 .. 9 /\ i = 10 * (i \div 10) + (i % 10)
         /\ ~(i < 10) => i \div 10 \in 0 .. i - 1
OBVIOUS

LEMMA DigitsRecursion ==
  ASSUME NEW n \in Nat
  PROVE  /\ Digits(n) = DigitsUpTo(n)[n]
         /\ \A i \in 0 .. n :
              DigitsUpTo(n)[i] = IF i < 10 THEN <<Digit(i)>>
                                 ELSE Append(DigitsUpTo(n)[i \div 10], Digit(i % 10))
<1> DEFINE To(f, m) == f = [j \in 0 .. m |-> IF j < 10 THEN <<Digit(j)>>
                                             ELSE Append(f[j \div 10], Digit(j % 10))]
           S == {m \in Nat : \E f : To(f, m)}
<1>1. 0 \in S
  <2>1. \A j \in 0 .. 0 : j < 10
    OBVIOUS
  <2>2. To([j \in 0 .. 0 |-> <<Digit(j)>>], 0)
    BY <2>1, Zenon
  <2> QED
    BY <2>2, Zenon
<1>2. ASSUME NEW m \in 0 .. n - 1, m \in S PROVE m + 1 \in S
  <2>1. PICK f : To(f, m)
    BY <1>2, Zenon
  <2> DEFINE g == [j \in 0 .. m + 1 |-> IF j < 10 THEN <<Digit(j)>>
                                        ELSE Append(f[j \div 10], Digit(j % 10))]
  <2>2. \A j \in 0 .. m : g[j] = f[j]
    <3>1. \A j \in 0 .. m : f[j] = IF j < 10 THEN <<Digit(j)>>
                                   ELSE Append(f[j \div 10], Digit(j % 10))
      BY <2>1, Zenon
    <3>2. \A j \in 0 .. m : j \in 0 .. m + 1
      OBVIOUS
    <3> QED
      BY <3>1, <3>2, Zenon
  <2>3. ASSUME NEW j \in 0 .. m + 1, ~(j < 10) PROVE g[j \div 10] = f[j \div 10]
    <3>1. j \in Nat
      OBVIOUS
    <3>2. j \div 10 \in 0 .. j - 1
      BY <2>3, <3>1, Division
    <3> DEFINE d == j \div 10
    <3> HIDE DEF d
    <3>3. d \in 0 .. m
      BY <3>2 DEF d
    <3> QED
      BY <2>2, <3>3, Zenon DEF d
  <2>4. g = [j \in 0 .. m + 1 |-> IF j < 10 THEN <<Digit(j)>>
                                  ELSE Append(g[j \div 10], Digit(j % 10))]
    <3> HIDE DEF g
    <3>1. g = [j \in 0 .. m + 1 |-> IF j < 10 THEN <<Digit(j)>>
                                    ELSE Append(f[j \div 10], Digit(j % 10))]
      BY DEF g
    <3> QED
      BY <2>3, <3>1, Zenon
  <2>5. To(g, m + 1)
    BY <2>4, Zenon
  <2> QED
    <3> HIDE DEF To, g
    <3> QED BY <2>5
<1>3. \E f : To(f, n)
  <2> HIDE DEF To
  <2>1. 0 .. n \subseteq S
    <3> HIDE DEF S
    <3> QED
      BY <1>1, <1>2, Induction, Zenon
  <2> QED
    BY <2>1
<1>4. To(DigitsUpTo(n), n)
  BY <1>3, Zenon DEF DigitsUpTo
<1>5. Digits(n) = DigitsUpTo(n)[n]
  BY DEF Digits, DigitsUpTo
<1> QED
  BY <1>4, <1>5, Zenon
-----------------------------------------------------------------------------
(* One call of parse *)

LEMMA Kinds ==
  /\ Is("err", Incomplete) /\ Is("err", Invalid) /\ Incomplete # Invalid
  /\ ~Is("ok", Incomplete) /\ ~Is("ok", Invalid)
  /\ \A v, n : /\ Is("ok", Ok(v, n)) /\ ~Is("err", Ok(v, n))
               /\ Ok(v, n).ok = v /\ Ok(v, n).n = n
               /\ Ok(v, n) # Incomplete /\ Ok(v, n) # Invalid
BY DEF Is, Ok, Incomplete, Invalid

IsSeq(a) == \E S : a \in Seq(S)

IsValue(v) == Is("array", v) => IsSeq(v.array)

\* An error, or a value and a number of bytes that the buffer has.
IsResult(r, b) ==
  \/ r \in {Incomplete, Invalid}
  \/ \E v : \E n \in 1 .. Len(b) : r = Ok(v, n) /\ IsValue(v)

LEMMA Least ==
  ASSUME NEW n \in Nat, NEW S \in SUBSET (1 .. n), S # {}
  PROVE  \E i \in S : \A j \in S : i <= j
<1> SUFFICES ASSUME \A i \in S : \E j \in S : j < i PROVE FALSE
  OBVIOUS
<1> DEFINE T == {i \in 0 .. n : \A j \in S : j > i}
<1>1. 0 \in T
  OBVIOUS
<1>2. ASSUME NEW i \in 0 .. n - 1, i \in T PROVE i + 1 \in T
  <2>1. ASSUME NEW j \in S, ~(j > i + 1) PROVE FALSE
    <3>1. j = i + 1
      BY <1>2, <2>1
    <3> QED
      BY <1>2, <3>1
  <2> QED
    BY <2>1
<1>3. n \in T
  <2> HIDE DEF T
  <2> QED
    BY <1>1, <1>2, Induction
<1>4. PICK j \in S : j \in 1 .. n
  BY Zenon
<1>5. j > n
  BY <1>3
<1> QED
  BY <1>4, <1>5

CrlfHere(b, i) == b[i] = Ch("\r") /\ b[i + 1] = Ch("\n")

LEMMA FirstCrlf ==
  ASSUME NEW b \in Seq(Byte)
  PROVE  \/ CrlfAt(b) = 0 /\ \A j \in 1 .. Len(b) - 1 : ~CrlfHere(b, j)
         \/ /\ CrlfAt(b) \in 1 .. Len(b) - 1
            /\ CrlfHere(b, CrlfAt(b))
            /\ \A j \in 1 .. Len(b) - 1 : CrlfHere(b, j) => CrlfAt(b) <= j
<1> DEFINE S == {i \in 1 .. Len(b) - 1 : CrlfHere(b, i)}
<1>1. CrlfAt(b) = IF S = {} THEN 0 ELSE CHOOSE i \in S : \A j \in S : i <= j
  BY Zenon DEF CrlfAt, CrlfHere
<1>2. CASE S = {}
  <2>1. \A j \in 1 .. Len(b) - 1 : ~CrlfHere(b, j)
    BY <1>2
  <2> QED
    BY <1>1, <1>2, <2>1, Zenon
<1>3. CASE S # {}
  <2>1. \E i \in S : \A j \in S : i <= j
    <3>1. Len(b) \in Nat /\ S \in SUBSET (1 .. Len(b))
      OBVIOUS
    <3> HIDE DEF S
    <3> QED
      BY <1>3, <3>1, Least, Zenon
  <2>2. CrlfAt(b) \in S /\ \A j \in S : CrlfAt(b) <= j
    <3> HIDE DEF S
    <3> QED
      BY <1>1, <1>3, <2>1, Zenon
  <2> QED
    BY <2>2, Zenon
<1> QED
  BY <1>2, <1>3, Zenon

\* What is behind the first CRLF does not change where it is.
LEMMA CrlfStays ==
  ASSUME NEW b \in Seq(Byte), NEW m \in Seq(Byte), CrlfAt(b) # 0
  PROVE  CrlfAt(b \o m) = CrlfAt(b)
<1> DEFINE i == CrlfAt(b)
           k == CrlfAt(b \o m)
<1>1. /\ b \o m \in Seq(Byte) /\ Len(b \o m) = Len(b) + Len(m) /\ Len(b) \in Nat /\ Len(m) \in Nat
      /\ \A j \in 1 .. Len(b) : (b \o m)[j] = b[j]
  BY ConcatProperties
<1>2. \A j \in 1 .. Len(b) - 1 : CrlfHere(b \o m, j) <=> CrlfHere(b, j)
  <2> SUFFICES ASSUME NEW j \in 1 .. Len(b) - 1 PROVE CrlfHere(b \o m, j) <=> CrlfHere(b, j)
    OBVIOUS
  <2>1. j \in 1 .. Len(b) /\ j + 1 \in 1 .. Len(b)
    BY <1>1
  <2> QED
    BY <1>1, <2>1, Zenon DEF CrlfHere
<1>3. /\ i \in 1 .. Len(b) - 1 /\ CrlfHere(b, i)
      /\ \A j \in 1 .. Len(b) - 1 : CrlfHere(b, j) => i <= j
  BY FirstCrlf, Zenon
<1>4. i \in 1 .. Len(b \o m) - 1 /\ CrlfHere(b \o m, i)
  <2>1. i \in 1 .. Len(b \o m) - 1
    <3> HIDE DEF i
    <3> QED
      BY <1>1, <1>3
  <2> QED
    BY <1>2, <1>3, <2>1, Zenon
<1>5. /\ k \in 1 .. Len(b \o m) - 1 /\ CrlfHere(b \o m, k) /\ k <= i
  BY <1>1, <1>4, FirstCrlf, Zenon
<1> HIDE DEF i, k
<1>6. k \in 1 .. Len(b) - 1
  BY <1>1, <1>3, <1>5
<1>7. i <= k
  BY <1>2, <1>3, <1>5, <1>6, Zenon
<1> QED
  BY <1>3, <1>5, <1>6, <1>7 DEF i, k

HeaderOf(b) == SubSeq(b, 2, CrlfAt(b) - 1)

SizeOf(b) == ParseNumber(HeaderOf(b), 0, UsizeMax)

\* The buffer begins with the header of a bulk string ("$") or an array ("*").
Begins(b, c) == b[1] = Ch(c) /\ Is("ok", SizeOf(b))

\* What parse gives when the first line is all it looks at.
OfLine(b) ==
  LET data == HeaderOf(b)
      n    == CrlfAt(b) + 1
  IN  IF b[1] \notin Markers THEN ParseInline(b, CrlfAt(b))
      ELSE CASE b[1].ch \in {"+", "-"} -> ParseSimple(data, n)
             [] b[1].ch = ":"          -> ParseInteger(data, n)
             [] b[1].ch = "_"          -> ParseNull(n)
             [] b[1].ch = "#"          -> ParseBool(data, n)
             [] OTHER                  -> Invalid

LEMMA Chars == \A c : Ch(c).ch = c /\ \A x : Ch(x) = Ch(c) => x = c
<1>1. \A c : Ch(c).ch = c
  BY DEF Ch
<1>2. ASSUME NEW c, NEW x, Ch(x) = Ch(c) PROVE x = c
  <2>1. Ch(x).ch = x /\ Ch(c).ch = c
    BY <1>1, Zenon
  <2> QED
    BY <1>2, <2>1, Zenon
<1> QED
  BY <1>1, <1>2, Zenon

LEMMA ParseCases ==
  ASSUME NEW F, NEW b
  PROVE  /\ CrlfAt(b) = 0 => ParseWith(F, b) = Incomplete
         /\ CrlfAt(b) # 0 /\ Begins(b, "*") =>
              ParseWith(F, b) = ParseArray(b, SizeOf(b).ok, CrlfAt(b) + 1, F)
         /\ CrlfAt(b) # 0 /\ Begins(b, "$") =>
              ParseWith(F, b) = ParseBulkString(b, SizeOf(b).ok, CrlfAt(b) + 1)
         /\ CrlfAt(b) # 0 /\ ~Begins(b, "*") /\ ~Begins(b, "$") => ParseWith(F, b) = OfLine(b)
<1>1. CASE CrlfAt(b) = 0
  BY <1>1, Zenon DEF ParseWith
<1> DEFINE mark == b[1].ch
           P == CASE mark \in {"+", "-"} -> ParseSimple(HeaderOf(b), CrlfAt(b) + 1)
             [] mark = ":"          -> ParseInteger(HeaderOf(b), CrlfAt(b) + 1)
             [] mark \in {"$", "*"} /\ ~Is("ok", SizeOf(b)) -> Invalid
             [] mark = "$" /\ Is("ok", SizeOf(b)) -> ParseBulkString(b, SizeOf(b).ok, CrlfAt(b) + 1)
             [] mark = "*" /\ Is("ok", SizeOf(b)) -> ParseArray(b, SizeOf(b).ok, CrlfAt(b) + 1, F)
             [] mark = "_"          -> ParseNull(CrlfAt(b) + 1)
             [] mark = "#"          -> ParseBool(HeaderOf(b), CrlfAt(b) + 1)
<1>2. CASE CrlfAt(b) # 0
  <2>1. ParseWith(F, b) = IF b[1] \notin Markers THEN ParseInline(b, CrlfAt(b)) ELSE P
    BY <1>2, Zenon DEF ParseWith, SizeOf, HeaderOf
  <2>2. CASE b[1] \notin Markers
    <3>1. b[1] # Ch("*") /\ b[1] # Ch("$")
      BY <2>2, Zenon DEF Markers
    <3> QED
      BY <1>2, <2>1, <2>2, <3>1, Zenon DEF Begins, OfLine
  <2>3. CASE b[1] \in Markers
    <3>1. PICK c \in {"+", "-", ":", "$", "*", "_", "#"} : b[1] = Ch(c)
      BY <2>3, Zenon DEF Markers
    <3>2. mark = c /\ \A x : Ch(x) = Ch(c) => x = c
      BY <3>1, Chars, Zenon
    <3>3. ParseWith(F, b) = P
      BY <2>1, <2>3, Zenon
    <3>4. Begins(b, "*") <=> c = "*" /\ Is("ok", SizeOf(b))
      BY <3>1, <3>2, Zenon DEF Begins
    <3>5. Begins(b, "$") <=> c = "$" /\ Is("ok", SizeOf(b))
      BY <3>1, <3>2, Zenon DEF Begins
    <3> DEFINE data == HeaderOf(b)
               n    == CrlfAt(b) + 1
               O == CASE mark \in {"+", "-"} -> ParseSimple(data, n)
             [] mark = ":"          -> ParseInteger(data, n)
             [] mark = "_"          -> ParseNull(n)
             [] mark = "#"          -> ParseBool(data, n)
             [] OTHER                  -> Invalid
    <3>6. OfLine(b) = O
      BY <2>3, Zenon DEF OfLine
    <3> HIDE DEF mark
    <3>7. Begins(b, "*") => P = ParseArray(b, SizeOf(b).ok, CrlfAt(b) + 1, F)
      BY <3>2, <3>4, Zenon
    <3>8. Begins(b, "$") => P = ParseBulkString(b, SizeOf(b).ok, CrlfAt(b) + 1)
      BY <3>2, <3>5, Zenon
    <3>9. ~Begins(b, "*") /\ ~Begins(b, "$") => P = O
      BY <3>2, <3>4, <3>5, Zenon
    <3> QED
      BY <1>2, <3>3, <3>6, <3>7, <3>8, <3>9, Zenon
  <2> QED
    BY <2>2, <2>3, Zenon
<1> QED
  BY <1>1, <1>2, Zenon

LEMMA NumberRange ==
  ASSUME NEW bytes, NEW min, NEW max, Is("ok", ParseNumber(bytes, min, max))
  PROVE  ParseNumber(bytes, min, max).ok \in min .. max
<1>1. PICK n : ParseNumber(bytes, min, max) = IF n \in min .. max THEN Ok(n, 0) ELSE Invalid
  <2> DEFINE signs  == {Ch("+")} \cup IF min < 0 THEN {Ch("-")} ELSE {}
             signed == bytes # <<>> /\ Head(bytes) \in signs
             digits == IF signed THEN Tail(bytes) ELSE bytes
             n == IF signed /\ Head(bytes) = Ch("-") THEN -ValueOf(digits) ELSE ValueOf(digits)
  <2>1. ParseNumber(bytes, min, max) =
          IF IsNumber(digits) /\ n \in min .. max THEN Ok(n, 0) ELSE Invalid
    BY Zenon DEF ParseNumber
  <2> HIDE DEF n, digits
  <2>2. IsNumber(digits) /\ n \in min .. max
    BY <2>1, Kinds, Zenon
  <2> QED
    BY <2>1, <2>2, Zenon
<1> QED
  BY <1>1, Kinds, Zenon

LEMMA WordsAreSequence ==
  ASSUME NEW line \in Seq(Byte)
  PROVE  Words(line) \in Seq(Seq(Byte))
<1> DEFINE W == WordsUpTo(line)
           S == {i \in 0 .. Len(line) : W[i] \in Seq(Seq(Byte))}
<1>0. Len(line) \in Nat
  OBVIOUS
<1>1. /\ Words(line) = W[Len(line)] /\ W[0] = <<>>
      /\ \A i \in 0 .. Len(line) - 1 : W[i + 1] = NextWord(W[i], i + 1, line)
  BY <1>0, WordsRecursion, Zenon
<1> HIDE DEF W
<1>2. 0 \in S
  <2>1. <<>> \in Seq(Seq(Byte))
    OBVIOUS
  <2>2. W[0] \in Seq(Seq(Byte))
    BY <1>1, <2>1, Zenon
  <2> QED
    BY <1>0, <2>2
<1>3. ASSUME NEW i \in 0 .. Len(line) - 1, i \in S PROVE i + 1 \in S
  <2>1. i + 1 \in 1 .. Len(line) /\ i + 1 \in 0 .. Len(line)
    BY <1>0
  <2> DEFINE p == W[i]
             x == line[i + 1]
  <2>2. p \in Seq(Seq(Byte)) /\ x \in Byte /\ <<x>> \in Seq(Byte)
    <3>1. p \in Seq(Seq(Byte))
      BY <1>3
    <3>2. x \in Byte
      BY <2>1
    <3> QED
      BY <3>1, <3>2
  <2>3. /\ W[i + 1] \in {p, Append(p, <<x>>), [p EXCEPT ![Len(p)] = Append(@, x)]}
    BY <1>1, Zenon DEF NextWord
  <2> HIDE DEF p, x
  <2>4. Append(p, <<x>>) \in Seq(Seq(Byte))
    BY <2>2, AppendProperties
  <2>5. [p EXCEPT ![Len(p)] = Append(@, x)] \in Seq(Seq(Byte))
    <3>1. CASE Len(p) \in 1 .. Len(p)
      <4>1. p[Len(p)] \in Seq(Byte)
        BY <2>2, <3>1
      <4>2. Append(p[Len(p)], x) \in Seq(Byte)
        BY <2>2, <4>1, AppendProperties
      <4>3. [p EXCEPT ![Len(p)] = Append(p[Len(p)], x)] \in Seq(Seq(Byte))
        BY <2>2, <3>1, <4>2, ExceptSeq
      <4> QED
        BY <4>3
    <3>2. CASE Len(p) \notin 1 .. Len(p)
      <4>1. Len(p) \notin DOMAIN p
        BY <2>2, <3>2
      <4>2. [p EXCEPT ![Len(p)] = Append(@, x)] = p
        BY <2>2, <4>1
      <4> QED
        BY <2>2, <4>2, Zenon
    <3> QED
      BY <3>1, <3>2
  <2>6. W[i + 1] \in Seq(Seq(Byte))
    BY <2>2, <2>3, <2>4, <2>5, Zenon
  <2> QED
    BY <2>1, <2>6
<1>4. Len(line) \in S
  <2> HIDE DEF S
  <2>1. 0 .. Len(line) \subseteq S
    BY <1>0, <1>2, <1>3, Induction
  <2> QED
    BY <1>0, <2>1
<1> QED
  BY <1>1, <1>4

LEMMA OfLineGives ==
  ASSUME NEW b \in Seq(Byte), CrlfAt(b) # 0
  PROVE  OfLine(b) = Invalid \/ \E v : OfLine(b) = Ok(v, CrlfAt(b) + 1) /\ IsValue(v)
<1> DEFINE n == CrlfAt(b) + 1
           data == HeaderOf(b)
<1>1. CASE b[1] \notin Markers
  <2> DEFINE line == SubSeq(b, 1, CrlfAt(b) - 1)
             ws   == Words(line)
             v    == Array([i \in DOMAIN ws |-> Bulk(ws[i])])
  <2>1. OfLine(b) = IF Utf8(line) THEN Ok(v, n) ELSE Invalid
    BY <1>1, Zenon DEF OfLine, ParseInline
  <2>2. line \in Seq(Byte)
    <3> DEFINE k == CrlfAt(b)
    <3>1. k \in 1 .. Len(b) - 1
      BY FirstCrlf, Zenon
    <3> HIDE DEF k
    <3>2. SubSeq(b, 1, k - 1) \in Seq(Byte)
      BY <3>1
    <3> QED
      BY <3>2 DEF k
  <2>3. ws \in Seq(Seq(Byte))
    <3> HIDE DEF line
    <3> QED
      BY <2>2, WordsAreSequence
  <2> HIDE DEF ws
  <2>4. v.array \in Seq({Bulk(w) : w \in Seq(Byte)})
    <3>1. v.array = [i \in 1 .. Len(ws) |-> Bulk(ws[i])]
      BY <2>3 DEF Array
    <3>2. \A i \in 1 .. Len(ws) : Bulk(ws[i]) \in {Bulk(w) : w \in Seq(Byte)}
      BY <2>3
    <3> HIDE DEF v
    <3> QED
      BY <2>3, <3>1, <3>2
  <2> HIDE DEF v, line, n
  <2>5. IsValue(v)
    BY <2>4, Zenon DEF IsValue, IsSeq
  <2> QED
    BY <2>1, <2>5, Zenon DEF n
<1>2. CASE b[1] \in Markers
  <2>1. /\ \A d : IsValue(Simple(d)) /\ IsValue(Int_(d)) /\ IsValue(Boolean_(d))
        /\ IsValue(Null)
    BY DEF IsValue, Is, Simple, Int_, Boolean_, Null
  <2>2. ParseSimple(data, n) = Invalid \/ \E v : ParseSimple(data, n) = Ok(v, n) /\ IsValue(v)
    BY <2>1, Zenon DEF ParseSimple
  <2>3. ParseInteger(data, n) = Invalid \/ \E v : ParseInteger(data, n) = Ok(v, n) /\ IsValue(v)
    BY <2>1, Zenon DEF ParseInteger
  <2>4. \E v : ParseNull(n) = Ok(v, n) /\ IsValue(v)
    BY <2>1, Zenon DEF ParseNull
  <2>5. ParseBool(data, n) = Invalid \/ \E v : ParseBool(data, n) = Ok(v, n) /\ IsValue(v)
    <3>1. ParseBool(data, n) \in {Ok(Boolean_(TRUE), n), Ok(Boolean_(FALSE), n), Invalid}
      BY DEF ParseBool
    <3> QED
      BY <2>1, <3>1, Zenon
  <2>6. OfLine(b) \in {ParseSimple(data, n), ParseInteger(data, n), ParseNull(n),
                       ParseBool(data, n), Invalid}
    BY <1>2 DEF OfLine
  <2> HIDE DEF n, data
  <2>7. OfLine(b) = Invalid \/ \E v : OfLine(b) = Ok(v, n) /\ IsValue(v)
    <3> HIDE DEF OfLine, IsValue
    <3> QED
      BY <2>2, <2>3, <2>4, <2>5, <2>6
  <2> QED
    BY <2>7, Zenon DEF n
<1> QED
  BY <1>1, <1>2, Zenon

LEMMA BulkStringGives ==
  ASSUME NEW b \in Seq(Byte), NEW len \in Nat, NEW start \in 1 .. Len(b)
  PROVE  IsResult(ParseBulkString(b, len, start), b)
<1> DEFINE end == start + len
           v   == Bulk(SubSeq(b, start + 1, end))
<1>1. IsValue(v)
  BY DEF IsValue, Is, Bulk
<1>2. \/ ParseBulkString(b, len, start) \in {Incomplete, Invalid}
      \/ end + 2 <= Len(b) /\ ParseBulkString(b, len, start) = Ok(v, end + 2)
  <2>1. CASE end + 2 > Len(b)
    BY <2>1, Zenon DEF ParseBulkString
  <2>2. CASE ~(end + 2 > Len(b))
    <3>1. end + 2 <= Len(b)
      BY <2>2
    <3> QED
      BY <2>2, <3>1, Zenon DEF ParseBulkString
  <2> QED
    BY <2>1, <2>2, Zenon
<1>3. end + 2 <= Len(b) => end + 2 \in 1 .. Len(b)
  OBVIOUS
<1> HIDE DEF v, end
<1> QED
  BY <1>1, <1>2, <1>3, Zenon DEF IsResult

\* F gives a result for every buffer that is shorter than b.
Sound(F, b) == \A c \in Seq(Byte) : Len(c) < Len(b) => IsResult(F[c], c)

\* The elements so far, and the end of the last one.
IsPart(e, b, start) ==
  \/ e \in {Incomplete, Invalid}
  \/ \E s : \E n \in start .. Len(b) : e = Ok(s, n) /\ IsSeq(s)

LEMMA Rest ==
  ASSUME NEW b \in Seq(Byte), NEW n \in 1 .. Len(b)
  PROVE  /\ SubSeq(b, n + 1, Len(b)) \in Seq(Byte)
         /\ Len(SubSeq(b, n + 1, Len(b))) = Len(b) - n
         /\ Len(SubSeq(b, n + 1, Len(b))) < Len(b)
<1>1. Len(b) \in Nat /\ n + 1 \in Int /\ \A i \in n + 1 .. Len(b) : b[i] \in Byte
  OBVIOUS
<1>2. /\ SubSeq(b, n + 1, Len(b)) \in Seq(Byte)
      /\ Len(SubSeq(b, n + 1, Len(b))) = IF n + 1 <= Len(b) THEN Len(b) - (n + 1) + 1 ELSE 0
  BY <1>1, SubSeqProperties
<1> QED
  BY <1>1, <1>2

LEMMA NextPart ==
  ASSUME NEW F, NEW b \in Seq(Byte), NEW start \in 1 .. Len(b), Sound(F, b),
         NEW e, IsPart(e, b, start)
  PROVE  IsPart(NextElement(e, b, F), b, start)
<1>1. CASE Is("err", e)
  BY <1>1, Zenon DEF NextElement
<1>2. CASE ~Is("err", e)
  <2>1. PICK s : \E n \in start .. Len(b) : e = Ok(s, n) /\ IsSeq(s)
    BY <1>2, Kinds, Zenon DEF IsPart
  <2>2. PICK n \in start .. Len(b) : e = Ok(s, n) /\ IsSeq(s)
    BY <2>1
  <2> DEFINE c == SubSeq(b, n + 1, Len(b))
             r == F[c]
  <2>3. n \in 1 .. Len(b)
    OBVIOUS
  <2>4. c \in Seq(Byte) /\ Len(c) = Len(b) - n /\ Len(c) < Len(b)
    BY <2>3, Rest
  <2>5. IsResult(r, c)
    BY <2>4, Zenon DEF Sound
  <2>6. NextElement(e, b, F) = IF Is("err", r) THEN r ELSE Ok(Append(s, r.ok), n + r.n)
    BY <1>2, <2>2, Kinds, Zenon DEF NextElement
  <2> HIDE DEF r
  <2>7. CASE r \in {Incomplete, Invalid}
    BY <2>6, <2>7, Kinds, Zenon DEF IsPart
  <2>8. CASE ~(r \in {Incomplete, Invalid})
    <3>1. PICK v : \E k \in 1 .. Len(c) : r = Ok(v, k) /\ IsValue(v)
      BY <2>5, <2>8, Zenon DEF IsResult
    <3>2. PICK k \in 1 .. Len(c) : r = Ok(v, k)
      BY <3>1
    <3>3. n + k \in start .. Len(b)
      <4> HIDE DEF c
      <4> QED
        BY <2>4
    <3>4. NextElement(e, b, F) = Ok(Append(s, v), n + k)
      BY <2>6, <3>2, Kinds, Zenon
    <3>5. IsSeq(Append(s, v))
      <4>1. PICK S : s \in Seq(S)
        BY <2>2, Zenon DEF IsSeq
      <4>2. s \in Seq(S \cup {v}) /\ v \in S \cup {v}
        BY <4>1
      <4>3. Append(s, v) \in Seq(S \cup {v})
        BY <4>2, AppendProperties
      <4> QED
        BY <4>3, Zenon DEF IsSeq
    <3> QED
      BY <3>3, <3>4, <3>5, Zenon DEF IsPart
  <2> QED
    BY <2>7, <2>8
<1> QED
  BY <1>1, <1>2

LEMMA ElementsGive ==
  ASSUME NEW F, NEW b \in Seq(Byte), NEW len \in Nat, NEW start \in 1 .. Len(b), Sound(F, b)
  PROVE  \A i \in 0 .. len : IsPart(ElementsUpTo(b, len, start, F)[i], b, start)
<1> DEFINE E == ElementsUpTo(b, len, start, F)
           S == {i \in 0 .. len : IsPart(E[i], b, start)}
<1>1. E[0] = Ok(<<>>, start) /\ \A i \in 0 .. len - 1 : E[i + 1] = NextElement(E[i], b, F)
  BY ElementsRecursion
<1> HIDE DEF E
<1>2. 0 \in S
  <2>1. IsSeq(<<>>)
    <3>1. <<>> \in Seq({})
      OBVIOUS
    <3> QED
      BY <3>1, Zenon DEF IsSeq
  <2>2. start \in start .. Len(b) /\ 0 \in 0 .. len
    OBVIOUS
  <2>3. IsPart(E[0], b, start)
    BY <1>1, <2>1, <2>2, Zenon DEF IsPart
  <2> QED
    BY <2>2, <2>3, Zenon
<1>3. ASSUME NEW i \in 0 .. len - 1, i \in S PROVE i + 1 \in S
  <2>1. IsPart(E[i], b, start)
    BY <1>3, Zenon
  <2>2. IsPart(E[i + 1], b, start)
    BY <1>1, <2>1, NextPart, Zenon
  <2>3. i + 1 \in 0 .. len
    OBVIOUS
  <2> QED
    BY <2>2, <2>3, Zenon
<1>4. 0 .. len \subseteq S
  <2> HIDE DEF S
  <2> QED
    BY <1>2, <1>3, Induction
<1> QED
  BY <1>4, Zenon DEF E

LEMMA ArrayGives ==
  ASSUME NEW F, NEW b \in Seq(Byte), NEW len \in Nat, NEW start \in 1 .. Len(b), Sound(F, b)
  PROVE  IsResult(ParseArray(b, len, start, F), b)
<1> DEFINE all == ElementsUpTo(b, len, start, F)[len]
<1>1. ParseArray(b, len, start, F) = ArrayOf(all)
  BY ElementsRecursion
<1>2. IsPart(all, b, start)
  <2>1. len \in 0 .. len
    OBVIOUS
  <2> QED
    BY <2>1, ElementsGive, Zenon
<1> HIDE DEF all
<1>3. CASE all \in {Incomplete, Invalid}
  BY <1>1, <1>3, Kinds, Zenon DEF IsResult, ArrayOf
<1>4. CASE ~(all \in {Incomplete, Invalid})
  <2>1. PICK s : \E n \in start .. Len(b) : all = Ok(s, n) /\ IsSeq(s)
    BY <1>2, <1>4, Zenon DEF IsPart
  <2>2. PICK n \in start .. Len(b) : all = Ok(s, n) /\ IsSeq(s)
    BY <2>1
  <2>3. n \in 1 .. Len(b)
    OBVIOUS
  <2>4. ParseArray(b, len, start, F) = Ok(Array(s), n)
    BY <1>1, <2>2, Kinds, Zenon DEF ArrayOf
  <2>5. Array(s).array = s
    BY DEF Array
  <2>6. IsValue(Array(s))
    BY <2>2, <2>5, Zenon DEF IsValue
  <2> QED
    BY <2>3, <2>4, <2>6, Zenon DEF IsResult
<1> QED
  BY <1>3, <1>4

\* The header of a text or an array: its length, and where it ends.
LEMMA Header ==
  ASSUME NEW b \in Seq(Byte), CrlfAt(b) # 0
  PROVE  /\ CrlfAt(b) + 1 \in 1 .. Len(b)
         /\ Is("ok", SizeOf(b)) => SizeOf(b).ok \in Nat
<1> DEFINE k == CrlfAt(b)
<1>1. k \in 1 .. Len(b) - 1
  BY FirstCrlf, Zenon
<1>2. k + 1 \in 1 .. Len(b)
  <2> HIDE DEF k
  <2> QED
    BY <1>1
<1>3. ASSUME Is("ok", SizeOf(b)) PROVE SizeOf(b).ok \in Nat
  <2>1. SizeOf(b).ok \in 0 .. UsizeMax
    BY <1>3, NumberRange, Zenon DEF SizeOf
  <2> HIDE DEF SizeOf
  <2> QED
    BY <2>1, RespAssumption
<1> QED
  BY <1>2, <1>3

\* parse gives a result, if the calls for the elements do.
LEMMA ParseGives ==
  ASSUME NEW F, NEW b \in Seq(Byte), Sound(F, b)
  PROVE  IsResult(ParseWith(F, b), b)
<1>1. CASE CrlfAt(b) = 0
  BY <1>1, ParseCases, Zenon DEF IsResult
<1>2. CASE CrlfAt(b) # 0
  <2>1. CASE Begins(b, "*")
    <3>1. SizeOf(b).ok \in Nat /\ CrlfAt(b) + 1 \in 1 .. Len(b)
      BY <1>2, <2>1, Header, Zenon DEF Begins
    <3> QED
      BY <1>2, <2>1, <3>1, ParseCases, ArrayGives, Zenon
  <2>2. CASE Begins(b, "$")
    <3>1. SizeOf(b).ok \in Nat /\ CrlfAt(b) + 1 \in 1 .. Len(b)
      BY <1>2, <2>2, Header, Zenon DEF Begins
    <3> QED
      BY <1>2, <2>2, <3>1, ParseCases, BulkStringGives, Zenon
  <2>3. CASE ~Begins(b, "*") /\ ~Begins(b, "$")
    <3>1. ParseWith(F, b) = OfLine(b)
      BY <1>2, <2>3, ParseCases, Zenon
    <3>2. CrlfAt(b) + 1 \in 1 .. Len(b)
      BY <1>2, Header, Zenon
    <3> QED
      BY <1>2, <3>1, <3>2, OfLineGives, Zenon DEF IsResult
  <2> QED
    BY <2>1, <2>2, <2>3
<1> QED
  BY <1>1, <1>2

\* ... and looks at no others than those for shorter buffers.
LEMMA ParseLooksAhead ==
  ASSUME NEW F, NEW G, NEW b \in Seq(Byte), Sound(F, b),
         \A c \in Seq(Byte) : Len(c) < Len(b) => F[c] = G[c]
  PROVE  ParseWith(F, b) = ParseWith(G, b)
<1>1. CASE CrlfAt(b) # 0 /\ Begins(b, "*")
  <2> DEFINE len == SizeOf(b).ok
             start == CrlfAt(b) + 1
             E == ElementsUpTo(b, len, start, F)
             H == ElementsUpTo(b, len, start, G)
             S == {i \in 0 .. len : H[i] = E[i]}
  <2>1. len \in Nat /\ start \in 1 .. Len(b)
    BY <1>1, Header, Zenon DEF Begins
  <2> HIDE DEF len, start
  <2>2. /\ E[0] = Ok(<<>>, start) /\ \A i \in 0 .. len - 1 : E[i + 1] = NextElement(E[i], b, F)
        /\ H[0] = Ok(<<>>, start) /\ \A i \in 0 .. len - 1 : H[i + 1] = NextElement(H[i], b, G)
        /\ ParseArray(b, len, start, F) = ArrayOf(E[len])
        /\ ParseArray(b, len, start, G) = ArrayOf(H[len])
    BY <2>1, ElementsRecursion
  <2>3. \A i \in 0 .. len : IsPart(E[i], b, start)
    BY <2>1, ElementsGive, Zenon
  <2> HIDE DEF E, H
  <2>4. 0 \in S
    BY <2>1, <2>2
  <2>5. ASSUME NEW i \in 0 .. len - 1, i \in S PROVE i + 1 \in S
    <3>1. H[i] = E[i]
      BY <2>5, Zenon
    <3>2. i \in 0 .. len /\ i + 1 \in 0 .. len
      BY <2>1
    <3>3. IsPart(E[i], b, start)
      BY <2>3, <3>2, Zenon
    <3>4. NextElement(E[i], b, F) = NextElement(E[i], b, G)
      <4>1. CASE Is("err", E[i])
        BY <4>1, Zenon DEF NextElement
      <4>2. CASE ~Is("err", E[i])
        <5>1. PICK s : \E n \in start .. Len(b) : E[i] = Ok(s, n) /\ IsSeq(s)
          BY <3>3, <4>2, Kinds, Zenon DEF IsPart
        <5>2. PICK n \in start .. Len(b) : E[i] = Ok(s, n) /\ IsSeq(s)
          BY <5>1
        <5>3. n \in 1 .. Len(b) /\ E[i].n = n
          BY <2>1, <5>2, Kinds
        <5>4. F[SubSeq(b, n + 1, Len(b))] = G[SubSeq(b, n + 1, Len(b))]
          BY <5>3, Rest, Zenon
        <5> QED
          BY <5>3, <5>4, Zenon DEF NextElement
      <4> QED
        BY <4>1, <4>2
    <3>5. H[i + 1] = E[i + 1]
      BY <2>2, <3>1, <3>4, Zenon
    <3> QED
      BY <3>2, <3>5, Zenon
  <2>6. H[len] = E[len]
    <3>1. 0 .. len \subseteq S
      <4> HIDE DEF S
      <4> QED
        BY <2>1, <2>4, <2>5, Induction
    <3>2. len \in 0 .. len
      BY <2>1
    <3> QED
      BY <3>1, <3>2, Zenon
  <2>7. ParseArray(b, len, start, F) = ParseArray(b, len, start, G)
    BY <2>2, <2>6, Zenon
  <2> QED
    BY <1>1, <2>7, ParseCases, Zenon DEF len, start
<1>2. CASE ~(CrlfAt(b) # 0 /\ Begins(b, "*"))
  <2>1. CASE CrlfAt(b) = 0
    BY <2>1, ParseCases, Zenon
  <2>2. CASE CrlfAt(b) # 0
    BY <1>2, <2>2, ParseCases, Zenon
  <2> QED
    BY <2>1, <2>2
<1> QED
  BY <1>1, <1>2
-----------------------------------------------------------------------------
(* parse calls itself: the function it computes exists *)

UpTo(n) == {b \in Seq(Byte) : Len(b) <= n}

\* f is parse for the buffers of at most n bytes.
IsParse(f, n) ==
  /\ f = [b \in UpTo(n) |-> ParseWith(f, b)]
  /\ \A b \in UpTo(n) : IsResult(f[b], b)

LEMMA ShorterSound ==
  ASSUME NEW f, NEW n \in Nat, \A c \in UpTo(n) : IsResult(f[c], c), NEW b \in UpTo(n + 1)
  PROVE  b \in Seq(Byte) /\ Sound(f, b)
<1>1. b \in Seq(Byte) /\ Len(b) <= n + 1
  BY Zenon DEF UpTo
<1>2. ASSUME NEW c \in Seq(Byte), Len(c) < Len(b) PROVE IsResult(f[c], c)
  <2>1. Len(c) <= n
    BY <1>1, <1>2
  <2> QED
    BY <2>1, Zenon DEF UpTo
<1> QED
  BY <1>1, <1>2, Zenon DEF Sound

LEMMA EmptyBuffer ==
  ASSUME NEW b \in Seq(Byte), Len(b) = 0
  PROVE  CrlfAt(b) = 0
<1> DEFINE k == CrlfAt(b)
<1>1. k = 0 \/ k \in 1 .. Len(b) - 1
  BY FirstCrlf, Zenon
<1> HIDE DEF k
<1>2. k = 0
  BY <1>1
<1> QED
  BY <1>2 DEF k

LEMMA ParseExists ==
  ASSUME NEW n \in Nat
  PROVE  \E f : IsParse(f, n)
<1> DEFINE S == {k \in 0 .. n : \E f : IsParse(f, k)}
<1>1. 0 \in S
  <2> DEFINE f == [b \in UpTo(0) |-> Incomplete]
  <2>1. \A b \in UpTo(0) : f[b] = Incomplete
    BY Zenon
  <2>2. \A b \in UpTo(0) : CrlfAt(b) = 0
    <3> SUFFICES ASSUME NEW b \in UpTo(0) PROVE CrlfAt(b) = 0
      BY Zenon
    <3>1. b \in Seq(Byte) /\ Len(b) <= 0
      BY Zenon DEF UpTo
    <3>2. Len(b) = 0
      BY <3>1
    <3> QED
      BY <3>1, <3>2, EmptyBuffer, Zenon
  <2>3. \A b \in UpTo(0) : ParseWith(f, b) = Incomplete
    <3> HIDE DEF f
    <3> QED
      BY <2>2, ParseCases, Zenon
  <2>4. f = [b \in UpTo(0) |-> ParseWith(f, b)]
    <3>1. f = [b \in UpTo(0) |-> Incomplete]
      OBVIOUS
    <3> HIDE DEF f
    <3> QED
      BY <2>3, <3>1, Zenon
  <2>5. \A b \in UpTo(0) : IsResult(f[b], b)
    <3> HIDE DEF f
    <3> QED
      BY <2>1, Zenon DEF IsResult
  <2>6. IsParse(f, 0)
    <3> HIDE DEF f
    <3> QED
      BY <2>4, <2>5, Zenon DEF IsParse
  <2>7. 0 \in 0 .. n
    OBVIOUS
  <2> HIDE DEF f
  <2> QED
    BY <2>6, <2>7, Zenon
<1>2. ASSUME NEW k \in 0 .. n - 1, k \in S PROVE k + 1 \in S
  <2>1. PICK f : IsParse(f, k)
    BY <1>2, Zenon
  <2> DEFINE g == [b \in UpTo(k + 1) |-> ParseWith(f, b)]
  <2>2. /\ f = [b \in UpTo(k) |-> ParseWith(f, b)]
        /\ \A b \in UpTo(k) : IsResult(f[b], b)
    BY <2>1, Zenon DEF IsParse
  <2>3. \A b \in UpTo(k + 1) : g[b] = ParseWith(f, b)
    BY Zenon
  <2>4. \A b \in UpTo(k) : b \in UpTo(k + 1)
    BY DEF UpTo
  <2>5. \A b \in UpTo(k) : f[b] = ParseWith(f, b)
    BY <2>2, Zenon
  <2>6. \A b \in UpTo(k) : g[b] = f[b]
    <3> HIDE DEF g
    <3> QED
      BY <2>3, <2>4, <2>5, Zenon
  <2>7. g = [b \in UpTo(k + 1) |-> ParseWith(f, b)]
    OBVIOUS
  <2>8. k \in Nat /\ k + 1 \in 0 .. n
    OBVIOUS
  <2> HIDE DEF g
  <2>9. ASSUME NEW b \in UpTo(k + 1)
        PROVE  ParseWith(f, b) = ParseWith(g, b) /\ IsResult(g[b], b)
    <3>1. b \in Seq(Byte) /\ Sound(f, b) /\ Len(b) <= k + 1
      <4>1. b \in Seq(Byte) /\ Sound(f, b)
        BY <2>2, <2>8, ShorterSound, Zenon
      <4> QED
        BY <4>1, Zenon DEF UpTo
    <3>2. ASSUME NEW c \in Seq(Byte), Len(c) < Len(b) PROVE f[c] = g[c]
      <4>1. Len(c) <= k
        BY <2>8, <3>1, <3>2
      <4>2. c \in UpTo(k)
        BY <4>1, Zenon DEF UpTo
      <4> QED
        BY <2>6, <4>2, Zenon
    <3>3. ParseWith(f, b) = ParseWith(g, b)
      BY <3>1, <3>2, ParseLooksAhead, Zenon
    <3>4. IsResult(ParseWith(f, b), b)
      BY <3>1, ParseGives, Zenon
    <3> QED
      BY <2>3, <3>3, <3>4, Zenon
  <2>10. g = [b \in UpTo(k + 1) |-> ParseWith(g, b)]
    BY <2>7, <2>9, Zenon
  <2>11. IsParse(g, k + 1)
    BY <2>9, <2>10, Zenon DEF IsParse
  <2> QED
    BY <2>8, <2>11, Zenon
<1>3. n \in S
  <2>1. 0 .. n \subseteq S
    <3> HIDE DEF S
    <3> QED
      BY <1>1, <1>2, Induction
  <2>2. n \in 0 .. n
    OBVIOUS
  <2> QED
    BY <2>1, <2>2, Zenon
<1> QED
  BY <1>3, Zenon

LEMMA ParseUnique ==
  ASSUME NEW n \in Nat, NEW m \in Nat, n <= m, NEW f, IsParse(f, n), NEW g, IsParse(g, m)
  PROVE  \A b \in UpTo(n) : f[b] = g[b]
<1> DEFINE S == {k \in 0 .. n : \A b \in UpTo(k) : f[b] = g[b]}
<1>1. /\ \A b \in UpTo(n) : f[b] = ParseWith(f, b) /\ IsResult(f[b], b)
      /\ \A b \in UpTo(m) : g[b] = ParseWith(g, b)
  BY Zenon DEF IsParse
<1>2. ASSUME NEW b \in UpTo(n), \A c \in Seq(Byte) : Len(c) < Len(b) => f[c] = g[c]
      PROVE  f[b] = g[b]
  <2>1. b \in Seq(Byte) /\ Len(b) <= n
    BY Zenon DEF UpTo
  <2>2. b \in UpTo(n + 1) /\ b \in UpTo(m)
    <3>1. Len(b) <= n + 1 /\ Len(b) <= m
      BY <2>1
    <3> QED
      BY <2>1, <3>1, Zenon DEF UpTo
  <2>3. Sound(f, b)
    BY <1>1, <2>2, ShorterSound, Zenon
  <2>4. ParseWith(f, b) = ParseWith(g, b)
    BY <1>2, <2>1, <2>3, ParseLooksAhead, Zenon
  <2> QED
    BY <1>1, <2>2, <2>4, Zenon
<1>3. ASSUME NEW b \in Seq(Byte), Len(b) = 0 PROVE f[b] = g[b]
  <2>1. Len(b) <= n /\ \A c \in Seq(Byte) : ~(Len(c) < Len(b))
    BY <1>3
  <2>2. b \in UpTo(n)
    BY <2>1, Zenon DEF UpTo
  <2> QED
    BY <1>2, <2>1, <2>2, Zenon
<1>4. 0 \in S
  <2>1. ASSUME NEW b \in UpTo(0) PROVE b \in Seq(Byte) /\ Len(b) = 0
    <3>1. b \in Seq(Byte) /\ Len(b) <= 0
      BY Zenon DEF UpTo
    <3> QED
      BY <3>1
  <2>2. 0 \in 0 .. n
    OBVIOUS
  <2> QED
    BY <1>3, <2>1, <2>2, Zenon
<1>5. ASSUME NEW k \in 0 .. n - 1, k \in S PROVE k + 1 \in S
  <2>1. \A c \in UpTo(k) : f[c] = g[c]
    BY <1>5, Zenon
  <2>2. k + 1 \in 0 .. n
    OBVIOUS
  <2>3. ASSUME NEW b \in UpTo(k + 1) PROVE f[b] = g[b]
    <3>1. b \in Seq(Byte) /\ Len(b) <= k + 1
      BY Zenon DEF UpTo
    <3>2. b \in UpTo(n)
      <4>1. Len(b) <= n
        BY <3>1
      <4> QED
        BY <3>1, <4>1, Zenon DEF UpTo
    <3>3. ASSUME NEW c \in Seq(Byte), Len(c) < Len(b) PROVE f[c] = g[c]
      <4>1. Len(c) <= k
        BY <3>1, <3>3
      <4> QED
        BY <2>1, <4>1, Zenon DEF UpTo
    <3> QED
      BY <1>2, <3>2, <3>3, Zenon
  <2> QED
    BY <2>2, <2>3, Zenon
<1>6. n \in S
  <2>1. 0 .. n \subseteq S
    <3> HIDE DEF S
    <3> QED
      BY <1>4, <1>5, Induction
  <2>2. n \in 0 .. n
    OBVIOUS
  <2> QED
    BY <2>1, <2>2, Zenon
<1> QED
  BY <1>6, Zenon

\* Parse is ParseWith calling itself.
LEMMA ParseUnfolds ==
  ASSUME NEW b \in Seq(Byte)
  PROVE  Parse(b) = ParseWith(ParseFcn, b)
<1> DEFINE upTo(n) == CHOOSE f : IsParse(f, n)
           H == [c \in Seq(Byte) |-> upTo(Len(c))[c]]
<1>1. \A n \in Nat : IsParse(upTo(n), n)
  BY ParseExists, Zenon
<1>2. \A c \in Seq(Byte) : H[c] = upTo(Len(c))[c]
  BY Zenon
<1>3. H = [c \in Seq(Byte) |-> upTo(Len(c))[c]]
  OBVIOUS
<1> HIDE DEF upTo, H
<1>4. ASSUME NEW c \in Seq(Byte) PROVE upTo(Len(c))[c] = ParseWith(H, c)
  <2> DEFINE n == Len(c)
             f == upTo(n)
  <2>1. n \in Nat /\ n <= n /\ n <= n + 1
    OBVIOUS
  <2>2. c \in UpTo(n) /\ c \in UpTo(n + 1)
    BY <2>1, Zenon DEF UpTo
  <2>3. IsParse(f, n)
    BY <1>1, <2>1, Zenon
  <2>4. f[c] = ParseWith(f, c) /\ \A d \in UpTo(n) : IsResult(f[d], d)
    BY <2>2, <2>3, Zenon DEF IsParse
  <2>5. Sound(f, c)
    BY <2>1, <2>2, <2>4, ShorterSound, Zenon
  <2>6. ASSUME NEW d \in Seq(Byte), Len(d) < Len(c) PROVE f[d] = H[d]
    <3>1. Len(d) \in Nat /\ Len(d) <= Len(d) /\ Len(d) <= n
      BY <2>6
    <3>2. d \in UpTo(Len(d)) /\ IsParse(upTo(Len(d)), Len(d))
      BY <1>1, <3>1, Zenon DEF UpTo
    <3>3. \A e \in UpTo(Len(d)) : upTo(Len(d))[e] = f[e]
      BY <2>1, <2>3, <3>1, <3>2, ParseUnique
    <3> QED
      BY <1>2, <3>2, <3>3, Zenon
  <2>7. ParseWith(f, c) = ParseWith(H, c)
    BY <2>5, <2>6, ParseLooksAhead, Zenon
  <2> QED
    BY <2>4, <2>7, Zenon
<1>5. H = [c \in Seq(Byte) |-> ParseWith(H, c)]
  BY <1>3, <1>4, Zenon
<1>6. ParseFcn = CHOOSE f : f = [c \in Seq(Byte) |-> ParseWith(f, c)]
  BY DEF ParseFcn
<1>7. ParseFcn = [c \in Seq(Byte) |-> ParseWith(ParseFcn, c)]
  <2> HIDE DEF ParseFcn
  <2> QED
    BY <1>5, <1>6, Zenon
<1>8. ParseFcn[b] = ParseWith(ParseFcn, b)
  <2> HIDE DEF ParseFcn
  <2> QED
    BY <1>7, Zenon
<1> QED
  BY <1>8, Zenon DEF Parse

\* What parse returns: an error, or a value and the number of its bytes, which
\* are at least one and not more than there are.
LEMMA ParseResult ==
  ASSUME NEW b \in Seq(Byte)
  PROVE  IsResult(Parse(b), b)
<1> DEFINE S == {n \in 0 .. Len(b) : \A c \in UpTo(n) : IsResult(ParseFcn[c], c)}
<1>0. Len(b) \in Nat
  OBVIOUS
<1>1. ASSUME NEW c \in Seq(Byte), Sound(ParseFcn, c) PROVE IsResult(ParseFcn[c], c)
  <2>1. ParseFcn[c] = ParseWith(ParseFcn, c)
    BY ParseUnfolds, Zenon DEF Parse
  <2>2. IsResult(ParseWith(ParseFcn, c), c)
    BY <1>1, ParseGives
  <2> QED
    BY <2>1, <2>2
<1>2. 0 \in S
  <2>1. ASSUME NEW c \in UpTo(0) PROVE IsResult(ParseFcn[c], c)
    <3>1. c \in Seq(Byte) /\ Len(c) <= 0
      BY Zenon DEF UpTo
    <3>2. \A d \in Seq(Byte) : ~(Len(d) < Len(c))
      BY <3>1
    <3> QED
      BY <1>1, <3>1, <3>2, Zenon DEF Sound
  <2>2. 0 \in 0 .. Len(b)
    BY <1>0
  <2> QED
    BY <2>1, <2>2, Zenon
<1>3. ASSUME NEW k \in 0 .. Len(b) - 1, k \in S PROVE k + 1 \in S
  <2>1. k \in Nat /\ k + 1 \in 0 .. Len(b)
    BY <1>0
  <2>2. \A c \in UpTo(k + 1) : IsResult(ParseFcn[c], c)
    <3>1. \A c \in UpTo(k) : IsResult(ParseFcn[c], c)
      BY <1>3, Zenon
    <3>2. \A c \in UpTo(k + 1) : c \in Seq(Byte) /\ Sound(ParseFcn, c)
      BY <2>1, <3>1, ShorterSound, Zenon
    <3> QED
      BY <1>1, <3>2, Zenon
  <2> QED
    BY <2>1, <2>2, Zenon
<1>4. Len(b) \in S
  <2>1. 0 .. Len(b) \subseteq S
    <3> HIDE DEF S
    <3> QED
      BY <1>0, <1>2, <1>3, Induction
  <2>2. Len(b) \in 0 .. Len(b)
    BY <1>0
  <2> QED
    BY <2>1, <2>2, Zenon
<1>5. b \in UpTo(Len(b))
  <2>1. Len(b) <= Len(b)
    BY <1>0
  <2> QED
    BY <2>1, Zenon DEF UpTo
<1> QED
  BY <1>4, <1>5, Zenon DEF Parse
-----------------------------------------------------------------------------
(* More bytes do not change what has been parsed *)

\* A piece of b is a piece of b \o m.
LEMMA Piece ==
  ASSUME NEW b \in Seq(Byte), NEW m \in Seq(Byte), NEW i \in Nat \ {0}, NEW j \in Int, j <= Len(b)
  PROVE  SubSeq(b \o m, i, j) = SubSeq(b, i, j)
<1>1. CASE j < i
  BY <1>1, SubSeqEmpty
<1>2. CASE ~(j < i)
  <2>1. i \in 1 .. Len(b) /\ j \in 1 .. Len(b)
    BY <1>2
  <2> QED
    BY <2>1, SubSeqOfConcat1
<1> QED
  BY <1>1, <1>2

\* What is behind n bytes of b is in front of m.
LEMMA RestBefore ==
  ASSUME NEW b \in Seq(Byte), NEW m \in Seq(Byte), NEW n \in 0 .. Len(b)
  PROVE  SubSeq(b \o m, n + 1, Len(b \o m)) = SubSeq(b, n + 1, Len(b)) \o m
<1> DEFINE c == SubSeq(b, n + 1, Len(b))
           d == SubSeq(b \o m, n + 1, Len(b \o m))
<1>1. /\ b \o m \in Seq(Byte) /\ Len(b \o m) = Len(b) + Len(m) /\ Len(b) \in Nat /\ Len(m) \in Nat
      /\ \A i \in 1 .. Len(b) + Len(m) : (b \o m)[i] = IF i <= Len(b) THEN b[i] ELSE m[i - Len(b)]
  BY ConcatProperties
<1> DEFINE bm == b \o m
<1> HIDE DEF bm
<1>2. /\ c \in Seq(Byte) /\ Len(c) = Len(b) - n
      /\ \A i \in 1 .. Len(b) - n : c[i] = b[n + i]
  <2>1. n + 1 \in Int /\ Len(b) \in Int /\ \A i \in n + 1 .. Len(b) : b[i] \in Byte
    OBVIOUS
  <2>2. /\ c \in Seq(Byte)
        /\ Len(c) = IF n + 1 <= Len(b) THEN Len(b) - (n + 1) + 1 ELSE 0
        /\ \A i \in 1 .. Len(b) - (n + 1) + 1 : c[i] = b[n + 1 + i - 1]
    BY <2>1, SubSeqProperties
  <2> HIDE DEF c
  <2>3. Len(c) = Len(b) - n
    BY <1>1, <2>2
  <2>4. ASSUME NEW i \in 1 .. Len(b) - n PROVE c[i] = b[n + i]
    <3>1. i \in 1 .. Len(b) - (n + 1) + 1 /\ n + 1 + i - 1 = n + i
      BY <1>1
    <3> QED
      BY <2>2, <3>1
  <2> QED
    BY <2>2, <2>3, <2>4
<1>3. /\ d \in Seq(Byte) /\ Len(d) = Len(b) + Len(m) - n
      /\ \A i \in 1 .. Len(b) + Len(m) - n : d[i] = bm[n + i]
  <2>0. bm \in Seq(Byte) /\ Len(bm) = Len(b) + Len(m) /\ d = SubSeq(bm, n + 1, Len(bm))
    BY <1>1 DEF bm
  <2>1. n + 1 \in Int /\ Len(bm) \in Int /\ \A i \in n + 1 .. Len(bm) : bm[i] \in Byte
    BY <1>1, <2>0
  <2> HIDE DEF d
  <2>2. /\ d \in Seq(Byte)
        /\ Len(d) = IF n + 1 <= Len(bm) THEN Len(bm) - (n + 1) + 1 ELSE 0
        /\ \A i \in 1 .. Len(bm) - (n + 1) + 1 : d[i] = bm[n + 1 + i - 1]
    BY <2>0, <2>1, SubSeqProperties
  <2>3. Len(d) = Len(b) + Len(m) - n
    BY <1>1, <2>0, <2>2
  <2>4. ASSUME NEW i \in 1 .. Len(b) + Len(m) - n PROVE d[i] = bm[n + i]
    <3>1. i \in 1 .. Len(bm) - (n + 1) + 1 /\ n + 1 + i - 1 = n + i
      <4> DEFINE x == Len(b)
                 y == Len(m)
                 z == Len(bm)
      <4>1. x \in Nat /\ y \in Nat /\ z = x + y /\ n \in 0 .. x /\ i \in 1 .. x + y - n
        BY <1>1, <2>0, Zenon
      <4> HIDE DEF x, y, z
      <4>2. i \in 1 .. z - (n + 1) + 1 /\ n + 1 + i - 1 = n + i
        BY <4>1
      <4> QED
        BY <4>2, Zenon DEF z
    <3> QED
      BY <2>2, <3>1
  <2> QED
    BY <2>2, <2>3, <2>4
<1> HIDE DEF c, d
<1>4. /\ c \o m \in Seq(Byte) /\ Len(c \o m) = Len(c) + Len(m)
      /\ \A i \in 1 .. Len(c) + Len(m) : (c \o m)[i] = IF i <= Len(c) THEN c[i] ELSE m[i - Len(c)]
  BY <1>2, ConcatProperties, Zenon
<1> DEFINE cm == c \o m
<1> HIDE DEF cm
<1>5. cm \in Seq(Byte) /\ Len(cm) = Len(d)
  BY <1>1, <1>2, <1>3, <1>4 DEF cm
<1>6. ASSUME NEW i \in 1 .. Len(d) PROVE d[i] = cm[i]
  <2>1. i \in 1 .. Len(b) + Len(m) - n /\ i \in 1 .. Len(c) + Len(m) /\ n + i \in 1 .. Len(b) + Len(m)
    BY <1>1, <1>2, <1>3
  <2>2. d[i] = IF n + i <= Len(b) THEN b[n + i] ELSE m[n + i - Len(b)]
    BY <1>1, <1>3, <2>1 DEF bm
  <2>3. cm[i] = IF i <= Len(c) THEN c[i] ELSE m[i - Len(c)]
    BY <1>4, <2>1 DEF cm
  <2>4. CASE i <= Len(c)
    <3>1. i \in 1 .. Len(b) - n /\ n + i <= Len(b)
      BY <1>1, <1>2, <2>1, <2>4
    <3> QED
      BY <1>2, <2>2, <2>3, <2>4, <3>1, Zenon
  <2>5. CASE ~(i <= Len(c))
    <3>1. ~(n + i <= Len(b)) /\ n + i - Len(b) = i - Len(c)
      BY <1>1, <1>2, <2>1, <2>5
    <3> QED
      BY <2>2, <2>3, <2>5, <3>1, Zenon
  <2> QED
    BY <2>4, <2>5
<1>7. d = cm
  BY <1>3, <1>5, <1>6, SeqEqual, Zenon
<1> QED
  BY <1>7, Zenon DEF c, d, cm

\* parse makes the same of b, whatever comes behind it.
Settled(b) ==
  Parse(b) # Incomplete => \A m \in Seq(Byte) : Parse(b \o m) = Parse(b)

LEMMA LineStays ==
  ASSUME NEW b \in Seq(Byte), NEW m \in Seq(Byte), CrlfAt(b) # 0
  PROVE  /\ CrlfAt(b \o m) = CrlfAt(b) /\ (b \o m)[1] = b[1]
         /\ SizeOf(b \o m) = SizeOf(b) /\ OfLine(b \o m) = OfLine(b)
         /\ \A c : Begins(b \o m, c) <=> Begins(b, c)
<1> DEFINE bm == b \o m
           k == CrlfAt(b)
<1>1. CrlfAt(bm) = k
  BY CrlfStays, Zenon
<1>2. k \in 1 .. Len(b) - 1
  BY FirstCrlf, Zenon
<1> HIDE DEF k
<1>3. bm[1] = b[1]
  <2>1. 1 \in 1 .. Len(b) /\ Len(b) \in Nat /\ Len(m) \in Nat
    BY <1>2
  <2> QED
    BY <2>1, ConcatProperties
<1>4. SubSeq(bm, 2, k - 1) = SubSeq(b, 2, k - 1) /\ SubSeq(bm, 1, k - 1) = SubSeq(b, 1, k - 1)
  <2>1. k - 1 \in Int /\ k - 1 <= Len(b)
    BY <1>2
  <2> QED
    BY <2>1, Piece
<1> HIDE DEF bm
<1>5. HeaderOf(bm) = HeaderOf(b)
  BY <1>1, <1>4, Zenon DEF HeaderOf, k
<1>6. SizeOf(bm) = SizeOf(b)
  BY <1>5, Zenon DEF SizeOf
<1>7. ParseInline(bm, k) = ParseInline(b, k)
  BY <1>4, Zenon DEF ParseInline
<1>8. OfLine(bm) = OfLine(b)
  <2>1. OfLine(bm) =
          (IF b[1] \notin Markers THEN ParseInline(b, k)
      ELSE CASE b[1].ch \in {"+", "-"} -> ParseSimple(HeaderOf(b), k + 1)
             [] b[1].ch = ":"          -> ParseInteger(HeaderOf(b), k + 1)
             [] b[1].ch = "_"          -> ParseNull(k + 1)
             [] b[1].ch = "#"          -> ParseBool(HeaderOf(b), k + 1)
             [] OTHER                  -> Invalid)
    BY <1>1, <1>3, <1>5, <1>7 DEF OfLine
  <2> QED
    BY <2>1, Zenon DEF OfLine, k
<1>9. \A c : Begins(bm, c) <=> Begins(b, c)
  BY <1>3, <1>6, Zenon DEF Begins
<1> QED
  BY <1>1, <1>3, <1>6, <1>8, <1>9, Zenon DEF bm, k

LEMMA BulkStringStays ==
  ASSUME NEW b \in Seq(Byte), NEW m \in Seq(Byte), NEW len \in Nat, NEW start \in 1 .. Len(b),
         ParseBulkString(b, len, start) # Incomplete
  PROVE  ParseBulkString(b \o m, len, start) = ParseBulkString(b, len, start)
<1> DEFINE bm == b \o m
           end == start + len
<1>1. ~(end + 2 > Len(b))
  BY Zenon DEF ParseBulkString
<1>2. Len(bm) = Len(b) + Len(m) /\ Len(m) \in Nat /\ Len(b) \in Nat
  BY ConcatProperties
<1> HIDE DEF bm
<1>3. /\ ~(end + 2 > Len(bm)) /\ end \in Int /\ end + 2 \in Int
      /\ end <= Len(b) /\ end + 2 <= Len(b) /\ end + 1 \in Nat \ {0} /\ start + 1 \in Nat \ {0}
  BY <1>1, <1>2
<1> HIDE DEF end
<1>4. /\ SubSeq(bm, end + 1, end + 2) = SubSeq(b, end + 1, end + 2)
      /\ SubSeq(bm, start + 1, end) = SubSeq(b, start + 1, end)
  BY <1>3, Piece DEF bm
<1>5. ParseBulkString(bm, len, start) =
        IF SubSeq(bm, end + 1, end + 2) # CRLF THEN Invalid
        ELSE IF ~Utf8(SubSeq(bm, start + 1, end)) THEN Invalid
        ELSE Ok(Bulk(SubSeq(bm, start + 1, end)), end + 2)
  BY <1>3, Zenon DEF ParseBulkString, end
<1>6. ParseBulkString(b, len, start) =
        IF SubSeq(b, end + 1, end + 2) # CRLF THEN Invalid
        ELSE IF ~Utf8(SubSeq(b, start + 1, end)) THEN Invalid
        ELSE Ok(Bulk(SubSeq(b, start + 1, end)), end + 2)
  BY <1>1, Zenon DEF ParseBulkString, end
<1> QED
  BY <1>4, <1>5, <1>6, Zenon DEF bm

LEMMA ArrayStays ==
  ASSUME NEW b \in Seq(Byte), NEW m \in Seq(Byte), NEW len \in Nat, NEW start \in 1 .. Len(b),
         \A c \in Seq(Byte) : Len(c) < Len(b) => Settled(c),
         ParseArray(b, len, start, ParseFcn) # Incomplete
  PROVE  ParseArray(b \o m, len, start, ParseFcn) = ParseArray(b, len, start, ParseFcn)
<1> DEFINE bm == b \o m
           P == ParseFcn
           E == ElementsUpTo(b, len, start, P)
           H == ElementsUpTo(bm, len, start, P)
           S == {i \in 0 .. len : E[i] # Incomplete => H[i] = E[i]}
<1> HIDE DEF P
<1>0. \A c \in Seq(Byte) : P[c] = Parse(c)
  BY Zenon DEF P, Parse
<1>1. /\ ParseArray(b, len, start, P) = ArrayOf(E[len])
      /\ E[0] = Ok(<<>>, start) /\ \A i \in 0 .. len - 1 : E[i + 1] = NextElement(E[i], b, P)
  BY ElementsRecursion
<1>2. /\ ParseArray(bm, len, start, P) = ArrayOf(H[len])
      /\ H[0] = Ok(<<>>, start) /\ \A i \in 0 .. len - 1 : H[i + 1] = NextElement(H[i], bm, P)
  BY ElementsRecursion
<1>3. \A i \in 0 .. len : IsPart(E[i], b, start)
  <2>1. Sound(P, b)
    BY <1>0, ParseResult, Zenon DEF Sound
  <2> QED
    BY <2>1, ElementsGive
<1> HIDE DEF E, H, bm
<1>4. 0 \in S
  BY <1>1, <1>2
<1>5. ASSUME NEW i \in 0 .. len - 1, i \in S PROVE i + 1 \in S
  <2>1. i \in 0 .. len /\ i + 1 \in 0 .. len
    OBVIOUS
  <2>2. ASSUME E[i + 1] # Incomplete PROVE H[i + 1] = E[i + 1]
    <3>1. E[i] # Incomplete
      BY <1>1, <2>2, Kinds, Zenon DEF NextElement
    <3>2. H[i] = E[i]
      BY <1>5, <3>1, Zenon
    <3>3. CASE Is("err", E[i])
      BY <1>1, <1>2, <3>2, <3>3, Zenon DEF NextElement
    <3>4. CASE ~Is("err", E[i])
      <4>1. PICK s : \E n \in start .. Len(b) : E[i] = Ok(s, n) /\ IsSeq(s)
        BY <1>3, <2>1, <3>4, Kinds, Zenon DEF IsPart
      <4>2. PICK n \in start .. Len(b) : E[i] = Ok(s, n)
        BY <4>1
      <4>3. n \in 1 .. Len(b) /\ n \in 0 .. Len(b)
        OBVIOUS
      <4> DEFINE c == SubSeq(b, n + 1, Len(b))
      <4>4. c \in Seq(Byte) /\ Len(c) < Len(b)
        BY <4>3, Rest, Zenon
      <4>5. SubSeq(bm, n + 1, Len(bm)) = c \o m
        BY <4>3, RestBefore, Zenon DEF bm
      <4>6. E[i].n = n
        BY <4>2, Kinds, Zenon
      <4>7. E[i + 1] = IF Is("err", P[c]) THEN P[c] ELSE Ok(Append(E[i].ok, P[c].ok), n + P[c].n)
        BY <1>1, <3>4, <4>6, Zenon DEF NextElement
      <4>8. H[i + 1] = IF Is("err", P[c \o m]) THEN P[c \o m]
                       ELSE Ok(Append(E[i].ok, P[c \o m].ok), n + P[c \o m].n)
        BY <1>2, <3>2, <3>4, <4>5, <4>6, Zenon DEF NextElement
      <4> HIDE DEF c
      <4>9. P[c] # Incomplete
        BY <2>2, <4>7, Kinds, Zenon
      <4>10. c \o m \in Seq(Byte)
        BY <4>4, ConcatProperties
      <4>11. P[c \o m] = P[c]
        BY <1>0, <4>4, <4>9, <4>10, Zenon DEF Settled
      <4> QED
        BY <4>7, <4>8, <4>11, Zenon
    <3> QED
      BY <3>3, <3>4
  <2> QED
    BY <2>1, <2>2, Zenon
<1>6. len \in S
  <2>1. 0 .. len \subseteq S
    <3> HIDE DEF S
    <3> QED
      BY <1>4, <1>5, Induction, Zenon
  <2>2. len \in 0 .. len
    OBVIOUS
  <2> QED
    BY <2>1, <2>2, Zenon
<1>7. E[len] # Incomplete
  <2>1. ParseArray(b, len, start, P) # Incomplete
    BY DEF P
  <2> QED
    BY <1>1, <2>1, Kinds, Zenon DEF ArrayOf
<1>8. H[len] = E[len]
  BY <1>6, <1>7, Zenon
<1>9. ParseArray(bm, len, start, P) = ParseArray(b, len, start, P)
  BY <1>1, <1>2, <1>8, Zenon
<1> QED
  BY <1>9, Zenon DEF bm, P

LEMMA SettledIfShorter ==
  ASSUME NEW b \in Seq(Byte), \A c \in Seq(Byte) : Len(c) < Len(b) => Settled(c)
  PROVE  Settled(b)
<1> SUFFICES ASSUME Parse(b) # Incomplete, NEW m \in Seq(Byte) PROVE Parse(b \o m) = Parse(b)
  BY Zenon DEF Settled
<1> DEFINE bm == b \o m
           P == ParseFcn
<1>1. bm \in Seq(Byte)
  BY ConcatProperties
<1>2. Parse(b) = ParseWith(P, b) /\ Parse(bm) = ParseWith(P, bm)
  BY <1>1, ParseUnfolds, Zenon
<1> HIDE DEF P
<1>3. CrlfAt(b) # 0
  BY <1>2, ParseCases, Zenon
<1>4. /\ CrlfAt(bm) = CrlfAt(b) /\ SizeOf(bm) = SizeOf(b) /\ OfLine(bm) = OfLine(b)
      /\ \A c : Begins(bm, c) <=> Begins(b, c)
  BY <1>3, LineStays, Zenon
<1> HIDE DEF bm
<1>5. CASE Begins(b, "*")
  <2>1. SizeOf(b).ok \in Nat /\ CrlfAt(b) + 1 \in 1 .. Len(b)
    BY <1>3, <1>5, Header, Zenon DEF Begins
  <2>2. Parse(b) = ParseArray(b, SizeOf(b).ok, CrlfAt(b) + 1, P)
    BY <1>2, <1>3, <1>5, ParseCases, Zenon
  <2>3. Parse(bm) = ParseArray(bm, SizeOf(b).ok, CrlfAt(b) + 1, P)
    BY <1>2, <1>3, <1>4, <1>5, ParseCases, Zenon
  <2>4. ParseArray(bm, SizeOf(b).ok, CrlfAt(b) + 1, P) = ParseArray(b, SizeOf(b).ok, CrlfAt(b) + 1, P)
    BY <2>1, <2>2, ArrayStays, Zenon DEF bm, P
  <2> QED
    BY <2>2, <2>3, <2>4, Zenon DEF bm
<1>6. CASE Begins(b, "$")
  <2>1. SizeOf(b).ok \in Nat /\ CrlfAt(b) + 1 \in 1 .. Len(b)
    BY <1>3, <1>6, Header, Zenon DEF Begins
  <2>2. Parse(b) = ParseBulkString(b, SizeOf(b).ok, CrlfAt(b) + 1)
    BY <1>2, <1>3, <1>6, ParseCases, Zenon
  <2>3. Parse(bm) = ParseBulkString(bm, SizeOf(b).ok, CrlfAt(b) + 1)
    BY <1>2, <1>3, <1>4, <1>6, ParseCases, Zenon
  <2>4. ParseBulkString(bm, SizeOf(b).ok, CrlfAt(b) + 1) = ParseBulkString(b, SizeOf(b).ok, CrlfAt(b) + 1)
    BY <2>1, <2>2, BulkStringStays, Zenon DEF bm
  <2> QED
    BY <2>2, <2>3, <2>4, Zenon DEF bm
<1>7. CASE ~Begins(b, "*") /\ ~Begins(b, "$")
  <2>1. Parse(b) = OfLine(b)
    BY <1>2, <1>3, <1>7, ParseCases, Zenon
  <2>2. Parse(bm) = OfLine(bm)
    BY <1>2, <1>3, <1>4, <1>7, ParseCases, Zenon
  <2> QED
    BY <1>4, <2>1, <2>2, Zenon DEF bm
<1> QED
  BY <1>5, <1>6, <1>7

\* What parse has made of a buffer it makes of every longer one: no error and no
\* value that Parser::parse returns depends on bytes that have not arrived.
THEOREM ParseSettles ==
  ASSUME NEW b \in Seq(Byte), NEW m \in Seq(Byte), Parse(b) # Incomplete
  PROVE  Parse(b \o m) = Parse(b)
<1> DEFINE S == {n \in 0 .. Len(b) : \A c \in UpTo(n) : Settled(c)}
<1>0. Len(b) \in Nat
  OBVIOUS
<1>1. 0 \in S
  <2>1. ASSUME NEW c \in UpTo(0) PROVE Settled(c)
    <3>1. c \in Seq(Byte) /\ Len(c) <= 0
      BY Zenon DEF UpTo
    <3>2. \A d \in Seq(Byte) : ~(Len(d) < Len(c))
      BY <3>1
    <3> QED
      BY <3>1, <3>2, SettledIfShorter, Zenon
  <2>2. 0 \in 0 .. Len(b)
    BY <1>0
  <2> QED
    BY <2>1, <2>2, Zenon
<1>2. ASSUME NEW k \in 0 .. Len(b) - 1, k \in S PROVE k + 1 \in S
  <2>1. k + 1 \in 0 .. Len(b) /\ \A c \in UpTo(k) : Settled(c)
    BY <1>0, <1>2
  <2>2. ASSUME NEW c \in UpTo(k + 1) PROVE Settled(c)
    <3>1. c \in Seq(Byte) /\ Len(c) <= k + 1
      BY Zenon DEF UpTo
    <3>2. ASSUME NEW d \in Seq(Byte), Len(d) < Len(c) PROVE Settled(d)
      <4>1. Len(d) <= k
        BY <3>1, <3>2
      <4> QED
        BY <2>1, <4>1, Zenon DEF UpTo
    <3> QED
      BY <3>1, <3>2, SettledIfShorter, Zenon
  <2> QED
    BY <2>1, <2>2, Zenon
<1>3. Len(b) \in S
  <2>1. 0 .. Len(b) \subseteq S
    <3> HIDE DEF S
    <3> QED
      BY <1>0, <1>1, <1>2, Induction, Zenon
  <2>2. Len(b) \in 0 .. Len(b)
    BY <1>0
  <2> QED
    BY <2>1, <2>2, Zenon
<1>4. b \in UpTo(Len(b))
  <2>1. Len(b) <= Len(b)
    BY <1>0
  <2> QED
    BY <2>1, Zenon DEF UpTo
<1> QED
  BY <1>3, <1>4, Zenon DEF Settled
-----------------------------------------------------------------------------
-----------------------------------------------------------------------------
(* Sequences of bytes *)

LEMMA Associative == \A a, b, c \in Seq(Byte) : (a \o b) \o c = a \o (b \o c)
  BY ConcatAssociative

LEMMA Cancels == \A a, b, c \in Seq(Byte) : a \o b = a \o c => b = c
  BY ConcatSimplifications, Zenon

LEMMA Joined ==
  ASSUME NEW a \in Seq(Byte), NEW b \in Seq(Byte)
  PROVE  a \o b \in Seq(Byte) /\ a \o <<>> = a /\ <<>> \o a = a
<1>1. a \o b \in Seq(Byte)
  BY ConcatProperties
<1>2. a \o <<>> = a /\ <<>> \o a = a
  BY ConcatEmptySeq
<1> QED
  BY <1>1, <1>2, Zenon

LEMMA ConcatSplit ==
  ASSUME NEW s \in Seq(Seq(Byte)), NEW k \in 0 .. Len(s)
  PROVE  /\ Len(s) \in Nat /\ ConcatUpTo(s)[k] \in Seq(Byte) /\ Concat(s) \in Seq(Byte)
         /\ \E t \in Seq(Byte) : Concat(s) = ConcatUpTo(s)[k] \o t
<1> DEFINE B == ConcatUpTo(s)
           n == Len(s)
           S == {i \in 0 .. n : B[i] \in Seq(Byte)}
           T == {j \in 0 .. n - k : \E t \in Seq(Byte) : B[k + j] = B[k] \o t}
<1>0. n \in Nat /\ \A i \in 1 .. n : s[i] \in Seq(Byte)
  OBVIOUS
<1>1. Concat(s) = B[n] /\ B[0] = <<>> /\ \A i \in 0 .. n - 1 : B[i + 1] = B[i] \o s[i + 1]
  BY <1>0, ConcatRecursion, Zenon
<1> HIDE DEF B, n
<1>2. ASSUME NEW i \in 0 .. n - 1 PROVE s[i + 1] \in Seq(Byte) /\ B[i + 1] = B[i] \o s[i + 1]
  <2>1. i + 1 \in 1 .. n
    BY <1>0
  <2> QED
    BY <1>0, <1>1, <2>1, Zenon
<1>3. 0 .. n \subseteq S
  <2>1. 0 \in S
    <3>1. <<>> \in Seq(Byte) /\ 0 \in 0 .. n
      BY <1>0
    <3> QED
      BY <1>1, <3>1, Zenon
  <2>2. ASSUME NEW i \in 0 .. n - 1, i \in S PROVE i + 1 \in S
    <3>1. B[i] \in Seq(Byte)
      BY <2>2, Zenon
    <3>2. B[i + 1] \in Seq(Byte)
      BY <1>2, <3>1, ConcatProperties, Zenon
    <3>3. i + 1 \in 0 .. n
      BY <1>0
    <3> QED
      BY <3>2, <3>3, Zenon
  <2> HIDE DEF S
  <2> QED
    BY <1>0, <2>1, <2>2, Induction, Zenon
<1>4. n \in 0 .. n /\ k \in 0 .. n /\ n - k \in Nat /\ k + (n - k) = n /\ n - k \in 0 .. n - k
  BY <1>0 DEF n
<1>5. B[k] \in Seq(Byte) /\ B[n] \in Seq(Byte)
  BY <1>3, <1>4, Zenon
<1>6. 0 .. n - k \subseteq T
  <2>1. 0 \in T
    <3>1. B[k + 0] = B[k] \o <<>> /\ <<>> \in Seq(Byte) /\ 0 \in 0 .. n - k
      <4>1. B[k] \o <<>> = B[k]
        BY <1>5, ConcatEmptySeq
      <4>2. k + 0 = k /\ <<>> \in Seq(Byte) /\ 0 \in 0 .. n - k
        BY <1>4
      <4> QED
        BY <4>1, <4>2
    <3> QED
      BY <3>1, Zenon
  <2>2. ASSUME NEW j \in 0 .. n - k - 1, j \in T PROVE j + 1 \in T
    <3>1. PICK t \in Seq(Byte) : B[k + j] = B[k] \o t
      BY <2>2, Zenon
    <3>2. k + j \in 0 .. n - 1 /\ (k + j) + 1 = k + (j + 1) /\ j + 1 \in 0 .. n - k
      BY <1>0, <1>4
    <3> DEFINE f == s[(k + j) + 1]
    <3>3. f \in Seq(Byte) /\ B[(k + j) + 1] = B[k + j] \o f
      BY <1>2, <3>2, Zenon
    <3> HIDE DEF f
    <3>4. B[(k + j) + 1] = B[k] \o (t \o f) /\ t \o f \in Seq(Byte)
      <4>1. (B[k] \o t) \o f = B[k] \o (t \o f)
        BY <1>5, <3>3, Associative, Zenon
      <4>2. t \o f \in Seq(Byte)
        BY <3>3, ConcatProperties
      <4> QED
        BY <3>1, <3>3, <4>1, <4>2, Zenon
    <3>5. B[k + (j + 1)] = B[k] \o (t \o f)
      BY <3>2, <3>4, Zenon
    <3> QED
      BY <3>2, <3>4, <3>5, Zenon
  <2> HIDE DEF T
  <2> QED
    BY <1>4, <2>1, <2>2, Induction, Zenon
<1>7. n - k \in T
  BY <1>4, <1>6, Zenon
<1>8. PICK t \in Seq(Byte) : B[k + (n - k)] = B[k] \o t
  BY <1>7, Zenon
<1>9. Concat(s) = B[k] \o t
  BY <1>1, <1>4, <1>8
<1> QED
  BY <1>0, <1>1, <1>5, <1>9, Zenon DEF B, n

LEMMA Sequence ==
  ASSUME NEW s, IsSeq(s), NEW e
  PROVE  /\ Len(s) \in Nat /\ DOMAIN s = 1 .. Len(s)
         /\ IsSeq(Append(s, e)) /\ Len(Append(s, e)) = Len(s) + 1
         /\ \A i \in 1 .. Len(s) : Append(s, e)[i] = s[i]
         /\ Append(s, e)[Len(s) + 1] = e
<1>1. PICK S : s \in Seq(S)
  BY Zenon DEF IsSeq
<1>2. s \in Seq(S \cup {e}) /\ e \in S \cup {e}
  BY <1>1
<1>3. /\ Append(s, e) \in Seq(S \cup {e}) /\ Len(Append(s, e)) = Len(s) + 1
      /\ \A i \in 1 .. Len(s) : Append(s, e)[i] = s[i]
      /\ Append(s, e)[Len(s) + 1] = e
  BY <1>2, AppendProperties
<1>4. Len(s) \in Nat /\ DOMAIN s = 1 .. Len(s)
  BY <1>1
<1>5. IsSeq(Append(s, e))
  BY <1>3, Zenon DEF IsSeq
<1> QED
  BY <1>3, <1>4, <1>5, Zenon

LEMMA EmptyIsSeq == IsSeq(<<>>) /\ Len(<<>>) = 0
<1>1. <<>> \in Seq({})
  OBVIOUS
<1>2. Len(<<>>) = 0
  OBVIOUS
<1> QED
  BY <1>1, <1>2, Zenon DEF IsSeq

-----------------------------------------------------------------------------
(* Numbers: str::parse reads what itoa wrote *)

DigitByte == [digit : 0 .. 9]

LEMMA DigitIsByte ==
  /\ \A d \in 0 .. 9 : Digit(d) \in DigitByte /\ Digit(d).digit = d
  /\ \A x \in DigitByte : /\ x \in Byte /\ Is("digit", x) /\ x.digit \in 0 .. 9
                          /\ \A c : x # Ch(c)
BY DEF Digit, DigitByte, Byte, Is, Ch

\* One digit more.
LEMMA ValueAppend ==
  ASSUME NEW b \in Seq(DigitByte), NEW d \in 0 .. 9
  PROVE  /\ Append(b, Digit(d)) \in Seq(DigitByte)
         /\ ValueOf(b) \in Nat
         /\ ValueOf(Append(b, Digit(d))) = 10 * ValueOf(b) + d
<1> DEFINE x == Digit(d)
           n == Len(b)
           c == Append(b, x)
           B == ValueUpTo(b)
           C == ValueUpTo(c)
           S == {i \in 0 .. n : B[i] \in Nat /\ C[i] = B[i]}
<1>1. x \in DigitByte /\ x.digit = d
  BY DigitIsByte
<1> HIDE DEF x
<1>2. /\ c \in Seq(DigitByte) /\ Len(c) = n + 1 /\ n \in Nat
      /\ c[n + 1] = x /\ \A i \in 1 .. n : c[i] = b[i]
  BY <1>1, AppendProperties
<1>3. /\ ValueOf(b) = B[n] /\ B[0] = 0
      /\ \A i \in 0 .. n - 1 : B[i + 1] = 10 * B[i] + b[i + 1].digit
  BY <1>2, ValueRecursion, Zenon
<1>4. /\ ValueOf(c) = C[n + 1] /\ C[0] = 0
      /\ \A i \in 0 .. (n + 1) - 1 : C[i + 1] = 10 * C[i] + c[i + 1].digit
  <2>1. Len(c) \in Nat
    BY <1>2
  <2>2. /\ ValueOf(c) = C[Len(c)] /\ C[0] = 0
        /\ \A i \in 0 .. Len(c) - 1 : C[i + 1] = 10 * C[i] + c[i + 1].digit
    BY <2>1, ValueRecursion, Zenon
  <2> QED
    BY <1>2, <2>2, Zenon
<1> HIDE DEF B, C, c
<1>5. 0 \in S
  BY <1>2, <1>3, <1>4
<1>6. ASSUME NEW i \in 0 .. n - 1, i \in S PROVE i + 1 \in S
  <2>1. i + 1 \in 0 .. n /\ i + 1 \in 1 .. n /\ i \in 0 .. (n + 1) - 1
    BY <1>2
  <2>2. b[i + 1].digit \in 0 .. 9 /\ c[i + 1] = b[i + 1]
    <3>1. b[i + 1] \in DigitByte
      BY <2>1
    <3> QED
      BY <1>2, <2>1, <3>1, DigitIsByte, Zenon
  <2>3. B[i] \in Nat /\ C[i] = B[i]
    BY <1>6, Zenon
  <2>4. B[i + 1] = 10 * B[i] + b[i + 1].digit /\ C[i + 1] = 10 * C[i] + c[i + 1].digit
    BY <1>3, <1>4, <2>1, Zenon
  <2>5. C[i + 1] = B[i + 1]
    BY <2>2, <2>3, <2>4, Zenon
  <2>6. B[i + 1] \in Nat
    <3>1. \A p \in Nat : \A q \in 0 .. 9 : 10 * p + q \in Nat
      OBVIOUS
    <3> QED
      BY <2>2, <2>3, <2>4, <3>1, Zenon
  <2> QED
    BY <2>1, <2>5, <2>6, Zenon
<1>7. n \in S
  <2>1. 0 .. n \subseteq S
    <3> HIDE DEF S, n
    <3> QED
      BY <1>2, <1>5, <1>6, Induction, Zenon
  <2>2. n \in 0 .. n
    BY <1>2
  <2> QED
    BY <2>1, <2>2, Zenon
<1>8. C[n + 1] = 10 * C[n] + d
  <2>1. n \in 0 .. (n + 1) - 1
    BY <1>2
  <2> QED
    BY <1>1, <1>2, <1>4, <2>1, Zenon
<1> QED
  BY <1>2, <1>3, <1>4, <1>7, <1>8, Zenon DEF c, x

LEMMA OneDigit ==
  ASSUME NEW d \in 0 .. 9
  PROVE  <<Digit(d)>> \in Seq(DigitByte) /\ ValueOf(<<Digit(d)>>) = d
<1>1. Append(<<>>, Digit(d)) = <<Digit(d)>> /\ <<>> \in Seq(DigitByte) /\ Len(<<>>) = 0 /\ 0 \in Nat
  OBVIOUS
<1>2. ValueOf(<<>>) = 0
  BY <1>1, ValueRecursion, Zenon
<1>3. 10 * 0 + d = d
  OBVIOUS
<1> QED
  BY <1>1, <1>2, <1>3, ValueAppend

\* What itoa writes for a number that is not negative.
LEMMA DigitsWritten ==
  ASSUME NEW n \in Nat
  PROVE  Digits(n) \in Seq(DigitByte) /\ Digits(n) # <<>> /\ ValueOf(Digits(n)) = n
<1> DEFINE D == DigitsUpTo(n)
           Good(i) == D[i] \in Seq(DigitByte) /\ D[i] # <<>> /\ ValueOf(D[i]) = i
           S == {m \in 0 .. n : \A i \in 0 .. m : Good(i)}
<1>1. /\ Digits(n) = D[n]
      /\ \A i \in 0 .. n : D[i] = IF i < 10 THEN <<Digit(i)>> ELSE Append(D[i \div 10], Digit(i % 10))
  BY DigitsRecursion, Zenon
<1> HIDE DEF D
<1>2. ASSUME NEW i \in 0 .. n, \A j \in 0 .. i - 1 : Good(j) PROVE Good(i)
  <2>1. CASE i < 10
    <3>1. i \in 0 .. 9
      BY <2>1
    <3>2. D[i] = <<Digit(i)>>
      BY <1>1, <2>1, Zenon
    <3>3. <<Digit(i)>> # <<>>
      OBVIOUS
    <3> QED
      BY <3>1, <3>2, <3>3, OneDigit, Zenon
  <2>2. CASE ~(i < 10)
    <3> DEFINE q == i \div 10
               r == i % 10
    <3>1. i \in Nat
      OBVIOUS
    <3>2. r \in 0 .. 9 /\ i = 10 * q + r /\ q \in 0 .. i - 1
      BY <2>2, <3>1, Division
    <3>3. D[i] = Append(D[q], Digit(r))
      BY <1>1, <2>2, Zenon
    <3> HIDE DEF q, r
    <3>4. Good(q)
      BY <1>2, <3>2, Zenon
    <3>5. /\ Append(D[q], Digit(r)) \in Seq(DigitByte)
          /\ ValueOf(Append(D[q], Digit(r))) = 10 * q + r
      BY <3>2, <3>4, ValueAppend, Zenon
    <3>6. Append(D[q], Digit(r)) # <<>>
      <4>1. Len(Append(D[q], Digit(r))) = Len(D[q]) + 1 /\ Len(D[q]) \in Nat
        BY <3>4, DigitIsByte, AppendProperties, <3>2
      <4> QED
        BY <4>1
    <3> QED
      BY <3>2, <3>3, <3>5, <3>6, Zenon
  <2> QED
    BY <2>1, <2>2, Zenon
<1> HIDE DEF Good
<1>3. 0 \in S
  <2>1. \A j \in 0 .. 0 - 1 : Good(j)
    OBVIOUS
  <2>2. 0 \in 0 .. n /\ \A i \in 0 .. 0 : i = 0
    OBVIOUS
  <2> QED
    BY <1>2, <2>1, <2>2, Zenon
<1>4. ASSUME NEW m \in 0 .. n - 1, m \in S PROVE m + 1 \in S
  <2>1. /\ m + 1 \in 0 .. n /\ (m + 1) - 1 = m
        /\ \A i \in 0 .. m + 1 : i = m + 1 \/ i \in 0 .. m
    OBVIOUS
  <2>2. \A i \in 0 .. m : Good(i)
    BY <1>4, Zenon
  <2>3. Good(m + 1)
    BY <1>2, <2>1, <2>2, Zenon
  <2> QED
    BY <2>1, <2>2, <2>3, Zenon
<1>5. Good(n)
  <2>1. 0 .. n \subseteq S
    <3> HIDE DEF S
    <3> QED
      BY <1>3, <1>4, Induction, Zenon
  <2>2. n \in 0 .. n
    OBVIOUS
  <2> QED
    BY <2>1, <2>2, Zenon
<1> QED
  BY <1>1, <1>5, Zenon DEF Good

LEMMA MarkIsByte == \A c \in Character : Ch(c) \in Byte
BY DEF Byte, Ch

LEMMA MinusIsByte == Ch("-") \in Byte
<1>1. "-" \in Character
  BY DEF Character
<1> QED
  BY <1>1, MarkIsByte, Zenon

LEMMA DigitsAreNumber ==
  ASSUME NEW b \in Seq(DigitByte), b # <<>>
  PROVE  IsNumber(b) /\ Head(b) \in DigitByte /\ b \in Seq(Byte)
<1>1. \A i \in DOMAIN b : b[i] \in DigitByte
  OBVIOUS
<1>2. IsNumber(b)
  BY <1>1, DigitIsByte, Zenon DEF IsNumber
<1>3. Head(b) \in DigitByte
  OBVIOUS
<1>4. b \in Seq(Byte)
  <2>1. DigitByte \subseteq Byte
    BY DigitIsByte, Zenon
  <2> QED
    BY <2>1
<1> QED
  BY <1>2, <1>3, <1>4

\* Unsigned digits are read as their value, with or without a sign allowed.
LEMMA NumberOfDigits ==
  ASSUME NEW b \in Seq(DigitByte), b # <<>>, NEW min, NEW max, ValueOf(b) \in min .. max
  PROVE  ParseNumber(b, min, max) = Ok(ValueOf(b), 0)
<1> DEFINE signs  == {Ch("+")} \cup IF min < 0 THEN {Ch("-")} ELSE {}
           signed == b # <<>> /\ Head(b) \in signs
<1>1. IsNumber(b) /\ Head(b) \in DigitByte
  BY DigitsAreNumber, Zenon
<1>2. Head(b) # Ch("+") /\ Head(b) # Ch("-")
  BY <1>1, DigitIsByte, Zenon
<1>3. ~signed
  BY <1>2, Zenon
<1> QED
  BY <1>1, <1>3, Zenon DEF ParseNumber

\* Digits behind a minus sign are read as the negative value.
LEMMA NumberOfNegative ==
  ASSUME NEW b \in Seq(DigitByte), b # <<>>, NEW min \in Int, NEW max \in Int, min < 0,
         -ValueOf(b) \in min .. max
  PROVE  ParseNumber(<<Ch("-")>> \o b, min, max) = Ok(-ValueOf(b), 0)
<1> DEFINE c == <<Ch("-")>> \o b
           signs  == {Ch("+")} \cup IF min < 0 THEN {Ch("-")} ELSE {}
           signed == c # <<>> /\ Head(c) \in signs
<1>1. IsNumber(b) /\ b \in Seq(Byte)
  BY DigitsAreNumber, Zenon
<1>2. c # <<>> /\ Head(c) = Ch("-") /\ Tail(c) = b
  <2> DEFINE x == Ch("-")
  <2>1. x \in Byte
    BY MinusIsByte, Zenon
  <2> HIDE DEF x
  <2>2. <<x>> \o b # <<>> /\ Head(<<x>> \o b) = x /\ Tail(<<x>> \o b) = b
    BY <1>1, <2>1
  <2> QED
    BY <2>2 DEF x
<1> HIDE DEF c
<1>3. signed
  BY <1>2, Zenon
<1> QED
  BY <1>1, <1>2, <1>3, Zenon DEF ParseNumber, c

\* The bytes are on one line.
OneLine(s) == \A j \in 1 .. Len(s) - 1 : ~CrlfHere(s, j)

LEMMA DigitsOneLine ==
  ASSUME NEW b \in Seq(DigitByte)
  PROVE  OneLine(b) /\ OneLine(<<Ch("-")>> \o b) /\ <<Ch("-")>> \o b \in Seq(Byte)
<1>1. ASSUME NEW c \in Seq(DigitByte \cup {Ch("-")}) PROVE OneLine(c) /\ c \in Seq(Byte)
  <2>1. ASSUME NEW x \in DigitByte \cup {Ch("-")} PROVE x # Ch("\r") /\ x \in Byte
    <3>1. CASE x \in DigitByte
      BY <3>1, DigitIsByte, Zenon
    <3>2. CASE x = Ch("-")
      <4>1. Ch("-") \in Byte /\ "-" # "\r"
        BY MinusIsByte, Zenon
      <4> QED
        BY <3>2, <4>1, Chars, Zenon
    <3> QED
      BY <3>1, <3>2, Zenon
  <2>2. \A j \in 1 .. Len(c) - 1 : c[j] \in DigitByte \cup {Ch("-")}
    <3> DEFINE T == DigitByte \cup {Ch("-")}
    <3> HIDE DEF T
    <3>1. c \in Seq(T) => \A j \in 1 .. Len(c) - 1 : c[j] \in T
      OBVIOUS
    <3> QED
      BY <3>1, Zenon DEF T
  <2>3. OneLine(c)
    BY <2>1, <2>2, Zenon DEF OneLine, CrlfHere
  <2>4. c \in Seq(Byte)
    <3>1. DigitByte \cup {Ch("-")} \subseteq Byte
      BY <2>1, Zenon
    <3> HIDE DEF DigitByte, Byte, Ch
    <3> QED
      BY <3>1
  <2> QED
    BY <2>3, <2>4
<1> DEFINE T == DigitByte \cup {Ch("-")}
<1>2. DigitByte \subseteq T /\ Ch("-") \in T
  BY Zenon
<1> HIDE DEF T
<1>3. b \in Seq(T) /\ <<Ch("-")>> \in Seq(T)
  BY <1>2
<1>4. <<Ch("-")>> \o b \in Seq(T)
  BY <1>3, ConcatProperties
<1> QED
  BY <1>1, <1>3, <1>4, Zenon DEF T

\* What itoa writes is one line, and str::parse reads the number back.
LEMMA NumberReadBack ==
  ASSUME NEW n \in Int
  PROVE  /\ Itoa(n) \in Seq(Byte) /\ OneLine(Itoa(n))
         /\ \A max \in Nat : n \in 0 .. max => ParseNumber(Itoa(n), 0, max) = Ok(n, 0)
         /\ \A max \in Nat : n \in -max - 1 .. max => ParseNumber(Itoa(n), -max - 1, max) = Ok(n, 0)
<1>1. CASE n \in Nat
  <2> DEFINE b == Digits(n)
  <2>1. b \in Seq(DigitByte) /\ b # <<>> /\ ValueOf(b) = n
    BY <1>1, DigitsWritten, Zenon
  <2>2. Itoa(n) = b
    <3>1. ~(n < 0)
      BY <1>1
    <3> QED
      BY <3>1, Zenon DEF Itoa
  <2> HIDE DEF b
  <2>3. OneLine(b) /\ b \in Seq(Byte)
    BY <2>1, DigitsOneLine, DigitsAreNumber, Zenon
  <2> QED
    BY <2>1, <2>2, <2>3, NumberOfDigits, Zenon
<1>2. CASE n \notin Nat
  <2> DEFINE b == Digits(-n)
             c == <<Ch("-")>> \o b
  <2>1. -n \in Nat /\ n < 0 /\ -(-n) = n
    BY <1>2
  <2>2. b \in Seq(DigitByte) /\ b # <<>> /\ ValueOf(b) = -n
    BY <2>1, DigitsWritten, Zenon
  <2>3. Itoa(n) = c
    BY <2>1, Zenon DEF Itoa
  <2> HIDE DEF b
  <2>4. OneLine(c) /\ c \in Seq(Byte)
    BY <2>2, DigitsOneLine, Zenon
  <2>5. ASSUME NEW max \in Nat, n \in -max - 1 .. max PROVE ParseNumber(c, -max - 1, max) = Ok(n, 0)
    <3>1. -max - 1 \in Int /\ max \in Int /\ -max - 1 < 0
      OBVIOUS
    <3>2. -ValueOf(b) = n
      BY <2>1, <2>2, Zenon
    <3> QED
      BY <2>2, <2>5, <3>1, <3>2, NumberOfNegative, Zenon
  <2>6. \A max \in Nat : ~(n \in 0 .. max)
    BY <2>1
  <2> HIDE DEF c
  <2> QED
    BY <2>3, <2>4, <2>5, <2>6, Zenon
<1> QED
  BY <1>1, <1>2, Zenon
-----------------------------------------------------------------------------
(* Lines *)

LEMMA CrlfBytes ==
  /\ CRLF \in Seq(Byte) /\ Len(CRLF) = 2 /\ CRLF[1] = Ch("\r") /\ CRLF[2] = Ch("\n")
  /\ Ch("\r") # Ch("\n")
<1>1. "\r" # "\n" /\ "\r" \in Character /\ "\n" \in Character
  BY DEF Character
<1>2. Ch("\r") # Ch("\n") /\ Ch("\r") \in Byte /\ Ch("\n") \in Byte
  BY <1>1, Chars, MarkIsByte, Zenon
<1> DEFINE r == Ch("\r")
           l == Ch("\n")
<1> HIDE DEF r, l
<1>3. r \in Byte /\ l \in Byte => <<r, l>> \in Seq(Byte) /\ Len(<<r, l>>) = 2 /\ <<r, l>>[1] = r /\ <<r, l>>[2] = l
  OBVIOUS
<1> QED
  BY <1>2, <1>3, Zenon DEF CRLF, r, l

\* A line that begins with a mark: where it ends, and what it holds.
LEMMA LineRead ==
  ASSUME NEW c \in Character, c # "\r", NEW s \in Seq(Byte), OneLine(s)
  PROVE  LET b == LineOf(c, s) IN
         /\ b \in Seq(Byte) /\ Len(b) = Len(s) + 3
         /\ b[1] = Ch(c) /\ CrlfAt(b) = Len(s) + 2 /\ HeaderOf(b) = s
         /\ CrlfAt(b) # 0 /\ CrlfAt(b) + 1 = Len(b)
<1> DEFINE b == LineOf(c, s)
           m == Ch(c)
           r == Ch("\r")
           l == Ch("\n")
           n == Len(s)
<1>1. m \in Byte /\ m # r /\ r # l /\ r \in Byte /\ l \in Byte
  <2>1. "\r" \in Character /\ "\n" \in Character
    BY DEF Character
  <2> QED
    BY <2>1, Chars, MarkIsByte, CrlfBytes, Zenon
<1>2. b = (<<m>> \o s) \o <<r, l>>
  BY Zenon DEF LineOf, CRLF
<1> HIDE DEF b, m, r, l
<1>3. /\ b \in Seq(Byte) /\ Len(b) = n + 3 /\ n \in Nat
      /\ b[1] = m /\ b[n + 2] = r /\ b[n + 3] = l
      /\ \A j \in 1 .. n : b[j + 1] = s[j]
  BY <1>1, <1>2
<1>4. SubSeq(b, 2, n + 1) = s
  <2>1. SubSeq(b, 2, n + 1) \in Seq(Byte) /\ Len(SubSeq(b, 2, n + 1)) = n
    BY <1>3
  <2>2. \A j \in 1 .. n : SubSeq(b, 2, n + 1)[j] = s[j]
    BY <1>3
  <2> QED
    BY <2>1, <2>2
<1>5. CrlfHere(b, n + 2) /\ n + 2 \in 1 .. Len(b) - 1
  <2>1. (n + 2) + 1 = n + 3 /\ n + 2 \in 1 .. Len(b) - 1
    BY <1>3
  <2> QED
    BY <1>3, <2>1, Zenon DEF CrlfHere, r, l
<1>6. ASSUME NEW j \in 1 .. n + 1 PROVE ~CrlfHere(b, j)
  <2>1. CASE j = 1
    BY <1>1, <1>3, <2>1, Zenon DEF CrlfHere, r
  <2>2. CASE j = n + 1
    <3>1. j + 1 = n + 2
      BY <1>3, <2>2
    <3> QED
      BY <1>1, <1>3, <3>1, Zenon DEF CrlfHere, r, l
  <2>3. CASE j # 1 /\ j # n + 1
    <3>1. PICK i \in 1 .. n - 1 : j = i + 1
      <4>1. j - 1 \in 1 .. n - 1 /\ j = (j - 1) + 1
        BY <1>3, <2>3
      <4> QED
        BY <4>1, Zenon
    <3>2. i \in 1 .. n /\ i + 1 \in 1 .. n
      BY <1>3
    <3>3. b[j] = s[i] /\ b[j + 1] = s[i + 1]
      BY <1>3, <3>1, <3>2, Zenon
    <3>4. ~CrlfHere(s, i)
      BY Zenon DEF OneLine
    <3> QED
      BY <3>3, <3>4, Zenon DEF CrlfHere
  <2> QED
    BY <2>1, <2>2, <2>3, Zenon
<1>7. CrlfAt(b) = n + 2
  <2> DEFINE k == CrlfAt(b)
  <2>1. k \in 1 .. Len(b) - 1 /\ CrlfHere(b, k) /\ k <= n + 2
    BY <1>3, <1>5, FirstCrlf, Zenon
  <2>2. k \notin 1 .. n + 1
    BY <1>6, <2>1, Zenon
  <2> HIDE DEF k
  <2>3. k = n + 2
    BY <1>3, <2>1, <2>2
  <2> QED
    BY <2>3 DEF k
<1>8. HeaderOf(b) = s
  <2>1. (n + 2) - 1 = n + 1
    BY <1>3
  <2> QED
    BY <1>4, <1>7, <2>1, Zenon DEF HeaderOf
<1>9. n + 2 # 0 /\ (n + 2) + 1 = n + 3
  BY <1>3
<1> QED
  BY <1>3, <1>7, <1>8, <1>9, Zenon DEF b, m
-----------------------------------------------------------------------------
(* Values that are no arrays *)

\* A simple string or an error that holds a CRLF would end there.
OneLiners ==
  {v \in Scalar : /\ Is("simple", v) => CrlfAt(v.simple) = 0
                  /\ Is("error", v) => CrlfAt(v.error) = 0}

RereadScalar(v) == IF Is("error", v) THEN Simple(v.error) ELSE v

LEMMA NoCrlf ==
  ASSUME NEW s \in Seq(Byte), CrlfAt(s) = 0
  PROVE  OneLine(s)
<1>1. \A n \in Int : 0 \notin 1 .. n - 1
  OBVIOUS
<1>2. Len(s) \in Int
  OBVIOUS
<1> QED
  BY <1>1, <1>2, FirstCrlf, Zenon DEF OneLine

LEMMA Types ==
  /\ \A t, x : /\ Is(t, Simple(x)) <=> t = "simple"
               /\ Is(t, Error(x)) <=> t = "error"
               /\ Is(t, Int_(x)) <=> t = "int"
               /\ Is(t, Bulk(x)) <=> t = "bulk"
               /\ Is(t, Boolean_(x)) <=> t = "bool"
               /\ Is(t, Null) <=> t = "null"
               /\ Is(t, Array(x)) <=> t = "array"
  /\ \A x : /\ Simple(x).simple = x /\ Error(x).error = x /\ Int_(x).int = x /\ Bulk(x).bulk = x
            /\ Boolean_(x).bool = x /\ Array(x).array = x
<1>1. \A t, x : /\ Is(t, Simple(x)) <=> t = "simple"
                /\ Is(t, Error(x)) <=> t = "error"
                /\ Is(t, Int_(x)) <=> t = "int"
                /\ Is(t, Bulk(x)) <=> t = "bulk"
                /\ Is(t, Boolean_(x)) <=> t = "bool"
                /\ Is(t, Null) <=> t = "null"
                /\ Is(t, Array(x)) <=> t = "array"
  BY DEF Is, Simple, Error, Int_, Bulk, Boolean_, Null, Array
<1>2. \A x : /\ Simple(x).simple = x /\ Error(x).error = x /\ Int_(x).int = x /\ Bulk(x).bulk = x
             /\ Boolean_(x).bool = x /\ Array(x).array = x
  BY DEF Simple, Error, Int_, Bulk, Boolean_, Array
<1> QED
  BY <1>1, <1>2, Zenon

LEMMA ScalarTypes ==
  ASSUME NEW v \in Scalar
  PROVE  \/ \E s \in Str : v = Simple(s) \/ v = Error(s) \/ v = Bulk(s)
         \/ \E n \in -I64Max - 1 .. I64Max : v = Int_(n)
         \/ v = Boolean_(TRUE) \/ v = Boolean_(FALSE)
         \/ v = Null
<1>1. CASE v \in [simple : Str]
  <2>1. v = Simple(v.simple) /\ v.simple \in Str
    BY <1>1 DEF Simple
  <2> QED
    BY <2>1, Zenon
<1>2. CASE v \in [error : Str]
  <2>1. v = Error(v.error) /\ v.error \in Str
    BY <1>2 DEF Error
  <2> QED
    BY <2>1, Zenon
<1>3. CASE v \in [bulk : Str]
  <2>1. v = Bulk(v.bulk) /\ v.bulk \in Str
    BY <1>3 DEF Bulk
  <2> QED
    BY <2>1, Zenon
<1>4. CASE v \in [int : -I64Max - 1 .. I64Max]
  <2> DEFINE I == -I64Max - 1 .. I64Max
  <2> HIDE DEF I
  <2>1. v \in [int : I] => v = Int_(v.int) /\ v.int \in I
    BY DEF Int_
  <2> QED
    BY <1>4, <2>1, Zenon DEF I
<1>5. CASE v \in [bool : BOOLEAN]
  <2>1. v = Boolean_(v.bool) /\ v.bool \in BOOLEAN
    BY <1>5 DEF Boolean_
  <2>2. v.bool = TRUE \/ v.bool = FALSE
    BY <2>1, Zenon
  <2> QED
    BY <2>1, <2>2, Zenon
<1> QED
  BY <1>1, <1>2, <1>3, <1>4, <1>5, Zenon DEF Scalar

\* parse of one line that is all there is.
LEMMA LineParsed ==
  ASSUME NEW c \in {"+", "-", ":", "_", "#"}, NEW s \in Seq(Byte), OneLine(s)
  PROVE  LET b == LineOf(c, s) IN
         /\ b \in Seq(Byte)
         /\ c \in {"+", "-"} => Parse(b) = ParseSimple(s, Len(b))
         /\ c = ":" => Parse(b) = ParseInteger(s, Len(b))
         /\ c = "_" => Parse(b) = ParseNull(Len(b))
         /\ c = "#" => Parse(b) = ParseBool(s, Len(b))
<1> DEFINE b == LineOf(c, s)
<1>1. c \in Character /\ c # "\r" /\ c # "*" /\ c # "$"
  BY DEF Character
<1>2. /\ b \in Seq(Byte) /\ Len(b) = Len(s) + 3
      /\ b[1] = Ch(c) /\ HeaderOf(b) = s
      /\ CrlfAt(b) # 0 /\ CrlfAt(b) + 1 = Len(b)
  BY <1>1, LineRead, Zenon
<1> HIDE DEF b
<1>3. ~Begins(b, "*") /\ ~Begins(b, "$")
  BY <1>1, <1>2, Chars, Zenon DEF Begins
<1>4. Parse(b) = OfLine(b)
  BY <1>2, <1>3, ParseUnfolds, ParseCases, Zenon
<1>5. b[1] \in Markers /\ b[1].ch = c
  BY <1>2, Chars, Zenon DEF Markers
<1>6. OfLine(b) = CASE c \in {"+", "-"} -> ParseSimple(s, Len(b))
                    [] c = ":"          -> ParseInteger(s, Len(b))
                    [] c = "_"          -> ParseNull(Len(b))
                    [] c = "#"          -> ParseBool(s, Len(b))
                    [] OTHER            -> Invalid
  BY <1>2, <1>5, Zenon DEF OfLine
<1> QED
  BY <1>2, <1>4, <1>6, Zenon DEF b

LEMMA BulkParsed ==
  ASSUME NEW s \in Str
  PROVE  LET b == LineOf("$", Itoa(Len(s))) \o s \o CRLF IN
         b \in Seq(Byte) /\ Parse(b) = Ok(Bulk(s), Len(b))
<1> DEFINE n == Len(s)
           d == Itoa(n)
           h == LineOf("$", d)
           b == (h \o s) \o CRLF
<1>1. s \in Seq(Byte) /\ Utf8(s) /\ n <= UsizeMax
  BY Zenon DEF Str
<1>2. n \in Nat /\ n \in Int /\ n \in 0 .. UsizeMax
  BY <1>1, RespAssumption
<1>3. d \in Seq(Byte) /\ OneLine(d) /\ ParseNumber(d, 0, UsizeMax) = Ok(n, 0)
  BY <1>2, NumberReadBack, RespAssumption, Zenon
<1>4. "$" \in Character /\ "$" # "\r"
  BY DEF Character
<1> HIDE DEF d
<1>5. /\ h \in Seq(Byte) /\ h[1] = Ch("$") /\ HeaderOf(h) = d
      /\ CrlfAt(h) # 0 /\ CrlfAt(h) + 1 = Len(h)
  BY <1>3, <1>4, LineRead, Zenon
<1> HIDE DEF h
<1>6. s \o CRLF \in Seq(Byte) /\ b \in Seq(Byte) /\ b = h \o (s \o CRLF)
  <2>1. CRLF \in Seq(Byte)
    BY CrlfBytes, Zenon
  <2>2. s \o CRLF \in Seq(Byte) /\ h \o s \in Seq(Byte)
    BY <1>1, <1>5, <2>1, Joined
  <2>3. b \in Seq(Byte)
    BY <2>1, <2>2, Joined
  <2>4. b = h \o (s \o CRLF)
    BY <1>1, <1>5, <2>1, Associative, Zenon
  <2> QED
    BY <2>2, <2>3, <2>4
<1>7. SizeOf(h) = Ok(n, 0) /\ Begins(h, "$")
  BY <1>3, <1>5, Kinds, Zenon DEF SizeOf, Begins
<1>8. CrlfAt(b) = CrlfAt(h) /\ SizeOf(b) = SizeOf(h) /\ Begins(b, "$")
  BY <1>5, <1>6, <1>7, LineStays, Zenon
<1>9. Parse(b) = ParseBulkString(b, n, Len(h))
  <2>1. Parse(b) = ParseWith(ParseFcn, b)
    BY <1>6, ParseUnfolds, Zenon
  <2>2. ParseWith(ParseFcn, b) = ParseBulkString(b, SizeOf(b).ok, CrlfAt(b) + 1)
    BY <1>5, <1>8, ParseCases, Zenon
  <2>3. SizeOf(b).ok = n
    BY <1>7, <1>8, Kinds, Zenon
  <2> QED
    BY <1>5, <1>8, <2>1, <2>2, <2>3, Zenon
<1> DEFINE e == Len(h) + n
<1>10. /\ Len(b) = e + 2 /\ e \in Nat /\ SubSeq(b, e + 1, e + 2) = CRLF
       /\ SubSeq(b, Len(h) + 1, e) = s
  <2> DEFINE r == CRLF
  <2>1. r \in Seq(Byte) /\ Len(r) = 2
    BY CrlfBytes, Zenon
  <2> HIDE DEF r
  <2>2. h \in Seq(Byte) /\ s \in Seq(Byte) /\ n = Len(s) /\ e = Len(h) + n
    BY <1>1, <1>5
  <2>3. h \o s \in Seq(Byte) /\ Len(h \o s) = e /\ e \in Nat
    BY <2>2, ConcatProperties
  <2> HIDE DEF e
  <2>4. Len((h \o s) \o r) = e + 2
    <3>1. \A p, q \in Seq(Byte) : Len(p \o q) = Len(p) + Len(q)
      BY ConcatProperties
    <3> QED
      BY <2>1, <2>3, <3>1, Zenon
  <2>5. SubSeq((h \o s) \o r, e + 1, e + 2) = r
    BY <2>1, <2>3, <2>4
  <2>6. SubSeq((h \o s) \o r, Len(h) + 1, e) = SubSeq(h \o s, Len(h) + 1, e)
    <3>1. Len(h) + 1 \in Nat \ {0} /\ e \in Int /\ e <= Len(h \o s)
      BY <2>2, <2>3
    <3> QED
      BY <2>1, <2>3, <3>1, Piece, Zenon
  <2>7. SubSeq(h \o s, Len(h) + 1, e) = s
    BY <2>2, <2>3
  <2> QED
    BY <2>3, <2>4, <2>5, <2>6, <2>7, Zenon DEF r
<1> HIDE DEF e, b
<1>11. ParseBulkString(b, n, Len(h)) = Ok(Bulk(s), e + 2)
  <2>1. ~(e + 2 > Len(b))
    BY <1>10
  <2> QED
    BY <1>1, <1>10, <2>1, Zenon DEF ParseBulkString, e
<1> QED
  BY <1>6, <1>9, <1>10, <1>11, Zenon DEF b, h, d

\* Written, and read back as r.
ReadBack(b, r) == b \in Seq(Byte) /\ Parse(b) = Ok(r, Len(b))

\* A value that is no array is written and read back.
LEMMA ScalarParsed ==
  ASSUME NEW v \in OneLiners
  PROVE  ~Is("array", v) /\ ReadBack(WriteScalar(v), RereadScalar(v))
<1>1. /\ v \in Scalar
      /\ Is("simple", v) => CrlfAt(v.simple) = 0
      /\ Is("error", v) => CrlfAt(v.error) = 0
  BY Zenon DEF OneLiners
<1>2. \A s \in Str : s \in Seq(Byte) /\ Utf8(s)
  BY Zenon DEF Str
<1>3. ASSUME NEW s \in Str, v = Simple(s)
      PROVE  ~Is("array", v) /\ ReadBack(WriteScalar(v), RereadScalar(v))
  <2>1. /\ Is("simple", v) /\ v.simple = s /\ ~Is("array", v) /\ ~Is("error", v) /\ ~Is("int", v)
        /\ ~Is("bulk", v) /\ ~Is("bool", v) /\ ~Is("null", v)
    BY <1>3, Types
  <2>2. WriteScalar(v) = LineOf("+", s) /\ RereadScalar(v) = Simple(s)
    BY <1>3, <2>1, Zenon DEF WriteScalar, RereadScalar
  <2>3. OneLine(s) /\ s \in Seq(Byte)
    BY <1>1, <1>2, <2>1, NoCrlf, Zenon
  <2>4. LineOf("+", s) \in Seq(Byte) /\ Parse(LineOf("+", s)) = ParseSimple(s, Len(LineOf("+", s)))
    BY <2>3, LineParsed, Zenon
  <2> QED
    BY <1>2, <2>1, <2>2, <2>4, Zenon DEF ParseSimple, ReadBack
<1>4. ASSUME NEW s \in Str, v = Error(s)
      PROVE  ~Is("array", v) /\ ReadBack(WriteScalar(v), RereadScalar(v))
  <2>1. /\ Is("error", v) /\ v.error = s /\ ~Is("array", v) /\ ~Is("simple", v) /\ ~Is("int", v)
        /\ ~Is("bulk", v) /\ ~Is("bool", v) /\ ~Is("null", v)
    BY <1>4, Types
  <2>2. WriteScalar(v) = LineOf("-", s) /\ RereadScalar(v) = Simple(s)
    BY <1>4, <2>1, Zenon DEF WriteScalar, RereadScalar
  <2>3. OneLine(s) /\ s \in Seq(Byte)
    BY <1>1, <1>2, <2>1, NoCrlf, Zenon
  <2>4. LineOf("-", s) \in Seq(Byte) /\ Parse(LineOf("-", s)) = ParseSimple(s, Len(LineOf("-", s)))
    BY <2>3, LineParsed, Zenon
  <2> QED
    BY <1>2, <2>1, <2>2, <2>4, Zenon DEF ParseSimple, ReadBack
<1>5. ASSUME NEW s \in Str, v = Bulk(s)
      PROVE  ~Is("array", v) /\ ReadBack(WriteScalar(v), RereadScalar(v))
  <2>1. /\ Is("bulk", v) /\ v.bulk = s /\ ~Is("array", v) /\ ~Is("simple", v) /\ ~Is("int", v)
        /\ ~Is("error", v) /\ ~Is("bool", v) /\ ~Is("null", v)
    BY <1>5, Types
  <2>2. WriteScalar(v) = (LineOf("$", Itoa(Len(s))) \o s) \o CRLF /\ RereadScalar(v) = v
    BY <2>1, Zenon DEF WriteScalar, RereadScalar
  <2> QED
    BY <1>5, <2>1, <2>2, BulkParsed, Zenon DEF ReadBack
<1>6. ASSUME NEW n \in -I64Max - 1 .. I64Max, v = Int_(n)
      PROVE  ~Is("array", v) /\ ReadBack(WriteScalar(v), RereadScalar(v))
  <2>1. /\ Is("int", v) /\ v.int = n /\ ~Is("array", v) /\ ~Is("simple", v) /\ ~Is("bulk", v)
        /\ ~Is("error", v) /\ ~Is("bool", v) /\ ~Is("null", v)
    BY <1>6, Types
  <2>2. WriteScalar(v) = LineOf(":", Itoa(n)) /\ RereadScalar(v) = v
    BY <2>1, Zenon DEF WriteScalar, RereadScalar
  <2>3. n \in Int /\ I64Max \in Nat
    BY RespAssumption
  <2>4. /\ Itoa(n) \in Seq(Byte) /\ OneLine(Itoa(n))
        /\ ParseNumber(Itoa(n), -I64Max - 1, I64Max) = Ok(n, 0)
    BY <2>3, NumberReadBack, Zenon
  <2> DEFINE b == LineOf(":", Itoa(n))
  <2>5. b \in Seq(Byte) /\ Parse(b) = ParseInteger(Itoa(n), Len(b))
    BY <2>4, LineParsed, Zenon
  <2> HIDE DEF b
  <2>6. ParseInteger(Itoa(n), Len(b)) = Ok(Int_(n), Len(b))
    BY <2>4, Kinds, Zenon DEF ParseInteger
  <2> QED
    BY <1>6, <2>1, <2>2, <2>5, <2>6, Zenon DEF ReadBack, b
<1>7. ASSUME NEW t \in BOOLEAN, v = Boolean_(t)
      PROVE  ~Is("array", v) /\ ReadBack(WriteScalar(v), RereadScalar(v))
  <2> DEFINE c == IF t THEN "t" ELSE "f"
             s == <<Ch(c)>>
             b == LineOf("#", s)
  <2>1. /\ Is("bool", v) /\ v.bool = t /\ ~Is("array", v) /\ ~Is("simple", v) /\ ~Is("bulk", v)
        /\ ~Is("error", v) /\ ~Is("int", v) /\ ~Is("null", v)
    BY <1>7, Types
  <2>2. WriteScalar(v) = b /\ RereadScalar(v) = v
    BY <2>1, Zenon DEF WriteScalar, RereadScalar
  <2>3. c \in Character
    BY DEF Character
  <2>4. s \in Seq(Byte) /\ OneLine(s)
    <3> DEFINE x == Ch(c)
    <3>1. x \in Byte
      BY <2>3, MarkIsByte, Zenon
    <3> HIDE DEF x
    <3>2. <<x>> \in Seq(Byte) /\ 1 .. Len(<<x>>) - 1 = {}
      BY <3>1
    <3> QED
      BY <3>2, Zenon DEF OneLine, x
  <2>5. b \in Seq(Byte) /\ Parse(b) = ParseBool(s, Len(b))
    <3> HIDE DEF s
    <3> QED
      BY <2>4, LineParsed, Zenon
  <2> HIDE DEF b
  <2>6. ParseBool(s, Len(b)) = Ok(Boolean_(t), Len(b))
    <3>1. "f" # "t"
      OBVIOUS
    <3>2. Ch("f") # Ch("t")
      BY <3>1, Chars, Zenon
    <3> DEFINE x == <<Ch("t")>>
               y == <<Ch("f")>>
    <3>3. x # y /\ (t = TRUE => s = x) /\ (t = FALSE => s = y)
      BY <3>2
    <3> HIDE DEF s, x, y
    <3>4. CASE t = TRUE
      BY <3>3, <3>4, Zenon DEF ParseBool, x, y
    <3>5. CASE t = FALSE
      BY <3>3, <3>5, Zenon DEF ParseBool, x, y
    <3> QED
      BY <3>4, <3>5, Zenon
  <2> QED
    BY <1>7, <2>1, <2>2, <2>5, <2>6, Zenon DEF ReadBack
<1>8. ASSUME v = Null
      PROVE  ~Is("array", v) /\ ReadBack(WriteScalar(v), RereadScalar(v))
  <2>1. /\ Is("null", v) /\ ~Is("array", v) /\ ~Is("simple", v) /\ ~Is("bulk", v)
        /\ ~Is("error", v) /\ ~Is("int", v) /\ ~Is("bool", v)
    BY <1>8, Types
  <2>2. WriteScalar(v) = LineOf("_", <<>>) /\ RereadScalar(v) = v
    BY <2>1, Zenon DEF WriteScalar, RereadScalar
  <2>3. <<>> \in Seq(Byte) /\ 1 .. Len(<<>>) - 1 = {}
    OBVIOUS
  <2>4. OneLine(<<>>)
    BY <2>3, Zenon DEF OneLine
  <2> DEFINE b == LineOf("_", <<>>)
  <2>5. b \in Seq(Byte) /\ Parse(b) = ParseNull(Len(b))
    BY <2>3, <2>4, LineParsed, Zenon
  <2> HIDE DEF b
  <2> QED
    BY <1>8, <2>1, <2>2, <2>5, Zenon DEF ParseNull, ReadBack, b
<1>9. TRUE \in BOOLEAN /\ FALSE \in BOOLEAN
  OBVIOUS
<1> QED
  BY <1>1, <1>3, <1>4, <1>5, <1>6, <1>7, <1>8, <1>9, ScalarTypes, Zenon
-----------------------------------------------------------------------------
(* Arrays *)

\* If every element is read back, the array is.
LEMMA ArrayParsed ==
  ASSUME NEW w \in Seq(Seq(Byte)), NEW R, NEW r \in Seq(R), Len(r) = Len(w), Len(w) <= UsizeMax,
         \A i \in 1 .. Len(w) : ReadBack(w[i], r[i])
  PROVE  ReadBack(LineOf("*", Itoa(Len(w))) \o Concat(w), Array(r))
<1> DEFINE n == Len(w)
           d == Itoa(n)
           h == LineOf("*", d)
           c == Concat(w)
           C == ConcatUpTo(w)
           b == h \o c
<1>1. n \in Nat /\ n \in Int /\ n \in 0 .. UsizeMax
  BY RespAssumption
<1>2. d \in Seq(Byte) /\ OneLine(d) /\ ParseNumber(d, 0, UsizeMax) = Ok(n, 0)
  BY <1>1, NumberReadBack, RespAssumption, Zenon
<1>3. "*" \in Character /\ "*" # "\r"
  BY DEF Character
<1> HIDE DEF d
<1>4. /\ h \in Seq(Byte) /\ h[1] = Ch("*") /\ HeaderOf(h) = d
      /\ CrlfAt(h) # 0 /\ CrlfAt(h) + 1 = Len(h)
  BY <1>2, <1>3, LineRead, Zenon
<1>5. \A k \in 0 .. n : C[k] \in Seq(Byte) /\ c \in Seq(Byte) /\ \E t \in Seq(Byte) : c = C[k] \o t
  BY ConcatSplit, Zenon
<1>6. c = C[n] /\ C[0] = <<>> /\ \A i \in 0 .. n - 1 : C[i + 1] = C[i] \o w[i + 1]
  BY <1>1, ConcatRecursion, Zenon
<1>7. 0 \in 0 .. n /\ n \in 0 .. n
  BY <1>1
<1>8. c \in Seq(Byte) /\ b \in Seq(Byte)
  BY <1>4, <1>5, <1>7, Joined
<1> HIDE DEF h, c, C
<1>9. SizeOf(h) = Ok(n, 0) /\ Begins(h, "*")
  BY <1>2, <1>4, Kinds, Zenon DEF SizeOf, Begins
<1>10. CrlfAt(b) = CrlfAt(h) /\ SizeOf(b) = SizeOf(h) /\ Begins(b, "*")
  BY <1>4, <1>8, <1>9, LineStays, Zenon
<1> DEFINE E == ElementsUpTo(b, n, Len(h), ParseFcn)
<1>11. Parse(b) = ArrayOf(E[n])
  <2>1. Parse(b) = ParseWith(ParseFcn, b)
    BY <1>8, ParseUnfolds, Zenon
  <2>2. ParseWith(ParseFcn, b) = ParseArray(b, SizeOf(b).ok, CrlfAt(b) + 1, ParseFcn)
    BY <1>4, <1>10, ParseCases, Zenon
  <2>3. SizeOf(b).ok = n
    BY <1>9, <1>10, Kinds, Zenon
  <2>4. ParseArray(b, n, Len(h), ParseFcn) = ArrayOf(E[n])
    BY <1>1, ElementsRecursion
  <2> QED
    BY <1>4, <1>10, <2>1, <2>2, <2>3, <2>4, Zenon
<1>12. E[0] = Ok(<<>>, Len(h)) /\ \A i \in 0 .. n - 1 : E[i + 1] = NextElement(E[i], b, ParseFcn)
  <2> DEFINE k == Len(h)
             P == ParseFcn
             F == ElementsUpTo(b, n, k, P)
  <2> HIDE DEF k, n, b, P
  <2>1. F[0] = Ok(<<>>, k) /\ \A i \in 0 .. n - 1 : F[i + 1] = NextElement(F[i], b, P)
    BY <1>1, ElementsRecursion
  <2> QED
    BY <2>1, Zenon DEF k, P
<1> HIDE DEF E
<1> DEFINE Part(i) == Ok(SubSeq(r, 1, i), Len(h) + Len(C[i]))
           S == {i \in 0 .. n : E[i] = Part(i)}
<1>13. 0 \in S
  <2>1. SubSeq(r, 1, 0) = <<>> /\ Len(<<>>) = 0
    BY SubSeqEmpty
  <2>2. Len(h) + 0 = Len(h)
    BY <1>4
  <2> QED
    BY <1>6, <1>7, <1>12, <2>1, <2>2, Zenon
<1>14. ASSUME NEW i \in 0 .. n - 1, i \in S PROVE i + 1 \in S
  <2>1. i \in 0 .. n /\ i + 1 \in 0 .. n /\ i + 1 \in 1 .. n
    BY <1>1
  <2> DEFINE p == C[i]
             x == w[i + 1]
             m == Len(h) + Len(p)
             rest == SubSeq(b, m + 1, Len(b))
  <2>2. p \in Seq(Byte) /\ x \in Seq(Byte) /\ C[i + 1] = p \o x /\ ReadBack(x, r[i + 1])
    <3>1. x \in Seq(Byte)
      BY <2>1
    <3> QED
      BY <1>5, <1>6, <2>1, <3>1, Zenon
  <2>3. PICK t \in Seq(Byte) : c = (p \o x) \o t
    BY <1>5, <2>1, <2>2, Zenon
  <2> HIDE DEF p, x
  <2>4. x \o t \in Seq(Byte) /\ h \o p \in Seq(Byte)
    BY <1>4, <2>2, <2>3, Joined
  <2>5. b = (h \o p) \o (x \o t)
    <3>1. c = p \o (x \o t)
      BY <2>2, <2>3, Associative, Zenon
    <3> QED
      BY <1>4, <2>2, <2>4, <3>1, Associative, Zenon
  <2>6. rest = x \o t
    <3> DEFINE g == h \o p
               y == x \o t
    <3>1. g \in Seq(Byte) /\ y \in Seq(Byte) /\ Len(g) = m /\ b = g \o y
      BY <1>4, <2>2, <2>4, <2>5, ConcatProperties
    <3> HIDE DEF g, y, m
    <3>2. m \in 0 .. Len(g) /\ SubSeq(g, m + 1, Len(g)) = <<>> /\ <<>> \o y = y
      <4>1. m \in Nat /\ m + 1 \in Int /\ Len(g) \in Int /\ Len(g) < m + 1
        BY <3>1
      <4> QED
        BY <3>1, <4>1, SubSeqEmpty, ConcatEmptySeq
    <3>3. SubSeq(g \o y, m + 1, Len(g \o y)) = SubSeq(g, m + 1, Len(g)) \o y
      BY <3>1, <3>2, RestBefore, Zenon
    <3> QED
      BY <3>1, <3>2, <3>3, Zenon DEF y
  <2>7. Parse(x) = Ok(r[i + 1], Len(x))
    BY <2>2, Zenon DEF ReadBack
  <2>8. ParseFcn[rest] = Ok(r[i + 1], Len(x))
    <3>1. Parse(x) # Incomplete
      BY <2>7, Kinds, Zenon
    <3>2. Parse(x \o t) = Parse(x)
      BY <2>2, <3>1, ParseSettles, Zenon
    <3> QED
      BY <2>6, <2>7, <3>2, Zenon DEF Parse
  <2>9. E[i] = Ok(SubSeq(r, 1, i), m)
    BY <1>14, Zenon DEF p
  <2>10. E[i + 1] = Ok(Append(SubSeq(r, 1, i), r[i + 1]), m + Len(x))
    <3> DEFINE q == Ok(SubSeq(r, 1, i), m)
    <3>1. ~Is("err", q) /\ q.ok = SubSeq(r, 1, i) /\ q.n = m
      BY Kinds, Zenon
    <3>2. E[i + 1] = NextElement(q, b, ParseFcn)
      BY <1>12, <2>9, Zenon
    <3> HIDE DEF q, rest
    <3> DEFINE z == ParseFcn[rest]
    <3>3. NextElement(q, b, ParseFcn) = IF Is("err", z) THEN z ELSE Ok(Append(SubSeq(r, 1, i), z.ok), m + z.n)
      BY <3>1, Zenon DEF NextElement, rest
    <3>4. ~Is("err", z) /\ z.ok = r[i + 1] /\ z.n = Len(x)
      <4> DEFINE y == Ok(r[i + 1], Len(x))
      <4>1. ~Is("err", y) /\ y.ok = r[i + 1] /\ y.n = Len(x)
        BY Kinds, Zenon
      <4>2. z = y
        BY <2>8, Zenon
      <4> HIDE DEF y, z
      <4> QED
        BY <4>1, <4>2, Zenon
    <3> QED
      BY <3>2, <3>3, <3>4, Zenon
  <2>11. Append(SubSeq(r, 1, i), r[i + 1]) = SubSeq(r, 1, i + 1)
    BY <2>1
  <2>12. m + Len(x) = Len(h) + Len(C[i + 1])
    <3>1. Len(p \o x) = Len(p) + Len(x) /\ Len(p) \in Nat /\ Len(x) \in Nat /\ Len(h) \in Nat
      BY <1>4, <2>2, ConcatProperties
    <3>2. (Len(h) + Len(p)) + Len(x) = Len(h) + (Len(p) + Len(x))
      BY <3>1
    <3> QED
      BY <2>2, <3>1, <3>2, Zenon
  <2> QED
    BY <2>1, <2>10, <2>11, <2>12, Zenon
<1>15. E[n] = Part(n)
  <2>1. 0 .. n \subseteq S
    <3> HIDE DEF S, n
    <3> QED
      BY <1>1, <1>13, <1>14, Induction, Zenon
  <2> QED
    BY <1>7, <2>1, Zenon
<1>16. SubSeq(r, 1, n) = r
  BY SubSeqFull
<1>17. Len(b) = Len(h) + Len(C[n])
  BY <1>4, <1>6, <1>8, ConcatProperties
<1>18. ArrayOf(E[n]) = Ok(Array(r), Len(b))
  <2>1. E[n] = Ok(r, Len(b))
    BY <1>15, <1>16, <1>17, Zenon
  <2>2. ~Is("err", E[n]) /\ E[n].ok = r /\ E[n].n = Len(b)
    <3> DEFINE y == Ok(r, Len(b))
    <3>1. ~Is("err", y) /\ y.ok = r /\ y.n = Len(b)
      BY Kinds, Zenon
    <3>2. E[n] = y
      BY <2>1, Zenon
    <3> HIDE DEF y
    <3> QED
      BY <3>1, <3>2, Zenon
  <2> QED
    BY <2>2, Zenon DEF ArrayOf
<1> QED
  BY <1>8, <1>11, <1>18, Zenon DEF ReadBack, h, c, d
-----------------------------------------------------------------------------
(* Values, level by level *)

\* A scalar is no array.
LEMMA ScalarNoArray ==
  \A v \in Scalar : ~Is("array", v)
<1> SUFFICES ASSUME NEW v \in Scalar
             PROVE  ~Is("array", v)
  OBVIOUS
<1>1. /\ "array" # "simple" /\ "array" # "error" /\ "array" # "int" /\ "array" # "bulk"
      /\ "array" # "bool" /\ "array" # "null"
  OBVIOUS
<1>2. \A s : ~Is("array", Simple(s)) /\ ~Is("array", Error(s)) /\ ~Is("array", Bulk(s))
              /\ ~Is("array", Int_(s)) /\ ~Is("array", Boolean_(s)) /\ ~Is("array", Null)
  BY <1>1, Types, Zenon
<1> QED
  BY <1>2, ScalarTypes, Zenon

\* What is built from more scalars has more values, and each level holds the one below it.
LEMMA LevelsGrow ==
  ASSUME NEW A, NEW B, A \subseteq B
  PROVE  /\ \A d \in 0 .. MaxDepth : Levels(A)[d] \subseteq Levels(B)[d]
         /\ \A d \in 0 .. MaxDepth - 1 : Levels(A)[d] \subseteq Levels(A)[d + 1]
<1> DEFINE L == Levels(A)
           M == Levels(B)
           S == {d \in 0 .. MaxDepth : L[d] \subseteq M[d] /\ (d < MaxDepth => L[d] \subseteq L[d + 1])}
<1>1. L[0] = A /\ \A i \in 0 .. MaxDepth - 1 : L[i + 1] = A \cup [array : Vec(L[i])]
  BY LevelsRecursion, Zenon
<1>2. M[0] = B /\ \A i \in 0 .. MaxDepth - 1 : M[i + 1] = B \cup [array : Vec(M[i])]
  BY LevelsRecursion, Zenon
<1> HIDE DEF L, M
<1>3. \A X, Y : X \subseteq Y => [array : Vec(X)] \subseteq [array : Vec(Y)]
  <2>1. \A X, Y : X \subseteq Y => Vec(X) \subseteq Vec(Y)
    BY DEF Vec
  <2> QED
    BY <2>1
<1>4. 0 \in S
  <2>1. 0 \in 0 .. MaxDepth /\ (0 < MaxDepth => 0 \in 0 .. MaxDepth - 1)
    BY DepthAssumption
  <2>2. 0 < MaxDepth => L[0 + 1] = A \cup [array : Vec(L[0])]
    BY <1>1, <2>1, Zenon
  <2> QED
    BY <1>1, <1>2, <2>1, <2>2, Zenon
<1>5. ASSUME NEW d \in 0 .. MaxDepth - 1, d \in S PROVE d + 1 \in S
  <2>1. /\ d + 1 \in 0 .. MaxDepth /\ d < MaxDepth
        /\ d + 1 < MaxDepth => d + 1 \in 0 .. MaxDepth - 1
    BY DepthAssumption
  <2>2. L[d] \subseteq M[d] /\ L[d] \subseteq L[d + 1]
    BY <1>5, <2>1, Zenon
  <2>3. L[d + 1] \subseteq M[d + 1]
    <3>1. [array : Vec(L[d])] \subseteq [array : Vec(M[d])]
      BY <1>3, <2>2, Zenon
    <3>2. L[d + 1] = A \cup [array : Vec(L[d])] /\ M[d + 1] = B \cup [array : Vec(M[d])]
      BY <1>1, <1>2, Zenon
    <3> QED
      BY <3>1, <3>2, Zenon
  <2>4. ASSUME d + 1 < MaxDepth PROVE L[d + 1] \subseteq L[(d + 1) + 1]
    <3>1. [array : Vec(L[d])] \subseteq [array : Vec(L[d + 1])]
      BY <1>3, <2>2, Zenon
    <3>2. L[d + 1] = A \cup [array : Vec(L[d])]
      BY <1>1, Zenon
    <3>3. L[(d + 1) + 1] = A \cup [array : Vec(L[d + 1])]
      BY <1>1, <2>1, <2>4, Zenon
    <3> QED
      BY <3>1, <3>2, <3>3, Zenon
  <2> QED
    BY <2>1, <2>3, <2>4, Zenon
<1>6. 0 .. MaxDepth \subseteq S
  <2> HIDE DEF S
  <2> QED
    BY <1>4, <1>5, DepthAssumption, Induction, Zenon
<1>7. \A d \in 0 .. MaxDepth - 1 : d \in 0 .. MaxDepth /\ d < MaxDepth
  BY DepthAssumption
<1> QED
  BY <1>6, <1>7, Zenon DEF L, M

\* A value of level d + 1 is a scalar, or an array of values of level d.
LEMMA LevelValues ==
  ASSUME NEW A, A \subseteq Scalar, NEW d \in 0 .. MaxDepth - 1, NEW v \in Levels(A)[d + 1]
  PROVE  \/ v \in A /\ ~Is("array", v)
         \/ /\ Is("array", v) /\ v.array \in Seq(Levels(A)[d]) /\ Len(v.array) <= UsizeMax
            /\ v = Array(v.array)
<1>1. Levels(A)[d + 1] = A \cup [array : Vec(Levels(A)[d])]
  BY LevelsRecursion, Zenon
<1>2. CASE v \in A
  BY <1>2, ScalarNoArray, Zenon
<1>3. CASE v \in [array : Vec(Levels(A)[d])]
  <2>1. v = Array(v.array) /\ v.array \in Vec(Levels(A)[d])
    BY <1>3 DEF Array
  <2>2. Is("array", Array(v.array))
    BY Types, Zenon
  <2>3. Is("array", v)
    BY <2>1, <2>2 
  <2>4. v.array \in Seq(Levels(A)[d]) /\ Len(v.array) <= UsizeMax
    BY <2>1 DEF Vec
  <2> QED
    BY <2>1, <2>3, <2>4, Zenon
<1> QED
  BY <1>1, <1>2, <1>3

\* The elements of an array are values.
LEMMA ElementValues ==
  ASSUME NEW v \in Value, Is("array", v)
  PROVE  \A i \in DOMAIN v.array : v.array[i] \in Value
<1> DEFINE L == Levels(Scalar)
<1>1. L[0] = Scalar /\ Value = L[MaxDepth]
  BY LevelsRecursion, Zenon DEF Value
<1>2. MaxDepth # 0
  BY <1>1, ScalarNoArray, Zenon
<1>3. MaxDepth - 1 \in 0 .. MaxDepth - 1 /\ (MaxDepth - 1) + 1 = MaxDepth
  BY <1>2, DepthAssumption
<1>4. v.array \in Seq(L[MaxDepth - 1])
  BY <1>1, <1>3, LevelValues, Zenon
<1>5. L[MaxDepth - 1] \subseteq Value
  BY <1>1, <1>3, LevelsGrow, Zenon
<1> HIDE DEF L
<1>6. \A i \in DOMAIN v.array : v.array[i] \in L[MaxDepth - 1]
  BY <1>4
<1> QED
  BY <1>5, <1>6, Zenon

\* Every level is part of the last one.
LEMMA LevelsBelow ==
  \A d \in 0 .. MaxDepth : Levels(Scalar)[d] \subseteq Value
<1> DEFINE L == Levels(Scalar)
           S == {k \in 0 .. MaxDepth : L[MaxDepth - k] \subseteq Value}
<1>1. Value = L[MaxDepth]
  BY LevelsRecursion, Zenon DEF Value
<1>2. \A d \in 0 .. MaxDepth - 1 : L[d] \subseteq L[d + 1]
  BY LevelsGrow, Zenon
<1> HIDE DEF L
<1>3. 0 \in S
  <2>1. MaxDepth - 0 = MaxDepth /\ 0 \in 0 .. MaxDepth
    BY DepthAssumption
  <2> QED
    BY <1>1, <2>1, Zenon
<1>4. ASSUME NEW k \in 0 .. MaxDepth - 1, k \in S PROVE k + 1 \in S
  <2>1. /\ k + 1 \in 0 .. MaxDepth /\ MaxDepth - (k + 1) \in 0 .. MaxDepth - 1
        /\ (MaxDepth - (k + 1)) + 1 = MaxDepth - k
    BY DepthAssumption
  <2> QED
    BY <1>2, <1>4, <2>1, Zenon
<1>5. 0 .. MaxDepth \subseteq S
  <2> HIDE DEF S
  <2> QED
    BY <1>3, <1>4, DepthAssumption, Induction, Zenon
<1>6. \A d \in 0 .. MaxDepth : MaxDepth - d \in 0 .. MaxDepth /\ MaxDepth - (MaxDepth - d) = d
  BY DepthAssumption
<1> QED
  BY <1>5, <1>6, Zenon DEF L
-----------------------------------------------------------------------------
(* What write_to and the parser's reading of it are for every value *)

\* What is written of a value, and what that is read as, from those of its elements.
BothOf(f, v) ==
  IF Is("array", v)
  THEN <<LineOf("*", Itoa(Len(v.array))) \o Concat([i \in DOMAIN v.array |-> f[v.array[i]][1]]),
         Array([i \in DOMAIN v.array |-> f[v.array[i]][2]])>>
  ELSE <<WriteScalar(v), RereadScalar(v)>>

\* The recursion over the nesting of a value has a solution.
LEMMA BothExist ==
  \E f : f = [v \in Value |-> BothOf(f, v)]
<1> DEFINE L == Levels(Scalar)
           On(f, d) == f = [v \in L[d] |-> BothOf(f, v)]
           S == {d \in 0 .. MaxDepth : \E f : On(f, d)}
<1>1. L[0] = Scalar /\ Value = L[MaxDepth]
  BY LevelsRecursion, Zenon DEF Value
<1>2. \A d \in 0 .. MaxDepth - 1 : L[d] \subseteq L[d + 1]
  BY LevelsGrow, Zenon
<1>3. 0 \in S
  <2> DEFINE f == [v \in Scalar |-> <<WriteScalar(v), RereadScalar(v)>>]
  <2>1. \A v \in Scalar : BothOf(f, v) = <<WriteScalar(v), RereadScalar(v)>>
    BY ScalarNoArray, Zenon DEF BothOf
  <2>2. f = [v \in Scalar |-> BothOf(f, v)]
    BY <2>1, Zenon
  <2>3. 0 \in 0 .. MaxDepth
    BY DepthAssumption
  <2> HIDE DEF f
  <2>4. On(f, 0)
    BY <1>1, <2>2, Zenon
  <2> QED
    BY <2>3, <2>4, Zenon
<1>4. ASSUME NEW d \in 0 .. MaxDepth - 1, d \in S PROVE d + 1 \in S
  <2>1. PICK f : On(f, d)
    BY <1>4, Zenon
  <2> DEFINE g == [v \in L[d + 1] |-> BothOf(f, v)]
  <2>2. \A x \in L[d] : f[x] = BothOf(f, x)
    BY <2>1, Zenon
  <2>3. \A x \in L[d] : g[x] = f[x]
    <3>1. \A x \in L[d + 1] : g[x] = BothOf(f, x)
      BY Zenon
    <3> QED
      BY <1>2, <2>2, <3>1, Zenon
  <2>4. ASSUME NEW v \in L[d + 1] PROVE BothOf(g, v) = BothOf(f, v)
    <3>1. CASE ~Is("array", v)
      BY <3>1, Zenon DEF BothOf
    <3>2. CASE Is("array", v)
      <4> DEFINE a == v.array
      <4>1. a \in Seq(L[d])
        BY <3>2, LevelValues, Zenon
      <4>2. \A i \in DOMAIN a : a[i] \in L[d]
        BY <4>1
      <4> HIDE DEF g, a
      <4>3. \A i \in DOMAIN a : g[a[i]][1] = f[a[i]][1] /\ g[a[i]][2] = f[a[i]][2]
        BY <2>3, <4>2, Zenon
      <4>4. /\ [i \in DOMAIN a |-> g[a[i]][1]] = [i \in DOMAIN a |-> f[a[i]][1]]
            /\ [i \in DOMAIN a |-> g[a[i]][2]] = [i \in DOMAIN a |-> f[a[i]][2]]
        BY <4>3, Zenon
      <4> QED
        BY <3>2, <4>4, Zenon DEF BothOf, a
    <3> QED
      BY <3>1, <3>2, Zenon
  <2>5. g = [v \in L[d + 1] |-> BothOf(g, v)]
    <3> DEFINE h == [v \in L[d + 1] |-> BothOf(g, v)]
    <3>1. \A v \in L[d + 1] : BothOf(g, v) = BothOf(f, v)
      BY <2>4, Zenon
    <3>2. h = [v \in L[d + 1] |-> BothOf(f, v)]
      <4> HIDE DEF g
      <4> QED
        BY <3>1, Zenon
    <3> QED
      BY <3>2, Zenon
  <2>6. d + 1 \in 0 .. MaxDepth
    BY DepthAssumption
  <2> HIDE DEF g
  <2> QED
    BY <2>5, <2>6, Zenon
<1>5. MaxDepth \in S
  <2>1. 0 .. MaxDepth \subseteq S
    <3> HIDE DEF S
    <3> QED
      BY <1>3, <1>4, DepthAssumption, Induction, Zenon
  <2>2. MaxDepth \in 0 .. MaxDepth
    BY DepthAssumption
  <2> HIDE DEF S
  <2> QED
    BY <2>1, <2>2, Zenon
<1> QED
  BY <1>1, <1>5, Zenon

\* write_to and the reading of what it wrote, one value at a time.
LEMMA Unfolded ==
  ASSUME NEW v \in Value
  PROVE  /\ ~Is("array", v) => WriteTo[v] = WriteScalar(v) /\ Reread[v] = RereadScalar(v)
         /\ Is("array", v) =>
              /\ WriteTo[v] = LineOf("*", Itoa(Len(v.array)))
                                \o Concat([i \in DOMAIN v.array |-> WriteTo[v.array[i]]])
              /\ Reread[v] = Array([i \in DOMAIN v.array |-> Reread[v.array[i]]])
<1>1. PICK f : f = [u \in Value |-> BothOf(f, u)]
  BY BothExist, Zenon
<1> DEFINE B(g, u) == IF Is("array", u)
                      THEN LineOf("*", Itoa(Len(u.array))) \o Concat([i \in DOMAIN u.array |-> g[u.array[i]]])
                      ELSE WriteScalar(u)
           C(g, u) == IF Is("array", u) THEN Array([i \in DOMAIN u.array |-> g[u.array[i]]])
                      ELSE IF Is("error", u) THEN Simple(u.error)
                      ELSE u
           w == [u \in Value |-> f[u][1]]
           r == [u \in Value |-> f[u][2]]
<1>2. ASSUME NEW u \in Value PROVE f[u][1] = B(w, u) /\ f[u][2] = C(r, u)
  <2>1. f[u] = BothOf(f, u)
    BY <1>1, Zenon
  <2>2. CASE ~Is("array", u)
    <3>1. f[u] = <<WriteScalar(u), RereadScalar(u)>>
      BY <2>1, <2>2, Zenon DEF BothOf
    <3>2. f[u][1] = WriteScalar(u) /\ f[u][2] = RereadScalar(u)
      BY <3>1
    <3> QED
      BY <2>2, <3>2, Zenon DEF RereadScalar
  <2>3. CASE Is("array", u)
    <3> DEFINE a == u.array
               x == LineOf("*", Itoa(Len(a))) \o Concat([i \in DOMAIN a |-> f[a[i]][1]])
               y == Array([i \in DOMAIN a |-> f[a[i]][2]])
    <3>1. f[u] = <<x, y>>
      BY <2>1, <2>3, Zenon DEF BothOf
    <3>2. f[u][1] = x /\ f[u][2] = y
      <4> HIDE DEF x, y
      <4> QED
        BY <3>1
    <3>3. \A i \in DOMAIN a : a[i] \in Value
      BY <2>3, ElementValues, Zenon
    <3> HIDE DEF a
    <3>4. \A i \in DOMAIN a : w[a[i]] = f[a[i]][1] /\ r[a[i]] = f[a[i]][2]
      BY <3>3, Zenon
    <3> HIDE DEF w, r
    <3>5. /\ [i \in DOMAIN a |-> w[a[i]]] = [i \in DOMAIN a |-> f[a[i]][1]]
          /\ [i \in DOMAIN a |-> r[a[i]]] = [i \in DOMAIN a |-> f[a[i]][2]]
      BY <3>4, Zenon
    <3> QED
      BY <2>3, <3>2, <3>5, Zenon DEF a
  <2> QED
    BY <2>2, <2>3, Zenon
<1> HIDE DEF B, C
<1>3. w = [u \in Value |-> B(w, u)] /\ r = [u \in Value |-> C(r, u)]
  <2>1. [u \in Value |-> f[u][1]] = [u \in Value |-> B(w, u)]
    <3> HIDE DEF w
    <3> QED
      BY <1>2, Zenon
  <2>2. [u \in Value |-> f[u][2]] = [u \in Value |-> C(r, u)]
    <3> HIDE DEF r
    <3> QED
      BY <1>2, Zenon
  <2> QED
    BY <2>1, <2>2, Zenon
<1> HIDE DEF w, r
<1>4. WriteTo = [u \in Value |-> B(WriteTo, u)]
  BY <1>3, Zenon DEF WriteTo, B
<1>5. Reread = [u \in Value |-> C(Reread, u)]
  BY <1>3, Zenon DEF Reread, C
<1>6. WriteTo[v] = B(WriteTo, v)
  BY <1>4, Zenon
<1>7. Reread[v] = C(Reread, v)
  BY <1>5, Zenon
<1> QED
  BY <1>6, <1>7, Zenon DEF B, C, RereadScalar
-----------------------------------------------------------------------------
(* The round trip *)

\* For every value whose simple strings and errors have no CRLF in them: what write_to
\* appends for it (types.rs) is taken by parse (parser.rs) as one value, to the last byte,
\* and that value is the one written, errors being taken for simple strings.
THEOREM ParseInvertsWrite ==
  \A v \in ValuesOf(OneLiners) :
    v \in Value /\ WriteTo[v] \in Seq(Byte) /\ Parse(WriteTo[v]) = Ok(Reread[v], Len(WriteTo[v]))
<1> DEFINE L == Levels(OneLiners)
           V == Levels(Scalar)
           S == {d \in 0 .. MaxDepth : \A v \in L[d] : ReadBack(WriteTo[v], Reread[v])}
<1>1. L[0] = OneLiners /\ ValuesOf(OneLiners) = L[MaxDepth] /\ V[0] = Scalar /\ Value = V[MaxDepth]
  BY LevelsRecursion, Zenon DEF Value
<1>2. OneLiners \subseteq Scalar /\ Scalar \subseteq Scalar
  BY Zenon DEF OneLiners
<1>3. \A d \in 0 .. MaxDepth : L[d] \subseteq V[d]
  BY <1>2, LevelsGrow, Zenon
<1>5. \A d \in 0 .. MaxDepth : L[d] \subseteq Value
  BY <1>1, <1>3, LevelsBelow, Zenon
<1>6. ASSUME NEW v \in OneLiners PROVE ReadBack(WriteTo[v], Reread[v])
  <2>1. v \in Value
    <3>1. 0 \in 0 .. MaxDepth
      BY DepthAssumption
    <3> QED
      BY <1>1, <1>5, <3>1, Zenon
  <2> QED
    BY <2>1, ScalarParsed, Unfolded, Zenon
<1>7. 0 \in S
  <2>1. 0 \in 0 .. MaxDepth
    BY DepthAssumption
  <2> QED
    BY <1>1, <1>6, <2>1, Zenon
<1>8. ASSUME NEW d \in 0 .. MaxDepth - 1, d \in S PROVE d + 1 \in S
  <2>1. d + 1 \in 0 .. MaxDepth
    BY DepthAssumption
  <2>2. ASSUME NEW v \in L[d + 1] PROVE ReadBack(WriteTo[v], Reread[v])
    <3>1. v \in Value
      BY <1>5, <2>1, Zenon
    <3>2. CASE v \in OneLiners
      BY <1>6, <3>2, Zenon
    <3>3. CASE v \notin OneLiners
      <4> DEFINE a == v.array
                 w == [i \in DOMAIN a |-> WriteTo[a[i]]]
                 r == [i \in DOMAIN a |-> Reread[a[i]]]
                 R == {Reread[x] : x \in L[d]}
      <4>1. Is("array", v) /\ a \in Seq(L[d]) /\ Len(a) <= UsizeMax
        BY <1>2, <3>3, LevelValues, Zenon
      <4>2. WriteTo[v] = LineOf("*", Itoa(Len(a))) \o Concat(w) /\ Reread[v] = Array(r)
        BY <3>1, <4>1, Unfolded, Zenon
      <4> HIDE DEF a, L
      <4>3. DOMAIN a = 1 .. Len(a) /\ Len(a) \in Nat /\ \A i \in 1 .. Len(a) : a[i] \in L[d]
        BY <4>1
      <4>4. \A i \in 1 .. Len(a) : ReadBack(WriteTo[a[i]], Reread[a[i]]) /\ Reread[a[i]] \in R
        BY <1>8, <4>3, Zenon
      <4>5. w \in Seq(Seq(Byte)) /\ Len(w) = Len(a) /\ \A i \in 1 .. Len(a) : w[i] = WriteTo[a[i]]
        <5>1. \A i \in 1 .. Len(a) : WriteTo[a[i]] \in Seq(Byte)
          BY <4>4, Zenon DEF ReadBack
        <5> QED
          BY <4>3, <5>1
      <4> HIDE DEF R
      <4>6. r \in Seq(R) /\ Len(r) = Len(a) /\ \A i \in 1 .. Len(a) : r[i] = Reread[a[i]]
        BY <4>3, <4>4
      <4> HIDE DEF w, r
      <4>7. ReadBack(LineOf("*", Itoa(Len(w))) \o Concat(w), Array(r))
        <5>1. \A i \in 1 .. Len(w) : ReadBack(w[i], r[i])
          BY <4>4, <4>5, <4>6, Zenon
        <5>2. Len(r) = Len(w) /\ Len(w) <= UsizeMax
          BY <4>1, <4>5, <4>6, Zenon
        <5> QED
          BY <4>5, <4>6, <5>1, <5>2, ArrayParsed, Zenon
      <4> QED
        BY <4>2, <4>5, <4>7, Zenon
    <3> QED
      BY <3>2, <3>3, Zenon
  <2> QED
    BY <2>1, <2>2, Zenon
<1>9. MaxDepth \in 0 .. MaxDepth
  BY DepthAssumption
<1>10. MaxDepth \in S
  <2>1. 0 .. MaxDepth \subseteq S
    <3> HIDE DEF S
    <3> QED
      BY <1>7, <1>8, DepthAssumption, Induction, Zenon
  <2> HIDE DEF S
  <2> QED
    BY <1>9, <2>1, Zenon
<1> QED
  BY <1>1, <1>5, <1>9, <1>10, Zenon DEF ReadBack

\* A value with no error in it comes back unchanged.
THEOREM PlainValuesReturn ==
  \A v \in ValuesOf({s \in OneLiners : ~Is("error", s)}) :
    Parse(WriteTo[v]) = Ok(v, Len(WriteTo[v]))
<1> DEFINE A == {s \in OneLiners : ~Is("error", s)}
           L == Levels(A)
           S == {d \in 0 .. MaxDepth : \A v \in L[d] : Reread[v] = v}
<1>1. L[0] = A /\ ValuesOf(A) = L[MaxDepth] /\ ValuesOf(OneLiners) = Levels(OneLiners)[MaxDepth]
  BY LevelsRecursion, Zenon
<1>2. A \subseteq OneLiners /\ A \subseteq Scalar
  BY Zenon DEF OneLiners
<1>3. 0 \in 0 .. MaxDepth /\ MaxDepth \in 0 .. MaxDepth
  BY DepthAssumption
<1>4. \A d \in 0 .. MaxDepth : L[d] \subseteq Value
  <2>1. \A d \in 0 .. MaxDepth : L[d] \subseteq Levels(Scalar)[d]
    BY <1>2, LevelsGrow, Zenon
  <2> QED
    BY <2>1, LevelsBelow, Zenon
<1>5. ASSUME NEW v \in A PROVE Reread[v] = v
  <2>1. v \in Value /\ ~Is("array", v) /\ ~Is("error", v)
    BY <1>1, <1>2, <1>3, <1>4, ScalarNoArray, Zenon
  <2> QED
    BY <2>1, Unfolded, Zenon DEF RereadScalar
<1>6. 0 \in S
  BY <1>1, <1>3, <1>5, Zenon
<1>7. ASSUME NEW d \in 0 .. MaxDepth - 1, d \in S PROVE d + 1 \in S
  <2>1. d + 1 \in 0 .. MaxDepth
    BY DepthAssumption
  <2>2. ASSUME NEW v \in L[d + 1] PROVE Reread[v] = v
    <3>1. v \in Value
      BY <1>4, <2>1, Zenon
    <3>2. CASE v \in A
      BY <1>5, <3>2, Zenon
    <3>3. CASE v \notin A
      <4> DEFINE a == v.array
      <4>1. Is("array", v) /\ a \in Seq(L[d]) /\ v = Array(a)
        BY <1>2, <3>3, LevelValues, Zenon
      <4>2. Reread[v] = Array([i \in DOMAIN a |-> Reread[a[i]]])
        BY <3>1, <4>1, Unfolded, Zenon
      <4> HIDE DEF a, L
      <4>3. a = [i \in DOMAIN a |-> a[i]] /\ \A i \in DOMAIN a : a[i] \in L[d]
        BY <4>1
      <4>4. [i \in DOMAIN a |-> Reread[a[i]]] = [i \in DOMAIN a |-> a[i]]
        BY <1>7, <4>3, Zenon
      <4> QED
        BY <4>1, <4>2, <4>3, <4>4, Zenon
    <3> QED
      BY <3>2, <3>3, Zenon
  <2> QED
    BY <2>1, <2>2, Zenon
<1>8. MaxDepth \in S
  <2>1. 0 .. MaxDepth \subseteq S
    <3> HIDE DEF S
    <3> QED
      BY <1>6, <1>7, DepthAssumption, Induction, Zenon
  <2> HIDE DEF S
  <2> QED
    BY <1>3, <2>1, Zenon
<1>9. L[MaxDepth] \subseteq Levels(OneLiners)[MaxDepth]
  BY <1>2, <1>3, LevelsGrow, Zenon
<1> QED
  BY <1>1, <1>8, <1>9, ParseInvertsWrite, Zenon
=============================================================================
