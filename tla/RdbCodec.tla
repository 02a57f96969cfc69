------------------------------ MODULE RdbCodec ------------------------------
(***************************************************************************)
(* The snapshot format: rdb/writer.rs write_db writes two maps as a stream *)
(* of bytes, rdb/reader.rs parse reads them back, possibly after the       *)
(* stream was cut short.                                                   *)
(*                                                                         *)
(* The stream is a sequence of tokens: single bytes (markers and first     *)
(* length bytes), the four bytes of a long length, the eight bytes of a    *)
(* time, and the bytes of a text, kept as one token.  A read of a token of *)
(* another kind than the one written fails.  Times are counted in ticks,   *)
(* PerMs of them to the millisecond that the format rounds to.             *)
(***************************************************************************)
EXTENDS Integers, Sequences, FiniteSets

CONSTANTS
  Keys, Items,   \* the texts used as keys and as values
  None,
  Size,          \* Size[t]: the number of bytes of a text
  Upper,         \* Upper[k]: key k in upper case: "STRING", "LIST" or "OTHER"
  Wide,          \* the range of a four-byte length: 2^32 in the code
  MillisRange,   \* the range of the eight bytes of a time: 2^64 in the code
  PerMs,         \* ticks in a millisecond
  Epoch,         \* the wall clock when the monotonic clock shows 0, in ticks
  Lists,         \* the lists to store
  Times,         \* the deadlines to store
  MaxTime        \* bound: the clock stops here

Str(v)  == [type |-> "string", value |-> v]
List(s) == [type |-> "list", value |-> s]
Objects == {Str(v) : v \in Items} \cup {List(s) : s \in Lists}

ASSUME CodecAssumption ==
  /\ PerMs \in Nat \ {0}
  /\ Epoch \in Nat
  /\ Wide \in Nat /\ Wide > 64 /\ MillisRange \in Nat \ {0}
  /\ Upper \in [Keys -> {"STRING", "LIST", "OTHER"}]
  /\ "string" \in Keys => Upper["string"] = "STRING"
  /\ "list" \in Keys => Upper["list"] = "LIST"
  /\ \A t \in Keys \cup Items \cup {"string", "list"} : Size[t] \in 0 .. Wide - 1
  /\ Lists \subseteq Seq(Items) /\ \A s \in Lists : Len(s) < Wide
  /\ Times \subseteq Nat
  /\ None \notin Keys \cup Objects \cup Int

VARIABLES
  data, expirations,   \* the snapshot that save_rdb was given
  file,                \* the stream
  todo,                \* the entries still to write
  pos,                 \* the reader's position
  db, deadlines,       \* what the reader has read
  loadedAt,            \* when the reader read each deadline
  state,               \* "header", "data", "expirations", "read", "loaded", "failed"
  whole,               \* FALSE when the stream was cut
  now                  \* the clock

maps == <<data, expirations>>
vars == <<data, expirations, file, todo, pos, db, deadlines, loadedAt, state, whole, now>>

Entries(m) == {k \in Keys : m[k] # None}

Init ==
  /\ data \in [Keys -> Objects \cup {None}]
  /\ expirations \in [Keys -> Times \cup {None}]
  /\ file = <<>>
  /\ todo = {}
  /\ pos = 1
  /\ db = [k \in Keys |-> None]
  /\ deadlines = [k \in Keys |-> None]
  /\ loadedAt = [k \in Keys |-> None]
  /\ state = "header"
  /\ whole = TRUE
  /\ now = 0
-----------------------------------------------------------------------------
(* The writer. *)
Byte(b) == [t |-> "byte", v |-> b]
U32(n)  == [t |-> "u32", v |-> n]
U64(n)  == [t |-> "u64", v |-> n]
Text(s) == [t |-> "text", v |-> s]

WriteLengthMutant(len) == IF len <= 64 THEN <<Byte(len)>> ELSE <<Byte(128), U32(len % Wide)>>

WriteLength(len) == IF len < 64 THEN <<Byte(len)>> ELSE <<Byte(128), U32(len % Wide)>>

WriteString(s) == Append(WriteLength(Size[s]), Text(s))

WriteValue(k, v) == <<Byte(0)>> \o WriteString(k) \o WriteString(v)

\* The items of a list one after the other, each with the key.
WriteItems(k, s) ==
  LET W[i \in 0 .. Len(s)] == IF i = 0 THEN <<>> ELSE W[i - 1] \o WriteValue(k, s[i])
  IN  W[Len(s)]

WriteObject(k, obj) ==
  IF obj.type = "string"
  THEN WriteString("string") \o WriteValue(k, obj.value)
  ELSE WriteString("list") \o WriteLength(Len(obj.value)) \o WriteItems(k, obj.value)

ToMillisMutant(deadline, t) ==   \* rounds up, and keeps an expired deadline
  (Epoch + deadline + PerMs) \div PerMs

Millis(t) == (Epoch + t) \div PerMs

\* A deadline as milliseconds of the wall clock, cut to 64 bits; one that is over
\* becomes now.
ToMillis(deadline, t) == Millis(IF deadline > t THEN deadline ELSE t) % MillisRange

WriteExpiry(k, t) == WriteString(k) \o <<Byte(252), U64(ToMillis(expirations[k], t))>>
-----------------------------------------------------------------------------
(* The reader: each operator gives what it read and where it stopped. *)
Got(v, p) == [ok |-> TRUE, v |-> v, p |-> p]
Fail      == [ok |-> FALSE, v |-> None, p |-> 0]

ReadToken(kind, p) ==
  IF p <= Len(file) /\ file[p].t = kind THEN Got(file[p].v, p + 1) ELSE Fail

ReadLengthWithFirst(first, p) ==
  CASE first < 64  -> Got(first, p)
    [] first = 128 -> ReadToken("u32", p)
    [] OTHER       -> Fail

ReadLength(p) ==
  LET b == ReadToken("byte", p) IN IF b.ok THEN ReadLengthWithFirst(b.v, b.p) ELSE Fail

\* The text of the length just read.
ReadText(len) ==
  LET s == ReadToken("text", len.p) IN
  IF len.ok /\ s.ok /\ Size[s.v] = len.v THEN s ELSE Fail

ReadString(p) == ReadText(ReadLength(p))

ReadStringWithFirstLen(first, p) == ReadText(ReadLengthWithFirst(first, p))

\* The type byte, the key and the text: a string, or one item of a list.
ReadValue(p) ==
  LET b == ReadToken("byte", p)
      k == ReadString(b.p)
      v == ReadString(k.p)
  IN  IF b.ok /\ b.v = 0 /\ k.ok /\ v.ok THEN Got([key |-> k.v, value |-> v.v], v.p) ELSE Fail

ReadItemsMutant(n, p) ==   \* pushes each item at the front
  LET R[i \in 0 .. n] ==
        IF i = 0 THEN Got([key |-> None, value |-> <<>>], p)
        ELSE LET prev == R[i - 1]
                 item == ReadValue(prev.p)
             IN  IF ~prev.ok \/ ~item.ok THEN Fail
                 ELSE Got([key |-> item.v.key, value |-> <<item.v.value>> \o prev.v.value], item.p)
  IN  R[n]

ReadItemsCutMutant(n, p) ==   \* takes the end of the file for the end of the list
  LET R[i \in 0 .. n] ==
        IF i = 0 THEN Got([key |-> None, value |-> <<>>], p)
        ELSE LET prev == R[i - 1]
                 item == ReadValue(prev.p)
             IN  IF ~item.ok THEN prev
                 ELSE Got([key |-> item.v.key, value |-> Append(prev.v.value, item.v.value)], item.p)
  IN  R[n]

\* The items of a list of n, all under the key of the first.
ReadItems(n, p) ==
  LET R[i \in 0 .. n] ==
        IF i = 0 THEN Got([key |-> None, value |-> <<>>], p)
        ELSE LET prev == R[i - 1]
                 item == ReadValue(prev.p)
             IN  IF ~prev.ok \/ ~item.ok THEN Fail
                 ELSE Got([key   |-> IF i = 1 THEN item.v.key ELSE prev.v.key,
                           value |-> Append(prev.v.value, item.v.value)], item.p)
  IN  R[n]

\* A deadline of the file on the new clock; one that is over becomes now.
FromMillis(ms, t) == IF ms * PerMs - Epoch > t THEN ms * PerMs - Epoch ELSE t
-----------------------------------------------------------------------------
(* save_rdb: the header and the selector of database 0, then the entries of *)
(* each map in the order of the HashMap, which is any order.                *)
Header == [t |-> "header", v |-> "REDIS0001"]

WriteHeader ==
  /\ state = "header"
  /\ file' = <<Header, Byte(254)>> \o WriteLength(0)
  /\ todo' = Entries(data)
  /\ state' = "data"
  /\ UNCHANGED <<maps, pos, db, deadlines, loadedAt, whole, now>>

WriteData(k) ==
  /\ state = "data"
  /\ k \in todo
  /\ file' = file \o WriteObject(k, data[k])
  /\ todo' = todo \ {k}
  /\ UNCHANGED <<maps, pos, db, deadlines, loadedAt, state, whole, now>>

WriteExpirations ==
  /\ state = "data"
  /\ todo = {}
  /\ todo' = Entries(expirations)
  /\ state' = "expirations"
  /\ UNCHANGED <<maps, file, pos, db, deadlines, loadedAt, whole, now>>

WriteExpiration(k) ==
  /\ state = "expirations"
  /\ k \in todo
  /\ file' = file \o WriteExpiry(k, now)
  /\ todo' = todo \ {k}
  /\ UNCHANGED <<maps, pos, db, deadlines, loadedAt, state, whole, now>>

\* The stream is handed to the reader, whole or cut somewhere.
Open ==
  /\ state = "expirations"
  /\ todo = {}
  /\ \E n \in 0 .. Len(file) : file' = SubSeq(file, 1, n) /\ whole' = (n = Len(file))
  /\ state' = "read"
  /\ UNCHANGED <<maps, todo, pos, db, deadlines, loadedAt, now>>

Stop(s) == state' = s /\ UNCHANGED <<pos, db, deadlines, loadedAt>>

ReadHeader ==
  /\ state = "read"
  /\ pos = 1
  /\ IF file = <<>> THEN Stop("failed")
     ELSE pos' = 2 /\ UNCHANGED <<db, deadlines, loadedAt, state>>
  /\ UNCHANGED <<maps, file, todo, whole, now>>

\* A data entry: the reader takes it, or fails.
TakeData(entry, type) ==
  IF ~entry.ok THEN Stop("failed")
  ELSE /\ pos' = entry.p
       /\ db' = IF entry.v.key = None THEN db
                ELSE [db EXCEPT ![entry.v.key] = [type |-> type, value |-> entry.v.value]]
       /\ UNCHANGED <<deadlines, loadedAt, state>>

\* A deadline for the key, after the opcode: the reader takes it, or fails.
TakeDeadline(key, ms) ==
  IF ~key.ok \/ ~ms.ok THEN Stop("failed")
  ELSE /\ pos' = ms.p
       /\ deadlines' = [deadlines EXCEPT ![key.v] = FromMillis(ms.v, now)]
       /\ loadedAt' = [loadedAt EXCEPT ![key.v] = now]
       /\ UNCHANGED <<db, state>>

\* The selector byte 0xFE and its length, which is ignored.
ReadSelector ==
  LET marker == ReadToken("byte", pos)
      n      == ReadLength(marker.p)
  IN  /\ state = "read" /\ pos > 1
      /\ marker.ok /\ marker.v = 254
      /\ IF n.ok THEN pos' = n.p /\ UNCHANGED <<db, deadlines, loadedAt, state>>
         ELSE Stop("failed")
      /\ UNCHANGED <<maps, file, todo, whole, now>>

\* Whether a text read at the start of an entry is the name of a type, in any case.
IsType(text, type) ==
  IF text \in Keys THEN Upper[text] = type
  ELSE text = IF type = "STRING" THEN "string" ELSE "list"

\* 0xFC is a deadline with its key behind it and 0xFF the end, neither of which
\* the writer writes.  Any other byte is the first of a text: a type name starts
\* a data entry, any other text is the key of a deadline.
ReadEntry ==
  LET marker == ReadToken("byte", pos)
      token  == ReadStringWithFirstLen(marker.v, marker.p)
      len    == ReadLength(token.p)
      opcode == ReadToken("byte", token.p)
  IN  /\ state = "read" /\ pos > 1
      /\ marker.ok /\ marker.v # 254
      /\ IF marker.v = 252
         THEN LET key == ReadString(marker.p) IN TakeDeadline(key, ReadToken("u64", key.p))
         ELSE IF marker.v = 255 THEN Stop("loaded")
         ELSE IF ~token.ok THEN Stop("failed")
         ELSE IF IsType(token.v, "STRING") THEN TakeData(ReadValue(token.p), "string")
         ELSE IF IsType(token.v, "LIST")
         THEN IF len.ok THEN TakeData(ReadItems(len.v, len.p), "list") ELSE Stop("failed")
         ELSE IF opcode.ok /\ opcode.v = 252 THEN TakeDeadline(token, ReadToken("u64", opcode.p))
         ELSE Stop("failed")
      /\ UNCHANGED <<maps, file, todo, whole, now>>

\* The end of the file where a marker is expected is the end of the snapshot.
ReadEnd ==
  /\ state = "read" /\ pos > Len(file) /\ file # <<>>
  /\ Stop("loaded")
  /\ UNCHANGED <<maps, file, todo, whole, now>>

\* Time passes while the file is written, kept and read.
Tick ==
  /\ now < MaxTime
  /\ state \in {"expirations", "read"}
  /\ now' = now + 1
  /\ UNCHANGED <<maps, file, todo, pos, db, deadlines, loadedAt, state, whole>>

Next ==
  \/ WriteHeader
  \/ \E k \in Keys : WriteData(k) \/ WriteExpiration(k)
  \/ WriteExpirations
  \/ Open
  \/ ReadHeader
  \/ ReadSelector
  \/ ReadEntry
  \/ ReadEnd
  \/ Tick

Spec == Init /\ [][Next]_vars
-----------------------------------------------------------------------------
\* parse accepts a whole file that write_db has written, and refuses it only if a
\* key that reads like a type has a deadline: "Not a data-type token, treat it as
\* expiry key" is all that tells the two apart.
WholeFileLoads ==
  whole /\ state \in {"loaded", "failed"} =>
    (state = "failed" <=> \E k \in Entries(expirations) : Upper[k] # "OTHER")

\* A whole file gives back the values and the lists, but for the empty ones, and
\* a deadline for exactly the keys that had one, whatever the order of entries.
RoundTrip ==
  state = "loaded" /\ whole =>
    /\ db = [k \in Keys |-> IF data[k] = List(<<>>) THEN None ELSE data[k]]
    /\ Entries(deadlines) = Entries(expirations)

\* A file cut anywhere is either refused or gives a part of the snapshot: never
\* a shortened list, or a value or a deadline under another key.
CutFileLoadsPart ==
  /\ \A k \in Keys : db[k] # None => db[k] = data[k]
  /\ \A k \in Keys : deadlines[k] # None => expirations[k] # None

\* A reload never makes a key live longer, and costs it less than a millisecond:
\* a deadline that was over when it was written or when it was read is over as
\* soon as the clock moves on after the reading.  (A deadline beyond the range of
\* the eight bytes, which a negative lifetime makes, comes back as another one.)
DeadlineKept ==
  \A k \in Keys : deadlines[k] # None /\ Millis(expirations[k]) < MillisRange =>
    \/ deadlines[k] = loadedAt[k] /\ expirations[k] - PerMs < loadedAt[k]
    \/ deadlines[k] <= expirations[k] /\ deadlines[k] > expirations[k] - PerMs
=============================================================================
