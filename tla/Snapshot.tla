------------------------------ MODULE Snapshot ------------------------------
(***************************************************************************)
(* DB::save_rdb takes a copy of the data map and then of the expirations   *)
(* map while the other tasks go on.  The iterator of a DashMap locks one   *)
(* shard at a time: a step copies the entry of one key.  The copy is then  *)
(* given to the writer (RdbFile, RdbCodec).                                *)
(***************************************************************************)
EXTENDS Store

VARIABLES
  saver,    \* "idle", "data", "expirations": the map that SAVE copies
  unread,   \* the keys the iterator has not come to
  copy,     \* the copy so far: data_snapshot and exp_snapshot
  during    \* the contents that the maps have had since the copying began

svars == <<saver, unread, copy, during>>

NoCopy == [data |-> [k \in Keys |-> None], expirations |-> [k \in Keys |-> None]]

Contents == [data |-> data, expirations |-> expirations]

SInit ==
  /\ Init
  /\ saver = "idle"
  /\ unread = {}
  /\ copy = NoCopy
  /\ during = {}

\* A new copy begins; the iterator will come to the place of every key.
SaveStart ==
  /\ saver = "idle"
  /\ saver' = "data"
  /\ unread' = Keys
  /\ copy' = NoCopy
  /\ during' = {Contents}
  /\ UNCHANGED vars

SaveData(k) ==
  /\ saver = "data"
  /\ k \in unread
  /\ unread' = unread \ {k}
  /\ copy' = [copy EXCEPT !.data[k] = data[k]]
  /\ UNCHANGED <<vars, saver, during>>

SaveExpirations ==
  /\ saver = "data"
  /\ unread = {}
  /\ saver' = "expirations"
  /\ unread' = Keys
  /\ UNCHANGED <<vars, copy, during>>

SaveExpiration(k) ==
  /\ saver = "expirations"
  /\ k \in unread
  /\ unread' = unread \ {k}
  /\ copy' = [copy EXCEPT !.expirations[k] = expirations[k]]
  /\ UNCHANGED <<vars, saver, during>>

\* The copy goes to the background task and SAVE answers.
SaveSpawn ==
  /\ saver = "expirations"
  /\ unread = {}
  /\ saver' = "idle"
  /\ copy' = NoCopy
  /\ during' = {}
  /\ UNCHANGED <<vars, unread>>

\* The other tasks go on.
StoreNext ==
  /\ Next
  /\ during' = IF saver = "idle" THEN during ELSE during \cup {Contents'}
  /\ UNCHANGED <<saver, unread, copy>>

SaveStep ==
  \/ SaveStart
  \/ \E k \in Keys : SaveData(k) \/ SaveExpiration(k)
  \/ SaveExpirations
  \/ SaveSpawn

SNext == SaveStep \/ StoreNext

SSpec == SInit /\ [][SNext]_<<vars, svars>>

Copied == saver = "expirations" /\ unread = {}
-----------------------------------------------------------------------------
\* Every entry of the copy was an entry of the store at some moment of the save:
\* nothing older than the SAVE is written, and nothing that never was.
CopyIsCurrent ==
  Copied =>
    \A k \in Keys :
      /\ \E s \in during : copy.data[k] = s.data[k]
      /\ \E s \in during : copy.expirations[k] = s.expirations[k]

\* One place is all that the contents s and t differ in: the value or the
\* deadline of k.
DifferAt(s, t, k) ==
  /\ \A j \in Keys \ {k} : s.data[j] = t.data[j] /\ s.expirations[j] = t.expirations[j]
  /\ s.data[k] = t.data[k] \/ s.expirations[k] = t.expirations[k]

\* A save during which the maps change in one place at most, from s to t or back,
\* is exact: its copy is s or t.
OneChangeExact ==
  \A s, t \in during, k \in Keys :
    Copied /\ during = {s, t} /\ DifferAt(s, t, k) => copy \in {s, t}

\* "Take a point-in-time snapshot of both maps": the copy is what the two maps
\* held at one moment of the save.
PointInTime == Copied => copy \in during
=============================================================================
