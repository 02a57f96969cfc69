------------------------------ MODULE RdbFile ------------------------------
(***************************************************************************)
(* How a snapshot reaches the disk (rdb/writer.rs save_rdb, run by the     *)
(* task that DB::save_rdb spawns) and how the server starts from it        *)
(* (rdb/reader.rs load_rdb, called by DB::new).                            *)
(*                                                                         *)
(* SAVE answers at once and leaves the writing to a task of its own, so    *)
(* several writers can run at the same time, and all of them use the same  *)
(* temporary name.  A file is an inode, a sequence of blocks; create and   *)
(* rename act on names, write acts on the inode the writer has open.  A    *)
(* block is one flush of the writer's BufWriter.  The process can stop at  *)
(* any point, leaving the files as they are, and start again.              *)
(***************************************************************************)
EXTENDS Integers, Sequences

CONSTANTS
  NoFile,     \* what a name stands for that no file has
  MaxSaves,   \* bound: the number of SAVE commands; the snapshots are 1..MaxSaves
  Exclusive,  \* TRUE: a SAVE is only sent when no writer is running
  Blocks,     \* Blocks[n]: the length of the serialization of snapshot n
  Refused     \* the snapshots in which a key that reads like a type has a deadline

Saves     == 1 .. MaxSaves
Snapshots == 0 .. MaxSaves   \* snapshot 0 was written by an earlier process
Inodes    == 0 .. MaxSaves   \* inode n is the one writer n creates, if it does

ASSUME FileAssumption ==
  /\ MaxSaves \in Nat
  /\ Exclusive \in BOOLEAN
  /\ Blocks \in [Snapshots -> Nat \ {0}]
  /\ NoFile \notin Nat
  /\ Refused \subseteq Saves

Block == [snapshot : Snapshots, part : Nat \ {0}]
Hole  == [snapshot |-> 0, part |-> 0]   \* zeros: a range that nobody wrote

\* The whole serialization of a snapshot.
Image(n) == [i \in 1 .. Blocks[n] |-> [snapshot |-> n, part |-> i]]

VARIABLES
  files,    \* the content of each inode
  dump,     \* the inode named dump.rdb, or NoFile
  tmp,      \* the inode named dump.rdb.tmp, or NoFile
  writer,   \* writer[n]: the task that writes snapshot n
  saves,    \* the number of SAVE commands so far
  server    \* "up", "down" (stopped) or "panicked" (load_rdb failed)

fileVars == <<files, dump, tmp, writer, saves, server>>

Running(n) == writer[n].pc \in {"create", "write"}

FileInit ==
  /\ \E old \in BOOLEAN :
       /\ dump = IF old THEN 0 ELSE NoFile
       /\ files = [i \in Inodes |-> IF old /\ i = 0 THEN Image(0) ELSE <<>>]
  /\ tmp = NoFile
  /\ writer = [n \in Saves |-> [pc |-> "unborn", fd |-> NoFile, off |-> 0]]
  /\ saves = 0
  /\ server = "up"
-----------------------------------------------------------------------------
\* DB::save_rdb hands its copy of the two maps to a new task.
Save ==
  /\ server = "up"
  /\ saves < MaxSaves
  /\ Exclusive => \A n \in Saves : ~Running(n)
  /\ saves' = saves + 1
  /\ writer' = [writer EXCEPT ![saves + 1].pc = "create"]
  /\ UNCHANGED <<files, dump, tmp, server>>

CreateMutant(n) ==   \* opens the temporary file without truncating it
  /\ writer[n].pc = "create"
  /\ tmp' = IF tmp = NoFile THEN n ELSE tmp
  /\ files' = files
  /\ writer' = [writer EXCEPT ![n] = [pc |-> "write", fd |-> tmp', off |-> 0]]
  /\ UNCHANGED <<dump, saves, server>>

\* File::create: truncates the file of that name, or makes a new one.
Create(n) ==
  /\ writer[n].pc = "create"
  /\ tmp' = IF tmp = NoFile THEN n ELSE tmp
  /\ files' = [files EXCEPT ![tmp'] = <<>>]
  /\ writer' = [writer EXCEPT ![n] = [pc |-> "write", fd |-> tmp', off |-> 0]]
  /\ UNCHANGED <<dump, saves, server>>

\* The content s after a write of block b at offset o.
WriteAt(s, o, b) ==
  [i \in 1 .. IF o < Len(s) THEN Len(s) ELSE o + 1 |->
     IF i = o + 1 THEN b ELSE IF i <= Len(s) THEN s[i] ELSE Hole]

\* A full buffer, or the final flush, goes to the open file at its offset.
Write(n) ==
  LET w == writer[n] IN
  /\ w.pc = "write"
  /\ w.off < Blocks[n]
  /\ files' = [files EXCEPT ![w.fd] = WriteAt(@, w.off, Image(n)[w.off + 1])]
  /\ writer' = [writer EXCEPT ![n].off = w.off + 1]
  /\ UNCHANGED <<dump, tmp, saves, server>>

RenameMutant(n) ==   \* renames before the buffer is flushed
  /\ writer[n].pc = "write"
  /\ writer[n].off + 1 >= Blocks[n]
  /\ tmp # NoFile
  /\ dump' = tmp
  /\ tmp' = NoFile
  /\ writer' = [writer EXCEPT ![n].pc = "done"]
  /\ UNCHANGED <<files, saves, server>>

\* After the flush: fs::rename moves whatever file has the temporary name.
Rename(n) ==
  /\ writer[n].pc = "write"
  /\ writer[n].off = Blocks[n]
  /\ tmp # NoFile
  /\ dump' = tmp
  /\ tmp' = NoFile
  /\ writer' = [writer EXCEPT ![n].pc = "done"]
  /\ UNCHANGED <<files, saves, server>>

SaveFailsMutant(n) ==   \* goes on to the rename after a failed write
  /\ Running(n)
  /\ dump' = IF writer[n].pc = "write" THEN tmp ELSE dump
  /\ tmp' = IF writer[n].pc = "write" THEN NoFile ELSE tmp
  /\ writer' = [writer EXCEPT ![n].pc = "failed"]
  /\ UNCHANGED <<files, saves, server>>

\* Any of create, write, flush and rename can fail; the `?` leaves save_rdb,
\* the task logs the error and ends, and the temporary file stays behind.
SaveFails(n) ==
  /\ Running(n)
  /\ writer' = [writer EXCEPT ![n].pc = "failed"]
  /\ UNCHANGED <<files, dump, tmp, saves, server>>

\* The process stops, and every writer with it.
Crash ==
  /\ server = "up"
  /\ server' = "down"
  /\ writer' = [n \in Saves |-> IF Running(n) THEN [writer[n] EXCEPT !.pc = "failed"]
                                ELSE writer[n]]
  /\ UNCHANGED <<files, dump, tmp, saves>>

\* What DB::new can come to.  Without a file the store is empty.  A file that does
\* not parse makes load_rdb fail and the unwrap of its result panic.  A whole file
\* parses unless its snapshot is one of Refused (see RdbCodec); a torn one may
\* parse all the same, when it ends where an entry ends, which the reader takes for
\* the end.
Starts ==
  IF dump = NoFile \/ \E n \in Snapshots \ Refused : files[dump] = Image(n) THEN {"up"}
  ELSE IF \E n \in Refused : files[dump] = Image(n) THEN {"panicked"}
  ELSE {"up", "panicked"}

\* The program is started again, maybe after a start that failed.
Restart ==
  /\ server # "up"
  /\ server' \in Starts
  /\ UNCHANGED <<files, dump, tmp, writer, saves>>

FileNext ==
  \/ Save
  \/ Crash
  \/ Restart
  \/ \E n \in Saves : Create(n) \/ Write(n) \/ Rename(n) \/ SaveFails(n)

FileSpec == FileInit /\ [][FileNext]_fileVars
-----------------------------------------------------------------------------
\* The types of the files, the names and the writers.
TypeOK ==
  /\ files \in [Inodes -> Seq(Block \cup {Hole})]
  /\ dump \in Inodes \cup {NoFile}
  /\ tmp \in Inodes \cup {NoFile}
  /\ writer \in [Saves -> [pc  : {"unborn", "create", "write", "done", "failed"},
                           fd  : Inodes \cup {NoFile},
                           off : Nat]]
  /\ saves \in 0 .. MaxSaves
  /\ server \in {"up", "down", "panicked"}

Intact(i) == \E n \in Snapshots : files[i] = Image(n)

\* A stop at any point of a save leaves a dump.rdb that is the whole serialization
\* of one snapshot, never a torn or mixed one (writer.rs:12-13 and README "Atomic
\* Renames").  The next start loads it, unless a key in it reads like a type.
DumpIntact == dump # NoFile => Intact(dump)

\* What the file named dump.rdb holds.
DumpContent == IF dump = NoFile THEN <<>> ELSE files[dump]

\* A save that fails or is cut off does not change what dump.rdb holds: the
\* content changes only when a writer that has written everything renames, and
\* then to that writer's snapshot.
DumpChangesOnlyByRename ==
  [][DumpContent' # DumpContent =>
       \E n \in Saves : Rename(n) /\ DumpContent' = Image(n)]_fileVars

\* A later snapshot is never replaced by an earlier one: dump.rdb
\* holds the snapshot of the last save that succeeded, or of a later one.
NewestSurvives ==
  \A n \in Saves : writer[n].pc = "done" =>
    \E m \in n .. MaxSaves : DumpContent = Image(m)
=============================================================================
