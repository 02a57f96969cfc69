# Ember: TLA+ models and proofs

Ember is a Redis-like key-value server. This directory holds TLA+ modules
translated from its source, the TLC configurations that check them on small
instances, and TLAPS proofs of the properties that matter most.
`PROJECT.json` lists runs, mutants, theorems and hazards, and maps every
definition to the source lines it stands for.

## The system and its parts

| Part | Source | Module | What happens there |
|---|---|---|---|
| Store | `database/core.rs` | `Objects`, `Store`, `AtomicStore`, `StoreRefines` | two concurrent maps, `data` and `expirations`, and the methods of `DB` |
| Active expiration | `database/core.rs` | `Store` | a background task that samples keys and removes overdue ones |
| Dispatcher | `command/dispatcher.rs` | `Dispatcher` | executes a command; MULTI, EXEC, DISCARD |
| Snapshot capture | `database/core.rs` | `Snapshot` | SAVE copies the two maps |
| Snapshot file | `rdb/writer.rs`, `rdb/reader.rs` | `RdbFile` | temporary file, rename, load at the next start |
| Snapshot format | `rdb/writer.rs`, `rdb/reader.rs` | `RdbCodec` | the bytes of a snapshot, written and read |
| Connection loop | `config/client.rs` | `Connection` | reads, parses, dispatches, buffers and flushes replies |
| RESP parser | `resp/parser.rs` | `RespParser`, `RequestStream` | frames out of bytes, whatever the reads bring |
| RESP types | `resp/types.rs` | `RespParser`, `RespTypes` | values and their encoding |
| Command parsing | `command/command.rs`, `utils/mod.rs` | `CommandParse`, `RequestStream` | commands out of frames: argument checks, lifetimes |
| Server and entry point | `server.rs`, `main.rs` | `Server` | arguments, port search, workers, accept loop, tasks on threads |

`main` reads the port from the arguments, `Server::new` looks for a free one,
and `Server::run` starts an acceptor for each CPU, which spawns a task for each
connection.
A connection task runs `Client::handle`, which calls `dispatch` for each
command; `dispatch` calls a method of `DB`. All connection tasks, the active
expiration and the copying of a SAVE share the two maps. A SAVE hands its copy
to a task that writes the file.

## How the modules correspond to the code

**Store.** No method of `DB` holds a lock across its calls, so one step is one
DashMap call with the computation up to the next. `pc[c]` names the call that
task `c` makes next: `set` is `SetUnexpire`, `SetInsert`, `SetExpire`; `get` and
`lrange` are `LazyCheck`, `LazyRemoveData`, `LazyRemoveExpiration`, `Read`; and
so on. `reaper` holds the local variables of `active_expiration_cycle`.
`removed` is not in the code: it keeps what `expirations.remove` returned, for
the refinement mapping. The random offset of a cycle is a nondeterministic
`skip`. A DashMap iterator is modelled as visiting one key per step, in any
order, which allows at least what visiting shard by shard does. The branch of
`expire` for an unknown option (`core.rs:205`) cannot be reached, because
`parse_command` refuses such an option (`command.rs:183`), and is left out.

**AtomicStore** says what the store promises: each command takes effect at one
instant between its call and its return. `StoreRefines` gives the refinement
mapping and the property `Linearizable`.

**Dispatcher** extends `Store` with the fields of `Client` and the local
variables of `execute_command`. A queued command keeps the time at which it was
parsed. PING, ECHO and SAVE appear by their reply.

**Snapshot** extends `Store` with the copying in `DB::save_rdb`. `during` is a
history variable: the contents the maps have had since the copying began.

**RdbFile** models files as inodes and names, so that a writer goes on writing
to its open file after another writer has renamed it. A block stands for one
flush of the `BufWriter`. `Starts` says what a start can come to: snapshots in
`Refused` have a key named like a type with a deadline and make it panic, and a torn
file may or may not parse.

**RdbCodec** models the byte stream as tokens with the two length encodings, the
milliseconds of deadlines, and a cut at any token.

**Connection** models what the peer sends as a script of two-byte frames, so that
reads can end inside a frame. Replies stay in the writer until a flush; the real
`BufWriter` may send some earlier, when it is full. A frame is answered, refused,
invalid, or makes the task panic; `RequestStream` shows which frames do what. A peer
may stop taking its replies (`StopReading`); a flush to such a peer may still go
through, while the socket has room for it, or wait for ever (`Stalled`).

**RespParser** and **CommandParse** are the parser and the command parsing as
operators. A byte is a character of the protocol, a digit or a part of an opaque
text, so lengths, CRLF inside texts and cuts at any byte are there, and words are
not. `parse` calls itself for the elements of an array, on the bytes that are left,
so `ParseFcn` is a recursive function on buffers and `ParseWith` its body.
`RespTypes` has the values a `RespType` can hold, arrays nested up to `MaxDepth`,
and `write_to`, with which the frames of the runs are written; the replies that the
code keeps ready (`RESP_OK`, `RESP_NIL`, ...) are the bytes `write_to` would write
anyway. `parse` takes an error for a simple string (`parser.rs:56`), so `Reread` says
what comes back of a value.
`ParseNumber` keeps the limits of `i64` and `usize`; `Ex`, `Wrap` and `AsU64`
keep the widths of lifetimes. **RequestStream** feeds them the bytes of a stream
in pieces, as the read loop of `Client::handle` does, in a debug or a release
build. It ends with the first invalid frame, behind which the buffer is cleared.

**Server** begins with the arguments and ends with connections being served.
`others` are the ports other applications hold; they take and release ports
between any two steps of the search. A connection that holds part of a frame
(`Holding`) keeps its thread, because `try_read_buf` does not wait
(`client.rs:111`); the others run as long as a thread is left, and that thread
also polls the sockets on behalf of the ones that spin. Bytes are counted in half
frames, and peers take their replies. `asked` and `refused` are history variables.

## Runs

Runs that pass:

| Run | Module and configuration | What it shows |
|---|---|---|
| `store_sequential` | `MCStore`, `StoreSequential.cfg` | one client, every command and option: the maps stay in sync (`MapsInSync`), each method is atomic (`Linearizable`) |
| `store_concurrent` | `MCStore`, `StoreConcurrent.cfg` | two clients and active expiration: a key nobody is at work on is left alone (`KeyUntouched`), only overdue values are purged (`PurgeOnlyOverdue`), each method is atomic (`Linearizable`) |
| `store_live` | `MCStore`, `StoreLive.cfg` | what is overdue is cleared (`OverdueCleared`, `ExpiringValueCleared`), and the active expiration goes back to sleep unless a key is given new deadlines for ever (`ReaperSleeps`) |
| `dispatch` | `MCDispatcher`, `Dispatch.cfg` | transactions: what is queued, when it takes effect, order in EXEC, what ends one, and that every command is answered |
| `rdb_file` | `MCRdbFile`, `RdbFile.cfg` | without overlapping saves `dump.rdb` is always whole and the newest saved |
| `rdb_codec` | `MCRdbCodec`, `RdbCodec.cfg` | a whole file is refused only for a key named like a type with a deadline (`WholeFileLoads`), otherwise read back but for empty lists (`RoundTrip`); a cut file gives a part or is refused; a deadline that fits keeps its millisecond |
| `connection` | `MCConnection`, `Connection.cfg` | replies in order (`OneReplyEach`) and never held back (`NothingHeldBack`), depth cap (`DepthCapped`), every command answered (`AllServed`), the task ends (`ConnectionEnds`), unless the peer takes no replies |
| `requests` | `MCRequestStream`, `RequestStream.cfg` | the values parsed are those sent however the bytes are divided (`SegmentsDoNotMatter`), no verdict of the parser is premature (`ParseStable`), commands fit the store (`CommandsFitStore`), lifetimes are kept (`LifetimeKept`), only a command with too few arguments, or an overflow in a debug build, panics (`OnlyShortRequestsPanic`) |
| `server` | `MCServer`, `Server.cfg` | arguments are understood (`ArgsUnderstood`), no free port is skipped (`FirstFree`), all workers listen on the announced port (`ListenersAnnounced`), start-up ends (`StartEnds`), whole frames are handled (`Served`) |

Runs in which the code disagrees with what the repository says of it:

| Run | Violated | What happens |
|---|---|---|
| `race_expiry_lost` | `ExpiringValueCleared` | active expiration removes the deadline a SET has just inserted; the value never expires (`core.rs:273`) |
| `race_snapshot` | `PointInTime` | writes between the two copies: the snapshot is not the store of any one moment (`core.rs:295`) |
| `race_save` | `DumpIntact` | two writers share the temporary name and a torn file becomes `dump.rdb` (`writer.rs:14`) |

Comments that say something else than the code, where a passing run or a theorem has
what the code does:

- `server.rs:28` says that `Server::new` returns an error if "the port is already in
  use". The loop below it tries the next port (`server.rs:54`), and so does the test
  (`tests/server.rs:20`). `FirstFree` is about the loop.
- `core.rs:229` says that the active expiration "yields to the Tokio scheduler between
  cycles so it never starves I/O tasks". A cycle that runs again at once
  (`core.rs:282`) does not yield. While clients go on giving keys lifetimes that run
  out at once, every sample can be overdue and the chain need not end; `ReaperSleeps`
  excludes exactly that.
- The repository's README (line 10) has EXPIRE among the "standard commands" of Redis.
  Redis counts its argument in seconds, `parse_command` in milliseconds (`command.rs:194`).
  `CommandParse` and `LifetimeKept` have milliseconds.

### What the passing runs leave out

Some properties hold only under a condition, which is part of the workload or of
the property. These behaviours of the code lie outside it:

- *Races on one key* (`SeparateUses` and `ExpiringUses` avoid them). A DELETE
  between the inserts of a SET with an expiry leaves a deadline without a value.
  A GET that found a key overdue removes the value a SET has put there since.
  Two EXPIRE NX both find no deadline. Two pushes that both create a list lose
  the items of one. A push on a list that active expiration is removing leaves a
  value without a deadline, or one that goes at once.
- *LPUSH* reverses its arguments when it creates the list (`core.rs:116`) and
  keeps their order in front of an existing one. Model and abstract
  specification both have it so.
- *Empty list.* A push without values creates one; its key is not in the file,
  so it is lost on reload (`reader.rs:97`). `RoundTrip` says so.
- *Key named like a type.* A deadline is written as its key and a marker, and the
  reader takes a key that reads STRING or LIST, in any case, for the type of a
  value (`reader.rs:59`): the file is refused and `DB::new` unwraps the error.
  `WholeFileLoads` says that this is the only case.
- *Lifetimes.* A negative one becomes a huge `u64` (`command.rs:100`), whose
  milliseconds wrap in the file (`writer.rs:86`); an EX beyond 2^31 / 1000 wraps in
  a release build (`command.rs:89`). `LifetimeKept` and `DeadlineKept` speak of
  those that fit.
- *LRANGE.* A stop in front of the list, such as -5 in a list of three, is no limit
  (`core.rs:178`), where Redis would answer with no items. `Slice`, the reference,
  repeats this on purpose: `LRangeSelects` and `Linearizable` show that the casts do
  nothing else, not that this is what a client expects.
- *Depth cap.* The `continue` of a refused command skips it (`client.rs:160`,
  `client.rs:170`); `DepthCapped` speaks of scripts whose commands are answered.
- *Invalid frame.* It clears the buffer with whatever commands are behind it
  (`client.rs:141`); `AllServed` speaks of the commands before it.
- *Panic.* A command with too few arguments ends its task (`command.rs:55`) with
  the replies that are not flushed; `AllServed` speaks of scripts without one.
- *Peers that take no replies.* Flushes have no time limit (`client.rs:189`), so such a
  peer can hold its task for ever; `AllServed` and `ConnectionEnds` name this case.
  `Served` is checked with peers that take their replies.
- *Threads.* When as many connections hold part of a frame as there are threads,
  none is left for anybody. `Served` is checked with fewer.
- *Port 0*, asked for or reached by the wrap of the search: each listener then has
  a port of its own. `ListenersAnnounced` excludes it.
- *Exclusive saves.* Nothing in the code keeps two SAVEs from overlapping;
  `Exclusive` is the assumption under which `DumpIntact` holds, and `race_save`
  shows what happens without it.

### Bounds

- Store: one to three keys, one or two clients, a sample of one key (so that
  sampling does leave keys out), lists of up to three items, a clock of up to
  four ticks. Two clients are enough for a race on a key, and the active
  expiration is a third party.
- Dispatcher: two clients, one key that can be a list or a string, queues of two
  commands: one that succeeds before one that fails. The clock stands still.
- Snapshot: two keys, so that copying one and then the other can be told apart.
- RdbFile: four saves of two and three blocks, so that a longer file is followed
  by a shorter one and the other way round, one of which the reader refuses; two
  saves are enough for the race.
- RdbCodec: two keys, one named like a type, texts of 0, 6, 64 and 300 bytes (both
  forms of the length), an empty list, deadlines on and off a whole millisecond
  and beyond the range of the format.
- Connection: a depth cap of two and pipelines of six frames, three times the cap.
- RequestStream: every command with zero to three arguments, flags and
  options that are accepted and that are not, values of every type, nested arrays,
  texts with CRLF, malformed frames, alone and some in pairs; every division into reads. `I32Max` is 31 and a second has 4
  milliseconds, so that both sides of each overflow occur. `MaxDepth` is 2: an array
  in an array.
- Server: ports 0 to 3, of which others hold up to two (never all that are left,
  or the search of a release build could go round for ever), two workers and
  threads, one accept error, a peer that sends whole frames and one that stops
  inside a frame or panics.
- `UsizeRange` is 1000 instead of 2^64: larger than any index in the runs, which
  is all that `LRange` depends on; its bounds lie on both sides of the list.

Symmetry is used only in `store_concurrent`, which checks no liveness.

### Fairness

Tokio runs every task that is ready, which gives weak fairness of a task that is
inside a method (`DbStep`), of the active expiration and of the connection loop
(`Work`). The clock goes on. The offset of a cycle is drawn anew and uniformly
every time, so each outcome happens again and again; this is the strong fairness
on offset 0 and on the sampling of each key. In `Server`, the start runs on
(`Start`), acceptors and connections with something to do are run while a thread
is left, and the sleep after an accept error ends (`Wake`); accept errors are
transient, which is the bound `MaxErrors`. Nothing is assumed of other applications
and of the peers, but that in `Server` they take their replies: `Connection` lets a
peer stop, and its fairness then does not extend to a flush.

In `store_live` a lifetime is only given while the clock can still reach its end
(`Bounded`): otherwise a clock that has come to its bound would keep deadlines from
ever passing. So the supply of lifetimes ends, and behaviours in which keys are given
deadlines for ever are cut off; `ExpiringValueCleared` and `ReaperSleeps` name them, so
they claim nothing of what the bound cuts off.

Deadlock is not checked in `rdb_codec`, `connection`, `requests` and `server`:
there the reading, the task or the stream comes to an end.

## Proofs

The theorems hold for every value of the constants that the named assumptions
(`RequestAssumption`, `NoneAssumption`, `KeysAssumption`, `StoreAssumption`,
`EntryAssumption`, `MaxQueueAssumption`, `FileAssumption`, `CodecAssumption`,
`ConnectionAssumption`, `ServerAssumption`, `RespAssumption`, `CommandAssumption`,
`StreamsAssumption`, `DepthAssumption`) allow; TLC evaluates each of them in the runs of its module.

- `StoreProofs`, without a condition: `TypeCorrect`, `TypeOK` is inductive as it
  stands, since it also relates each task's step to its command and its result.
  `LRangeSelects`: the arithmetic of LRANGE, casts included, gives what its
  reference definition gives. `KeyIsolation` (`KeyUntouched`) needs that a cycle's
  clock value is never ahead of the clock (`ReaperClock`); so a key that is not
  overdue now was not overdue by the older value.
- `StoreProofs`, under a condition: `MapsStayInSync` (`MapsInSync`) and
  `OnlyOverduePurged` (`PurgeOnlyOverdue`).
  `race_expiry_lost` shows that they cannot hold of every workload, so they assume
  `[]WritersApart`. A task inside a set, a push or an expire then has its key to
  itself, or the key is `Calm`: it has no deadline, no task at work on it gives it
  one, has just taken one away or purges it, and no list is being created in it. So
  reads, deletes and the active expiration may overlap on a key in any way, and on a
  key without deadlines sets, pushes, reads and deletes may too. The parts of
  `Calm` exclude the races listed above, except that no task has just taken a deadline
  away: that is asked for by the refinement mapping. They also assume `SnapshotsInSync`: every
  deadline the server starts with belongs to a value. That is so for an empty store; a
  file of `save_rdb` can keep the deadline of a list that it drops because it is empty.
  Their inductive invariant `AtomicInv` says what each task still knows of the maps
  when it comes to its next call: which of the two entries of its key are left, whether
  the deadline it read is still there or the key has been purged meanwhile, and that a
  key with a deadline but no value has a task on its way to remove that deadline. A
  step of another task on the same key keeps this either because it only removes
  (`OnlyRemoves`) or because the key stays without a deadline (`CalmStep`). The
  workload of `store_concurrent` keeps `WritersApart`, so the theorems cover it.
- `StoreRefinesProofs`: `StoreIsLinearizable` (`Linearizable`) under the same
  condition: the initial states map to initial states of `AtomicStore`, and every
  step of a task or of the active expiration maps to a step of it or to a stutter.
  Each method takes effect at one of its calls: `set` at the insert, `delete` and
  the two expirations at the removal of the value, a read at its look-up; until the
  deadline of a `set` is in the map the mapping supplies it (`deadlineBar`). Where sets
  overlap, on a calm key, there is no deadline for it to supply (`BarOfCalm`).
- `DispatcherProofs`: five invariants from one inductive invariant `DInv`, which
  says for each client that the mode of execution, the transaction flag, the
  queue and the state of the DB method agree; and from it the action property
  `TransactionEnds` (`TransactionsEndProperly`): when EXEC comes to its end nothing
  is left to do, so its replies are as many as the queued commands. Its second part
  is about the SAVE that the dispatcher starts (`Snapshot`): what holds of a copy
  although `PointInTime` does not. `NothingStaleSaved`: every copied entry was in the
  store during the save; the invariant `CopyInv` says this of the entries copied so
  far. `OneChangeHarmless`: if one entry of one map changed meanwhile, the copy is
  exact.
- `RdbCodecProofs`: all four properties of `rdb_codec`, as `WrittenFilesLoad`
  (`WholeFileLoads`), `SnapshotsReturn` (`RoundTrip`), `CutFilesGiveParts`
  (`CutFileLoadsPart`) and `DeadlinesSurvive` (`DeadlineKept`). The invariant
  `CodecInv` says that there is a place and a sequence of tokens for every entry
  written so far, that these fill the file behind the selector without gap or
  overlap (`Layout`), and that the reader stands at the start or the end of an
  entry and has taken exactly the entries before it (`Reading`). The steps of the
  reader follow from one lemma for each pair of a writing and a reading function
  (`LengthsAgree`, `StringsAgree`, `ValuesAgree`, `ItemsAgree`), all of one form: where the
  tokens of `write_x` stand, as far as the file goes, `read_x` gives back what was
  written and stops behind it, or fails if the file is cut before that. The assumptions
  are that texts and lists have fewer than 2^32 bytes and items, which is what the
  length field holds, and that the names of the types read like themselves.
  TLC checks the four properties, not `CodecInv`, which quantifies over sequences.
- `RespProofs`: the parser and the encoding, for any texts, any bytes, every limit and
  every depth of arrays. `ParseSettles`: unless `parse` says Incomplete, bytes behind
  the buffer do not change its result. It is shown by induction on the length of the
  buffer, because the elements of an array are parsed from shorter ones; for each type
  there is a lemma that the result is an error or lies inside the buffer
  (`ParseResult`) and that it stays (`BulkStringStays`, `ArrayStays`, ...).
  `ParseInvertsWrite`: `parse` reads what `write_to` wrote, to the last byte, and the
  value it gives is `Reread` of the one written. It speaks of values whose simple
  strings and errors have no CRLF in them (`OneLiners`), because these are written
  without a length; bulk strings may hold anything. The argument: the digits of `itoa`
  are read as the number they came from; each scalar is read back (`ScalarParsed`);
  an array is, if its elements are (`ArrayParsed`), where `ParseSettles` says that an
  element is read alike with its successors behind it; and so level by level of
  nesting (`LevelValues`). `PlainValuesReturn`: without errors inside, the value that
  comes back is the one written.
- `RequestProofs`: all five properties of `requests`. The action property `ParseStable`
  (`ParsedStays`) follows from `ParseSettles`. `PiecesDoNotMatter`
  (`SegmentsDoNotMatter`) has the hypothesis `FramesMeant`: `parse` takes each frame
  of the streams, alone in the buffer, for the value it is meant to be, to its last
  byte, or as malformed. Its invariant `Aligned` says that the bytes in the buffer and
  those on their way are what follows the frames taken. For streams whose frames are
  written by `write_to` (`FramesWritten`), `ParseInvertsWrite` gives that hypothesis:
  `WrittenStreamsAreRead` says that such a stream is read back, however it is divided,
  and never refused. `OnlyFittingCommands`
  (`CommandsFitStore`), `LifetimesKept` (`LifetimeKept`) and `FullRequestsDoNotPanic`
  (`OnlyShortRequestsPanic`) need no hypothesis: `CommandAnswers` goes through the
  branches of `parse_command` once, for arguments of any kind and number, and the
  invariant `Outcomes` ties each outcome to the value it was made of.
- `ServerProofs`: `NoPortSkipped` (`FirstFree`) is inductive once `port` and
  `asked` are known to be 16-bit numbers (`SearchInv`);
  `AllWorkersListen` (`ListenersAnnounced`) needs that from the first bind on no
  other application can have the port (`BindInv`). `LastPortWins` (`ArgsUnderstood`),
  for argument lists of any length: the loop of `parse_args` stands at an argument
  with an even number of flags next to each other in front of it, and `port` is what
  the options so far ask for (`ArgsInv`). Its second part is about the snapshot file
  that the server starts from and leaves behind (`RdbFile`). `FileTypes`, its type
  invariant, is for overlapping saves too. `DumpNeverTorn`,
  `LaterSnapshotsWin` and `FailedSaveChangesNothing` assume `Exclusive`; their
  invariant `FInv` says that the one running writer is that of the last SAVE,
  writes to the file of the temporary name, which is never `dump.rdb`, and has
  written a prefix of its image there.
- `ConnectionProofs`: `ConnectionTypes`, its type invariant; `RepliesAreFlushed` needs that an inner
  loop that took nothing left no reply in the writer (`HeldInv`); `CapHolds`
  needs that `pipeline_count` bounds the replies in the writer (`DepthInv`);
  `RepliesInOrder` (`OneReplyEach`) needs that the frames are consumed whole and
  that nothing follows a panic (`OrderInv`).

Induction over data (the items of a list, the elements of an array, the bytes of a
buffer) is done with a set: `Induction` derives from the well-foundedness of the
finite subsets that a set with 0 which is closed under the successor below n contains
`0 .. n`. The recursive functions are unfolded with it (`WriteRecursion`,
`ReadRecursion`, `ElementsRecursion`, ...); for `ParseFcn`, which is recursive in the
buffer, `ParseExists` and `ParseUnique` show that there is just one such function, and
for `WriteTo` and `Reread`, which are recursive in the nesting of a value, `BothExist`
builds them level by level.

Only model-checked:

- everything about liveness (and `ENABLED`), which is out of the prover's reach;
- what `parse` makes of inline commands and of malformed frames, which is the rest of
  `FramesMeant`: the `requests` run checks `SegmentsDoNotMatter` with them. A general
  statement would need a second definition of what such a frame means;
- the properties of the store where writers do not keep apart. There some fail, as
  `race_expiry_lost` shows, and `store_live` checks what is left: that what
  is overdue is cleared.

## Not modelled

- Logging, socket options other than SO_REUSEPORT, module declarations: no state
  that anything depends on. `to_string` and `to_bytes` (`types.rs:101`) are a second
  copy of the encoding that only tests use.
- Loss of power: there is no sync before the rename (`writer.rs:24`), and
  `RdbFile` models only the stop of the process. What is left after it depends on
  the file system.
- Locks inside DashMap: a call never blocks here. `get` takes a second read lock
  on a shard it already reads (`core.rs:91`); whether that can block is decided by
  the lock's policy, which is not in this repository.
- Memory: `Vec::with_capacity` with the announced length of an array
  (`parser.rs:134`), the growth of the read buffer, the stack of the recursive
  re-run (`core.rs:283`). Lengths near the largest `usize`, whose sums overflow
  (`parser.rs:104`).
- The backlog of 1024 and the short time in which the probe's listener may itself
  accept connections. A second instance of the server, which SO_REUSEPORT lets bind
  the same port (`server.rs:127`).
- From when the lifetime of a queued command counts: the code takes the time of
  parsing (`command.rs:194`), which `Dispatcher` keeps, and the repository promises
  nothing.
