----------------------------- MODULE Connection -----------------------------
(***************************************************************************)
(* One connection: the loop of Client::handle (config/client.rs) that      *)
(* reads bytes, parses and dispatches the commands in them, and buffers    *)
(* and flushes the replies.                                                *)
(*                                                                         *)
(* What the peer sends is a script of frames, two bytes each, so that a    *)
(* read can end inside a frame; byte 2 * i is the last of frame i.  Three  *)
(* counters say how far the peer, the socket and the parser have come, and *)
(* the read buffer holds the bytes from consumed + 1 to received.  A frame *)
(* is "ok" (a command that dispatch answers), "error" (one that            *)
(* extract_command or dispatch refuses), "panic" (one in which             *)
(* extract_command indexes an argument that is not there) or "invalid"     *)
(* (not RESP); RequestStream shows which is which.  What the commands do   *)
(* to the store is the matter of Dispatcher.  Writes of replies are kept   *)
(* back until a flush; BufWriter may send some earlier.                    *)
(* Once the connection is broken every flush fails, a read gives the bytes *)
(* that are left or fails, and a write goes into the buffer or fails.      *)
(*                                                                         *)
(* The peer may stop taking replies.  The buffers of the connection may    *)
(* have room for some more, so the steps that write or flush a reply stay  *)
(* possible, but they may also stay pending for ever (FairSpec).           *)
(***************************************************************************)
EXTENDS Integers, Sequences

CONSTANTS
  Scripts,    \* what the peer may send
  MaxFrames,  \* bound: the number of frames in a script
  MaxDepth    \* MAX_PIPELINE_DEPTH, 1000 in the code

Kinds == {"ok", "error", "panic", "invalid"}

ASSUME ConnectionAssumption ==
  /\ Scripts \subseteq Seq(Kinds)
  /\ \A s \in Scripts : Len(s) <= MaxFrames
  /\ MaxDepth \in Nat \ {0}

VARIABLES
  script,          \* the frames of this peer
  sent,            \* bytes the peer has sent
  hungup,          \* the peer has closed its side
  broken,          \* the connection was reset
  reading,         \* the peer still takes replies
  received,        \* bytes read from the socket
  consumed,        \* bytes taken out of the buffer
  pc,              \* "read", "parse", "midflush", "flush", "leave" or "closed"
  pipeline_count,
  made_progress,
  out,             \* the replies in the BufWriter: the frames they answer
  delivered        \* the replies that were flushed

peer == <<script, sent, hungup, broken, reading>>
loop == <<pipeline_count, made_progress>>
replies == <<out, delivered>>
vars == <<peer, received, consumed, pc, loop, replies>>

Init ==
  /\ script \in Scripts
  /\ sent = 0
  /\ hungup = FALSE
  /\ broken = FALSE
  /\ reading = TRUE
  /\ received = 0
  /\ consumed = 0
  /\ pc = "read"
  /\ pipeline_count = 0
  /\ made_progress = FALSE
  /\ out = <<>>
  /\ delivered = <<>>
-----------------------------------------------------------------------------
(* The peer *)
Send ==
  /\ ~hungup /\ ~broken
  /\ sent < 2 * Len(script)
  /\ sent' = sent + 1
  /\ UNCHANGED <<script, hungup, broken, reading, received, consumed, pc, loop, replies>>

HangUp ==
  /\ ~hungup
  /\ hungup' = TRUE
  /\ UNCHANGED <<script, sent, broken, reading, received, consumed, pc, loop, replies>>

Break ==
  /\ ~broken
  /\ broken' = TRUE
  /\ UNCHANGED <<script, sent, hungup, reading, received, consumed, pc, loop, replies>>

\* For good; a peer that goes on later is one whose network is slow.
StopReading ==
  /\ reading
  /\ reading' = FALSE
  /\ UNCHANGED <<script, sent, hungup, broken, received, consumed, pc, loop, replies>>
-----------------------------------------------------------------------------
(* The outer loop: read *)
BufferEmpty == consumed = received

\* The inner loop begins with fresh counters.
Drain ==
  /\ pc' = "parse"
  /\ pipeline_count' = 0
  /\ made_progress' = FALSE

\* Some of the bytes on the socket are read.  With an empty buffer this is the
\* read that waits, else the one that does not.
Read ==
  /\ pc = "read"
  /\ received < sent
  /\ received' \in received + 1 .. sent
  /\ Drain
  /\ UNCHANGED <<peer, consumed, replies>>

ReadEofMutant ==   \* a bug: with a rest in the buffer, the end is not noticed
  /\ pc = "read"
  /\ BufferEmpty
  /\ received = sent
  /\ hungup
  /\ pc' = "leave"
  /\ UNCHANGED <<peer, received, consumed, loop, replies>>

\* Ok(0): the peer has closed.
ReadEof ==
  /\ pc = "read"
  /\ received = sent
  /\ hungup
  /\ pc' = "leave"
  /\ UNCHANGED <<peer, received, consumed, loop, replies>>

\* WouldBlock: a rest is in the buffer and nothing new on the socket.
ReadNothing ==
  /\ pc = "read"
  /\ ~BufferEmpty
  /\ received = sent
  /\ ~hungup /\ ~broken
  /\ Drain
  /\ UNCHANGED <<peer, received, consumed, replies>>

\* Any other error of the socket ends the connection.
ReadError ==
  /\ pc = "read"
  /\ broken
  /\ pc' = "leave"
  /\ UNCHANGED <<peer, received, consumed, loop, replies>>
-----------------------------------------------------------------------------
(* The inner loop: parse, dispatch, reply *)
Frame(b) == script[(b \div 2) + 1]

\* What Parser::parse can make of the buffer: a frame and where it ends, that it
\* is not complete, or that it is invalid, which may show before its end.  When
\* the buffer begins inside a frame (after a clear) it can be any of these.
Parse ==
  IF BufferEmpty THEN {[kind |-> "incomplete", to |-> received]}
  ELSE IF consumed % 2 = 1
  THEN [kind : Kinds \cup {"incomplete"}, to : consumed + 1 .. received]
  ELSE IF consumed + 2 <= received
  THEN {[kind |-> Frame(consumed), to |-> consumed + 2]}
  ELSE {[kind |-> "incomplete", to |-> received]}
         \cup IF Frame(consumed) = "invalid" THEN {[kind |-> "invalid", to |-> received]} ELSE {}

\* Nothing (more) to take out of the buffer.
Drained ==
  /\ pc = "parse"
  /\ \E p \in Parse : p.kind = "incomplete"
  /\ pc' = "flush"
  /\ UNCHANGED <<peer, received, consumed, loop, replies>>

\* A reply is written to the BufWriter, by a call whose failure is ignored.
Buffer(reply) == out' = Append(out, reply) \/ (broken /\ out' = out)

InvalidMutant ==   \* a bug: no flush of its own
  /\ pc = "parse"
  /\ \E p \in Parse : p.kind = "invalid"
  /\ Buffer(0)
  /\ consumed' = received
  /\ pc' = "flush"
  /\ UNCHANGED <<peer, received, loop, delivered>>

\* Invalid: an error is written, numbered 0 here, and flushed at once, and the
\* whole buffer is dropped.
Invalid ==
  /\ pc = "parse"
  /\ \E p \in Parse : p.kind = "invalid"
  /\ IF broken THEN Buffer(0) /\ UNCHANGED delivered
     ELSE delivered' = delivered \o out \o <<0>> /\ out' = <<>>
  /\ consumed' = received
  /\ pc' = "flush"
  /\ UNCHANGED <<peer, received, loop>>

\* The frame goes out of the buffer.
Take(p) ==
  /\ consumed' = p.to
  /\ pipeline_count' = pipeline_count + 1
  /\ made_progress' = TRUE
  /\ UNCHANGED <<peer, received, delivered>>

\* The number of the frame that p ends.
Number(p) == (p.to + 1) \div 2

RefuseMutant ==   \* a bug: the error is logged and not sent
  /\ pc = "parse"
  /\ \E p \in Parse : p.kind = "error" /\ Take(p)
  /\ UNCHANGED <<pc, out>>

\* extract_command or dispatch fails: the error is the reply, and `continue`.
Refuse ==
  /\ pc = "parse"
  /\ \E p \in Parse : p.kind = "error" /\ Take(p) /\ Buffer(Number(p))
  /\ UNCHANGED pc

AnswerMutant ==   \* a bug: the cap is one too high
  /\ pc = "parse"
  /\ \E p \in Parse : p.kind = "ok" /\ Take(p) /\ out' = Append(out, Number(p))
  /\ pc' = IF pipeline_count' > MaxDepth THEN "midflush" ELSE "parse"

Answer ==
  /\ pc = "parse"
  /\ \E p \in Parse : p.kind = "ok" /\ Take(p) /\ out' = Append(out, Number(p))
  /\ pc' = IF pipeline_count' >= MaxDepth THEN "midflush" ELSE "parse"

\* write_to fails for an answer: handle returns and the BufWriter is dropped.
WriteError ==
  /\ pc = "parse"
  /\ broken
  /\ \E p \in Parse : p.kind = "ok" /\ Take(p)
  /\ pc' = "closed"
  /\ UNCHANGED out
\* extract_command panics: the task ends, and the replies in the BufWriter with it.
Panic ==
  /\ pc = "parse"
  /\ \E p \in Parse : p.kind = "panic" /\ Take(p)
  /\ pc' = "closed"
  /\ UNCHANGED out
-----------------------------------------------------------------------------
(* Flushing *)
Deliver ==
  /\ delivered' = delivered \o out
  /\ out' = <<>>

MidFlush ==
  /\ pc = "midflush"
  /\ ~broken
  /\ Deliver
  /\ pipeline_count' = 0
  /\ pc' = "parse"
  /\ UNCHANGED <<peer, received, consumed, made_progress>>

MidFlushError ==
  /\ pc = "midflush"
  /\ broken
  /\ pc' = "leave"
  /\ UNCHANGED <<peer, received, consumed, loop, replies>>

FlushMutant ==   \* a bug: waits with the flush while a rest is in the buffer
  /\ pc = "flush"
  /\ made_progress /\ out # <<>> => ~broken
  /\ IF made_progress /\ BufferEmpty THEN Deliver ELSE UNCHANGED replies
  /\ pc' = "read"
  /\ UNCHANGED <<peer, received, consumed, loop>>

\* After the inner loop, if it took anything and the writer is not empty.
Flush ==
  /\ pc = "flush"
  /\ made_progress /\ out # <<>> => ~broken
  /\ IF made_progress THEN Deliver ELSE UNCHANGED replies
  /\ pc' = "read"
  /\ UNCHANGED <<peer, received, consumed, loop>>

FlushError ==
  /\ pc = "flush"
  /\ made_progress /\ out # <<>> /\ broken
  /\ pc' = "closed"
  /\ UNCHANGED <<peer, received, consumed, loop, replies>>

\* Out of the outer loop: a last flush, whose failure is ignored.
Leave ==
  /\ pc = "leave"
  /\ IF broken THEN UNCHANGED replies ELSE Deliver
  /\ pc' = "closed"
  /\ UNCHANGED <<peer, received, consumed, loop>>
-----------------------------------------------------------------------------
Work ==
  \/ Read \/ ReadEof \/ ReadNothing \/ ReadError
  \/ Drained \/ Invalid \/ Refuse \/ Answer \/ WriteError \/ Panic
  \/ MidFlush \/ MidFlushError \/ Flush \/ FlushError \/ Leave

Next == Send \/ HangUp \/ Break \/ StopReading \/ Work

Spec == Init /\ [][Next]_vars

\* The connection holds and the peer takes no replies, so that a write or a flush
\* has to wait, once the buffers on the way are full.
Stalled == ~reading /\ ~broken

\* The task keeps running, except that it may wait for ever in a write or a flush
\* on a stalled connection: these are the steps that change the replies.  The peer
\* need not do anything.
FairSpec == Spec /\ WF_vars(Work /\ (Stalled => replies' = replies))
-----------------------------------------------------------------------------
\* The counters follow one another and the replies are of frames of the script.
TypeOK ==
  /\ script \in Scripts
  /\ hungup \in BOOLEAN /\ broken \in BOOLEAN /\ reading \in BOOLEAN
  /\ made_progress \in BOOLEAN
  /\ consumed \in 0 .. received /\ received \in 0 .. sent /\ sent \in 0 .. 2 * Len(script)
  /\ pc \in {"read", "parse", "midflush", "flush", "leave", "closed"}
  /\ pipeline_count \in Nat
  /\ out \in Seq(0 .. Len(script)) /\ delivered \in Seq(0 .. Len(script))

Has(kind) == \E i \in DOMAIN script : script[i] = kind

\* The commands that were taken, without one that panicked.
Handled ==
  LET n == consumed \div 2
  IN  IF n > 0 /\ script[n] = "panic" THEN n - 1 ELSE n

\* Replies come in the order of the commands, one for each and none twice,
\* across the flushes in the middle of a pipeline and at its end, unless the
\* connection breaks.
OneReplyEach ==
  ~broken /\ ~Has("invalid") => delivered \o out = [i \in 1 .. Handled |-> i]

\* The task never waits for the peer while it holds replies back: a client that
\* waits for its answers before it sends more is not left hanging.
NothingHeldBack == pc = "read" /\ ~broken => out = <<>>

\* "A depth cap (MAX_PIPELINE_DEPTH) ensures a single client cannot monopolise a
\* worker thread": no more than that many commands between two flushes, when the
\* commands are all answered.  (The `continue` of a refused one skips the cap.)
DepthCapped == (\A i \in DOMAIN script : script[i] = "ok") => Len(out) <= MaxDepth

Received(i) == received >= 2 * i

Answered(i) == \E j \in DOMAIN delivered : delivered[j] = i

\* "Serve all commands arriving on 'socket' until the peer closes the connection
\* or a fatal I/O error occurs": a command that has been read in full is answered,
\* also when the peer then hangs up, unless an invalid frame came before it or the
\* peer stops taking replies.
\* (An invalid frame clears the buffer, commands behind it included, and a panic
\* loses the replies that are not flushed yet.)
AllServed ==
  \A i \in 1 .. MaxFrames :
    /\ i <= Len(script) /\ Received(i)
    /\ ~Has("panic") /\ \A j \in 1 .. i : script[j] # "invalid"
    ~> Answered(i) \/ broken \/ ~reading

\* When the peer hangs up, be it inside a frame, or the connection breaks, the
\* task ends, although it ignores the failures of some of its writes.  It does not
\* end only if it has a reply for a peer that takes none: no flush has a timeout
\* (client.rs:140, 180, 189, 196).  It is then in an inner loop, or has replies in
\* its writer, for ever.
ConnectionEnds ==
  hungup \/ broken ~> pc = "closed" \/ [](Stalled /\ (pc = "parse" \/ out # <<>>))
=============================================================================
