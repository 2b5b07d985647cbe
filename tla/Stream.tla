------------------------------- MODULE Stream -------------------------------
(***************************************************************************)
(* The common ground of the proxy streams: the connection below a stream,  *)
(* its reader and its writer.                                              *)
(*                                                                         *)
(* A byte, or a field that is always handled as a whole, is a token        *)
(* <<tag, value>>; the i-th byte of the application is <<"b", i>>.  What   *)
(* the server sends waits in flight and arrives token by token, so that    *)
(* every way of cutting the stream into segments occurs.  A poll of the    *)
(* stream below takes what has arrived, up to the room the caller gives.   *)
(***************************************************************************)
EXTENDS Naturals, Sequences, SequencesExt

CONSTANTS MaxBytes,     \* bytes the server's application sends
          MaxFrames,    \* frames the server sends
          MaxUp,        \* bytes the client's application sends
          MaxChunk,     \* payload of one frame of the client (8 to 16 KiB in the code)
          MaxEmpty      \* frames without data in a row (64 in the code)

ASSUME StreamAssumption ==
    {MaxBytes, MaxFrames, MaxUp, MaxChunk, MaxEmpty} \subseteq Nat

VARIABLES kind,         \* the protocol, chosen once
          peer,         \* "yes" for a server that accepts, else what is wrong with it
          flight,       \* sent by the server, not arrived yet
          fin,          \* the connection ends behind wire
          cut,          \* ghost: it ended before the end of the stream had arrived
          closed,       \* the server's application has closed its stream
          sent,         \* bytes of the server's application so far
          frames,       \* frames of the server so far
          idle,         \* ghost: frames without data in a row; sticks above MaxEmpty
          srv,          \* protocol state of the server
          wire,         \* arrived, not read by the stream yet
          rd,           \* state of the read half
          got,          \* what the application has read
          out,          \* "open", "eof" or "error", as the application sees it
          task,         \* the reading task: "ready", "waiting" (a waker is
                        \*   registered below) or "idle" (nobody wakes it)
          wr,           \* state of the write half
          up,           \* what the write half has given to the stream below
          acked,        \* bytes poll_write has returned to the application
          offer         \* length of the buffer of the poll_write under way

netVars == <<flight, fin, cut, closed, sent, frames, idle, srv>>
readVars == <<wire, rd, got, out, task>>
writeVars == <<wr, up, acked, offer>>
vars == <<kind, peer, netVars, readVars, writeVars>>

Byte(i) == <<"b", i>>
Bytes(from, to) == [i \in 1 .. (to - from + 1) |-> Byte(from + i - 1)]
Least(a, b) == IF a < b THEN a ELSE b
Take(s, n) == SubSeq(s, 1, n)
Drop(s, n) == SubSeq(s, n + 1, Len(s))
Tag(t) == t[1]
Val(t) == t[2]
Tags(s) == {Tag(s[i]) : i \in 1 .. Len(s)}

-----------------------------------------------------------------------------
(* The connection and the server. *)

MaySend == ~fin /\ ~closed

(* The server sends one frame, n tokens of it bytes of its application, and
   is then in state s. *)
Put(tokens, n, s) ==
    /\ MaySend
    /\ frames < MaxFrames
    /\ flight' = flight \o tokens
    /\ sent' = sent + n
    /\ frames' = frames + 1
    /\ idle' = IF idle > MaxEmpty THEN idle ELSE IF n > 0 THEN 0 ELSE idle + 1
    /\ srv' = s
    /\ UNCHANGED <<fin, cut, closed>>

(* The server sends a part of its handshake, or a frame that is no data frame. *)
Say(tokens, s) ==
    /\ MaySend
    /\ flight' = flight \o tokens
    /\ srv' = s
    /\ UNCHANGED <<fin, cut, closed, sent, frames, idle>>

(* The server's application closes; tokens are the protocol's own end, if it has one. *)
Close(tokens) ==
    /\ MaySend
    /\ closed' = TRUE
    /\ flight' = flight \o tokens
    /\ UNCHANGED <<fin, cut, sent, frames, idle, srv>>

(* The next segment arrives: one token or all that is in flight, so that every
   place is the end of a segment in some behaviour.  Who waits for it is woken.
   The segment before has been read, or is part of it. *)
Segments == {1, Len(flight)}

Woken == IF task = "waiting" THEN "ready" ELSE task

Arrive ==
    /\ wire = <<>>
    /\ flight # <<>>
    /\ \E n \in Segments :
         /\ wire' = Take(flight, n)
         /\ flight' = Drop(flight, n)
    /\ task' = Woken
    /\ UNCHANGED <<kind, peer, fin, cut, closed, sent, frames, idle, srv, rd, got, out, writeVars>>

(* The connection ends, at any token. *)
End ==
    /\ ~fin
    /\ fin' = TRUE
    /\ cut' = (~closed \/ flight # <<>>)
    /\ flight' = <<>>
    /\ task' = Woken
    /\ UNCHANGED <<kind, peer, closed, sent, frames, idle, srv, wire, rd, got, out, writeVars>>

(* An HTTP message: a status line and the empty line; it is too long when the
   empty line does not come. *)
MaxHead == 2
HttpHead == <<<<"http", peer = "yes">>>> \o (IF peer = "long" THEN <<<<"h", 1>>, <<"h", 2>>>> ELSE <<<<"eoh", 0>>>>)
HeadEnd(buf) == CHOOSE i \in 1 .. Len(buf) : Tag(buf[i]) = "eoh"

-----------------------------------------------------------------------------
(* Steps of a read half.  Each is one iteration of a poll_read loop. *)

(* poll_read of the stream below with `room` bytes of buffer: data, Pending
   (the waker is registered below), or end of file, which the caller turns
   into `ending`. *)
Pull(room) ==
    /\ wire # <<>>
    /\ LET n == Least(room, Len(wire)) IN
         /\ rd' = [rd EXCEPT !.buf = @ \o Take(wire, n)]
         /\ wire' = Drop(wire, n)
    /\ UNCHANGED <<got, out, task>>

(* Mutant of Pend: Pending before the stream below has the waker. *)
PendSilent ==
    /\ wire = <<>>
    /\ ~fin
    /\ task' = "idle"
    /\ UNCHANGED <<wire, rd, got, out>>

Pend ==
    /\ wire = <<>>
    /\ ~fin
    /\ task' = "waiting"
    /\ UNCHANGED <<wire, rd, got, out>>

AtEof(ending) ==
    /\ wire = <<>>
    /\ fin
    /\ out' = ending
    /\ UNCHANGED <<wire, rd, got, task>>

Input(room, ending) == Pull(room) \/ Pend \/ AtEof(ending)

(* The read half changes state, ends, or gives tokens to the caller. *)
Become(r) ==
    /\ rd' = r
    /\ UNCHANGED <<wire, got, out, task>>

Finish(ending) ==
    /\ out' = ending
    /\ UNCHANGED <<wire, rd, got, task>>

Deliver(tokens, r) ==
    /\ got' = got \o tokens
    /\ rd' = r
    /\ UNCHANGED <<wire, out, task>>

(* poll_read handed straight to the stream below: any part of what is there. *)
PassThrough ==
    \/ \E n \in 1 .. Len(wire) :
         /\ got' = got \o Take(wire, n)
         /\ wire' = Drop(wire, n)
         /\ UNCHANGED <<rd, out, task>>
    \/ Pend
    \/ AtEof("eof")

-----------------------------------------------------------------------------
(* Steps of a write half. *)

(* The bytes of the buffer poll_write is called with. *)
Offered == Bytes(acked + 1, acked + offer)

(* The part of them that goes into one frame. *)
Consume == Least(offer, MaxChunk)
Chunk == Take(Offered, Consume)

(* The application calls poll_write.  Until it returns a count the task polls
   again with the same buffer. *)
Offer ==
    /\ offer = 0
    /\ offer' \in 1 .. (MaxUp - acked)
    /\ UNCHANGED <<wr, up, acked>>

(* A write half that stages a frame, to give it to the stream below. *)
Stage(tokens, w) ==
    /\ wr' = [w EXCEPT !.buf = @ \o tokens]
    /\ UNCHANGED <<up, acked, offer>>

(* poll_write returns n. *)
Ack(n, w) ==
    /\ acked' = acked + n
    /\ offer' = 0
    /\ wr' = w
    /\ UNCHANGED up

(* The stream below accepts some of the staged tokens.  Pending is no step. *)
Push ==
    \E n \in 1 .. Len(wr.buf) :
        /\ up' = up \o Take(wr.buf, n)
        /\ wr' = [wr EXCEPT !.buf = Drop(@, n)]
        /\ UNCHANGED <<acked, offer>>

(* poll_write handed straight to the stream below, which takes up to `room`. *)
PassWrite(room, w(_)) ==
    \E n \in 1 .. Least(offer, room) :
        /\ up' = up \o Take(Offered, n)
        /\ acked' = acked + n
        /\ offer' = 0
        /\ wr' = w(n)
=============================================================================
