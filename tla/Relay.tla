-------------------------------- MODULE Relay --------------------------------
(***************************************************************************)
(* The bidirectional copy between a client and its upstream                *)
(* (crates/clash-core/src/io.rs, Relay::copy_bidirectional, copy_half and  *)
(* idle_until).                                                            *)
(*                                                                         *)
(* Each half moves chunks from its source to its destination; a chunk is   *)
(* its place in the stream, so counters are enough.  A half awaits in the  *)
(* select! around read, in write_all and in shutdown; only the first also  *)
(* waits for the stop token.  The peers (external) send, close, fail and   *)
(* may stop reading, which blocks write_all.  The clock ticks in units of  *)
(* IDLE_MS / IdleLimit.                                                    *)
(***************************************************************************)
EXTENDS Naturals

CONSTANTS
  MaxChunks,   \* bound: chunks a source sends
  IdleLimit    \* IDLE_MS, in ticks

ASSUME RelayAssumption == MaxChunks \in Nat /\ IdleLimit \in Nat \ {0}

Halves == {"up", "down"}

VARIABLES
  sent, end,     \* peers: chunks a source has sent; whether it is open, eof or err
  stalled,       \* peers: the destination of the half does not read
  broken,        \* peers: the destination of the half has reset the connection
  taken,         \* chunks a half has read
  delivered,     \* chunks a half has written
  pc,            \* where a half is: read, write, shut, done
  closed,        \* the destination of the half was shut down
  stop,          \* the stop token is cancelled
  failed,        \* ghost: a read or a write of a half failed
  idle           \* ticks since `last`

peers == <<sent, end, stalled, broken>>
vars  == <<peers, taken, delivered, pc, closed, stop, failed, idle>>

Goto(h, p) == pc' = [pc EXCEPT ![h] = p]

Over == \A h \in Halves : pc[h] = "done"

-------------------------------------------------------------------------------
Init ==
  /\ sent = [h \in Halves |-> 0] /\ end = [h \in Halves |-> "open"]
  /\ stalled = [h \in Halves |-> FALSE] /\ broken = [h \in Halves |-> FALSE]
  /\ taken = [h \in Halves |-> 0] /\ delivered = [h \in Halves |-> 0]
  /\ pc = [h \in Halves |-> "read"]
  /\ closed = [h \in Halves |-> FALSE]
  /\ stop = FALSE /\ failed = FALSE
  /\ idle = 0

\* External: the source of h sends, closes or fails; the destination of h stops
\* or resumes reading, or resets.
Peer(h) ==
  /\ \/ /\ end[h] = "open" /\ sent[h] < MaxChunks
        /\ sent' = [sent EXCEPT ![h] = @ + 1] /\ UNCHANGED <<end, stalled, broken>>
     \/ /\ end[h] = "open" /\ \E e \in {"eof", "err"} : end' = [end EXCEPT ![h] = e]
        /\ UNCHANGED <<sent, stalled, broken>>
     \/ ~stalled[h] /\ stalled' = [stalled EXCEPT ![h] = TRUE] /\ UNCHANGED <<sent, end, broken>>
     \/ ~broken[h] /\ broken' = [broken EXCEPT ![h] = TRUE] /\ UNCHANGED <<sent, end, stalled>>
  /\ UNCHANGED <<taken, delivered, pc, closed, stop, failed, idle>>

Drain(h) ==
  /\ stalled[h] /\ stalled' = [stalled EXCEPT ![h] = FALSE]
  /\ UNCHANGED <<sent, end, broken, taken, delivered, pc, closed, stop, failed, idle>>

\* The read arm with data: `last` is now.
ReadData(h) ==
  /\ pc[h] = "read" /\ taken[h] < sent[h]
  /\ taken' = [taken EXCEPT ![h] = @ + 1]
  /\ idle' = 0
  /\ Goto(h, "write")
  /\ UNCHANGED <<peers, delivered, closed, stop, failed>>

\* Mutant: end of file cancels the other half too.
ReadEofStops(h) ==
  /\ pc[h] = "read" /\ taken[h] = sent[h] /\ end[h] = "eof"
  /\ stop' = TRUE
  /\ Goto(h, "shut")
  /\ UNCHANGED <<peers, taken, delivered, closed, failed, idle>>

\* Mutant: a close overtakes what was sent before it.
ReadEofEarly(h) ==
  /\ pc[h] = "read" /\ end[h] = "eof"
  /\ Goto(h, "shut")
  /\ UNCHANGED <<peers, taken, delivered, closed, stop, failed, idle>>

\* The read arm at end of file: half-close the destination.
ReadEof(h) ==
  /\ pc[h] = "read" /\ taken[h] = sent[h] /\ end[h] = "eof"
  /\ Goto(h, "shut")
  /\ UNCHANGED <<peers, taken, delivered, closed, stop, failed, idle>>

\* The read arm with an error: cancel the other half.
ReadErr(h) ==
  /\ pc[h] = "read" /\ taken[h] = sent[h] /\ end[h] = "err"
  /\ stop' = TRUE /\ failed' = TRUE
  /\ Goto(h, "shut")
  /\ UNCHANGED <<peers, taken, delivered, closed, idle>>

\* The stop arm.
SeeStop(h) ==
  /\ pc[h] = "read" /\ stop
  /\ Goto(h, "shut")
  /\ UNCHANGED <<peers, taken, delivered, closed, stop, failed, idle>>

\* write_all comes back once the destination has taken the chunk.
WriteAll(h) ==
  /\ pc[h] = "write" /\ ~stalled[h] /\ ~broken[h]
  /\ delivered' = [delivered EXCEPT ![h] = @ + 1]
  /\ Goto(h, "read")
  /\ UNCHANGED <<peers, taken, closed, stop, failed, idle>>

\* write_all fails: cancel the other half and return without a shutdown.
WriteErr(h) ==
  /\ pc[h] = "write" /\ broken[h]
  /\ stop' = TRUE /\ failed' = TRUE
  /\ Goto(h, "done")
  /\ UNCHANGED <<peers, taken, delivered, closed, idle>>

Shutdown(h) ==
  /\ pc[h] = "shut"
  /\ closed' = [closed EXCEPT ![h] = TRUE]
  /\ Goto(h, "done")
  /\ UNCHANGED <<peers, taken, delivered, stop, failed, idle>>

Tick ==
  /\ ~Over /\ idle < IdleLimit
  /\ idle' = idle + 1
  /\ UNCHANGED <<peers, taken, delivered, pc, closed, stop, failed>>

\* Mutant: the idle timeout forgets to cancel.
IdleSilent ==
  /\ ~Over /\ ~stop /\ idle >= IdleLimit
  /\ UNCHANGED vars

\* idle_until has seen IDLE_MS without a read on either half.
IdleStop ==
  /\ ~Over /\ ~stop /\ idle >= IdleLimit
  /\ stop' = TRUE
  /\ UNCHANGED <<peers, taken, delivered, pc, closed, failed, idle>>

Copy(h) ==
  ReadData(h) \/ ReadEof(h) \/ ReadErr(h) \/ SeeStop(h) \/ WriteAll(h) \/ WriteErr(h) \/ Shutdown(h)

Next ==
  \/ \E h \in Halves : Peer(h) \/ Drain(h) \/ Copy(h)
  \/ Tick \/ IdleStop

Spec == Init /\ [][Next]_vars

\* tokio polls a half that is ready, and one whose socket becomes writable again
\* and again is not passed over for ever; time passes; the idle timer is polled.
CodeFair ==
  /\ \A h \in Halves : WF_vars(Copy(h)) /\ SF_vars(WriteAll(h))
  /\ WF_vars(Tick) /\ WF_vars(IdleStop)

FairSpec == Spec /\ CodeFair

-------------------------------------------------------------------------------
\* Nothing is lost, repeated or invented: what a half has delivered is what it has
\* read, but for the chunk it is writing.
NothingLost ==
  \A h \in Halves :
    /\ delivered[h] <= taken[h] /\ taken[h] <= sent[h]
    /\ pc[h] \in {"read", "shut"} => delivered[h] = taken[h]
    /\ pc[h] = "write" => taken[h] = delivered[h] + 1

\* A half-close is passed on only behind all the data: a destination is shut
\* down either because the relay was stopped, or after everything the source
\* sent before its end of file was delivered.
HalfCloseInOrder ==
  \A h \in Halves : closed[h] /\ ~stop => end[h] = "eof" /\ delivered[h] = sent[h]

\* A half forwards the whole stream, in order, and its end behind it.
Forwards == NothingLost /\ HalfCloseInOrder

\* One half's end of file leaves the other half running: the relay is stopped by
\* an error or by the idle timeout and by nothing else (io.rs:51).
StopHasCause == [][stop' /\ ~stop => failed' \/ idle >= IdleLimit]_vars

\* The peers that stop reading resume again and again.
ReadersResume == \A h \in Halves : []<>~stalled[h]

\* Between peers that resume reading, an error of one half ends the other half and
\* the relay (io.rs:51), whatever each half is awaiting; and after IDLE_MS without a
\* read on either half there is one, or the relay ends.  A peer that stops reading
\* for good holds it in write_all, outside the select!.
StopEnds ==
  ReadersResume => /\ stop ~> Over
                   /\ idle >= IdleLimit ~> (idle = 0 \/ Over)

===============================================================================
