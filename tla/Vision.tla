------------------------------- MODULE Vision -------------------------------
(***************************************************************************)
(* VLESS with the flow xtls-rprx-vision over REALITY (vless.rs, vision.rs, *)
(* vision_detach of lib.rs).  Four layers hold bytes of the download: the  *)
(* record layer (buf, undecrypted), the REALITY stream (pend), the VLESS   *)
(* response (vl) and Vision (vis).  When the server goes Direct it leaves  *)
(* the TLS session and goes on with raw TCP: what the layers hold is put   *)
(* in front of the raw connection.                                         *)
(***************************************************************************)
EXTENDS Reality

Uuid == <<<<"uuid", 1>>, <<"uuid", 2>>>>
VlHeader == <<<<"version", peer = "yes">>, <<"addons", 1>>, <<"addon", 0>>>>

(* A frame: command, lengths (two tokens), content, padding. *)
VsFrame(cmd, content, pad) ==
    <<<<"cmd", cmd>>, <<"lens", [content |-> Len(content), pad |-> pad]>>>>
    \o content \o [i \in 1 .. pad |-> <<"pad", 0>>]
FrameHeader == 2

VsReader == [buf |-> <<>>, key |-> "ap", seq |-> 0, pend |-> <<>>,
             vst |-> "version", vl |-> <<>>, addons |-> 0,
             mode |-> "undecided", vis |-> <<>>, cmd |-> "continue", content |-> 0, pad |-> 0, only |-> 0,
             src |-> "session", pre |-> <<>>]
VsWriter == [st |-> "idle", buf |-> <<>>, plain |-> 0, uuid |-> FALSE, end |-> FALSE, raw |-> FALSE]
VsServerInit == [st |-> "head", seq |-> 0]

-----------------------------------------------------------------------------
(* The server: tokens in one record, or in two, the first of them with c. *)
Cuts == IF srv.st = "head" THEN {0, 4} ELSE {0, 1}
Sealed(tokens, c) ==
    IF c = 0
    THEN Protected("ap", srv.seq, "app", tokens)
    ELSE Protected("ap", srv.seq, "app", Take(tokens, c)) \o Protected("ap", srv.seq + 1, "app", Drop(tokens, c))

(* A frame ("continue", "end" or "direct"), without content too; a server that
   does not speak Vision sends plain bytes from the start. *)
VsServerSession ==
    \E n \in 0 .. (MaxBytes - sent), cmd \in {"continue", "end", "direct", "plain"}, c \in Cuts :
        LET content == Bytes(sent + 1, sent + n)
            first == srv.st = "head"
            framed == (IF first THEN Uuid ELSE <<>>) \o VsFrame(cmd, content, (n + 1) % 2)
            tokens == (IF first THEN VlHeader ELSE <<>>) \o (IF cmd = "plain" THEN content ELSE framed)
            next == CASE cmd = "direct" -> "raw" [] cmd \in {"end", "plain"} -> "plain" [] OTHER -> "framed"
        IN  /\ \/ first
               \/ srv.st = "framed" /\ cmd # "plain"
               \/ srv.st = "plain" /\ cmd = "plain"
            /\ cmd = "plain" => n > 0
            /\ c < Len(tokens)
            /\ Put(Sealed(tokens, c), n, [st |-> next, seq |-> srv.seq + IF c = 0 THEN 1 ELSE 2])

VsServer ==
    \/ VsServerSession
    \/ srv.st = "raw" /\ \E n \in 1 .. (MaxBytes - sent) : Put(Bytes(sent + 1, sent + n), n, srv)
    \/ srv.st # "head" /\ Close(<<>>)

-----------------------------------------------------------------------------
(* The session below Vision: the VLESS response on the REALITY stream. *)

(* try_decide can say no more yet: what is there is a beginning of the UUID. *)
Undecidable ==
    /\ \A i \in 1 .. Least(Len(rd.vis), Len(Uuid)) : rd.vis[i] = Uuid[i]
    /\ Len(rd.vis) < Len(Uuid) + FrameHeader

AtFrameEnd == rd.content = 0 /\ rd.pad = 0

(* Vision polls the session. *)
VsWants ==
    /\ rd.src = "session"
    /\ CASE rd.mode = "undecided" -> Undecidable
         [] rd.mode = "framed" -> IF AtFrameEnd THEN rd.cmd = "continue" /\ Len(rd.vis) < FrameHeader ELSE rd.vis = <<>>
         [] rd.mode = "raw" -> rd.vis = <<>>

(* VlessResponseStream::poll_read until the response header is complete. *)
VlReadHeader ==
    /\ VsWants
    /\ \/ /\ rd.vst = "version"
          /\ Len(rd.vl) >= 2
          /\ IF Val(rd.vl[1])
             THEN Become([rd EXCEPT !.vst = "addons", !.addons = Val(rd.vl[2]), !.vl = Drop(@, 2)])
             ELSE Finish("error")
       \/ /\ rd.vst = "addons"
          /\ Len(rd.vl) >= rd.addons
          /\ Become([rd EXCEPT !.vst = "open", !.vl = Drop(@, rd.addons)])
       \/ /\ rd.vst # "open"
          /\ rd.pend # <<>>
          /\ Len(rd.vl) < IF rd.vst = "version" THEN 2 ELSE rd.addons
          /\ Become([rd EXCEPT !.vl = @ \o rd.pend, !.pend = <<>>])

(* What the session gives: what came with the response header, then the rest.
   Vision takes it into its buffer, or the caller does in raw mode. *)
VsFill ==
    LET from == IF rd.vl # <<>> THEN rd.vl ELSE rd.pend IN
    /\ VsWants
    /\ rd.vst = "open"
    /\ \E n \in 1 .. Len(from) :
         LET left == IF rd.vl # <<>> THEN [rd EXCEPT !.vl = Drop(@, n)] ELSE [rd EXCEPT !.pend = Drop(@, n)]
         IN  IF rd.mode = "raw"
             THEN Deliver(Take(from, n), left)
             ELSE Become([left EXCEPT !.vis = @ \o Take(from, n)])

(* The end of the session, as VLESS and Vision see it. *)
VsEnd ==
    /\ wire = <<>>
    /\ fin
    /\ IF rd.vst # "open"
       THEN Finish("error")
       ELSE CASE rd.mode = "undecided" -> Become([rd EXCEPT !.mode = "raw"])
              [] rd.mode = "framed" -> Finish(IF AtFrameEnd /\ rd.vis = <<>> THEN "eof" ELSE "error")
              [] rd.mode = "raw" -> Finish("eof")

(* The REALITY stream reads its next record for the session. *)
VsSessionRecord ==
    /\ VsWants
    /\ rd.pend = <<>>
    /\ IF rd.vst = "open" THEN rd.vl = <<>> ELSE Len(rd.vl) < IF rd.vst = "version" THEN 2 ELSE rd.addons
    /\ \/ RecWhole /\ IF RecOpens THEN Become([RecTaken EXCEPT !.pend = RecPayload]) ELSE Finish("error")
       \/ ~RecWhole /\ (Pull(Len(wire)) \/ Pend \/ VsEnd)

-----------------------------------------------------------------------------
VsDecide ==
    /\ rd.mode = "undecided"
    /\ ~Undecidable
    /\ IF Take(rd.vis, Least(Len(rd.vis), Len(Uuid))) = Uuid
       THEN Become([rd EXCEPT !.mode = "framed", !.vis = Drop(@, Len(Uuid))])
       ELSE Become([rd EXCEPT !.mode = "raw"])

(* read_frame_header, with the limit on frames without content. *)
VsReadHeader ==
    /\ rd.mode = "framed"
    /\ AtFrameEnd
    /\ rd.cmd = "continue"
    /\ Len(rd.vis) >= FrameHeader
    /\ LET lens == Val(rd.vis[2])
           read == [rd EXCEPT !.cmd = Val(rd.vis[1]), !.content = lens.content, !.pad = lens.pad, !.vis = Drop(@, 2)]
       IN  IF lens.content > 0 THEN Become([read EXCEPT !.only = 0])
           ELSE IF rd.only < MaxEmpty THEN Become([read EXCEPT !.only = @ + 1])
           ELSE Finish("error")

VsReadContent ==
    /\ rd.mode = "framed"
    /\ rd.content > 0
    /\ \E n \in 1 .. Least(rd.content, Len(rd.vis)) :
         Deliver(Take(rd.vis, n), [rd EXCEPT !.content = @ - n, !.vis = Drop(@, n)])

VsSkipPadding ==
    /\ rd.mode = "framed"
    /\ rd.content = 0
    /\ rd.pad > 0
    /\ rd.vis # <<>>
    /\ LET skip == Least(rd.pad, Len(rd.vis))
       IN  Become([rd EXCEPT !.pad = @ - skip, !.vis = Drop(@, skip)])

(* vision_detach of the three layers: what Vision, VLESS, REALITY and the
   record layer hold, in this order, then the raw connection. *)
Detached == rd.vis \o rd.vl \o rd.pend \o rd.buf

(* Mutant of VsFinishFraming: the record layer keeps what it holds. *)
VsFinishFramingForgets ==
    /\ rd.mode = "framed"
    /\ AtFrameEnd
    /\ rd.cmd \in {"end", "direct"}
    /\ IF rd.cmd = "direct"
       THEN Become([rd EXCEPT !.mode = "raw", !.src = "raw", !.pre = rd.vis \o rd.vl \o rd.pend,
                              !.vis = <<>>, !.vl = <<>>, !.pend = <<>>])
       ELSE Become([rd EXCEPT !.mode = "raw"])

VsFinishFraming ==
    /\ rd.mode = "framed"
    /\ AtFrameEnd
    /\ rd.cmd \in {"end", "direct"}
    /\ IF rd.cmd = "direct"
       THEN Become([rd EXCEPT !.mode = "raw", !.src = "raw", !.pre = Detached,
                              !.vis = <<>>, !.vl = <<>>, !.pend = <<>>, !.buf = <<>>])
       ELSE Become([rd EXCEPT !.mode = "raw"])

(* Raw mode: what Vision has buffered, then the read source. *)
VsReadRaw ==
    /\ rd.mode = "raw"
    /\ \/ \E n \in 1 .. Len(rd.vis) : Deliver(Take(rd.vis, n), [rd EXCEPT !.vis = Drop(@, n)])
       \/ /\ rd.src = "raw"
          /\ IF rd.pre # <<>>
             THEN \E n \in 1 .. Len(rd.pre) : Deliver(Take(rd.pre, n), [rd EXCEPT !.pre = Drop(@, n)])
             ELSE PassThrough

VsRead ==
    \/ VlReadHeader
    \/ VsFill
    \/ VsSessionRecord
    \/ VsDecide
    \/ VsReadHeader
    \/ VsReadContent
    \/ VsSkipPadding
    \/ VsFinishFraming
    \/ VsReadRaw

-----------------------------------------------------------------------------
(* stage_uplink: a chunk that begins like TLS application data ends the
   framing; the UUID goes with the first frame. *)
VsWriteStage ==
    /\ offer > 0
    /\ wr.st = "idle"
    /\ ~wr.raw
    /\ \E app \in BOOLEAN, pad \in {0, 1} :
         Stage((IF wr.uuid THEN <<>> ELSE Uuid) \o <<<<"cmd", IF app THEN "end" ELSE "continue">>, <<"len", Consume>>>>
               \o Chunk \o [i \in 1 .. pad |-> <<"pad", 0>>],
               [wr EXCEPT !.st = "staged", !.plain = Consume, !.end = app])

(* poll_write_pending, of poll_write, poll_flush and poll_shutdown. *)
VsWritePending == wr.st = "staged" /\ Push

(* finish_uplink_frame: after an "end" frame the upload is raw. *)
VsWriteFinish ==
    /\ offer > 0
    /\ wr.st = "staged"
    /\ wr.buf = <<>>
    /\ Ack(wr.plain, [wr EXCEPT !.st = "idle", !.plain = 0, !.uuid = TRUE, !.raw = @ \/ wr.end, !.end = FALSE])

VsWriteRaw ==
    /\ offer > 0
    /\ wr.st = "idle"
    /\ wr.raw
    /\ PassWrite(offer, LAMBDA n : wr)

VsWrite == VsWriteStage \/ VsWritePending \/ VsWriteFinish \/ VsWriteRaw
=============================================================================
