---------------------------- MODULE ProxyStreams ----------------------------
(***************************************************************************)
(* The streams of clash-proxynet, each on its own connection: the protocol *)
(* and what kind of server it meets are chosen at the start.  The halves   *)
(* of a stream share no state but the connection, so one of them is looked *)
(* at in each behaviour; the record of the other is None.                  *)
(***************************************************************************)
EXTENDS Shadowsocks, Vmess, Obfs, Transport, ProxyDial, Vision

None == [st |-> "none"]

Downloads == {"ss", "vmess", "vmess0", "httpobfs", "tlsobfs", "ws", "upgrade", "socks", "http", "reality", "vision"}
Uploads == {"ss", "vmess", "httpobfs", "tlsobfs", "ws", "reality", "vision"}

(* The servers a stream may meet. *)
Peers(k) ==
    CASE k = "ss" -> {"yes", "forges", "replays"}
      [] k \in {"vmess", "vmess0"} -> {"yes", "no", "forges"}
      [] k = "vision" -> {"yes", "no"}
      [] k \in {"ws", "upgrade", "http"} -> {"yes", "no", "long"}
      [] k = "httpobfs" -> {"yes", "long"}
      [] k = "socks" -> {"yes", "auth", "asks", "denies", "method", "refuses"}
      [] k = "reality" -> {"yes", "update", "forges", "site", "impostor", "nocert", "certreq", "endless", "alert", "early"}
      [] OTHER -> {"yes"}

Reader(k) ==
    CASE k = "ss" -> SsReader
      [] k \in {"vmess", "vmess0"} -> VmReader
      [] k = "httpobfs" -> HoReader
      [] k = "tlsobfs" -> ToReader
      [] k \in {"ws", "upgrade"} -> UpReader
      [] k = "socks" -> SoReader
      [] k = "http" -> HcReader
      [] k = "reality" -> RlReader
      [] k = "vision" -> VsReader

Writer(k) ==
    CASE k = "ss" -> SsWriter
      [] k = "vmess" -> VmWriter
      [] k = "httpobfs" -> HoWriter
      [] k = "tlsobfs" -> ToWriter
      [] k = "ws" -> WsWriter
      [] k = "reality" -> RlWriter
      [] k = "vision" -> VsWriter

Server(k) == CASE k = "reality" -> RlServerInit [] k = "vision" -> VsServerInit [] OTHER -> 0

Init ==
    /\ \/ /\ kind \in Downloads
          /\ peer \in Peers(kind)
          /\ rd = Reader(kind)
          /\ wr = None
       \/ /\ kind \in Uploads
          /\ peer = "yes"
          /\ rd = None
          /\ wr = Writer(kind)
    /\ flight = <<>> /\ wire = <<>>
    /\ fin = FALSE /\ cut = FALSE /\ closed = FALSE
    /\ sent = 0 /\ frames = 0 /\ idle = 0 /\ srv = Server(kind)
    /\ got = <<>> /\ out = "open" /\ task = "ready"
    /\ up = <<>> /\ acked = 0 /\ offer = 0

-----------------------------------------------------------------------------
Serve ==
    /\ rd # None
    /\ \/ kind = "ss" /\ SsServer
       \/ kind \in {"vmess", "vmess0"} /\ VmServer
       \/ kind = "httpobfs" /\ HoServer
       \/ kind = "tlsobfs" /\ ToServer
       \/ kind \in {"ws", "upgrade"} /\ WsServer
       \/ kind = "socks" /\ SoServer
       \/ kind = "http" /\ HcServer
       \/ kind = "reality" /\ RlServer
       \/ kind = "vision" /\ VsServer
    /\ UNCHANGED <<kind, peer, readVars, writeVars>>

Read ==
    /\ rd # None
    /\ out = "open"
    /\ task = "ready"
    /\ \/ kind = "ss" /\ SsRead
       \/ kind \in {"vmess", "vmess0"} /\ VmRead
       \/ kind = "httpobfs" /\ HoRead
       \/ kind = "tlsobfs" /\ ToRead
       \/ kind \in {"ws", "upgrade"} /\ UpRead
       \/ PrefixedRead
       \/ WsRead
       \/ kind = "socks" /\ SoRead
       \/ kind = "http" /\ HcRead
       \/ kind = "reality" /\ RlRead
       \/ kind = "vision" /\ VsRead
    /\ UNCHANGED <<kind, peer, netVars, writeVars>>

Write ==
    /\ wr # None
    /\ \/ Offer
       \/ kind = "ss" /\ SsWrite
       \/ kind = "vmess" /\ VmWrite
       \/ kind = "httpobfs" /\ HoWrite
       \/ kind = "tlsobfs" /\ ToWrite
       \/ kind = "ws" /\ WsWrite
       \/ kind = "reality" /\ RlWrite
       \/ kind = "vision" /\ VsWrite
    /\ UNCHANGED <<kind, peer, netVars, readVars>>

Ends == rd # None /\ End

Next == Serve \/ Arrive \/ Ends \/ Read \/ Write

(* The runtime polls a task that has been woken, again and again while it is
   ready. *)
Fairness == WF_vars(Read)

Spec == Init /\ [][Next]_vars /\ Fairness

-----------------------------------------------------------------------------
(* Servers that pass the handshake, and servers nothing is wrong with. *)
Trusted == peer \in {"yes", "auth", "update", "replays", "forges"}
Sound == peer \in {"yes", "auth"}

(* Protocols that cannot tell a cut from an end: everything that takes the end
   of the connection for the end of the file. *)
Blind == kind \notin {"vmess", "vmess0", "tlsobfs"}

IsByte(t) == Tag(t) = "b"

Pipe == INSTANCE BytePipe WITH
    blind <- Blind,
    trusted <- Trusted,
    sent <- IF peer = "forges" THEN 0 ELSE sent,
    got <- IF kind = "vision" /\ cut THEN SelectSeq(got, IsByte) ELSE got,
    ended <- IF cut THEN "cut" ELSE IF closed THEN "closed" ELSE "no",
    state <- out

(* Every stream implements a byte pipe (BytePipe): the application reads the
   bytes the server sent, in order, none lost and none twice, from no server
   that failed the handshake (the checks of UpRead, SoRead, VmHeaderChecked,
   RlHandshakeMessage), and an end of file is reported only at the end, or at a
   cut by a protocol without an end of its own.  No length, tag, padding or
   header of any layer is passed on.  It covers the bytes that come in one
   segment with a handshake answer and the switch of Vision from the TLS session
   to the raw connection.  (A Vision stream that is cut inside its first frame
   header passes on the UUID: fill_from_session at the end of the session decides
   for raw mode; the mapping leaves such tokens out.) *)
RefinesPipe == Pipe!Spec

(* The response header of VMess was interrupted between its two parts: the
   next poll takes the second part for the first (vmess/stream.rs:142). *)
HeaderSplit == kind = "vmess" /\ rd.st = "header" /\ "hdr" \in Tags(rd.buf)

(* A stream to a sound server fails only because the connection was cut or the
   server sent more frames without data in a row than the limit allows; nothing
   about how the bytes were cut into segments makes it fail.  (simple-obfs TLS
   has no end of file; Shadowsocks has none before the salt.) *)
ErrorHasCause ==
    out = "error" =>
        \/ ~Sound
        \/ cut
        \/ idle > MaxEmpty
        \/ kind = "tlsobfs" /\ fin
        \/ kind = "ss" /\ fin /\ frames = 0
        \/ HeaderSplit

(* Once the connection has ended the reader learns of it: no stream falls
   asleep with input left, in particular not the REALITY stream, which returns
   Pending after a read that completes no record. *)
EndIsSeen == (rd # None /\ fin) ~> (out # "open")

-----------------------------------------------------------------------------
(* The server's decoder of an upload, one token at a time: n bytes so far, left
   of the open frame, the next nonce and draw; raw bytes need no frame. *)
Decoder == [ok |-> TRUE, n |-> 0, left |-> 0, nonce |-> 0, draws |-> 0, raw |-> FALSE]

Decode(d, t) ==
    CASE Tag(t) = "b" ->
           [d EXCEPT !.ok = @ /\ Val(t) = d.n + 1 /\ (d.left > 0 \/ d.raw), !.n = @ + 1,
                     !.left = IF @ > 0 THEN @ - 1 ELSE 0]
      [] Tag(t) = "len" -> [d EXCEPT !.ok = @ /\ d.left = 0, !.left = Val(t)]
      [] Tag(t) = "size" ->
           [d EXCEPT !.ok = @ /\ d.left = 0, !.draws = @ + 2,
                     !.left = Unmask(Val(t), d.draws + 1) - 1 - Padding(d.draws)]
      [] Tag(t) = "tag" ->
           [d EXCEPT !.ok = @ /\ Val(t) = d.nonce /\ (d.left = 0 \/ (kind = "ss" /\ d.nonce % 2 = 0)), !.nonce = @ + 1]
      [] Tag(t) = "cmd" -> [d EXCEPT !.ok = @ /\ ~d.raw, !.raw = Val(t) = "end"]
      [] Tag(t) = "req" -> [d EXCEPT !.ok = @ /\ d.n = 0, !.raw = kind = "httpobfs"]
      [] Tag(t) \in {"salt", "uuid"} -> [d EXCEPT !.ok = @ /\ d.n = 0]
      [] OTHER -> d

(* Whatever pieces the connection accepts, the server decodes the upload into
   the application's bytes in order: no frame is cut short, overwritten or sent
   twice when poll_write is polled again, and nothing is acknowledged before
   all of its frame has been handed on. *)
UplinkDecodes ==
    LET d == FoldLeft(Decode, Decoder, up)
    IN  /\ d.ok
        /\ acked <= d.n
        /\ wr # None /\ offer = 0 => acked = d.n /\ (d.left = 0 \/ kind = "tlsobfs")
=============================================================================
