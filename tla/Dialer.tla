------------------------------- MODULE Dialer -------------------------------
(***************************************************************************)
(* One dial through a node of a subscription: NodeCatalog decides whether  *)
(* the node is listed, dial_via resolves its server, connect_happy races   *)
(* the addresses, and dial puts the layers on, under a time limit.  The    *)
(* future may be dropped at every await (a cancelled connection, the 3 s   *)
(* of the health check); the attempts of the race are tasks of their own   *)
(* and go on.                                                              *)
(***************************************************************************)
EXTENDS NodeConfig, Naturals, FiniteSets, SequencesExt

CONSTANTS AddressLists, \* what the resolver may answer: sequences of "v4" and "v6"
          MaxRace       \* addresses that are tried (4 in the code)

VARIABLES entry,        \* the entry of the subscription
          phase,        \* "list", "resolve", "race", "layers", and the ends "hidden",
                        \*   "ok", "unsupported", "unreachable", "failed", "dropped"
          race,         \* state of each attempt: "delay", "connecting", "connected",
                        \*   "refused" or "aborted"
          chan,         \* attempts whose result is in the channel, in order
          winner,       \* the attempt whose stream is used, 0 before
          stack,        \* layers put on the stream so far
          bare          \* ghost: a secret or the destination was written without encryption

dialVars == <<entry, phase, race, chan, winner, stack, bare>>

Ends == {"hidden", "ok", "unsupported", "unreachable", "failed", "dropped"}
Node == Normalized(Parsed(entry))

DialInit ==
    /\ entry \in Entries
    /\ phase = "list"
    /\ race = <<>> /\ chan = <<>> /\ winner = 0
    /\ stack = <<>>
    /\ bare = FALSE

-----------------------------------------------------------------------------
(* filter_all: a node that is not accepted is not in the list. *)
Catalog ==
    /\ phase = "list"
    /\ phase' = IF Accept(Parsed(entry)) THEN "resolve" ELSE "hidden"
    /\ UNCHANGED <<entry, race, chan, winner, stack, bare>>

(* The addresses that are tried: IPv4 first, at most MaxRace. *)
IsV4(a) == a = "v4"
IsV6(a) == a = "v6"
Tried(ips) ==
    LET all == SelectSeq(ips, IsV4) \o SelectSeq(ips, IsV6)
    IN  SubSeq(all, 1, IF Len(all) < MaxRace THEN Len(all) ELSE MaxRace)

(* resolve_host, and the start of the race; no address is an error. *)
Resolve ==
    /\ phase = "resolve"
    /\ \E ips \in AddressLists :
         /\ race' = [i \in 1 .. Len(Tried(ips)) |-> IF i = 1 THEN "connecting" ELSE "delay"]
         /\ phase' = IF Tried(ips) = <<>> THEN "unreachable" ELSE "race"
    /\ UNCHANGED <<entry, chan, winner, stack, bare>>

(* An attempt starts 250 ms after the one before it. *)
Attempt(i) ==
    /\ race[i] = "delay"
    /\ race[i - 1] # "delay"
    /\ race' = [race EXCEPT ![i] = "connecting"]
    /\ UNCHANGED <<entry, phase, chan, winner, stack, bare>>

(* It ends, by its own time limit at the latest, and sends its result; nobody
   takes it once connect_happy has returned or was dropped. *)
Settle(i) ==
    /\ race[i] = "connecting"
    /\ \E r \in {"connected", "refused"} : race' = [race EXCEPT ![i] = r]
    /\ chan' = IF phase = "race" THEN Append(chan, i) ELSE chan
    /\ UNCHANGED <<entry, phase, winner, stack, bare>>

(* Mutant of Receive: the first result decides. *)
ReceiveFirst ==
    /\ phase = "race"
    /\ chan # <<>>
    /\ IF race[Head(chan)] = "connected"
       THEN /\ winner' = Head(chan)
            /\ chan' = <<>>
            /\ race' = [i \in DOMAIN race |-> IF race[i] \in {"delay", "connecting"} THEN "aborted" ELSE race[i]]
            /\ phase' = "layers"
       ELSE /\ chan' = <<>>
            /\ phase' = "unreachable"
            /\ UNCHANGED <<race, winner>>
    /\ UNCHANGED <<entry, stack, bare>>

(* Mutant of Receive: a sender is kept, and the loop waits for the channel to end. *)
ReceiveWaits ==
    /\ phase = "race"
    /\ chan # <<>>
    /\ IF race[Head(chan)] = "connected"
       THEN /\ winner' = Head(chan)
            /\ chan' = <<>>
            /\ race' = [i \in DOMAIN race |-> IF race[i] \in {"delay", "connecting"} THEN "aborted" ELSE race[i]]
            /\ phase' = "layers"
       ELSE /\ chan' = Tail(chan)
            /\ UNCHANGED <<phase, race, winner>>
    /\ UNCHANGED <<entry, stack, bare>>

(* The results in the order they come: the first success wins, the rest of the
   tasks is aborted and what is in the channel is dropped with it. *)
Receive ==
    /\ phase = "race"
    /\ chan # <<>>
    /\ IF race[Head(chan)] = "connected"
       THEN /\ winner' = Head(chan)
            /\ chan' = <<>>
            /\ race' = [i \in DOMAIN race |-> IF race[i] \in {"delay", "connecting"} THEN "aborted" ELSE race[i]]
            /\ phase' = "layers"
       ELSE /\ chan' = Tail(chan)
            /\ phase' = IF \E i \in DOMAIN race : race[i] \in {"delay", "connecting"} \/ Contains(Tail(chan), i)
                        THEN "race"
                        ELSE "unreachable"
            /\ UNCHANGED <<race, winner>>
    /\ UNCHANGED <<entry, stack, bare>>

-----------------------------------------------------------------------------
Encrypted == \E i \in DOMAIN stack : stack[i] \in {"tls", "reality"}

(* What is readable below: the requests of these protocols; Shadowsocks and
   VMess encrypt theirs. *)
Readable(layer) == layer \in {"vless", "trojan", "socks5", "http"}

(* The next layer: a handshake or a request, which may fail. *)
Layer ==
    LET next == Layers(Node)[Len(stack) + 1] IN
    /\ phase = "layers"
    /\ \/ /\ next = "unsupported"
          /\ phase' = "unsupported"
          /\ UNCHANGED <<stack, bare>>
       \/ /\ next # "unsupported"
          /\ bare' = (bare \/ (Readable(next) /\ ~Encrypted))
          /\ \/ /\ stack' = Append(stack, next)
                /\ phase' = IF Len(stack') = Len(Layers(Node)) THEN "ok" ELSE "layers"
             \/ /\ phase' = "failed"
                /\ UNCHANGED stack
    /\ UNCHANGED <<entry, race, chan, winner>>

(* The time limit of 15 s on all layers together. *)
Timeout ==
    /\ phase = "layers"
    /\ phase' = "failed"
    /\ UNCHANGED <<entry, race, chan, winner, stack, bare>>

(* The future of the dial is dropped.  A single attempt is part of it, the
   tasks of a race are not. *)
Drop ==
    /\ phase \in {"resolve", "race", "layers"}
    /\ phase' = "dropped"
    /\ chan' = <<>>
    /\ race' = IF phase = "race" /\ Len(race) = 1 THEN <<"aborted">> ELSE race
    /\ UNCHANGED <<entry, winner, stack, bare>>

DialNext ==
    \/ Catalog \/ Resolve \/ Receive \/ Layer \/ Timeout \/ Drop
    \/ \E i \in DOMAIN race : Attempt(i) \/ Settle(i)

(* Timers fire and the runtime polls what is ready: every attempt starts and
   ends, results are taken, layers end by their time limit.  Nothing bounds
   the resolver. *)
DialFairness ==
    /\ \A i \in 1 .. MaxRace : WF_dialVars(i \in DOMAIN race /\ Attempt(i)) /\ WF_dialVars(i \in DOMAIN race /\ Settle(i))
    /\ WF_dialVars(Receive)
    /\ WF_dialVars(Layer \/ Timeout)

DialSpec == DialInit /\ [][DialNext]_dialVars /\ DialFairness

-----------------------------------------------------------------------------
(* The layers the entry asks for, read off the entry itself.  REALITY without
   its key is dialled as TLS, Trojan always has TLS. *)
AskedSecurity ==
    IF entry.pbk THEN "reality"
    ELSE IF entry.ty = "trojan" THEN "tls"
    ELSE IF entry.sec = "other" THEN "unknown"
    ELSE IF entry.sec # "none" \/ (entry.ty = "ss" /\ entry.plugin \in {"v2ray-tls", "v2ray-flag"}) THEN "tls"
    ELSE "none"

AskedNetwork == IF V2ray(entry) THEN "ws" ELSE entry.net

Proxy == entry.ty \in {"socks5", "http"}

When(condition, layer) == IF condition THEN <<layer>> ELSE <<>>

(* Security, transport, plugin, protocol and flow, from the socket up. *)
AskedLayers ==
    Wrap(AskedSecurity) \o When(AskedNetwork # "tcp", AskedNetwork) \o When(entry.plugin = "obfs", "obfs")
        \o <<entry.ty>> \o When(entry.flow = "vision", "vision")

(* The entries that the parsers read, the filter lists, and the dial treats as
   something else: REALITY of any type but VLESS becomes TLS, and an unknown
   security TLS or nothing; a flow is dropped unless the type is VLESS, a plugin
   unless it is Shadowsocks (but v2ray-plugin still sets the transport, and TLS);
   the bare TLS flag of v2ray-plugin is lost; SOCKS and HTTP nodes are dialled
   without TLS and without transport. *)
Misread ==
    \/ entry.ty # "vless" /\ (entry.pbk \/ entry.sec \in {"reality", "other"} \/ entry.flow # "none")
    \/ entry.ty # "ss" /\ entry.plugin # "none"
    \/ entry.plugin = "v2ray-flag"
    \/ Proxy /\ (entry.sec # "none" \/ entry.net # "tcp")

(* A dial that succeeds has put on the layers the provider configured, in their
   order and no others, unless the entry is one of those misread: for the rest,
   what the parsers, the filter, the normalisation and to_kind do to the fields of
   any format loses and adds nothing. *)
DialsAsConfigured == phase = "ok" /\ ~Misread => stack = AskedLayers

(* An id, a password or a destination never leaves in the clear when the
   provider asked for TLS, REALITY or a security unknown here, not even in a dial
   that fails half way, and not for a misread entry either.  (HTTP and SOCKS nodes
   are the exception: to_http and to_socks drop the flag.) *)
SecretsProtected == bare => AskedSecurity = "none" \/ Proxy

(* NodeFilter and dial agree: what is listed is never refused by dial as
   unsupported.  (The mode of simple-obfs and the cipher of VMess are not
   looked at by the filter.) *)
ListedIsSupported ==
    phase = "unsupported" => entry.plugin = "obfs-unknown" \/ (entry.ty = "vmess" /\ ~entry.cipher)

(* A node is dialled the way it was configured, or it is not listed; but for the
   misread entries, which the filter lets through (config.rs:90-110). *)
DialsAsListed == DialsAsConfigured /\ ListedIsSupported

(* connect_happy gives up only when every address has failed: a success that is
   late, or comes after an error, still wins. *)
GivesUpLast == phase = "unreachable" => \A i \in DOMAIN race : race[i] = "refused"

(* A dial that has its addresses ends. *)
DialEnds == (phase = "race") ~> (phase \in Ends)
=============================================================================
