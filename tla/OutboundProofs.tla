--------------------------- MODULE OutboundProofs ---------------------------
(***************************************************************************)
(* A connection on its way out: Dialer gives an address up only when all   *)
(* have failed, puts on the layers the provider asked for and writes       *)
(* nothing in the clear before them; Relay forwards both streams whole and *)
(* in order; HealthCheck leaves no node behind as being checked.  All for  *)
(* every value of the constants.                                           *)
(***************************************************************************)
EXTENDS DohResolver, Dialer, HealthCheck, Relay, SequenceTheorems, FiniteSetTheorems, WellFoundedInduction, TLAPS

(***************************************************************************)
(* The race of Dialer.                                                     *)
(***************************************************************************)

\* While connect_happy receives, no task is aborted and a success that was not yet
\* looked at is in the channel; GivesUpLast alone does not say where a success is.
RaceOpen ==
  phase = "race" =>
    \A i \in DOMAIN race :
      /\ race[i] \in {"delay", "connecting", "connected", "refused"}
      /\ race[i] = "connected" => \E k \in 1 .. Len(chan) : chan[k] = i

RaceInv ==
  /\ chan \in Seq(DOMAIN race)
  /\ phase \in {"list", "resolve"} => DOMAIN race = {}
  /\ RaceOpen
  /\ GivesUpLast

LEMMA RaceStep ==
  ASSUME RaceInv, [DialNext]_dialVars
  PROVE  RaceInv'
<1> USE DEF RaceInv, RaceOpen, GivesUpLast
<1>1. CASE Catalog
  BY <1>1 DEF Catalog
<1>2. CASE Resolve
  <2>1. PICK ips \in AddressLists :
          /\ race' = [i \in 1 .. Len(Tried(ips)) |-> IF i = 1 THEN "connecting" ELSE "delay"]
          /\ phase' = IF Tried(ips) = <<>> THEN "unreachable" ELSE "race"
    BY <1>2 DEF Resolve
  <2>2. chan' = chan /\ chan = <<>>
    BY <1>2 DEF Resolve
  <2>3. phase' = "unreachable" => DOMAIN race' = {}
    <3> SUFFICES ASSUME phase' = "unreachable" PROVE 1 .. Len(Tried(ips)) = {}
      BY <2>1
    <3>1. Tried(ips) = <<>>
      BY <2>1
    <3> QED
      BY <3>1
  <2> QED
    BY <2>1, <2>2, <2>3
<1>3. ASSUME NEW i \in DOMAIN race, Attempt(i) PROVE RaceInv'
  BY <1>3 DEF Attempt
<1>4. ASSUME NEW i \in DOMAIN race, Settle(i) PROVE RaceInv'
  <2>1. PICK r \in {"connected", "refused"} : race' = [race EXCEPT ![i] = r]
    BY <1>4 DEF Settle
  <2>2. DOMAIN race' = DOMAIN race /\ phase' = phase
    BY <1>4, <2>1 DEF Settle
  <2>3. CASE phase = "race"
    <3>1. chan' = Append(chan, i)
      BY <1>4, <2>3 DEF Settle
    <3>2. /\ chan' \in Seq(DOMAIN race) /\ Len(chan') = Len(chan) + 1 /\ chan'[Len(chan')] = i
          /\ \A k \in 1 .. Len(chan) : chan'[k] = chan[k]
      BY <3>1, AppendProperties
    <3>3. Len(chan) \in Nat /\ 1 .. Len(chan) \subseteq 1 .. Len(chan') /\ Len(chan') \in 1 .. Len(chan')
      BY <3>2, LenProperties
    <3>4. ASSUME NEW j \in DOMAIN race', race'[j] = "connected"
          PROVE  \E k \in 1 .. Len(chan') : chan'[k] = j
      BY <2>1, <2>2, <2>3, <3>2, <3>3, <3>4
    <3> QED
      BY <2>1, <2>2, <2>3, <3>2, <3>4
  <2>4. CASE phase # "race"
    <3>1. chan' = chan
      BY <1>4, <2>4 DEF Settle
    <3>2. phase # "unreachable"
      BY <1>4 DEF Settle
    <3>3. phase \notin {"list", "resolve"}
      OBVIOUS
    <3> QED
      BY <2>2, <2>4, <3>1, <3>2, <3>3
  <2> QED
    BY <2>3, <2>4
<1>5. CASE Receive
  <2>1. phase = "race" /\ chan # <<>>
    BY <1>5 DEF Receive
  <2>2. CASE race[Head(chan)] = "connected"
    <3>1. chan' = <<>> /\ phase' = "layers"
      BY <1>5, <2>2 DEF Receive
    <3> QED
      BY <3>1, EmptySeq
  <2>3. CASE race[Head(chan)] # "connected"
    <3>1. /\ chan' = Tail(chan) /\ race' = race
          /\ phase' = IF \E i \in DOMAIN race :
                             race[i] \in {"delay", "connecting"} \/ Contains(Tail(chan), i)
                      THEN "race"
                      ELSE "unreachable"
      BY <1>5, <2>3 DEF Receive
    <3>2. /\ Tail(chan) \in Seq(DOMAIN race) /\ Len(Tail(chan)) = Len(chan) - 1
          /\ Head(chan) = chan[1]
          /\ \A k \in 1 .. Len(chan) - 1 : Tail(chan)[k] = chan[k + 1]
      BY <2>1, HeadTailProperties
    <3>3. ASSUME NEW i \in DOMAIN race, race[i] = "connected"
          PROVE  \E k \in 1 .. Len(Tail(chan)) : Tail(chan)[k] = i
      <4>1. PICK k \in 1 .. Len(chan) : chan[k] = i
        BY <2>1, <3>3
      <4>2. k # 1
        BY <2>3, <3>2, <3>3, <4>1
      <4>3. Len(chan) \in Nat
        BY LenProperties
      <4> DEFINE m == k - 1
      <4>4. m \in 1 .. Len(chan) - 1 /\ m + 1 = k
        BY <4>1, <4>2, <4>3
      <4> HIDE DEF m
      <4>5. Tail(chan)[m] = i
        BY <3>2, <4>1, <4>4
      <4> QED
        BY <3>2, <4>4, <4>5
    <3>4. CASE phase' = "race"
      BY <2>1, <3>1, <3>2, <3>3, <3>4
    <3>5. CASE phase' # "race"
      <4>1. phase' = "unreachable"
        BY <3>1, <3>5
      <4>2. ASSUME NEW i \in DOMAIN race PROVE race[i] = "refused"
        BY <2>1, <3>1, <3>3, <3>5 DEF Contains
      <4> QED
        BY <3>1, <3>2, <4>1, <4>2
    <3> QED
      BY <3>4, <3>5
  <2> QED
    BY <2>2, <2>3
<1>6. CASE Layer \/ Timeout
  BY <1>6 DEF Layer, Timeout
<1>7. CASE Drop
  BY <1>7 DEF Drop
<1>8. CASE UNCHANGED dialVars
  BY <1>8 DEF dialVars
<1> QED
  BY <1>1, <1>2, <1>3, <1>4, <1>5, <1>6, <1>7, <1>8 DEF DialNext

\* connect_happy never gives an address up for another one's error (net.rs:65-134):
\* for every answer of the resolver and every number of addresses tried.
THEOREM DialGivesUpLast == DialSpec => []GivesUpLast
<1>1. DialInit => RaceInv
  <2> SUFFICES ASSUME DialInit PROVE RaceInv
    OBVIOUS
  <2>1. phase = "list" /\ race = <<>> /\ chan = <<>>
    BY DEF DialInit
  <2>2. chan \in Seq(DOMAIN race) /\ DOMAIN race = {}
    BY <2>1
  <2> QED
    BY <2>1, <2>2 DEF RaceInv, RaceOpen, GivesUpLast
<1>2. RaceInv /\ [DialNext]_dialVars => RaceInv'
  BY RaceStep
<1>3. RaceInv => GivesUpLast
  BY DEF RaceInv
<1> QED
  BY <1>1, <1>2, <1>3, PTL DEF DialSpec

(***************************************************************************)
(* What the parsers, the filter and to_kind make of an entry.              *)
(***************************************************************************)

\* The fields every parser copies.
Copied(n, e) ==
  /\ n.type = e.ty /\ n.network = e.net /\ n.pbk = e.pbk /\ n.flow = e.flow
  /\ n.plugin = e.plugin /\ n.cred = e.cred /\ n.cipher = e.cipher

\* The flag tls a parser sets, whatever the format.
TlsFlag(e) ==
  CASE e.fmt = "yaml" -> e.sec = "tls" \/ e.ty = "trojan" \/ e.pbk
    [] e.fmt = "link" /\ e.ty = "vless" -> e.pbk \/ e.sec \in {"tls", "reality"}
    [] e.fmt = "xray" -> e.sec \in {"tls", "reality"}
    [] OTHER -> e.sec # "none"

LEMMA ParsedFields ==
  ASSUME NEW e \in Entries, NEW n, n = Parsed(e), ~V2ray(e) \/ e.fmt # "yaml"
  PROVE  Copied(n, e) /\ (n.tls <=> TlsFlag(e))
<1>1. CASE e.fmt = "yaml"
  <2>1. n = ProxyNode(e, IF e.pbk THEN "reality" ELSE IF e.sec = "tls" \/ e.ty = "trojan" \/ e.pbk THEN "tls" ELSE "none", e.sec = "tls" \/ e.ty = "trojan" \/ e.pbk)
    BY <1>1 DEF Parsed, YamlToNode
  <2>2. TlsFlag(e) <=> (e.sec = "tls" \/ e.ty = "trojan" \/ e.pbk)
    BY <1>1 DEF TlsFlag
  <2> QED
    BY ONLY <2>1, <2>2 DEF ProxyNode, Copied
<1>2. CASE e.fmt = "link"
  <2>1. n = ParseShareLink(e)
    BY <1>2 DEF Parsed
  <2>2. CASE e.ty = "vless"
    <3>1. n = ProxyNode(e, IF e.pbk THEN "reality" ELSE e.sec, (IF e.pbk THEN "reality" ELSE e.sec) \in {"tls", "reality"})
      BY <1>2, <2>1, <2>2 DEF ParseShareLink, ParseVless
    <3>2. TlsFlag(e) <=> ((IF e.pbk THEN "reality" ELSE e.sec) \in {"tls", "reality"})
      BY <1>2, <2>1, <2>2 DEF TlsFlag
    <3> QED
      BY ONLY <3>1, <3>2 DEF ProxyNode, Copied
  <2>3. CASE e.ty = "trojan"
    <3>1. n = ProxyNode(e, e.sec, e.sec # "none")
      BY <1>2, <2>1, <2>3 DEF ParseShareLink, ParseTrojan
    <3>2. TlsFlag(e) <=> (e.sec # "none")
      BY <1>2, <2>1, <2>3 DEF TlsFlag
    <3> QED
      BY ONLY <3>1, <3>2 DEF ProxyNode, Copied
  <2>4. CASE e.ty = "ss"
    <3>1. n = ProxyNode(e, "", FALSE)
      BY <1>2, <2>1, <2>4 DEF ParseShareLink, ParseSs
    <3>2. TlsFlag(e) <=> (FALSE)
      BY <1>2, <2>1, <2>4 DEF TlsFlag, Entries
    <3> QED
      BY ONLY <3>1, <3>2 DEF ProxyNode, Copied
  <2>5. CASE e.ty = "vmess"
    <3>1. n = ProxyNode(e, IF e.sec = "none" THEN "none" ELSE "tls", e.sec # "none")
      BY <1>2, <2>1, <2>5 DEF ParseShareLink, ParseVmess
    <3>2. TlsFlag(e) <=> (e.sec # "none")
      BY <1>2, <2>1, <2>5 DEF TlsFlag
    <3> QED
      BY ONLY <3>1, <3>2 DEF ProxyNode, Copied
  <2>6. CASE e.ty = "socks5"
    <3>1. n = ProxyNode(e, "", FALSE)
      BY <1>2, <2>1, <2>6 DEF ParseShareLink, ParseSocksLink
    <3>2. TlsFlag(e) <=> (FALSE)
      BY <1>2, <2>1, <2>6 DEF TlsFlag, Entries
    <3> QED
      BY ONLY <3>1, <3>2 DEF ProxyNode, Copied
  <2>7. CASE e.ty = "http"
    <3>1. n = ProxyNode(e, "", e.sec = "tls")
      BY <1>2, <2>1, <2>7 DEF ParseShareLink, ParseHttpLink
    <3>2. TlsFlag(e) <=> (e.sec = "tls")
      BY <1>2, <2>1, <2>7 DEF TlsFlag, Entries, Fields
    <3> QED
      BY ONLY <3>1, <3>2 DEF ProxyNode, Copied
  <2> QED
    BY <2>2, <2>3, <2>4, <2>5, <2>6, <2>7 DEF Entries, Fields, Types
<1>3. CASE e.fmt = "xray"
  <2>1. n = ProxyNode(e, e.sec, e.sec \in {"tls", "reality"})
    BY <1>3 DEF Parsed, MapXray
  <2>2. TlsFlag(e) <=> (e.sec \in {"tls", "reality"})
    BY <1>3 DEF TlsFlag
  <2> QED
    BY ONLY <2>1, <2>2 DEF ProxyNode, Copied
<1>4. CASE e.fmt = "singbox"
  <2>1. n = ProxyNode(e, e.sec, e.sec # "none")
    BY <1>4 DEF Parsed, MapSingbox
  <2>2. TlsFlag(e) <=> (e.sec # "none")
    BY <1>4 DEF TlsFlag
  <2> QED
    BY ONLY <2>1, <2>2 DEF ProxyNode, Copied
<1>5. CASE e.fmt = "sip008"
  <2>1. n = ProxyNode(e, "", FALSE)
    BY <1>5 DEF Parsed, ParseSip008
  <2>2. TlsFlag(e) <=> (FALSE)
    BY <1>5 DEF TlsFlag, Entries
  <2> QED
    BY ONLY <2>1, <2>2 DEF ProxyNode, Copied
<1> QED
  BY <1>1, <1>2, <1>3, <1>4, <1>5 DEF Entries, Fields, Formats

\* The node that is dialled: v2ray-plugin has become a transport, whichever of the
\* parser and the catalog replaced it.
NodeOf(n, e) ==
  /\ n.type = e.ty /\ n.pbk = e.pbk /\ n.flow = e.flow /\ n.cred = e.cred /\ n.cipher = e.cipher
  /\ n.network = IF V2ray(e) THEN "ws" ELSE IF e.net \in {"ws", "httpupgrade"} THEN e.net ELSE "tcp"
  /\ n.plugin = IF V2ray(e) THEN "none" ELSE e.plugin
  /\ n.tls <=> TlsFlag(e) \/ e.plugin = "v2ray-tls"

LEMMA NormalizedFields ==
  ASSUME NEW e \in Entries, NEW n, n = Normalized(Parsed(e))
  PROVE  NodeOf(n, e)
<1> DEFINE p == Parsed(e)
<1>1. CASE V2ray(e) /\ e.fmt = "yaml"
  <2> DEFINE tls == e.sec = "tls" \/ e.ty = "trojan" \/ e.pbk
             node == ProxyNode(e, IF e.pbk THEN "reality" ELSE IF tls THEN "tls" ELSE "none", tls)
  <2>1. p = [node EXCEPT !.network = "ws", !.tls = tls \/ e.plugin = "v2ray-tls", !.plugin = "none"]
    BY <1>1 DEF Parsed, YamlToNode
  <2> HIDE DEF p
  <2>2. /\ p.type = e.ty /\ p.pbk = e.pbk /\ p.flow = e.flow /\ p.cred = e.cred
        /\ p.cipher = e.cipher /\ p.network = "ws" /\ p.plugin = "none"
        /\ p.tls <=> (tls \/ e.plugin = "v2ray-tls")
    BY <2>1 DEF ProxyNode
  <2>3. n = [p EXCEPT !.network = "ws"]
    BY <2>2 DEF Normalized, V2ray, p
  <2>4. TlsFlag(e) <=> tls
    BY <1>1 DEF TlsFlag
  <2> HIDE DEF tls
  <2> QED
    BY <1>1, <2>2, <2>3, <2>4 DEF NodeOf
<1>2. CASE V2ray(e) /\ e.fmt # "yaml"
  <2>1. Copied(p, e) /\ (p.tls <=> TlsFlag(e))
    BY <1>2, ParsedFields
  <2>2. n = [p EXCEPT !.network = "ws", !.tls = @ \/ p.plugin = "v2ray-tls", !.plugin = "none"]
    BY <1>2, <2>1 DEF Normalized, V2ray, Copied
  <2> HIDE DEF p
  <2> QED
    <3>1. n.tls <=> p.tls \/ e.plugin = "v2ray-tls"
      <4>1. PICK t \in BOOLEAN : t <=> p.tls \/ p.plugin = "v2ray-tls"
        OBVIOUS
      <4>2. n = [p EXCEPT !.network = "ws", !.tls = t, !.plugin = "none"]
        BY ONLY <2>2, <4>1
      <4>3. n.tls = t
        BY ONLY <4>2
      <4> QED
        BY ONLY <2>1, <4>1, <4>3 DEF Copied
    <3>2. n.network = "ws" /\ n.plugin = "none"
      BY ONLY <2>2
    <3>3. n.type = e.ty /\ n.pbk = e.pbk /\ n.flow = e.flow /\ n.cred = e.cred /\ n.cipher = e.cipher
      BY ONLY <2>1, <2>2 DEF Copied
    <3> QED
      BY ONLY <1>2, <2>1, <3>1, <3>2, <3>3 DEF NodeOf
<1>3. CASE ~V2ray(e)
  <2>1. Copied(p, e) /\ (p.tls <=> TlsFlag(e))
    BY <1>3, ParsedFields
  <2>2. n = [p EXCEPT !.network = IF p.network \in {"ws", "httpupgrade"} THEN p.network ELSE "tcp"]
    BY <1>3, <2>1 DEF Normalized, V2ray, Copied
  <2> HIDE DEF p
  <2> QED
    BY <1>3, <2>1, <2>2 DEF NodeOf, V2ray, Copied
<1> QED
  BY <1>1, <1>2, <1>3

\* What is listed, in terms of the entry.
Listed(e) ==
  /\ V2ray(e) \/ e.net \in {"tcp", "ws", "httpupgrade"}
  /\ e.ty = "vless" => e.flow \in {"none", "vision"} /\ (e.pbk \/ e.sec # "other")
  /\ e.ty = "ss" => e.cipher /\ e.plugin # "other"

LEMMA AcceptListed ==
  ASSUME NEW e \in Entries, Accept(Parsed(e))
  PROVE  Listed(e)
<1>1. PICK p : p = Parsed(e)
  OBVIOUS
<1>2. /\ p.network \in {"tcp", "ws", "httpupgrade"}
      /\ p.type = "vless" => ResolveSecurity(p) \in {"none", "tls", "reality"} /\ p.flow \in {"none", "vision"}
      /\ p.type = "ss" => p.cipher /\ p.plugin # "other"
  BY <1>1 DEF Accept
<1>3. CASE V2ray(e) /\ e.fmt = "yaml"
  <2>1. e.sec # "other" /\ e.plugin # "other"
    BY <1>3 DEF Entries, V2ray
  <2>2. p.type = e.ty /\ p.cipher = e.cipher /\ p.flow = e.flow
    BY <1>1, <1>3 DEF Parsed, YamlToNode, ProxyNode
  <2> QED
    BY <1>2, <1>3, <2>1, <2>2 DEF Listed
<1>4. CASE ~(V2ray(e) /\ e.fmt = "yaml")
  <2>1. Copied(p, e)
    BY <1>1, <1>4, ParsedFields
  <2>2. ASSUME e.ty = "vless", ~e.pbk, e.sec = "other" PROVE FALSE
    <3>1. e.fmt \in {"link", "xray"}
      BY <2>2 DEF Entries, Fields, Formats
    <3>2. p.security = "other"
      BY ONLY <1>1, <2>2, <3>1 DEF Parsed, ParseShareLink, ParseVless, MapXray, ProxyNode
    <3> QED
      BY <1>2, <2>1, <2>2, <3>2 DEF Copied, ResolveSecurity
  <2> QED
    BY <1>2, <2>1, <2>2 DEF Copied, Listed
<1> QED
  BY <1>3, <1>4

\* The names of the layers.
LayerNames ==
  {"tls", "reality", "ws", "httpupgrade", "obfs", "vless", "trojan", "ss", "vmess", "socks5", "http",
   "vision", "unsupported"}

\* What dial refuses although the filter lists it.
Refused == (entry.ty = "ss" /\ entry.plugin = "obfs-unknown") \/ (entry.ty = "vmess" /\ ~entry.cipher)

\* What the code puts on for an entry, misread or not: TLS by the flag, REALITY for
\* VLESS only, obfs for Shadowsocks only, Vision for VLESS only.
GivenSecurity ==
  IF entry.ty = "trojan" THEN "tls"
  ELSE IF entry.ty = "vless" /\ entry.pbk THEN "reality"
  ELSE IF TlsFlag(entry) \/ entry.plugin = "v2ray-tls" THEN "tls"
  ELSE "none"
GivenObfs == entry.ty = "ss" /\ entry.plugin = "obfs"
GivenVision == entry.ty = "vless" /\ entry.flow = "vision"

GivenLayers ==
  IF Proxy
  THEN <<entry.ty>>
  ELSE Wrap(GivenSecurity) \o When(AskedNetwork # "tcp", AskedNetwork) \o When(GivenObfs, "obfs")
         \o <<entry.ty>> \o When(GivenVision, "vision")

\* The layers of a listed node, but for the modes and ciphers the filter does not
\* look at; and those still come behind the security.
LEMMA NodeLayers ==
  ASSUME entry \in Entries, Accept(Parsed(entry))
  PROVE  /\ GivenSecurity \in {"none", "tls", "reality"}
         /\ Layers(Node) \in Seq(LayerNames) /\ Layers(Node) # <<>>
         /\ ~Refused => Layers(Node) = GivenLayers /\ GivenLayers \in Seq(LayerNames \ {"unsupported"})
         /\ Refused => \E k \in 1 .. Len(Layers(Node)) : Layers(Node)[k] = "unsupported"
         /\ ~Proxy /\ GivenSecurity # "none" => Layers(Node)[1] = GivenSecurity
<1>1. PICK n : n = Node
  OBVIOUS
<1>2. NodeOf(n, entry) /\ Listed(entry) /\ entry \in Entries
  BY <1>1, NormalizedFields, AcceptListed DEF Node
<1> DEFINE e == entry
<1>3. /\ n.type = e.ty /\ n.flow = e.flow /\ n.cipher = e.cipher /\ n.pbk = e.pbk
      /\ n.network = AskedNetwork /\ n.network \in {"tcp", "ws", "httpupgrade"}
      /\ n.plugin = IF V2ray(e) THEN "none" ELSE e.plugin
      /\ n.tls <=> TlsFlag(e) \/ e.plugin = "v2ray-tls"
  BY <1>2 DEF NodeOf, Listed, AskedNetwork, Entries, Fields, Networks
<1>4. GivenSecurity \in {"none", "tls", "reality"}
  BY DEF GivenSecurity
<1> DEFINE security == Wrap(GivenSecurity)
           up == When(AskedNetwork # "tcp", AskedNetwork)
<1>5. /\ security \in Seq({"tls", "reality"}) /\ up \in Seq({"ws", "httpupgrade"})
      /\ GivenSecurity # "none" => Len(security) > 0 /\ security[1] = GivenSecurity
  <2>1. PICK a : a = GivenSecurity
    OBVIOUS
  <2>2. PICK w : w = AskedNetwork
    OBVIOUS
  <2>3. a \in {"none", "tls", "reality"} /\ w \in {"tcp", "ws", "httpupgrade"}
    BY ONLY <1>3, <1>4, <2>1, <2>2
  <2>4. security = (IF a = "none" THEN <<>> ELSE <<a>>) /\ up = IF w # "tcp" THEN <<w>> ELSE <<>>
    BY ONLY <2>1, <2>2 DEF Wrap, When
  <2> HIDE DEF security, up
  <2>5. security \in Seq({"tls", "reality"})
    <3>1. CASE a = "none"
      BY ONLY <2>4, <3>1, EmptySeq
    <3>2. CASE a \in {"tls", "reality"}
      <4>1. <<a>> \in Seq({"tls", "reality"})
        BY ONLY <3>2
      <4>2. security = <<a>>
        BY ONLY <2>4, <3>2
      <4> QED
        BY ONLY <4>1, <4>2
    <3> QED
      BY ONLY <2>3, <3>1, <3>2
  <2>6. up \in Seq({"ws", "httpupgrade"})
    <3>1. CASE w = "tcp"
      BY ONLY <2>4, <3>1, EmptySeq
    <3>2. CASE w \in {"ws", "httpupgrade"}
      <4>1. <<w>> \in Seq({"ws", "httpupgrade"})
        BY ONLY <3>2
      <4>2. up = <<w>>
        BY ONLY <2>4, <3>2
      <4> QED
        BY ONLY <4>1, <4>2
    <3> QED
      BY ONLY <2>3, <3>1, <3>2
  <2>7. a # "none" => Len(security) > 0 /\ security[1] = a
    BY ONLY <2>4
  <2> QED
    BY ONLY <2>1, <2>5, <2>6, <2>7
<1>6. Upgrade(n) = up
  BY <1>3 DEF Upgrade, When
<1> DEFINE Names == LayerNames \ {"unsupported"}
           below == security \o up
<1>7. /\ below \in Seq(Names)
      /\ GivenSecurity # "none" => Len(below) > 0 /\ below[1] = GivenSecurity
  <2>1. security \in Seq(Names) /\ up \in Seq(Names)
    <3>1. {"tls", "reality"} \subseteq Names /\ {"ws", "httpupgrade"} \subseteq Names
      BY DEF LayerNames
    <3> HIDE DEF security, up, Names
    <3> QED
      BY <1>5, <3>1, SeqMonotonic
  <2> HIDE DEF security, up, Names
  <2> QED
    BY <1>5, <2>1, ConcatProperties
<1> HIDE DEF security, up
<1> HIDE DEF below
\* What is above the security and the transport.
<1>8. ASSUME NEW r \in Seq(LayerNames), r # <<>>, Layers(Node) = below \o r
      PROVE  /\ Layers(Node) \in Seq(LayerNames) /\ Layers(Node) # <<>>
             /\ GivenSecurity # "none" => Layers(Node)[1] = GivenSecurity
             /\ r \in Seq(Names) => Layers(Node) \in Seq(Names)
             /\ \A k \in 1 .. Len(r) :
                  r[k] = "unsupported" => \E m \in 1 .. Len(Layers(Node)) : Layers(Node)[m] = "unsupported"
  <2>1. below \in Seq(LayerNames) /\ Len(below) \in Nat /\ Len(r) \in Nat /\ Len(r) > 0
    BY <1>7, <1>8, LenProperties, SeqMonotonic, EmptySeq DEF Names
  <2>2. PICK l : l = below \o r
    OBVIOUS
  <2>3. /\ l \in Seq(LayerNames) /\ Len(l) = Len(below) + Len(r)
        /\ \A k \in 1 .. Len(l) : l[k] = IF k <= Len(below) THEN below[k] ELSE r[k - Len(below)]
    BY <2>1, <2>2, ConcatProperties
  <2>4. GivenSecurity # "none" => l[1] = GivenSecurity
    BY <1>7, <2>1, <2>3
  <2>5. ASSUME r \in Seq(Names) PROVE l \in Seq(Names)
    BY <1>7, <2>2, <2>5, ConcatProperties
  <2>6. ASSUME NEW k \in 1 .. Len(r), r[k] = "unsupported"
        PROVE  \E m \in 1 .. Len(l) : l[m] = "unsupported"
    <3>1. Len(below) + k \in 1 .. Len(l) /\ ~(Len(below) + k <= Len(below)) /\ (Len(below) + k) - Len(below) = k
      BY <2>1, <2>3
    <3> QED
      BY <2>3, <2>6, <3>1
  <2>7. l # <<>>
    BY <2>1, <2>3
  <2> QED
    BY ONLY <1>8, <2>2, <2>3, <2>4, <2>5, <2>6, <2>7
<1> DEFINE above == When(GivenObfs, "obfs") \o (<<e.ty>> \o When(GivenVision, "vision"))
<1>9. ~Proxy => GivenLayers = below \o above
  <2>1. PICK o : o = When(GivenObfs, "obfs")
    OBVIOUS
  <2>2. PICK v : v = When(GivenVision, "vision")
    OBVIOUS
  <2>3. PICK y : y = <<e.ty>>
    OBVIOUS
  <2>4. o \in Seq(LayerNames) /\ v \in Seq(LayerNames) /\ y \in Seq(LayerNames) /\ below \in Seq(LayerNames)
    <3>1. "obfs" \in LayerNames /\ "vision" \in LayerNames
      BY DEF LayerNames
    <3>2. o \in Seq(LayerNames) /\ v \in Seq(LayerNames)
      BY ONLY <2>1, <2>2, <3>1 DEF When
    <3>3. e.ty \in LayerNames
      BY ONLY <1>2 DEF Entries, Fields, Types, LayerNames
    <3>4. y \in Seq(LayerNames)
      BY ONLY <2>3, <3>3
    <3> QED
      BY <3>2, <3>4, <1>7, SeqMonotonic
  <2>5. ((below \o o) \o y) \o v = below \o (o \o (y \o v))
    <3>1. PICK z : z = below
      OBVIOUS
    <3>2. z \in Seq(LayerNames)
      BY ONLY <2>4, <3>1
    <3>3. ((z \o o) \o y) \o v = z \o (o \o (y \o v))
      <4>1. o \in Seq(LayerNames)
        BY ONLY <2>4
      <4>2. y \in Seq(LayerNames)
        BY ONLY <2>4
      <4>3. v \in Seq(LayerNames)
        BY ONLY <2>4
      <4>4. PICK yv : yv = y \o v /\ yv \in Seq(LayerNames)
        BY ONLY <4>2, <4>3, ConcatProperties
      <4>5. PICK zo : zo = z \o o /\ zo \in Seq(LayerNames)
        BY ONLY <3>2, <4>1, ConcatProperties
      <4>6. (zo \o y) \o v = zo \o (y \o v)
        <5>1. zo \in Seq(LayerNames)
          BY ONLY <4>5
        <5> QED
          BY ONLY <4>2, <4>3, <5>1, ConcatAssociative, SMTT(60)
      <4>7. (z \o o) \o yv = z \o (o \o yv)
        <5>1. yv \in Seq(LayerNames)
          BY ONLY <4>4
        <5> QED
          BY ONLY <3>2, <4>1, <5>1, ConcatAssociative, SMTT(60)
      <4> QED
        BY ONLY <4>4, <4>5, <4>6, <4>7
    <3> QED
      BY ONLY <3>1, <3>3
  <2> QED
    BY <2>1, <2>2, <2>3, <2>5 DEF GivenLayers, below, security, up
<1>10. CASE Proxy
  <2>1. Layers(Node) = <<e.ty>> /\ GivenLayers = <<e.ty>> /\ ~Refused
    BY <1>1, <1>3, <1>10 DEF Layers, GivenLayers, Proxy, Refused
  <2>2. e.ty \in LayerNames \ {"unsupported"}
    BY <1>10 DEF Proxy, LayerNames
  <2>3. <<e.ty>> \in Seq(LayerNames \ {"unsupported"}) /\ <<e.ty>> \in Seq(LayerNames) /\ <<e.ty>> # <<>>
    BY ONLY <2>2
  <2> QED
    BY <1>4, <1>10, <2>1, <2>3
<1>11. CASE e.ty = "trojan"
  <2>1. GivenSecurity = "tls" /\ ~Refused /\ ~Proxy /\ ~GivenObfs /\ ~GivenVision
    BY <1>11 DEF GivenSecurity, Refused, Proxy, GivenObfs, GivenVision
  <2>2. above = <<"trojan">>
    BY <1>11, <2>1 DEF When
  <2>3. Layers(Node) = below \o <<"trojan">>
    BY <1>1, <1>3, <1>6, <1>11, <2>1 DEF Layers, DialTrojan, below, security, Wrap
  <2>4. <<"trojan">> \in Seq(Names) /\ <<"trojan">> \in Seq(LayerNames)
    BY DEF LayerNames
  <2> QED
    BY <1>4, <1>8, <1>9, <2>1, <2>2, <2>3, <2>4
<1>12. CASE e.ty = "vless"
  <2>1. ~Refused /\ ~Proxy /\ ~GivenObfs
    BY <1>12 DEF Refused, Proxy, GivenObfs
  <2>3. VlessSecurity(n) = GivenSecurity
    BY ONLY <1>3, <1>12 DEF VlessSecurity, GivenSecurity
  <2>4. above = <<"vless">> \o When(GivenVision, "vision")
    <3>1. PICK v : v = When(GivenVision, "vision")
      OBVIOUS
    <3>2. v \in Seq(Names) /\ <<"vless">> \in Seq(Names)
      <4>1. "vision" \in Names /\ "vless" \in Names
        BY DEF LayerNames
      <4> HIDE DEF Names
      <4> QED
        BY ONLY <3>1, <4>1 DEF When
    <3>3. <<"vless">> \o v \in Seq(Names)
      BY ONLY <3>2, ConcatProperties
    <3>4. <<>> \o (<<"vless">> \o v) = <<"vless">> \o v
      BY ONLY <3>3, ConcatEmptySeq
    <3> QED
      BY ONLY <1>12, <2>1, <3>1, <3>4 DEF When, above
  <2>5. above \in Seq(Names) /\ above # <<>>
    <3>1. "vision" \in Names /\ "vless" \in Names
      BY DEF LayerNames
    <3> HIDE DEF Names
    <3>2. When(GivenVision, "vision") \in Seq(Names) /\ <<"vless">> \in Seq(Names) /\ Len(<<"vless">>) = 1
      BY ONLY <3>1 DEF When
    <3> HIDE DEF above
    <3> QED
      BY <2>4, <3>2, ConcatProperties, ConcatEqualIffEmpty
  <2>6. above \in Seq(LayerNames)
    BY <2>5, SeqMonotonic
  <2>7. Layers(Node) = below \o above
    <3>1. PICK z : z = below
      OBVIOUS
    <3>2. PICK v : v = When(GivenVision, "vision")
      OBVIOUS
    <3>3. Layers(n) = (z \o <<"vless">>) \o v
      <4>1. n.type = "vless" /\ n.flow = e.flow /\ n.flow # "other"
        BY <1>2, <1>3, <1>12 DEF Listed
      <4>2. Layers(n) = DialVless(n)
        BY ONLY <4>1 DEF Layers
      <4>3. DialVless(n) = ((security \o up) \o <<"vless">>) \o v
        BY ONLY <1>6, <1>12, <2>3, <3>2, <4>1 DEF DialVless, security, When, GivenVision
      <4> QED
        BY ONLY <3>1, <4>2, <4>3 DEF below
    <3>4. z \in Seq(Names)
      BY ONLY <1>7, <3>1
    <3>5. "vless" \in Names /\ "vision" \in Names
      BY DEF LayerNames
    <3> HIDE DEF Names
    <3>6. v \in Seq(Names)
      BY ONLY <3>2, <3>5 DEF When
    <3>7. <<"vless">> \in Seq(Names)
      BY ONLY <3>5
    <3>8. (z \o <<"vless">>) \o v = z \o (<<"vless">> \o v)
      BY ONLY <3>4, <3>6, <3>7
    <3> HIDE DEF above
    <3> QED
      BY ONLY <1>1, <2>4, <3>1, <3>2, <3>3, <3>8
  <2> QED
    BY <1>4, <1>8, <1>9, <2>1, <2>5, <2>6, <2>7
\* Shadowsocks and VMess have TLS when the flag is set.
<1>13. ASSUME e.ty \in {"ss", "vmess"} PROVE LayerTransport(n) = below
  <2>4. (IF n.tls THEN "tls" ELSE "none") = GivenSecurity
    BY ONLY <1>3, <1>13 DEF GivenSecurity
  <2> QED
    BY ONLY <1>6, <2>4 DEF LayerTransport, below, security
<1>14. CASE e.ty = "ss"
  <2>1. /\ ~Proxy /\ ~GivenVision /\ e.cipher
        /\ Refused <=> e.plugin = "obfs-unknown"
        /\ GivenObfs <=> e.plugin = "obfs"
        /\ e.plugin \in {"none", "obfs", "obfs-unknown", "v2ray", "v2ray-tls", "v2ray-flag"}
    BY <1>2, <1>14 DEF Listed, Proxy, Refused, GivenObfs, GivenVision, Entries, Fields, Plugins
  <2>2. PICK z : z = below
    OBVIOUS
  <2>3. PICK w : w = ApplyPlugin(n)
    OBVIOUS
  <2>4. Layers(n) = (z \o w) \o <<"ss">>
    <3>1. n.type = "ss" /\ n.cipher
      BY <1>3, <1>14, <2>1
    <3>2. Layers(n) = DialSs(n)
      BY ONLY <3>1 DEF Layers
    <3> QED
      BY ONLY <1>13, <1>14, <2>2, <2>3, <3>1, <3>2 DEF DialSs
  <2>5. w = IF Refused THEN <<"unsupported">> ELSE When(GivenObfs, "obfs")
    <3>1. n.plugin = IF e.plugin \in {"v2ray", "v2ray-tls", "v2ray-flag"} THEN "none" ELSE e.plugin
      BY ONLY <1>3 DEF V2ray
    <3> QED
      BY ONLY <2>1, <2>3, <3>1 DEF ApplyPlugin, When
  <2>6. z \in Seq(LayerNames)
    <3>1. Names \subseteq LayerNames
      OBVIOUS
    <3> QED
      BY ONLY <1>7, <2>2, <3>1, SeqMonotonic
  <2>7. "ss" \in Names /\ "obfs" \in Names /\ "ss" \in LayerNames /\ "obfs" \in LayerNames /\ "unsupported" \in LayerNames
    BY DEF LayerNames
  <2> HIDE DEF Names
  <2>8. w \in Seq(LayerNames) /\ (~Refused => w \in Seq(Names))
    BY ONLY <2>5, <2>7 DEF When
  <2>9. <<"ss">> \in Seq(LayerNames)
    BY ONLY <2>7
  <2>10. (z \o w) \o <<"ss">> = z \o (w \o <<"ss">>)
    <3>1. w \in Seq(LayerNames)
      BY ONLY <2>8
    <3> QED
      BY ONLY <2>6, <2>9, <3>1
  <2>11. /\ w \o <<"ss">> \in Seq(LayerNames) /\ w \o <<"ss">> # <<>>
         /\ ~Refused => w \o <<"ss">> \in Seq(Names)
         /\ Refused => Len(w \o <<"ss">>) = 2 /\ (w \o <<"ss">>)[1] = "unsupported"
    BY ONLY <2>5, <2>7, <2>8
  <2>12. ~Refused => above = w \o <<"ss">>
    <3>1. <<"ss">> \o <<>> = <<"ss">>
      OBVIOUS
    <3> QED
      BY ONLY <1>14, <2>1, <2>5, <3>1 DEF When
  <2>13. Layers(Node) = below \o (w \o <<"ss">>)
    BY ONLY <1>1, <2>2, <2>4, <2>10
  <2> HIDE DEF above
  <2> QED
    <3>1. PICK r : r = w \o <<"ss">>
      OBVIOUS
    <3>2. /\ Layers(Node) \in Seq(LayerNames) /\ Layers(Node) # <<>>
          /\ GivenSecurity # "none" => Layers(Node)[1] = GivenSecurity
          /\ r \in Seq(Names) => Layers(Node) \in Seq(Names)
          /\ \A k \in 1 .. Len(r) :
               r[k] = "unsupported" => \E m \in 1 .. Len(Layers(Node)) : Layers(Node)[m] = "unsupported"
      BY <1>8, <2>11, <2>13, <3>1
    <3>3. CASE Refused
      BY ONLY <1>4, <2>1, <2>11, <3>1, <3>2, <3>3
    <3>4. CASE ~Refused
      BY ONLY <1>4, <1>9, <2>1, <2>11, <2>12, <2>13, <3>1, <3>2, <3>4 DEF Names
    <3> QED
      BY <3>3, <3>4
<1>15. CASE e.ty = "vmess"
  <2>1. ~Proxy /\ ~GivenVision /\ ~GivenObfs /\ (Refused <=> ~e.cipher)
    BY <1>15 DEF Proxy, Refused, GivenObfs, GivenVision
  <2>2. PICK w : w = IF Refused THEN <<"unsupported">> ELSE <<"vmess">>
    OBVIOUS
  <2>3. Layers(Node) = below \o w
    BY <1>1, <1>3, <1>13, <1>15, <2>1, <2>2 DEF Layers, DialVmess
  <2>4. ~Refused => above = w
    BY ONLY <1>15, <2>1, <2>2 DEF When
  <2>5. "vmess" \in Names /\ "vmess" \in LayerNames /\ "unsupported" \in LayerNames
    BY DEF LayerNames
  <2> HIDE DEF Names, above
  <2>6. /\ w \in Seq(LayerNames) /\ w # <<>> /\ (~Refused => w \in Seq(Names))
        /\ Refused => Len(w) = 1 /\ w[1] = "unsupported"
    BY ONLY <2>2, <2>5
  <2> QED
    <3>1. /\ Layers(Node) \in Seq(LayerNames) /\ Layers(Node) # <<>>
          /\ GivenSecurity # "none" => Layers(Node)[1] = GivenSecurity
          /\ w \in Seq(Names) => Layers(Node) \in Seq(Names)
          /\ \A k \in 1 .. Len(w) :
               w[k] = "unsupported" => \E m \in 1 .. Len(Layers(Node)) : Layers(Node)[m] = "unsupported"
      BY <1>8, <2>3, <2>6
    <3>2. CASE Refused
      BY ONLY <1>4, <2>1, <2>6, <3>1, <3>2
    <3>3. CASE ~Refused
      BY ONLY <1>4, <1>9, <2>1, <2>3, <2>4, <2>6, <3>1, <3>3 DEF Names
    <3> QED
      BY <3>2, <3>3
<1> QED
  BY <1>2, <1>10, <1>11, <1>12, <1>14, <1>15 DEF Entries, Fields, Types, Proxy

\* No layer of Shadowsocks or VMess is readable.
LEMMA SealedLayers ==
  ASSUME entry \in Entries, Accept(Parsed(entry)), entry.ty \in {"ss", "vmess"}
  PROVE  \A k \in 1 .. Len(Layers(Node)) : ~Readable(Layers(Node)[k])
<1> DEFINE Sealed == {"tls", "ws", "httpupgrade", "obfs", "ss", "vmess", "unsupported"}
<1>1. PICK n : n = Node
  OBVIOUS
<1>2. NodeOf(n, entry) /\ Listed(entry) /\ entry \in Entries
  BY <1>1, NormalizedFields, AcceptListed DEF Node
<1>3. n.type \in {"ss", "vmess"} /\ n.network \in {"tcp", "ws", "httpupgrade"}
  BY <1>2 DEF NodeOf, Listed, Entries, Fields, Networks
<1>4. PICK w : w = Wrap(IF n.tls THEN "tls" ELSE "none")
  OBVIOUS
<1>5. PICK u : u = Upgrade(n)
  OBVIOUS
<1>6. PICK a : a = ApplyPlugin(n)
  OBVIOUS
<1>7. PICK c : c = IF n.cipher THEN <<n.type>> ELSE <<"unsupported">>
  OBVIOUS
<1>0. /\ "tls" \in Sealed /\ "ws" \in Sealed /\ "httpupgrade" \in Sealed /\ "obfs" \in Sealed
      /\ "ss" \in Sealed /\ "vmess" \in Sealed /\ "unsupported" \in Sealed
  OBVIOUS
<1> HIDE DEF Sealed
<1>8. w \in Seq(Sealed)
  <2>1. CASE n.tls
    BY ONLY <1>0, <1>4, <2>1 DEF Wrap
  <2>2. CASE ~n.tls
    BY ONLY <1>4, <2>2, EmptySeq DEF Wrap
  <2> QED
    BY <2>1, <2>2
<1>9. u \in Seq(Sealed)
  <2>1. PICK t : t = n.network
    OBVIOUS
  <2>2. CASE t = "tcp"
    BY ONLY <1>5, <2>1, <2>2, EmptySeq DEF Upgrade
  <2>3. CASE t \in {"ws", "httpupgrade"}
    <3>1. t \in Sealed
      BY ONLY <1>0, <2>3
    <3>2. u = <<t>>
      BY ONLY <1>5, <2>1, <2>3 DEF Upgrade
    <3> QED
      BY ONLY <3>1, <3>2
  <2> QED
    BY ONLY <1>3, <2>1, <2>2, <2>3
<1>10. a \in Seq(Sealed)
  <2>1. a = <<>> \/ a = <<"obfs">> \/ a = <<"unsupported">>
    BY ONLY <1>6 DEF ApplyPlugin
  <2>2. <<>> \in Seq(Sealed) /\ <<"obfs">> \in Seq(Sealed) /\ <<"unsupported">> \in Seq(Sealed)
    BY ONLY <1>0
  <2> QED
    BY ONLY <2>1, <2>2
<1>11. c \in Seq(Sealed)
  <2>1. c = <<"ss">> \/ c = <<"vmess">> \/ c = <<"unsupported">>
    BY ONLY <1>3, <1>7
  <2>2. <<"ss">> \in Seq(Sealed) /\ <<"vmess">> \in Seq(Sealed) /\ <<"unsupported">> \in Seq(Sealed)
    BY ONLY <1>0
  <2> QED
    BY ONLY <2>1, <2>2
<1>12. Layers(n) = (IF n.type = "ss" THEN ((w \o u) \o a) \o c ELSE (w \o u) \o c)
  BY ONLY <1>3, <1>4, <1>5, <1>6, <1>7 DEF Layers, DialSs, DialVmess, LayerTransport
<1>13. PICK b : b = w \o u /\ b \in Seq(Sealed)
  BY ONLY <1>8, <1>9, ConcatProperties
<1>14. PICK d : d = b \o a /\ d \in Seq(Sealed)
  BY ONLY <1>10, <1>13, ConcatProperties
<1>15. d \o c \in Seq(Sealed) /\ b \o c \in Seq(Sealed)
  BY ONLY <1>11, <1>13, <1>14, ConcatProperties
<1>16. Layers(Node) \in Seq(Sealed)
  BY ONLY <1>1, <1>12, <1>13, <1>14, <1>15
<1>17. \A x \in Sealed : ~Readable(x)
  BY DEF Sealed, Readable
<1> QED
  BY ONLY <1>16, <1>17, ElementOfSeq

\* What the entry asks for is what it is given, unless it is misread; and a misread
\* entry that asks for security is given TLS or REALITY, or has a protocol that
\* encrypts by itself.
LEMMA GivenIsAsked ==
  ASSUME entry \in Entries, Listed(entry)
  PROVE  /\ ~Misread => GivenLayers = AskedLayers
         /\ ~Proxy /\ AskedSecurity # "none" => GivenSecurity # "none" \/ entry.ty \in {"ss", "vmess"}
<1>1. /\ entry.fmt \in Formats /\ entry.ty \in Types /\ entry.sec \in {"none", "tls", "reality", "other"}
      /\ entry.plugin \in Plugins /\ entry.pbk \in BOOLEAN
      /\ entry.fmt = "yaml" => entry.sec # "other" /\ (entry.pbk <=> entry.sec = "reality")
      /\ entry.fmt = "singbox" => entry.sec # "other"
      /\ entry.fmt = "sip008" => entry.ty = "ss" /\ entry.sec = "none"
      /\ entry.ty = "vless" => entry.pbk \/ entry.sec # "other"
  BY DEF Entries, Fields, Listed
<1>2. entry.ty = "vless" /\ ~entry.pbk => (TlsFlag(entry) <=> entry.sec \in {"tls", "reality"})
  BY ONLY <1>1 DEF TlsFlag, Formats
<1>3. entry.ty \in {"ss", "vmess"} /\ entry.sec \in {"none", "tls"} /\ ~entry.pbk => (TlsFlag(entry) <=> entry.sec = "tls")
  BY ONLY <1>1 DEF TlsFlag, Formats
<1>4. ASSUME ~Proxy, AskedSecurity # "none" PROVE GivenSecurity # "none" \/ entry.ty \in {"ss", "vmess"}
  BY ONLY <1>1, <1>2, <1>4 DEF Proxy, AskedSecurity, GivenSecurity, Types
<1>5. ASSUME ~Misread, ~Proxy PROVE GivenLayers = AskedLayers
  <2>1. (GivenObfs <=> entry.plugin = "obfs") /\ (GivenVision <=> entry.flow = "vision")
    BY <1>5 DEF Misread, GivenObfs, GivenVision
  <2>2. GivenSecurity = AskedSecurity
    <3>1. CASE entry.ty = "vless"
      BY ONLY <1>1, <1>2, <1>5, <3>1 DEF Misread, AskedSecurity, GivenSecurity
    <3>2. CASE entry.ty \in {"ss", "vmess"}
      <4>1. entry.sec \in {"none", "tls"} /\ ~entry.pbk /\ entry.plugin # "v2ray-flag"
        BY ONLY <1>1, <1>5, <3>2 DEF Misread
      <4>2. entry.ty = "ss" \/ entry.plugin = "none"
        BY ONLY <1>5 DEF Misread
      <4> QED
        BY ONLY <1>3, <3>2, <4>1, <4>2 DEF AskedSecurity, GivenSecurity
    <3>3. CASE entry.ty = "trojan"
      BY ONLY <1>5, <3>3 DEF Misread, AskedSecurity, GivenSecurity
    <3> QED
      BY ONLY <1>1, <1>5, <3>1, <3>2, <3>3 DEF Proxy, Types
  <2>3. When(GivenObfs, "obfs") = When(entry.plugin = "obfs", "obfs") /\ When(GivenVision, "vision") = When(entry.flow = "vision", "vision")
    BY ONLY <2>1 DEF When
  <2> QED
    BY ONLY <1>5, <2>2, <2>3 DEF GivenLayers, AskedLayers
<1>6. ASSUME ~Misread, Proxy PROVE GivenLayers = AskedLayers
  <2>1. /\ AskedSecurity = "none" /\ AskedNetwork = "tcp" /\ entry.plugin # "obfs" /\ entry.flow # "vision"
    BY ONLY <1>6 DEF Misread, Proxy, AskedSecurity, AskedNetwork, V2ray
  <2>2. PICK y : y = entry.ty
    OBVIOUS
  <2>3. AskedLayers = <<>> \o <<>> \o <<>> \o <<y>> \o <<>>
    BY ONLY <2>1, <2>2 DEF AskedLayers, Wrap, When
  <2>4. <<>> \o <<>> \o <<>> \o <<y>> \o <<>> = <<y>>
    OBVIOUS
  <2> QED
    BY ONLY <1>6, <2>2, <2>3, <2>4 DEF GivenLayers
<1> QED
  BY <1>4, <1>5, <1>6

(***************************************************************************)
(* The layers of Dialer.                                                   *)
(***************************************************************************)

\* The stack grows along Layers(Node), whose first layer is the security: neither
\* property is inductive without it.
StackInv ==
  /\ entry \in Entries
  /\ phase \notin {"list", "hidden"} => Accept(Parsed(entry))
  /\ phase \in {"list", "resolve", "race"} => stack = <<>>
  /\ stack \in Seq(LayerNames \ {"unsupported"})
  /\ phase = "layers" => Len(stack) < Len(Layers(Node))
  /\ phase = "ok" => Len(stack) = Len(Layers(Node))
  /\ \A k \in 1 .. Len(stack) : stack[k] = Layers(Node)[k]
  /\ phase = "unsupported" => \E k \in 1 .. Len(Layers(Node)) : Layers(Node)[k] = "unsupported"
  /\ SecretsProtected

LEMMA StackStep ==
  ASSUME StackInv, [DialNext]_dialVars
  PROVE  StackInv'
<1>1. PICK l : l = Layers(Node)
  OBVIOUS
<1>2. entry' = entry
  BY DEF DialNext, dialVars, Catalog, Resolve, Receive, Layer, Timeout, Drop, Attempt, Settle
<1>3. /\ Layers(Node') = l /\ Accept(Parsed(entry')) = Accept(Parsed(entry))
      /\ SecretsProtected' <=> (bare' => AskedSecurity = "none" \/ Proxy)
  BY <1>1, <1>2 DEF Node, SecretsProtected, AskedSecurity, Proxy
<1>4. /\ entry \in Entries
      /\ phase \notin {"list", "hidden"} => Accept(Parsed(entry))
      /\ phase \in {"list", "resolve", "race"} => stack = <<>>
      /\ stack \in Seq(LayerNames \ {"unsupported"})
      /\ phase = "layers" => Len(stack) < Len(l)
      /\ phase = "ok" => Len(stack) = Len(l)
      /\ \A k \in 1 .. Len(stack) : stack[k] = l[k]
      /\ phase = "unsupported" => \E k \in 1 .. Len(l) : l[k] = "unsupported"
      /\ bare => AskedSecurity = "none" \/ Proxy
  BY <1>1 DEF StackInv, SecretsProtected
<1>5. Accept(Parsed(entry)) => l \in Seq(LayerNames) /\ l # <<>>
  BY <1>1, <1>4, NodeLayers
<1>6. Accept(Parsed(entry)) /\ ~Proxy /\ AskedSecurity # "none" =>
        l[1] \in {"tls", "reality"} \/ \A k \in 1 .. Len(l) : ~Readable(l[k])
  <2> SUFFICES ASSUME Accept(Parsed(entry)), ~Proxy, AskedSecurity # "none"
               PROVE  l[1] \in {"tls", "reality"} \/ \A k \in 1 .. Len(l) : ~Readable(l[k])
    OBVIOUS
  <2>1. CASE entry.ty \in {"ss", "vmess"}
    BY <1>1, <1>4, <2>1, SealedLayers
  <2>2. CASE entry.ty \notin {"ss", "vmess"}
    <3>1. GivenSecurity # "none"
      BY <1>4, <2>2, GivenIsAsked, AcceptListed
    <3> QED
      BY <1>1, <1>4, <3>1, NodeLayers
  <2> QED
    BY <2>1, <2>2
\* StackInv' in terms of the constant l.
<1> DEFINE Goal ==
      /\ phase' \notin {"list", "hidden"} => Accept(Parsed(entry))
      /\ phase' \in {"list", "resolve", "race"} => stack' = <<>>
      /\ stack' \in Seq(LayerNames \ {"unsupported"})
      /\ phase' = "layers" => Len(stack') < Len(l)
      /\ phase' = "ok" => Len(stack') = Len(l)
      /\ \A k \in 1 .. Len(stack') : stack'[k] = l[k]
      /\ phase' = "unsupported" => \E k \in 1 .. Len(l) : l[k] = "unsupported"
      /\ bare' => AskedSecurity = "none" \/ Proxy
<1>7. SUFFICES Goal
  BY <1>2, <1>3, <1>4 DEF StackInv
<1>8. CASE Catalog
  BY <1>4, <1>8 DEF Catalog
<1>9. CASE Resolve
  BY <1>4, <1>9 DEF Resolve
<1>10. ASSUME NEW i \in DOMAIN race, Attempt(i) \/ Settle(i) PROVE Goal
  BY <1>4, <1>10 DEF Attempt, Settle
<1>11. CASE Receive
  <2>1. phase = "race" /\ phase' \in {"race", "layers", "unreachable"} /\ stack' = stack /\ bare' = bare
    BY <1>11 DEF Receive
  <2>2. Len(stack) < Len(l)
    BY <1>4, <1>5, <2>1, EmptySeq
  <2> QED
    BY <1>4, <2>1, <2>2
<1>12. CASE Layer
  <2>1. PICK next : next = l[Len(stack) + 1]
    OBVIOUS
  <2>2. phase = "layers" /\ Accept(Parsed(entry)) /\ l \in Seq(LayerNames) /\ Len(stack) < Len(l)
    BY <1>4, <1>5, <1>12 DEF Layer
  <2>3. Len(stack) + 1 \in 1 .. Len(l) /\ Len(stack) \in Nat /\ next \in LayerNames
    BY <1>4, <2>1, <2>2, LenProperties, ElementOfSeq
  <2>4. CASE next = "unsupported"
    <3>1. phase' = "unsupported" /\ stack' = stack /\ bare' = bare
      BY <1>1, <1>12, <2>1, <2>4 DEF Layer
    <3> QED
      BY <1>4, <2>1, <2>2, <2>3, <2>4, <3>1
  <2>5. CASE next # "unsupported"
    <3>1. /\ bare' <=> bare \/ (Readable(next) /\ ~Encrypted)
          /\ \/ stack' = Append(stack, next) /\ phase' = IF Len(stack') = Len(l) THEN "ok" ELSE "layers"
             \/ phase' = "failed" /\ stack' = stack
      BY <1>1, <1>12, <2>1, <2>5 DEF Layer
    <3>2. bare' => AskedSecurity = "none" \/ Proxy
      <4> SUFFICES ASSUME ~Proxy, AskedSecurity # "none", Readable(next) PROVE Encrypted
        BY <1>4, <3>1
      <4>1. l[1] \in {"tls", "reality"}
        BY <1>6, <2>1, <2>2, <2>3
      <4>2. Len(stack) # 0
        BY <2>1, <4>1 DEF Readable
      <4>3. 1 \in 1 .. Len(stack) /\ DOMAIN stack = 1 .. Len(stack)
        BY <1>4, <2>3, <4>2, LenProperties
      <4> QED
        BY <1>4, <4>1, <4>3 DEF Encrypted
    <3>3. CASE stack' = Append(stack, next) /\ phase' = IF Len(stack') = Len(l) THEN "ok" ELSE "layers"
      <4>1. next \in LayerNames \ {"unsupported"}
        BY <2>3, <2>5
      <4>2. /\ stack' \in Seq(LayerNames \ {"unsupported"}) /\ Len(stack') = Len(stack) + 1
            /\ stack'[Len(stack) + 1] = next
            /\ \A k \in 1 .. Len(stack) : stack'[k] = stack[k]
        BY <1>4, <3>3, <4>1, AppendProperties
      <4>3. \A k \in 1 .. Len(stack') : stack'[k] = l[k]
        BY <1>4, <2>1, <2>3, <4>2
      <4>4. Len(l) \in Nat
        BY <2>2, LenProperties
      <4> QED
        BY <1>4, <2>2, <2>3, <3>2, <3>3, <4>2, <4>3, <4>4
    <3>4. CASE phase' = "failed" /\ stack' = stack
      BY <1>4, <2>2, <3>2, <3>4
    <3> QED
      BY <3>1, <3>3, <3>4
  <2> QED
    BY <2>4, <2>5
<1>13. CASE Timeout \/ Drop
  BY <1>4, <1>13 DEF Timeout, Drop
<1>14. CASE UNCHANGED dialVars
  BY <1>4, <1>14 DEF dialVars
<1> QED
  BY <1>8, <1>9, <1>10, <1>11, <1>12, <1>13, <1>14 DEF DialNext

LEMMA StackAlways == DialSpec => []StackInv
<1>1. DialInit => StackInv
  <2> SUFFICES ASSUME DialInit PROVE StackInv
    OBVIOUS
  <2>1. entry \in Entries /\ phase = "list" /\ stack = <<>> /\ ~bare
    BY DEF DialInit
  <2>2. stack \in Seq(LayerNames \ {"unsupported"}) /\ Len(stack) = 0
    BY <2>1
  <2> QED
    BY <2>1, <2>2 DEF StackInv, SecretsProtected
<1>2. StackInv /\ [DialNext]_dialVars => StackInv'
  BY StackStep
<1> QED
  BY <1>1, <1>2, PTL DEF DialSpec

\* What the provider wants encrypted is never written before the security is on
\* the stream (lib.rs:114-300), for every entry a provider can write, the misread
\* ones included, but for SOCKS5 and HTTP nodes, and for every answer of the
\* resolver.
THEOREM DialProtectsSecrets == DialSpec => []SecretsProtected
<1>1. StackInv => SecretsProtected
  BY DEF StackInv
<1> QED
  BY <1>1, StackAlways, PTL

\* The parsers, the filter, the normalisation, to_kind and dial agree (config.rs,
\* outbound.rs:110-233, lib.rs:114-300): a dial that succeeds has put on exactly
\* the layers the entry asks for, unless the entry is one of those Misread names;
\* and what is listed is not refused, but for the modes and ciphers the filter does
\* not look at.
THEOREM DialsAsTheyAreListed == DialSpec => []DialsAsListed
<1>1. StackInv => DialsAsListed
  <2> SUFFICES ASSUME StackInv PROVE DialsAsListed
    OBVIOUS
  <2>1. phase \in {"ok", "unsupported"} => entry \in Entries /\ Accept(Parsed(entry))
    BY DEF StackInv
  <2>2. PICK l : l = Layers(Node)
    OBVIOUS
  <2>3. ASSUME phase = "unsupported" PROVE Refused
    <3> SUFFICES ASSUME ~Refused PROVE FALSE
      OBVIOUS
    <3>1. l \in Seq(LayerNames \ {"unsupported"})
      BY <2>1, <2>2, <2>3, NodeLayers
    <3>2. PICK k \in 1 .. Len(l) : l[k] = "unsupported"
      BY <2>2, <2>3 DEF StackInv
    <3> QED
      BY <3>1, <3>2, ElementOfSeq
  <2>4. ASSUME phase = "ok", ~Misread PROVE stack = AskedLayers
    <3>1. /\ stack \in Seq(LayerNames \ {"unsupported"}) /\ Len(stack) = Len(l)
          /\ \A k \in 1 .. Len(stack) : stack[k] = l[k]
      BY <2>2, <2>4 DEF StackInv
    <3>2. ~Refused
      <4> SUFFICES ASSUME Refused PROVE FALSE
        OBVIOUS
      <4>1. PICK k \in 1 .. Len(l) : l[k] = "unsupported"
        BY <2>1, <2>2, <2>4, NodeLayers
      <4> QED
        BY <3>1, <4>1, ElementOfSeq
    <3>3. l = AskedLayers /\ l \in Seq(LayerNames \ {"unsupported"})
      <4>1. l = GivenLayers /\ l \in Seq(LayerNames \ {"unsupported"})
        BY <2>1, <2>2, <2>4, <3>2, NodeLayers
      <4>2. GivenLayers = AskedLayers
        BY <2>1, <2>4, GivenIsAsked, AcceptListed
      <4> QED
        BY <4>1, <4>2
    <3> QED
      BY <3>1, <3>3, SeqEqual
  <2> QED
    BY <2>3, <2>4 DEF DialsAsListed, DialsAsConfigured, ListedIsSupported, Refused
<1> QED
  BY <1>1, StackAlways, PTL

(***************************************************************************)
(* Relay.                                                                  *)
(***************************************************************************)

RelayTypeOK ==
  /\ sent \in [Halves -> Nat] /\ end \in [Halves -> {"open", "eof", "err"}]
  /\ stalled \in [Halves -> BOOLEAN] /\ broken \in [Halves -> BOOLEAN]
  /\ taken \in [Halves -> Nat] /\ delivered \in [Halves -> Nat]
  /\ pc \in [Halves -> {"read", "write", "shut", "done"}]
  /\ closed \in [Halves -> BOOLEAN]
  /\ stop \in BOOLEAN /\ failed \in BOOLEAN
  /\ idle \in Nat

\* A half that leaves the loop with the token alive leaves it at its source's end
\* of file with nothing left to read.
LeavesAtEof ==
  \A h \in Halves : pc[h] = "shut" /\ ~stop => end[h] = "eof" /\ taken[h] = sent[h]

\* A destination is shut down by the last thing a half does.
ClosedIsDone == \A h \in Halves : closed[h] => pc[h] = "done"

\* Forwards alone is not inductive: it does not say why a half is about to shut
\* its destination down.
ForwardsInv == RelayTypeOK /\ Forwards /\ LeavesAtEof /\ ClosedIsDone

\* One step of a peer, a half or the timer keeps the stream whole (io.rs:31-75).
LEMMA ForwardsStep ==
  ASSUME ForwardsInv, [Next]_vars
  PROVE  ForwardsInv'
<1> USE RelayAssumption
    DEF ForwardsInv, RelayTypeOK, Forwards, NothingLost, HalfCloseInOrder, LeavesAtEof,
        ClosedIsDone, peers, Goto
<1>1. ASSUME NEW h \in Halves, Peer(h) PROVE ForwardsInv'
  <2>0. UNCHANGED <<taken, delivered, pc, closed, stop, failed, idle>>
    BY <1>1 DEF Peer
  <2>1. CASE /\ end[h] = "open" /\ sent' = [sent EXCEPT ![h] = @ + 1]
             /\ UNCHANGED <<end, stalled, broken>>
    BY <2>0, <2>1
  <2>2. CASE /\ end[h] = "open" /\ \E e \in {"eof", "err"} : end' = [end EXCEPT ![h] = e]
             /\ UNCHANGED <<sent, stalled, broken>>
    BY <2>0, <2>2
  <2>3. CASE /\ UNCHANGED <<sent, end>>
             /\ stalled' \in [Halves -> BOOLEAN] /\ broken' \in [Halves -> BOOLEAN]
    BY <2>0, <2>3
  <2>4. stalled \in [Halves -> BOOLEAN] /\ broken \in [Halves -> BOOLEAN]
    OBVIOUS
  <2>5. CASE stalled' = [stalled EXCEPT ![h] = TRUE] /\ UNCHANGED <<sent, end, broken>>
    BY ONLY <2>3, <2>4, <2>5
  <2>6. CASE broken' = [broken EXCEPT ![h] = TRUE] /\ UNCHANGED <<sent, end, stalled>>
    BY ONLY <2>3, <2>4, <2>6
  <2> QED
    BY ONLY <1>1, <2>1, <2>2, <2>5, <2>6 DEF Peer
<1>2. ASSUME NEW h \in Halves, Drain(h) PROVE ForwardsInv'
  BY <1>2 DEF Drain
<1>3. ASSUME NEW h \in Halves, ReadData(h) PROVE ForwardsInv'
  BY <1>3 DEF ReadData
<1>4. ASSUME NEW h \in Halves, ReadEof(h) PROVE ForwardsInv'
  BY <1>4 DEF ReadEof
<1>5. ASSUME NEW h \in Halves, ReadErr(h) PROVE ForwardsInv'
  BY <1>5 DEF ReadErr
<1>6. ASSUME NEW h \in Halves, SeeStop(h) PROVE ForwardsInv'
  BY <1>6 DEF SeeStop
<1>7. ASSUME NEW h \in Halves, WriteAll(h) PROVE ForwardsInv'
  BY <1>7 DEF WriteAll
<1>8. ASSUME NEW h \in Halves, WriteErr(h) PROVE ForwardsInv'
  BY <1>8 DEF WriteErr
<1>9. ASSUME NEW h \in Halves, Shutdown(h) PROVE ForwardsInv'
  BY <1>9 DEF Shutdown
<1>10. ASSUME Tick PROVE ForwardsInv'
  BY <1>10 DEF Tick
<1>11. ASSUME IdleStop PROVE ForwardsInv'
  BY <1>11 DEF IdleStop
<1>12. CASE UNCHANGED vars
  BY <1>12 DEF vars
<1> QED
  BY <1>1, <1>2, <1>3, <1>4, <1>5, <1>6, <1>7, <1>8, <1>9, <1>10, <1>11, <1>12
     DEF Next, Copy

\* Nothing a source sent is lost, repeated or overtaken by the end of its stream
\* (io.rs:31-75), for every length of the streams.
THEOREM RelayForwards == Spec => []Forwards
<1>1. Init => ForwardsInv
  <2> SUFFICES ASSUME Init PROVE ForwardsInv
    OBVIOUS
  <2>1. RelayTypeOK
    BY DEF Init, RelayTypeOK
  <2>2. \A h \in Halves : ~closed[h] /\ pc[h] = "read" /\ sent[h] = 0 /\ taken[h] = 0 /\ delivered[h] = 0
    BY DEF Init
  <2> QED
    BY <2>1, <2>2 DEF ForwardsInv, Forwards, NothingLost, HalfCloseInOrder, LeavesAtEof, ClosedIsDone
<1>2. ForwardsInv /\ [Next]_vars => ForwardsInv'
  BY ForwardsStep
<1>3. ForwardsInv => Forwards
  BY DEF ForwardsInv
<1> QED
  BY <1>1, <1>2, <1>3, PTL DEF Spec

\* The token is cancelled by a half that fails or by idle_until, and by no end of
\* file (io.rs:31-75).
THEOREM RelayStopHasCause == Spec => StopHasCause
<1> DEFINE Step == stop' /\ ~stop => failed' \/ idle >= IdleLimit
<1>1. [Next]_vars => [Step]_vars
  <2> SUFFICES ASSUME Next PROVE Step
    OBVIOUS
  <2>1. ASSUME NEW h \in Halves, Peer(h) \/ Drain(h) PROVE Step
    BY <2>1 DEF Peer, Drain
  <2>2. ASSUME NEW h \in Halves, Copy(h) PROVE Step
    BY <2>2 DEF Copy, ReadData, ReadEof, ReadErr, SeeStop, WriteAll, WriteErr, Shutdown
  <2>3. ASSUME Tick \/ IdleStop PROVE Step
    BY <2>3 DEF Tick, IdleStop
  <2> QED
    BY <2>1, <2>2, <2>3 DEF Next
<1> QED
  BY <1>1, PTL DEF Spec, StopHasCause

(***************************************************************************)
(* The list of HealthCheck.                                                *)
(***************************************************************************)

Healths == Results \cup {"idle", "checking"}

\* A list of nodes, of which the lines of information are never checked.
ListOK(l) ==
  /\ \E n \in Nat : l \in [1 .. n -> [key : Keys, health : Healths]]
  /\ \A i \in DOMAIN l : IsInfo(l[i].key) => l[i].health # "checking"

\* Whatever l shows as being checked is the second of two equal entries or has its
\* key in awaited.
LeftOver(l, awaited) ==
  \A i \in DOMAIN l :
    l[i].health = "checking" => (\E j \in 1 .. i - 1 : l[j].key = l[i].key) \/ l[i].key \in awaited

LEMMA FreshList ==
  ASSUME NEW l \in NodeLists
  PROVE  ListOK(Fresh(l)) /\ LeftOver(Fresh(l), {})
<1>1. PICK f : f = Fresh(l)
  OBVIOUS
<1>2. l \in Seq(Keys)
  BY HealthAssumption
<1>3. DOMAIN l = 1 .. Len(l) /\ Len(l) \in Nat /\ \A i \in 1 .. Len(l) : l[i] \in Keys
  BY <1>2, LenProperties, ElementOfSeq
<1>4. f = [i \in 1 .. Len(l) |-> [key |-> l[i], health |-> "idle"]]
  BY <1>1, <1>3 DEF Fresh
<1>5. f \in [1 .. Len(l) -> [key : Keys, health : Healths]]
  BY <1>3, <1>4 DEF Healths
<1>6. \A i \in DOMAIN f : f[i].health = "idle"
  BY <1>4
<1> QED
  BY <1>1, <1>3, <1>5, <1>6 DEF ListOK, LeftOver

\* A non-empty set of the first n numbers has a greatest element.
LEMMA MaxIn ==
  ASSUME NEW n \in Nat, NEW S, S \subseteq 1 .. n, S # {}
  PROVE  Max(S) \in S
<1> DEFINE U == {m \in Nat : \A k \in S : k <= m}
<1>1. n \in U /\ U \subseteq Nat
  OBVIOUS
<1>2. PICK m \in U : \A y \in U : ~(<<y, m>> \in OpToRel(<, Nat))
  BY <1>1, NatLessThanWellFounded, WFMin
<1>3. m \in S
  <2> SUFFICES ASSUME m \notin S PROVE FALSE
    OBVIOUS
  <2>1. m # 0
    <3>1. PICK k \in S : k <= m
      OBVIOUS
    <3> QED
      BY <3>1
  <2>2. m - 1 \in U
    BY <2>1
  <2>3. <<m - 1, m>> \in OpToRel(<, Nat)
    BY <2>1 DEF OpToRel
  <2> QED
    BY <1>2, <2>2, <2>3
<1>4. \A y \in S : m >= y
  OBVIOUS
<1> QED
  BY <1>3, <1>4 DEF Max

\* A stable sort keeps the first of two equal entries before the second one, when
\* the second is still being checked (main.rs:1018-1020).
LEMMA SortKeeps ==
  ASSUME NEW l, ListOK(l), NEW awaited, LeftOver(l, awaited), SortHealthPartial(l)
  PROVE  ListOK(nodes') /\ LeftOver(nodes', awaited)
<1>1. PICK p \in Bijection(DOMAIN l, DOMAIN l) : Sorts(l, p) /\ nodes' = [i \in DOMAIN l |-> l[p[i]]]
  BY DEF SortHealthPartial
<1>2. PICK n \in Nat : l \in [1 .. n -> [key : Keys, health : Healths]]
  BY DEF ListOK
<1>3. DOMAIN l = 1 .. n
  BY <1>2
<1>4. p \in [1 .. n -> 1 .. n] /\ \A w \in 1 .. n : \E v \in 1 .. n : p[v] = w
  BY <1>1, <1>3 DEF Bijection, Surjection
<1>5. \A i \in 1 .. n : nodes'[i] = l[p[i]]
  BY <1>1, <1>3
<1>6. nodes' \in [1 .. n -> [key : Keys, health : Healths]]
  BY <1>1, <1>2, <1>3, <1>4
<1>7. ListOK(nodes')
  <2>1. DOMAIN nodes' = 1 .. n
    BY <1>6
  <2>2. \A k \in 1 .. n : IsInfo(l[k].key) => l[k].health # "checking"
    BY <1>3 DEF ListOK
  <2>3. \A i \in 1 .. n : IsInfo(nodes'[i].key) => nodes'[i].health # "checking"
    <3> TAKE i \in 1 .. n
    <3>1. p[i] \in 1 .. n /\ nodes'[i] = l[p[i]]
      BY <1>4, <1>5
    <3> QED
      BY <2>2, <3>1 DEF IsInfo
  <2> QED
    BY <1>6, <2>1, <2>3 DEF ListOK
<1>8. ASSUME NEW i \in 1 .. n, nodes'[i].health = "checking",
             NEW j \in 1 .. p[i] - 1, l[j].key = l[p[i]].key
      PROVE  \E k \in 1 .. i - 1 : nodes'[k].key = nodes'[i].key
  <2>1. p[i] \in 1 .. n /\ j \in 1 .. n /\ j < p[i]
    <3>1. n \in Nat /\ i \in 1 .. n /\ j \in 1 .. p[i] - 1
      BY <1>2, <1>8
    <3>2. p[i] \in 1 .. n
      BY ONLY <1>4, <3>1
    <3> QED
      BY ONLY <3>1, <3>2
  <2>2. PICK k \in 1 .. n : p[k] = j
    BY <1>4, <2>1
  <2>3. HealthRank(l[p[i]]) = 4
    <3>1. l[p[i]].health = "checking" /\ ~IsInfo(l[p[i]].key)
      BY <1>3, <1>5, <1>8, <2>1 DEF ListOK
    <3> QED
      BY <3>1 DEF HealthRank
  <2>4. HealthRank(l[j]) \in 0 .. 4
    BY DEF HealthRank
  <2>5. ~(i < k)
    <3> SUFFICES ASSUME i < k PROVE FALSE
      OBVIOUS
    <3>1. HealthRank(l[p[i]]) < HealthRank(l[p[k]]) \/ (HealthRank(l[p[i]]) = HealthRank(l[p[k]]) /\ p[i] < p[k])
      BY <1>1, <1>3 DEF Sorts
    <3> QED
      BY <2>1, <2>2, <2>3, <2>4, <3>1
  <2>6. k # i
    BY <2>1, <2>2
  <2>7. k \in 1 .. i - 1
    BY <2>5, <2>6
  <2> QED
    BY <1>5, <1>8, <2>2, <2>7
<1>9. LeftOver(nodes', awaited)
  <2> SUFFICES ASSUME NEW i \in 1 .. n, nodes'[i].health = "checking", nodes'[i].key \notin awaited
               PROVE  \E k \in 1 .. i - 1 : nodes'[k].key = nodes'[i].key
    BY <1>6 DEF LeftOver
  <2>1. PICK j \in 1 .. p[i] - 1 : l[j].key = l[p[i]].key
    BY <1>3, <1>4, <1>5 DEF LeftOver
  <2> QED
    BY <1>8, <2>1
<1> QED
  BY <1>7, <1>9

\* A batch takes from the list what it has an answer for, but for the second of two
\* equal entries (main.rs:998-1016).
LEMMA ApplyKeeps ==
  ASSUME NEW l, ListOK(l), NEW awaited, LeftOver(l, awaited),
         NEW batch \in Seq([key : Keys, status : Results])
  PROVE  /\ ListOK(ApplyBatch(l, batch))
         /\ LeftOver(ApplyBatch(l, batch), {k \in awaited : \A m \in 1 .. Len(batch) : batch[m].key # k})
<1>1. PICK a : a = ApplyBatch(l, batch)
  OBVIOUS
<1>2. PICK n \in Nat : l \in [1 .. n -> [key : Keys, health : Healths]]
  BY DEF ListOK
<1>3. DOMAIN l = 1 .. n /\ DOMAIN a = 1 .. n /\ DOMAIN batch = 1 .. Len(batch) /\ Len(batch) \in Nat
  BY <1>1, <1>2, LenProperties DEF ApplyBatch
<1> DEFINE mine(i) == {k \in DOMAIN batch : batch[k].key = l[i].key}
<1>4. ASSUME NEW i \in 1 .. n
      PROVE  \/ a[i] = l[i] /\ (mine(i) = {} \/ \E j \in 1 .. i - 1 : l[j].key = l[i].key)
             \/ \E s \in Results : a[i] = [l[i] EXCEPT !.health = s]
  <2>1. CASE mine(i) = {} \/ \E j \in 1 .. i - 1 : l[j].key = l[i].key
    BY <1>1, <1>3, <2>1 DEF ApplyBatch
  <2>2. CASE ~(mine(i) = {} \/ \E j \in 1 .. i - 1 : l[j].key = l[i].key)
    <3>1. a[i] = [l[i] EXCEPT !.health = batch[Max(mine(i))].status]
      BY <1>1, <1>3, <2>2 DEF ApplyBatch
    <3>2. Max(mine(i)) \in mine(i)
      <4>1. mine(i) \subseteq 1 .. Len(batch) /\ mine(i) # {}
        BY <1>3, <2>2
      <4> HIDE DEF mine
      <4> QED
        BY <1>3, <4>1, MaxIn
    <3>3. PICK k \in 1 .. Len(batch) : k = Max(mine(i))
      BY <1>3, <3>2
    <3>4. batch[k].status \in Results
      <4>1. batch[k] \in [key : Keys, status : Results]
        BY ElementOfSeq
      <4> QED
        BY <4>1
    <3> QED
      BY <3>1, <3>3, <3>4
  <2> QED
    BY <2>1, <2>2
<1>5. ASSUME NEW i \in 1 .. n
      PROVE  /\ a[i] \in [key : Keys, health : Healths] /\ a[i].key = l[i].key
             /\ a[i].health = "checking" =>
                  l[i].health = "checking" /\ (mine(i) = {} \/ \E j \in 1 .. i - 1 : l[j].key = l[i].key)
  <2>1. l[i] \in [key : Keys, health : Healths]
    BY <1>2
  <2>2. CASE \E s \in Results : a[i] = [l[i] EXCEPT !.health = s]
    <3>1. PICK s \in Results : a[i] = [l[i] EXCEPT !.health = s]
      BY <2>2
    <3> HIDE DEF mine
    <3> QED
      BY <2>1, <3>1, HealthAssumption DEF Healths
  <2> HIDE DEF mine
  <2> QED
    BY <1>4, <2>1, <2>2
<1>6. a \in [1 .. n -> [key : Keys, health : Healths]]
  <2>1. a = [i \in 1 .. n |-> a[i]]
    BY <1>1, <1>3 DEF ApplyBatch
  <2> HIDE DEF mine
  <2> QED
    BY <1>5, <2>1
<1>7. ListOK(a)
  <2>1. \A k \in 1 .. n : IsInfo(l[k].key) => l[k].health # "checking"
    BY <1>3 DEF ListOK
  <2>2. \A i \in 1 .. n : IsInfo(a[i].key) => a[i].health # "checking"
    BY <1>5, <2>1
  <2> QED
    BY <1>3, <1>6, <2>2 DEF ListOK
<1>8. LeftOver(a, {k \in awaited : \A m \in 1 .. Len(batch) : batch[m].key # k})
  <2> SUFFICES ASSUME NEW i \in 1 .. n, a[i].health = "checking", ~\E j \in 1 .. i - 1 : a[j].key = a[i].key
               PROVE  a[i].key \in awaited /\ \A m \in 1 .. Len(batch) : batch[m].key # a[i].key
    BY <1>3 DEF LeftOver
  <2>1. 1 .. i - 1 \subseteq 1 .. n
    OBVIOUS
  <2>2. ~\E j \in 1 .. i - 1 : l[j].key = l[i].key
    BY <1>5, <2>1
  <2>3. l[i].health = "checking" /\ mine(i) = {}
    BY <1>5, <2>2
  <2>4. l[i].key \in awaited
    BY <1>3, <2>2, <2>3 DEF LeftOver
  <2> QED
    BY <1>3, <1>5, <2>3, <2>4
<1> QED
  BY <1>1, <1>7, <1>8

(***************************************************************************)
(* The runs of HealthCheck.                                                *)
(***************************************************************************)

Task == [key : Keys, at : {"queued", "probing", "sent", "silent"}]
Answer == [key : Keys, status : Results]
TaskMaps == UNION {[D -> Task] : D \in SUBSET Nat}
RunRecords == [tasks : TaskMaps, chan : Seq(Answer), got : Nat, loop : {"live", "ended"}]

SentOf(tasks) == {t \in DOMAIN tasks : tasks[t].at = "sent"}

\* The loop knows of every task that has sent: its answer was taken or is in the
\* channel.
Counted(run) ==
  /\ IsFiniteSet(DOMAIN run.tasks)
  /\ run.loop = "live" => run.got + Len(run.chan) = Cardinality(SentOf(run.tasks))

\* The keys a run will still answer for.
Unsent(tasks) == {tasks[t].key : t \in {u \in DOMAIN tasks : tasks[u].at # "sent"}}
Awaited(run) ==
  IF run.loop = "live" THEN Unsent(run.tasks) \cup {run.chan[k].key : k \in 1 .. Len(run.chan)} ELSE {}

NoneSilent(run) == \A t \in DOMAIN run.tasks : run.tasks[t].at # "silent"

\* What the list shows as being checked is what the last run will answer for, as
\* long as it is not cancelled.  NoneLeftChecking is the case of a run that has ended.
HealthInv ==
  /\ ListOK(nodes)
  /\ runs \in Seq(RunRecords)
  /\ \A r \in 1 .. Len(runs) : Counted(runs[r])
  /\ ~cancel /\ Len(runs) > 0 =>
       NoneSilent(runs[Len(runs)]) /\ LeftOver(nodes, Awaited(runs[Len(runs)]))

\* A run all of whose tasks have sent.
LEMMA AllSent ==
  ASSUME NEW run \in RunRecords, IsFiniteSet(DOMAIN run.tasks),
         Cardinality(SentOf(run.tasks)) = Cardinality(DOMAIN run.tasks)
  PROVE  Unsent(run.tasks) = {}
<1>1. SentOf(run.tasks) \subseteq DOMAIN run.tasks
  BY DEF SentOf
<1>2. SentOf(run.tasks) = DOMAIN run.tasks
  BY <1>1, FS_Subset
<1> QED
  BY <1>2 DEF SentOf, Unsent

\* One run of the sequence is replaced.
LEMMA ReplaceRun ==
  ASSUME HealthInv, NEW r \in 1 .. Len(runs), NEW new \in RunRecords, Counted(new),
         runs' = [runs EXCEPT ![r] = new]
  PROVE  /\ runs' \in Seq(RunRecords) /\ Len(runs') = Len(runs) /\ runs'[r] = new
         /\ \A k \in 1 .. Len(runs') : Counted(runs'[k])
         /\ \A k \in 1 .. Len(runs) : k # r => runs'[k] = runs[k]
<1>1. /\ runs' \in Seq(RunRecords) /\ Len(runs') = Len(runs)
      /\ \A j \in 1 .. Len(runs) : runs'[j] = IF j = r THEN new ELSE runs[j]
  BY ExceptSeq DEF HealthInv
<1> QED
  BY <1>1 DEF HealthInv

\* A task takes a step.
LEMMA TaskMap ==
  ASSUME NEW tasks \in TaskMaps, NEW t \in DOMAIN tasks, NEW s \in {"queued", "probing", "sent", "silent"},
         NEW after, after = [tasks EXCEPT ![t].at = s]
  PROVE  /\ after \in TaskMaps /\ DOMAIN after = DOMAIN tasks
         /\ after[t].key = tasks[t].key /\ after[t].at = s
         /\ \A u \in DOMAIN tasks : u # t => after[u] = tasks[u]
<1>1. PICK D \in SUBSET Nat : tasks \in [D -> Task]
  BY DEF TaskMaps
<1>2. tasks[t] \in Task
  BY <1>1
<1>3. PICK x : x = [tasks[t] EXCEPT !.at = s]
  OBVIOUS
<1>4. x \in Task /\ x.key = tasks[t].key /\ x.at = s
  BY <1>2, <1>3 DEF Task
<1>5. after = [tasks EXCEPT ![t] = x]
  BY <1>3
<1>6. after \in [D -> Task]
  BY <1>1, <1>4, <1>5
<1> QED
  BY <1>1, <1>4, <1>5, <1>6 DEF TaskMaps

LEMMA AcquireStep ==
  ASSUME HealthInv, NEW r \in 1 .. Len(runs), NEW t \in DOMAIN runs[r].tasks, Acquire(r, t)
  PROVE  HealthInv'
<1>1. PICK run \in RunRecords : run = runs[r]
  BY ElementOfSeq DEF HealthInv
<1>2. PICK s \in {"probing", "silent"} :
        s = (IF cancel THEN "silent" ELSE "probing") /\ runs' = [runs EXCEPT ![r].tasks[t].at = s]
  BY DEF Acquire
<1>3. PICK tasks : tasks = [run.tasks EXCEPT ![t].at = s]
  OBVIOUS
<1>4. /\ tasks \in TaskMaps /\ DOMAIN tasks = DOMAIN run.tasks
      /\ tasks[t].key = run.tasks[t].key /\ tasks[t].at = s
      /\ \A u \in DOMAIN tasks : u # t => tasks[u] = run.tasks[u]
  BY <1>1, <1>3, TaskMap DEF RunRecords
<1>5. PICK new : new = [run EXCEPT !.tasks = tasks]
  OBVIOUS
<1>6. /\ new \in RunRecords /\ new.tasks = tasks /\ new.chan = run.chan /\ new.got = run.got
      /\ new.loop = run.loop
  BY <1>4, <1>5 DEF RunRecords
<1>7. runs' = [runs EXCEPT ![r] = new]
  BY <1>1, <1>2, <1>3, <1>5
<1>8. SentOf(tasks) = SentOf(run.tasks)
  BY <1>1, <1>4 DEF Acquire, SentOf
<1>9. Counted(new)
  BY <1>1, <1>4, <1>6, <1>8 DEF HealthInv, Counted
<1>10. Unsent(tasks) = Unsent(run.tasks)
  BY <1>1, <1>4 DEF Acquire, Unsent
<1>11. Awaited(new) = Awaited(run)
  BY <1>6, <1>10 DEF Awaited
<1>12. ~cancel /\ NoneSilent(run) => NoneSilent(new)
  BY <1>2, <1>4, <1>6 DEF NoneSilent
<1>13. nodes' = nodes /\ cancel' = cancel
  BY DEF Acquire
<1>14. /\ runs' \in Seq(RunRecords) /\ Len(runs') = Len(runs) /\ runs'[r] = new
       /\ \A k \in 1 .. Len(runs') : Counted(runs'[k])
       /\ \A k \in 1 .. Len(runs) : k # r => runs'[k] = runs[k]
  BY <1>6, <1>7, <1>9, ReplaceRun
<1> QED
  BY <1>1, <1>11, <1>12, <1>13, <1>14 DEF HealthInv

LEMMA ProbedStep ==
  ASSUME HealthInv, NEW r \in 1 .. Len(runs), NEW t \in DOMAIN runs[r].tasks, Probed(r, t)
  PROVE  HealthInv'
<1>1. PICK run \in RunRecords : run = runs[r]
  BY ElementOfSeq DEF HealthInv
<1>2. nodes' = nodes /\ cancel' = cancel /\ run.tasks[t].at = "probing"
  BY <1>1 DEF Probed
<1>3. run.tasks \in TaskMaps /\ run.tasks[t].key \in Keys /\ t \in DOMAIN run.tasks
  BY <1>1 DEF RunRecords, TaskMaps, Task
<1>4. Counted(run)
  BY <1>1 DEF HealthInv
<1>5. CASE cancel
  <2>1. runs' = [runs EXCEPT ![r].tasks[t].at = "silent"]
    BY <1>5 DEF Probed
  <2>2. PICK tasks : tasks = [run.tasks EXCEPT ![t].at = "silent"]
    OBVIOUS
  <2>3. /\ tasks \in TaskMaps /\ DOMAIN tasks = DOMAIN run.tasks /\ tasks[t].at = "silent"
        /\ \A u \in DOMAIN tasks : u # t => tasks[u] = run.tasks[u]
    BY <1>3, <2>2, TaskMap
  <2>4. PICK new : new = [run EXCEPT !.tasks = tasks]
    OBVIOUS
  <2>5. /\ new \in RunRecords /\ new.tasks = tasks /\ new.chan = run.chan /\ new.got = run.got
        /\ new.loop = run.loop
    BY <2>3, <2>4 DEF RunRecords
  <2>6. runs' = [runs EXCEPT ![r] = new]
    BY <1>1, <2>1, <2>2, <2>4
  <2>7. SentOf(tasks) = SentOf(run.tasks)
    BY <1>2, <2>3 DEF SentOf
  <2>8. Counted(new)
    BY <1>4, <2>3, <2>5, <2>7 DEF Counted
  <2>9. runs' \in Seq(RunRecords) /\ \A k \in 1 .. Len(runs') : Counted(runs'[k])
    BY <2>5, <2>6, <2>8, ReplaceRun
  <2> QED
    BY <1>2, <1>5, <2>9 DEF HealthInv
<1>6. CASE ~cancel
  <2>1. PICK s \in Results : runs' = [runs EXCEPT ![r].tasks[t].at = "sent",
                                                  ![r].chan = Sent(r, [key |-> run.tasks[t].key, status |-> s])]
    BY <1>1, <1>6 DEF Probed
  <2>2. PICK answer \in Answer : answer = [key |-> run.tasks[t].key, status |-> s]
    BY <1>3 DEF Answer
  <2>3. PICK tasks : tasks = [run.tasks EXCEPT ![t].at = "sent"]
    OBVIOUS
  <2>4. /\ tasks \in TaskMaps /\ DOMAIN tasks = DOMAIN run.tasks /\ tasks[t].at = "sent"
        /\ tasks[t].key = run.tasks[t].key
        /\ \A u \in DOMAIN tasks : u # t => tasks[u] = run.tasks[u]
    BY <1>3, <2>3, TaskMap
  <2>5. PICK chan2 : chan2 = IF run.loop = "live" THEN Append(run.chan, answer) ELSE <<>>
    OBVIOUS
  <2>6. /\ chan2 \in Seq(Answer)
        /\ run.loop = "live" => /\ Len(chan2) = Len(run.chan) + 1 /\ chan2[Len(chan2)] = answer
                                /\ \A k \in 1 .. Len(run.chan) : chan2[k] = run.chan[k]
    <3>1. run.chan \in Seq(Answer)
      BY DEF RunRecords
    <3> QED
      BY <2>5, <3>1, AppendProperties, EmptySeq
  <2>7. PICK new : new = [run EXCEPT !.tasks = tasks, !.chan = chan2]
    OBVIOUS
  <2>8. /\ new \in RunRecords /\ new.tasks = tasks /\ new.chan = chan2 /\ new.got = run.got
        /\ new.loop = run.loop
    BY <2>4, <2>6, <2>7 DEF RunRecords
  <2>9. runs' = [runs EXCEPT ![r] = new]
    BY <1>1, <2>1, <2>2, <2>3, <2>5, <2>7 DEF Sent
  <2>10. Counted(new)
    <3>1. SentOf(tasks) = SentOf(run.tasks) \cup {t} /\ t \notin SentOf(run.tasks)
      BY <1>2, <1>3, <2>4 DEF SentOf
    <3>2. IsFiniteSet(DOMAIN run.tasks) /\ SentOf(run.tasks) \subseteq DOMAIN run.tasks
      BY <1>4 DEF Counted, SentOf
    <3>3. IsFiniteSet(SentOf(run.tasks))
      BY <3>2, FS_Subset
    <3>4. Cardinality(SentOf(tasks)) = Cardinality(SentOf(run.tasks)) + 1
      BY <3>1, <3>3, FS_AddElement
    <3>5. run.got \in Nat /\ Len(run.chan) \in Nat /\ Cardinality(SentOf(run.tasks)) \in Nat
      BY <3>3, LenProperties, FS_CardinalityType DEF RunRecords
    <3>6. ASSUME run.loop = "live" PROVE run.got + Len(chan2) = Cardinality(SentOf(tasks))
      <4>1. run.got + Len(run.chan) = Cardinality(SentOf(run.tasks)) /\ Len(chan2) = Len(run.chan) + 1
        BY <1>4, <2>6, <3>6 DEF Counted
      <4> QED
        BY ONLY <3>4, <3>5, <4>1
    <3> QED
      BY <2>4, <2>8, <3>2, <3>6 DEF Counted
  <2>11. /\ runs' \in Seq(RunRecords) /\ Len(runs') = Len(runs) /\ runs'[r] = new
         /\ \A k \in 1 .. Len(runs') : Counted(runs'[k])
         /\ \A k \in 1 .. Len(runs) : k # r => runs'[k] = runs[k]
    BY <2>8, <2>9, <2>10, ReplaceRun
  <2>12. Awaited(run) \subseteq Awaited(new)
    <3>1. CASE run.loop = "live"
      <4> SUFFICES ASSUME NEW key \in Awaited(run) PROVE key \in Awaited(new)
        OBVIOUS
      <4>1. Len(run.chan) \in Nat /\ 1 .. Len(run.chan) \subseteq 1 .. Len(chan2) /\ Len(chan2) \in 1 .. Len(chan2)
        BY <2>6, <3>1, LenProperties DEF RunRecords
      <4>2. CASE key \in Unsent(run.tasks)
        <5>1. PICK u \in DOMAIN run.tasks : run.tasks[u].at # "sent" /\ key = run.tasks[u].key
          BY <4>2 DEF Unsent
        <5>2. CASE u = t
          <6>1. chan2[Len(chan2)].key = key
            BY <2>2, <2>6, <3>1, <5>1, <5>2
          <6> QED
            BY <2>8, <3>1, <4>1, <6>1 DEF Awaited
        <5>3. CASE u # t
          <6>1. key \in Unsent(tasks)
            BY <2>4, <5>1, <5>3 DEF Unsent
          <6> QED
            BY <2>8, <3>1, <6>1 DEF Awaited
        <5> QED
          BY <5>2, <5>3
      <4>3. CASE key \in {run.chan[k].key : k \in 1 .. Len(run.chan)}
        <5>1. PICK k \in 1 .. Len(run.chan) : key = run.chan[k].key
          BY <4>3
        <5>2. k \in 1 .. Len(chan2) /\ chan2[k].key = key
          BY <2>6, <3>1, <4>1, <5>1
        <5> QED
          BY <2>8, <3>1, <5>2 DEF Awaited
      <4> QED
        BY <3>1, <4>2, <4>3 DEF Awaited
    <3>2. CASE run.loop # "live"
      BY <3>2 DEF Awaited
    <3> QED
      BY <3>1, <3>2
  <2>13. NoneSilent(run) => NoneSilent(new)
    BY <2>4, <2>8 DEF NoneSilent
  <2>14. LeftOver(nodes, Awaited(run)) => LeftOver(nodes, Awaited(new))
    BY <2>12 DEF LeftOver
  <2> QED
    BY <1>1, <1>2, <2>11, <2>13, <2>14 DEF HealthInv
<1> QED
  BY <1>5, <1>6

LEMMA EndLoopStep ==
  ASSUME HealthInv, NEW r \in 1 .. Len(runs), EndLoop(r)
  PROVE  HealthInv'
<1>1. PICK run \in RunRecords : run = runs[r]
  BY ElementOfSeq DEF HealthInv
<1>2. /\ nodes' = nodes /\ cancel' = cancel /\ run.loop = "live"
      /\ run.got = Cardinality(DOMAIN run.tasks) \/ cancel
      /\ runs' = [runs EXCEPT ![r].loop = "ended", ![r].chan = <<>>]
  BY <1>1 DEF EndLoop, Pending
<1>3. PICK new : new = [run EXCEPT !.loop = "ended", !.chan = <<>>]
  OBVIOUS
<1>4. new \in RunRecords /\ new.tasks = run.tasks /\ new.loop = "ended"
  <2>1. <<>> \in Seq(Answer)
    BY EmptySeq
  <2> QED
    BY <1>3, <2>1 DEF RunRecords
<1>5. runs' = [runs EXCEPT ![r] = new]
  BY <1>1, <1>2, <1>3
<1>6. Counted(run) /\ Counted(new)
  BY <1>1, <1>4 DEF HealthInv, Counted
<1>7. /\ runs' \in Seq(RunRecords) /\ Len(runs') = Len(runs) /\ runs'[r] = new
      /\ \A k \in 1 .. Len(runs') : Counted(runs'[k])
      /\ \A k \in 1 .. Len(runs) : k # r => runs'[k] = runs[k]
  BY <1>4, <1>5, <1>6, ReplaceRun
<1>8. ~cancel => Awaited(run) = {}
  <2> SUFFICES ASSUME ~cancel PROVE Awaited(run) = {}
    OBVIOUS
  <2>1. SentOf(run.tasks) \subseteq DOMAIN run.tasks /\ IsFiniteSet(DOMAIN run.tasks)
    BY <1>6 DEF SentOf, Counted
  <2>2. Cardinality(SentOf(run.tasks)) <= Cardinality(DOMAIN run.tasks) /\ IsFiniteSet(SentOf(run.tasks))
    BY <2>1, FS_Subset
  <2>3. Cardinality(SentOf(run.tasks)) \in Nat /\ Cardinality(DOMAIN run.tasks) \in Nat /\ Len(run.chan) \in Nat
    BY <2>1, <2>2, FS_CardinalityType, LenProperties DEF RunRecords
  <2>4. run.got + Len(run.chan) = Cardinality(SentOf(run.tasks)) /\ run.got = Cardinality(DOMAIN run.tasks)
    BY <1>2, <1>6 DEF Counted
  <2>5. Len(run.chan) = 0 /\ Cardinality(SentOf(run.tasks)) = Cardinality(DOMAIN run.tasks)
    BY <2>2, <2>3, <2>4
  <2>6. Unsent(run.tasks) = {}
    BY <2>1, <2>5, AllSent
  <2> QED
    BY <2>5, <2>6 DEF Awaited
<1>9. Awaited(new) = {}
  BY <1>4 DEF Awaited
<1>10. NoneSilent(run) => NoneSilent(new)
  BY <1>4 DEF NoneSilent
<1>11. ASSUME ~cancel, Len(runs) > 0
       PROVE  NoneSilent(runs'[Len(runs)]) /\ LeftOver(nodes, Awaited(runs'[Len(runs)]))
  <2>1. NoneSilent(runs[Len(runs)]) /\ LeftOver(nodes, Awaited(runs[Len(runs)]))
    BY <1>11 DEF HealthInv
  <2>2. CASE r = Len(runs)
    BY <1>1, <1>7, <1>8, <1>9, <1>10, <1>11, <2>1, <2>2
  <2>3. CASE r # Len(runs)
    <3>1. runs'[Len(runs)] = runs[Len(runs)]
      BY <1>7, <1>11, <2>3, LenProperties DEF HealthInv
    <3> QED
      BY <2>1, <3>1
  <2> QED
    BY <2>2, <2>3
<1> QED
  BY <1>2, <1>7, <1>11 DEF HealthInv

LEMMA TakeBatchStep ==
  ASSUME HealthInv, NEW r \in 1 .. Len(runs), TakeBatch(r)
  PROVE  HealthInv'
<1>1. PICK run \in RunRecords : run = runs[r]
  BY ElementOfSeq DEF HealthInv
<1>2. PICK got : got = run.got + Len(run.chan)
  OBVIOUS
<1>3. PICK loop : loop = IF got = Cardinality(DOMAIN run.tasks) THEN "ended" ELSE run.loop
  OBVIOUS
<1>4. /\ ~cancel /\ cancel' = cancel /\ run.loop = "live"
      /\ SortHealthPartial(ApplyBatch(nodes, run.chan))
      /\ runs' = [runs EXCEPT ![r].got = got, ![r].chan = <<>>, ![r].loop = loop]
  BY <1>1, <1>2, <1>3 DEF TakeBatch, Pending
<1>5. PICK new : new = [run EXCEPT !.got = got, !.chan = <<>>, !.loop = loop]
  OBVIOUS
<1>6. run.chan \in Seq(Answer) /\ run.got \in Nat /\ Len(run.chan) \in Nat /\ got \in Nat /\ <<>> \in Seq(Answer)
  BY <1>2, LenProperties, EmptySeq DEF RunRecords
<1>7. new \in RunRecords /\ new.tasks = run.tasks /\ new.loop = loop /\ new.got = got /\ new.chan = <<>>
  BY <1>3, <1>5, <1>6 DEF RunRecords
<1>8. runs' = [runs EXCEPT ![r] = new]
  BY <1>1, <1>4, <1>5
<1>9. Counted(run) /\ got = Cardinality(SentOf(run.tasks))
  BY <1>1, <1>2, <1>4 DEF HealthInv, Counted
<1>10. Counted(new)
  BY <1>6, <1>7, <1>9 DEF Counted
<1>11. /\ runs' \in Seq(RunRecords) /\ Len(runs') = Len(runs) /\ runs'[r] = new
       /\ \A k \in 1 .. Len(runs') : Counted(runs'[k])
       /\ \A k \in 1 .. Len(runs) : k # r => runs'[k] = runs[k]
  BY <1>7, <1>8, <1>10, ReplaceRun
<1>12. NoneSilent(run) => NoneSilent(new)
  BY <1>7 DEF NoneSilent
<1>13. PICK last \in RunRecords : last = runs[Len(runs)]
  <2>1. Len(runs) \in 1 .. Len(runs) /\ runs \in Seq(RunRecords)
    BY LenProperties DEF HealthInv
  <2> QED
    BY <2>1, ElementOfSeq
<1>14. NoneSilent(last) /\ LeftOver(nodes, Awaited(last)) /\ ListOK(nodes)
  BY <1>4, <1>13 DEF HealthInv
<1>15. PICK awaited : awaited = {k \in Awaited(last) : \A m \in 1 .. Len(run.chan) : run.chan[m].key # k}
  OBVIOUS
<1>16. ListOK(ApplyBatch(nodes, run.chan)) /\ LeftOver(ApplyBatch(nodes, run.chan), awaited)
  <2>1. run.chan \in Seq([key : Keys, status : Results])
    BY ONLY <1>6 DEF Answer
  <2>2. LeftOver(ApplyBatch(nodes, run.chan),
                 {k \in Awaited(last) : \A m \in 1 .. Len(run.chan) : run.chan[m].key # k})
        /\ ListOK(ApplyBatch(nodes, run.chan))
    BY ONLY <1>14, <2>1, ApplyKeeps
  <2> QED
    BY ONLY <1>15, <2>2
<1>17. ListOK(nodes') /\ LeftOver(nodes', awaited)
  BY <1>4, <1>16, SortKeeps
<1>18. NoneSilent(runs'[Len(runs)]) /\ awaited \subseteq Awaited(runs'[Len(runs)])
  <2>1. CASE Len(runs) = r
    <3>1. run = last /\ runs'[Len(runs)] = new
      BY <1>1, <1>11, <1>13, <2>1
    <3>2. awaited \subseteq Unsent(run.tasks)
      BY <1>4, <1>15, <3>1 DEF Awaited
    <3>3. CASE got = Cardinality(DOMAIN run.tasks)
      <4>1. Unsent(run.tasks) = {}
        BY <1>9, <3>3, AllSent DEF Counted
      <4> QED
        BY <1>12, <1>14, <3>1, <3>2, <4>1
    <3>4. CASE got # Cardinality(DOMAIN run.tasks)
      <4>1. Unsent(run.tasks) \subseteq Awaited(new)
        BY <1>3, <1>4, <1>7, <3>4 DEF Awaited
      <4> QED
        BY <1>12, <1>14, <3>1, <3>2, <4>1
    <3> QED
      BY <3>3, <3>4
  <2>2. CASE Len(runs) # r
    <3>1. runs'[Len(runs)] = last
      BY <1>11, <1>13, <2>2, LenProperties DEF HealthInv
    <3> QED
      BY <1>14, <1>15, <3>1
  <2> QED
    BY <2>1, <2>2
<1>19. LeftOver(nodes', Awaited(runs'[Len(runs)]))
  BY <1>17, <1>18 DEF LeftOver
<1> QED
  BY <1>11, <1>17, <1>18, <1>19 DEF HealthInv

LEMMA ToggleOnStep ==
  ASSUME HealthInv, ToggleOn
  PROVE  HealthInv'
<1> DEFINE checking == [i \in DOMAIN nodes |->
                          IF IsInfo(nodes[i].key) THEN nodes[i] ELSE [nodes[i] EXCEPT !.health = "checking"]]
           checked == {i \in DOMAIN nodes : ~IsInfo(nodes[i].key)}
<1>1. PICK tasks : tasks = [i \in checked |-> [key |-> nodes[i].key, at |-> "queued"]]
  OBVIOUS
<1>2. PICK new : new = [tasks |-> tasks, chan |-> <<>>, got |-> 0, loop |-> "live"]
  OBVIOUS
<1>3. SortHealthPartial(checking) /\ runs' = Append(runs, new)
  BY <1>1, <1>2 DEF ToggleOn
<1>4. PICK n \in Nat : nodes \in [1 .. n -> [key : Keys, health : Healths]]
  BY DEF HealthInv, ListOK
<1>5. DOMAIN nodes = 1 .. n /\ \A i \in 1 .. n : nodes[i] \in [key : Keys, health : Healths]
  BY <1>4
<1>6. ASSUME NEW i \in 1 .. n
      PROVE  /\ checking[i] \in [key : Keys, health : Healths] /\ checking[i].key = nodes[i].key
             /\ ~IsInfo(nodes[i].key) \/ checking[i] = nodes[i]
  <2>1. CASE IsInfo(nodes[i].key)
    BY <1>5, <2>1
  <2>2. CASE ~IsInfo(nodes[i].key)
    <3>1. checking[i] = [nodes[i] EXCEPT !.health = "checking"] /\ "checking" \in Healths
      BY <1>5, <2>2 DEF Healths
    <3> QED
      BY <1>5, <2>2, <3>1
  <2> QED
    BY <2>1, <2>2
<1>7. ListOK(checking)
  <2>1. checking \in [1 .. n -> [key : Keys, health : Healths]]
    BY <1>5, <1>6
  <2>2. \A i \in 1 .. n : IsInfo(checking[i].key) => checking[i].health # "checking"
    BY <1>5, <1>6 DEF HealthInv, ListOK
  <2> HIDE DEF checking
  <2> QED
    BY <2>1, <2>2 DEF ListOK
<1>8. LeftOver(checking, {nodes[i].key : i \in checked})
  <2>1. \A i \in 1 .. n : checking[i].health = "checking" => ~IsInfo(nodes[i].key)
    BY <1>5, <1>6 DEF HealthInv, ListOK
  <2>2. DOMAIN checking = 1 .. n
    BY <1>5
  <2> HIDE DEF checking
  <2> QED
    BY <1>5, <1>6, <2>1, <2>2 DEF LeftOver
<1>9. new \in RunRecords /\ new.tasks = tasks /\ new.chan = <<>> /\ new.loop = "live" /\ new.got = 0
  <2>1. tasks \in [checked -> Task]
    BY <1>1, <1>5 DEF Task
  <2>2. checked \in SUBSET Nat
    BY <1>5
  <2>3. tasks \in TaskMaps
    BY <2>1, <2>2 DEF TaskMaps
  <2>4. <<>> \in Seq(Answer)
    BY EmptySeq
  <2> QED
    BY <1>2, <2>3, <2>4 DEF RunRecords
<1>10. DOMAIN tasks = checked /\ IsFiniteSet(checked)
  <2>1. IsFiniteSet(1 .. n) /\ checked \subseteq 1 .. n
    BY <1>5, FS_Interval
  <2> QED
    BY <1>1, <2>1, FS_Subset
<1>11. Counted(new)
  <2>1. SentOf(tasks) = {}
    BY <1>1 DEF SentOf
  <2> QED
    BY <1>9, <1>10, <2>1, FS_EmptySet, EmptySeq DEF Counted
<1>12. NoneSilent(new)
  BY <1>1, <1>9 DEF NoneSilent
<1>13. {nodes[i].key : i \in checked} \subseteq Awaited(new)
  BY <1>1, <1>9 DEF Awaited, Unsent
<1>14. /\ runs' \in Seq(RunRecords) /\ Len(runs') = Len(runs) + 1 /\ runs'[Len(runs')] = new
       /\ \A k \in 1 .. Len(runs) : runs'[k] = runs[k]
  BY <1>3, <1>9, AppendProperties DEF HealthInv
<1>15. \A k \in 1 .. Len(runs') : Counted(runs'[k])
  BY <1>11, <1>14, LenProperties DEF HealthInv
<1>16. ListOK(nodes') /\ LeftOver(nodes', {nodes[i].key : i \in checked})
  <2> HIDE DEF checking
  <2> QED
    BY <1>3, <1>7, <1>8, SortKeeps
<1>17. LeftOver(nodes', Awaited(new))
  BY <1>13, <1>16 DEF LeftOver
<1> QED
  BY <1>12, <1>14, <1>15, <1>16, <1>17 DEF HealthInv

\* One click, one answer or one turn of a loop keeps the list's account.
LEMMA HealthStep ==
  ASSUME HealthInv, [HealthNext]_healthVars
  PROVE  HealthInv'
<1>1. DOMAIN runs = 1 .. Len(runs)
  BY LenProperties DEF HealthInv
<1>2. CASE ToggleOff
  BY <1>2 DEF ToggleOff, HealthInv
<1>3. CASE ToggleOn
  BY <1>3, ToggleOnStep
<1>4. CASE ReloadNodes
  <2>1. PICK l \in NodeLists : nodes' = Fresh(l)
    BY <1>4 DEF ReloadNodes
  <2>2. ListOK(nodes') /\ LeftOver(nodes', {})
    BY <2>1, FreshList
  <2>3. UNCHANGED <<runs, cancel>>
    BY <1>4 DEF ReloadNodes
  <2> QED
    BY <2>2, <2>3 DEF HealthInv, LeftOver
<1>5. CASE SelectNode
  BY <1>5 DEF SelectNode, HealthInv
<1>6. ASSUME NEW r \in DOMAIN runs, EndLoop(r) PROVE HealthInv'
  BY <1>1, <1>6, EndLoopStep
<1>7. ASSUME NEW r \in DOMAIN runs, TakeBatch(r) PROVE HealthInv'
  BY <1>1, <1>7, TakeBatchStep
<1>8. ASSUME NEW r \in DOMAIN runs, NEW t \in DOMAIN runs[r].tasks, Acquire(r, t) PROVE HealthInv'
  BY <1>1, <1>8, AcquireStep
<1>9. ASSUME NEW r \in DOMAIN runs, NEW t \in DOMAIN runs[r].tasks, Probed(r, t) PROVE HealthInv'
  BY <1>1, <1>9, ProbedStep
<1>10. CASE UNCHANGED healthVars
  BY <1>10 DEF healthVars, HealthInv
<1> QED
  BY <1>2, <1>3, <1>4, <1>5, <1>6, <1>7, <1>8, <1>9, <1>10 DEF HealthNext

\* A run that was not cancelled leaves no node behind as being checked
\* (main.rs:918-1024, outbound.rs:360-392), for every list, every number of
\* overlapping runs and every number of probes at a time.
THEOREM HealthNoneLeft == HealthSpec => []NoneLeftChecking
<1>1. HealthInit => HealthInv
  <2> SUFFICES ASSUME HealthInit PROVE HealthInv
    OBVIOUS
  <2>1. PICK l \in NodeLists : nodes = Fresh(l)
    BY DEF HealthInit
  <2>2. ListOK(nodes)
    BY <2>1, FreshList
  <2>3. runs \in Seq(RunRecords) /\ Len(runs) = 0
    BY EmptySeq DEF HealthInit
  <2> QED
    BY <2>2, <2>3 DEF HealthInv
<1>2. HealthInv /\ [HealthNext]_healthVars => HealthInv'
  BY HealthStep
<1>3. HealthInv => NoneLeftChecking
  <2> SUFFICES ASSUME HealthInv, runs # <<>>, Last(runs).loop = "ended", ~cancel
               PROVE  \A i \in DOMAIN nodes :
                        nodes[i].health = "checking" => \E j \in 1 .. i - 1 : nodes[j].key = nodes[i].key
    BY DEF NoneLeftChecking
  <2>1. Len(runs) > 0 /\ Last(runs) = runs[Len(runs)]
    BY EmptySeq DEF HealthInv, Last
  <2>2. LeftOver(nodes, {})
    BY <2>1 DEF HealthInv, Awaited
  <2> QED
    BY <2>2 DEF LeftOver
<1> QED
  BY <1>1, <1>2, <1>3, PTL DEF HealthSpec

(***************************************************************************)
(* The single flight of DohResolver.  SingleFlight and WaiterHasLeader     *)
(* speak about one side of the inflight map each; inductive they are only  *)
(* with the other side, EntryLed: every entry is that of a future still    *)
(* leading for its host, or of one that was dropped.  AnswerForHost needs  *)
(* the same fact of every place an answer rests in between: Traced.        *)
(***************************************************************************)


EntryLed ==
  \A h \in Hosts : inflight[h] # NoOne =>
    /\ host[inflight[h]] = h
    /\ stage[inflight[h]] \in Leading \cup {"dropped"}

WaiterHasEntry ==
  \A c \in Callers : stage[c] = "wait" /\ inbox[c] = Absent => inflight[host[c]] # NoOne

Flight == SingleFlight /\ EntryLed /\ WaiterHasEntry

Traced ==
  /\ \A h \in Hosts : cache[h] # Absent => cache[h] \in network[h]
  /\ \A c \in Callers :
       /\ stage[c] \in {"check", "role"} => inbox[c] = Absent
       /\ stage[c] = "wait" /\ inbox[c] # Absent => inbox[c] \in network[host[c]]
       /\ stage[c] \in {"store", "publish", "done"} => result[c] \in network[host[c]]

-------------------------------------------------------------------------------
\* DohTypeOK, the shape of the resolver's state, holds in every state.
THEOREM DohTypeCorrect == DohSpec => []DohTypeOK
<1>1. DohInit => DohTypeOK
  BY DohAssumption DEF DohInit, DohTypeOK, PCs, DohResults
<1>2. ASSUME DohTypeOK, [DohNext]_dohVars PROVE DohTypeOK'
  <2>1. ASSUME NEW c \in Callers, NEW h \in Hosts, Call(c, h) PROVE DohTypeOK'
    BY <1>2, <2>1 DEF DohTypeOK, Call, DohGoto, PCs
  <2>2. ASSUME NEW c \in Callers, Check(c) PROVE DohTypeOK'
    BY <1>2, <2>2, DohAssumption DEF DohTypeOK, Check, DohGoto, Return, PCs
  <2>3. ASSUME NEW c \in Callers, Role(c) PROVE DohTypeOK'
    BY <1>2, <2>3, DohAssumption DEF DohTypeOK, Role, DohGoto, Return, PCs, Leading
  <2>4. ASSUME NEW c \in Callers, Resolved(c) PROVE DohTypeOK'
    BY <1>2, <2>4, DohAssumption DEF DohTypeOK, Resolved, DohGoto, PCs, Leading
  <2>5. ASSUME NEW c \in Callers, Store(c) PROVE DohTypeOK'
    BY <1>2, <2>5, DohAssumption DEF DohTypeOK, Store, DohGoto, PCs, Leading
  <2>6. ASSUME NEW c \in Callers, Publish(c) PROVE DohTypeOK'
    BY <1>2, <2>6, DohAssumption DEF DohTypeOK, Publish, DohGoto, PCs, Leading
  <2>7. ASSUME NEW c \in Callers, DohReceive(c) PROVE DohTypeOK'
    BY <1>2, <2>7, DohAssumption DEF DohTypeOK, DohReceive, DohGoto, Return, PCs
  <2>8. ASSUME NEW c \in Callers, DohDrop(c) PROVE DohTypeOK'
    BY <1>2, <2>8, DohAssumption DEF DohTypeOK, DohDrop, DohGoto, PCs, Leading
  <2>9. ASSUME NEW h \in Hosts, Expire(h) PROVE DohTypeOK'
    BY <1>2, <2>9, DohAssumption DEF DohTypeOK, Expire
  <2>10. CASE UNCHANGED dohVars
    BY <1>2, <2>10 DEF DohTypeOK, dohVars
  <2> QED
    BY <1>2, <2>1, <2>2, <2>3, <2>4, <2>5, <2>6, <2>7, <2>8, <2>9, <2>10 DEF DohNext, DohStep
<1> QED
  BY <1>1, <1>2, PTL DEF DohSpec

-------------------------------------------------------------------------------
LEMMA FlightStep ==
  ASSUME DohTypeOK, DohTypeOK', Flight, [DohNext]_dohVars
  PROVE  Flight'
<1> USE DohAssumption DEF Flight, SingleFlight, EntryLed, WaiterHasEntry, DohTypeOK, Leading, DohGoto
<1>1. ASSUME NEW c \in Callers, NEW h \in Hosts, Call(c, h) PROVE Flight'
  BY <1>1 DEF Call
<1>2. ASSUME NEW c \in Callers, Check(c) PROVE Flight'
  BY <1>2 DEF Check, Return
<1>3. ASSUME NEW c \in Callers, Role(c) PROVE Flight'
  BY <1>3 DEF Role, Return
<1>4. ASSUME NEW c \in Callers, Resolved(c) PROVE Flight'
  BY <1>4 DEF Resolved
<1>5. ASSUME NEW c \in Callers, Store(c) PROVE Flight'
  BY <1>5 DEF Store
<1>6. ASSUME NEW c \in Callers, Publish(c) PROVE Flight'
  BY <1>6 DEF Publish, DohResults
<1>7. ASSUME NEW c \in Callers, DohReceive(c) PROVE Flight'
  BY <1>7 DEF DohReceive, Return
<1>8. ASSUME NEW c \in Callers, DohDrop(c) PROVE Flight'
  BY <1>8 DEF DohDrop
<1>9. ASSUME NEW h \in Hosts, Expire(h) PROVE Flight'
  BY <1>9 DEF Expire
<1>10. CASE UNCHANGED dohVars
  BY <1>10 DEF dohVars
<1> QED
  BY <1>1, <1>2, <1>3, <1>4, <1>5, <1>6, <1>7, <1>8, <1>9, <1>10 DEF DohNext, DohStep

\* No two futures lead for the same host: a leader is the one the inflight map
\* names (dns.rs:189).
THEOREM DohSingleFlight == DohSpec => []SingleFlight
<1>1. DohInit => Flight
  BY DohAssumption DEF DohInit, Flight, SingleFlight, EntryLed, WaiterHasEntry, Leading
<1>2. DohTypeOK /\ DohTypeOK' /\ Flight /\ [DohNext]_dohVars => Flight'
  BY FlightStep
<1>3. Flight => SingleFlight
  BY DEF Flight
<1> QED
  BY <1>1, <1>2, <1>3, DohTypeCorrect, PTL DEF DohSpec

\* A waiter that has no answer has a leader, dropped or at work (dns.rs:189).
THEOREM DohWaiterHasLeader == DohSpec => []WaiterHasLeader
<1>1. DohInit => Flight
  BY DohAssumption DEF DohInit, Flight, SingleFlight, EntryLed, WaiterHasEntry, Leading
<1>2. DohTypeOK /\ DohTypeOK' /\ Flight /\ [DohNext]_dohVars => Flight'
  BY FlightStep
<1>3. DohTypeOK /\ Flight => WaiterHasLeader
  BY DohAssumption DEF Flight, EntryLed, WaiterHasEntry, WaiterHasLeader, DohTypeOK
<1> QED
  BY <1>1, <1>2, <1>3, DohTypeCorrect, PTL DEF DohSpec

-------------------------------------------------------------------------------
LEMMA TracedStep ==
  ASSUME DohTypeOK, DohTypeOK', Traced, [DohNext]_dohVars
  PROVE  Traced'
<1> USE DohAssumption DEF Traced, DohTypeOK, DohResults, DohGoto
<1>1. ASSUME NEW c \in Callers, NEW h \in Hosts, Call(c, h) PROVE Traced'
  BY <1>1 DEF Call
<1>2. ASSUME NEW c \in Callers, Check(c) PROVE Traced'
  BY <1>2 DEF Check, Return
<1>3. ASSUME NEW c \in Callers, Role(c) PROVE Traced'
  BY <1>3 DEF Role, Return
<1>4. ASSUME NEW c \in Callers, Resolved(c) PROVE Traced'
  BY <1>4 DEF Resolved
<1>5. ASSUME NEW c \in Callers, Store(c) PROVE Traced'
  BY <1>5 DEF Store
<1>6. ASSUME NEW c \in Callers, Publish(c) PROVE Traced'
  BY <1>6 DEF Publish
<1>7. ASSUME NEW c \in Callers, DohReceive(c) PROVE Traced'
  BY <1>7 DEF DohReceive, Return
<1>8. ASSUME NEW c \in Callers, DohDrop(c) PROVE Traced'
  BY <1>8 DEF DohDrop
<1>9. ASSUME NEW h \in Hosts, Expire(h) PROVE Traced'
  BY <1>9 DEF Expire
<1>10. CASE UNCHANGED dohVars
  BY <1>10 DEF dohVars
<1> QED
  BY <1>1, <1>2, <1>3, <1>4, <1>5, <1>6, <1>7, <1>8, <1>9, <1>10 DEF DohNext, DohStep

\* resolve returns only what the network gave for the host it was asked for,
\* whether from the cache, over the channel or from the lookup itself.
THEOREM DohAnswerForHost == DohSpec => []AnswerForHost
<1>1. DohInit => Traced
  BY DohAssumption DEF DohInit, Traced
<1>2. DohTypeOK /\ DohTypeOK' /\ Traced /\ [DohNext]_dohVars => Traced'
  BY TracedStep
<1>3. Traced => AnswerForHost
  BY DEF Traced, AnswerForHost
<1> QED
  BY <1>1, <1>2, <1>3, DohTypeCorrect, PTL DEF DohSpec

=============================================================================
