----------------------------- MODULE NodeConfig -----------------------------
(***************************************************************************)
(* From an entry of a subscription to the layers of a dialled stream: the  *)
(* parsers and the NodeFilter of config.rs, to_kind of outbound.rs, and    *)
(* dial of clash-proxynet.  An entry is what the provider wrote, in one of *)
(* the formats; names, addresses and secrets are left out.                 *)
(***************************************************************************)
EXTENDS Sequences

Formats == {"yaml", "link", "xray", "singbox", "sip008"}
Types == {"vless", "trojan", "ss", "vmess", "socks5", "http"}
Networks == {"tcp", "ws", "httpupgrade", "grpc"}

(* v2ray-plugin without TLS, with tls=true or tls=1, and with TLS asked for in
   another way (the bare SIP003 flag `tls`, or another spelling of true). *)
Plugins == {"none", "obfs", "obfs-unknown", "v2ray", "v2ray-tls", "v2ray-flag", "other"}

(* sec is the security the provider asks for, pbk that the entry has the public
   key of REALITY, cred that it has a password or an id, cipher that its cipher
   is one of ours. *)
Fields == [fmt : Formats, ty : Types, net : Networks, sec : {"none", "tls", "reality", "other"}, pbk : BOOLEAN,
           flow : {"none", "vision", "other"}, plugin : Plugins, cred : BOOLEAN, cipher : BOOLEAN]

(* What the formats can say.  Clash YAML, Xray and sing-box have one set of fields
   for every type: security, the key of REALITY, flow and plugin are read whether
   or not the type has a use for them.  Clash YAML means REALITY by its public key,
   Xray and sing-box read the key of a REALITY entry only; a share link of
   Shadowsocks or SOCKS has neither transport nor TLS, one of HTTP no transport and
   only a scheme. *)
Entries == {e \in Fields :
    /\ e.fmt = "yaml" => e.sec # "other" /\ (e.pbk <=> e.sec = "reality")
    /\ e.fmt = "singbox" => e.sec # "other"
    /\ e.pbk => (IF e.fmt = "link" THEN e.ty = "vless" ELSE e.sec = "reality")
    /\ e.flow # "none" => e.ty = "vless" \/ e.fmt \in {"yaml", "singbox"} \/ (e.fmt = "xray" /\ e.ty = "vmess")
    /\ e.plugin # "none" => e.fmt \in {"yaml", "singbox"} \/ (e.ty = "ss" /\ e.fmt # "xray")
    /\ e.fmt = "sip008" => e.ty = "ss"
    /\ (e.fmt = "sip008" \/ (e.fmt = "link" /\ e.ty \in {"ss", "socks5"})) => e.net = "tcp" /\ e.sec = "none"
    /\ e.fmt = "link" /\ e.ty = "http" => e.net = "tcp" /\ e.sec \in {"none", "tls"}
    /\ e.cipher \/ e.ty \in {"ss", "vmess"}}

-----------------------------------------------------------------------------
V2ray(e) == e.plugin \in {"v2ray", "v2ray-tls", "v2ray-flag"}

(* The ProxyNode a parser fills in. *)
ProxyNode(e, security, tls) ==
    [type |-> e.ty, network |-> e.net, security |-> security, tls |-> tls, pbk |-> e.pbk,
     flow |-> e.flow, plugin |-> e.plugin, cred |-> e.cred, cipher |-> e.cipher]

(* Clash YAML; it replaces v2ray-plugin by its transport at once, whatever the type. *)
YamlToNode(e) ==
    LET tls == e.sec = "tls" \/ e.ty = "trojan" \/ e.pbk
        node == ProxyNode(e, IF e.pbk THEN "reality" ELSE IF tls THEN "tls" ELSE "none", tls)
    IN  IF V2ray(e)
        THEN [node EXCEPT !.network = "ws", !.tls = tls \/ e.plugin = "v2ray-tls", !.plugin = "none"]
        ELSE node

(* Share links: the key of REALITY overrides the security of a VLESS link; links
   of Shadowsocks, SOCKS and HTTP leave the field security empty. *)
ParseVless(e) ==
    LET security == IF e.pbk THEN "reality" ELSE e.sec
    IN  ProxyNode(e, security, security \in {"tls", "reality"})
ParseTrojan(e) == ProxyNode(e, e.sec, e.sec # "none")
ParseSs(e) == ProxyNode(e, "", FALSE)
ParseVmess(e) == ProxyNode(e, IF e.sec = "none" THEN "none" ELSE "tls", e.sec # "none")
ParseSocksLink(e) == ProxyNode(e, "", FALSE)
ParseHttpLink(e) == ProxyNode(e, "", e.sec = "tls")

ParseShareLink(e) ==
    CASE e.ty = "vless" -> ParseVless(e)
      [] e.ty = "trojan" -> ParseTrojan(e)
      [] e.ty = "ss" -> ParseSs(e)
      [] e.ty = "vmess" -> ParseVmess(e)
      [] e.ty = "socks5" -> ParseSocksLink(e)
      [] e.ty = "http" -> ParseHttpLink(e)

(* Xray and sing-box outbounds, SIP008 servers. *)
MapXray(e) == ProxyNode(e, e.sec, e.sec \in {"tls", "reality"})
MapSingbox(e) == ProxyNode(e, e.sec, e.sec # "none")
ParseSip008(e) == ProxyNode(e, "", FALSE)

Parsed(e) ==
    CASE e.fmt = "yaml" -> YamlToNode(e)
      [] e.fmt = "link" -> ParseShareLink(e)
      [] e.fmt = "xray" -> MapXray(e)
      [] e.fmt = "singbox" -> MapSingbox(e)
      [] e.fmt = "sip008" -> ParseSip008(e)

-----------------------------------------------------------------------------
ResolveSecurity(n) ==
    IF n.security # "" THEN n.security ELSE IF n.pbk THEN "reality" ELSE IF n.tls THEN "tls" ELSE "none"

(* Mutant of Accept: a security it does not know passes. *)
AcceptAnySecurity(n) ==
    /\ n.network \in {"tcp", "ws", "httpupgrade"}
    /\ CASE n.type = "vless" -> n.flow \in {"none", "vision"} /\ n.cred
         [] n.type \in {"trojan", "vmess"} -> n.cred
         [] n.type = "ss" -> n.cred /\ n.cipher /\ n.plugin # "other"
         [] n.type \in {"socks5", "http"} -> TRUE

(* NodeFilter::accept. *)
Accept(n) ==
    /\ n.network \in {"tcp", "ws", "httpupgrade"}
    /\ CASE n.type = "vless" ->
              /\ ResolveSecurity(n) \in {"none", "tls", "reality"}
              /\ n.flow \in {"none", "vision"}
              /\ n.cred
         [] n.type \in {"trojan", "vmess"} -> n.cred
         [] n.type = "ss" -> n.cred /\ n.cipher /\ n.plugin # "other"
         [] n.type \in {"socks5", "http"} -> TRUE

(* Mutant of Normalized: the option tls=true of v2ray-plugin goes with the plugin. *)
NormalizedForgetsTls(n) ==
    LET net == IF n.network \in {"ws", "httpupgrade"} THEN n.network ELSE "tcp"
    IN  [n EXCEPT !.network = IF V2ray(n) THEN "ws" ELSE net, !.plugin = IF V2ray(n) THEN "none" ELSE @]

(* normalize_network and normalize_ss_plugin (for every type): opt_from_plugin finds
   only options with a value, and only tls=true and tls=1 turn TLS on. *)
Normalized(n) ==
    LET net == IF n.network \in {"ws", "httpupgrade"} THEN n.network ELSE "tcp"
    IN  IF V2ray(n)
        THEN [n EXCEPT !.network = "ws", !.tls = @ \/ n.plugin = "v2ray-tls", !.plugin = "none"]
        ELSE [n EXCEPT !.network = net]

-----------------------------------------------------------------------------
(* The security in to_vless comes from the key and the flag, not from the field. *)
VlessSecurity(n) == IF n.pbk THEN "reality" ELSE IF n.tls THEN "tls" ELSE "none"

Wrap(security) == IF security = "none" THEN <<>> ELSE <<security>>
Upgrade(n) == IF n.network = "tcp" THEN <<>> ELSE <<n.network>>

(* The layers in the order dial puts them on.  "unsupported" is an error return. *)
DialVless(n) ==
    IF n.flow = "other"
    THEN <<"unsupported">>
    ELSE Wrap(VlessSecurity(n)) \o Upgrade(n) \o <<"vless">> \o (IF n.flow = "vision" THEN <<"vision">> ELSE <<>>)

DialTrojan(n) == <<"tls">> \o Upgrade(n) \o <<"trojan">>

LayerTransport(n) == Wrap(IF n.tls THEN "tls" ELSE "none") \o Upgrade(n)

ApplyPlugin(n) ==
    CASE n.plugin = "none" -> <<>> [] n.plugin = "obfs" -> <<"obfs">> [] OTHER -> <<"unsupported">>

DialSs(n) == LayerTransport(n) \o ApplyPlugin(n) \o (IF n.cipher THEN <<"ss">> ELSE <<"unsupported">>)

DialVmess(n) == LayerTransport(n) \o (IF n.cipher THEN <<"vmess">> ELSE <<"unsupported">>)

Layers(n) ==
    CASE n.type = "vless" -> DialVless(n)
      [] n.type = "trojan" -> DialTrojan(n)
      [] n.type = "ss" -> DialSs(n)
      [] n.type = "vmess" -> DialVmess(n)
      [] n.type \in {"socks5", "http"} -> <<n.type>>
=============================================================================
