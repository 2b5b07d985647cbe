-------------------------------- MODULE TcpNat --------------------------------
(***************************************************************************)
(* The TCP address translation table of the TUN stack                      *)
(* (crates/clash-tun/src/nat.rs).  A client socket address (a "source") is *)
(* given a NAT port; the packet loop rewrites the client's segments to     *)
(* TUN_CLIENT:port and looks the port up again for the segments that come  *)
(* back and for every accepted connection.                                 *)
(*                                                                         *)
(* Every method takes the one mutex, so each is one action.  Instants are  *)
(* abstracted to what sweep tells apart: a session is idle once more than  *)
(* `timeout` has passed since its last use.                                *)
(***************************************************************************)
EXTENDS Naturals, FiniteSets

CONSTANTS
  Sources,   \* client socket addresses
  Dests,     \* destination socket addresses
  PortLo,    \* 10000 in the code
  PortHi,    \* 65535 in the code: port_index is a u16 and wraps to 0 after it
  Tries      \* 55535 in the code: iterations of the allocation loop

ASSUME NatAssumption ==
  /\ PortLo \in Nat \ {0}
  /\ PortHi \in Nat
  /\ PortLo < PortHi
  /\ Tries \in Nat \ {0}
  /\ Tries <= PortHi - PortLo + 1

Ports    == PortLo..PortHi
NumPorts == PortHi - PortLo + 1

\* `next == 0` / None: no port.
NoPort == 0

TcpSession == [source : Sources, destination : Dests, idle : BOOLEAN]

VARIABLES
  addrMap,    \* addr_map : source -> port
  portMap,    \* port_map : port -> TcpSession
  portIndex,  \* port_index; 0 after the u16 has wrapped
  ret         \* what the last lookup returned

vars == <<addrMap, portMap, portIndex, ret>>

-------------------------------------------------------------------------------
\* The port the loop looks at in iteration i (counted from 0): port_index,
\* then upwards, continuing at PortLo once the counter has wrapped to 0.
Probe(i) ==
  LET first == IF portIndex = 0 THEN PortLo ELSE portIndex
      p     == first + i
  IN  IF p > PortHi THEN p - NumPorts ELSE p

\* port_index after the loop looked at port p: wrapping_add, so 0 after PortHi.
IndexAfter(p) == IF p = PortHi THEN 0 ELSE p + 1

\* Mutant: the port at the wrap is taken to be free.
InUseBelowHi(p) == p \in DOMAIN portMap /\ p # PortHi

InUse(p) == p \in DOMAIN portMap

Fresh(s, d) == [source |-> s, destination |-> d, idle |-> FALSE]

-------------------------------------------------------------------------------
Init ==
  /\ addrMap = [s \in {} |-> NoPort]
  /\ portMap = [p \in {} |-> Fresh(p, p)]
  /\ portIndex = PortLo
  /\ ret = NoPort

\* Mutant: a session keeps the destination of its first packet.
LookupKnownKeeps(s, d) ==
  /\ s \in DOMAIN addrMap
  /\ ret' = addrMap[s]
  /\ portMap' = [portMap EXCEPT ![addrMap[s]] = Fresh(@.source, @.destination)]
  /\ UNCHANGED <<addrMap, portIndex>>

\* lookup of a source that has a port: the session keeps its source, takes the
\* destination of this packet and counts as just used.
LookupKnown(s, d) ==
  /\ s \in DOMAIN addrMap
  /\ ret' = addrMap[s]
  /\ portMap' = IF InUse(addrMap[s])
                THEN [portMap EXCEPT ![addrMap[s]] = Fresh(@.source, d)]
                ELSE portMap
  /\ UNCHANGED <<addrMap, portIndex>>

\* lookup of a new source: the first free port within Tries iterations.
LookupNew(s, d) ==
  /\ s \notin DOMAIN addrMap
  /\ \E k \in 0..(Tries - 1) :
       /\ ~InUse(Probe(k))
       /\ \A j \in 0..(k - 1) : InUse(Probe(j))
       /\ addrMap' = [t \in DOMAIN addrMap \cup {s} |->
                        IF t = s THEN Probe(k) ELSE addrMap[t]]
       /\ portMap' = [p \in DOMAIN portMap \cup {Probe(k)} |->
                        IF p = Probe(k) THEN Fresh(s, d) ELSE portMap[p]]
       /\ portIndex' = IndexAfter(Probe(k))
       /\ ret' = Probe(k)

\* Mutant: the loop gives up one iteration early.
LookupFullEarly(s) ==
  /\ s \notin DOMAIN addrMap
  /\ \A j \in 0..(Tries - 2) : InUse(Probe(j))
  /\ portIndex' = IndexAfter(Probe(Tries - 2))
  /\ ret' = NoPort
  /\ UNCHANGED <<addrMap, portMap>>

\* lookup of a new source when the loop met no free port: None, but the
\* counter has moved.
LookupFull(s) ==
  /\ s \notin DOMAIN addrMap
  /\ \A j \in 0..(Tries - 1) : InUse(Probe(j))
  /\ portIndex' = IndexAfter(Probe(Tries - 1))
  /\ ret' = NoPort
  /\ UNCHANGED <<addrMap, portMap>>

\* lookup_back of a mapped port: marks the session as just used.
LookupBack(p) ==
  /\ InUse(p)
  /\ portMap' = [portMap EXCEPT ![p] = Fresh(@.source, @.destination)]
  /\ UNCHANGED <<addrMap, portIndex, ret>>

\* Time: more than `timeout` has passed since the session was last used.
GoIdle(p) ==
  /\ InUse(p)
  /\ portMap' = [portMap EXCEPT ![p].idle = TRUE]
  /\ UNCHANGED <<addrMap, portIndex, ret>>

\* Mutant: sweep leaves the address entries behind.
SweepPortsOnly ==
  LET dead == {p \in DOMAIN portMap : portMap[p].idle}
  IN  /\ dead # {}
      /\ portMap' = [p \in DOMAIN portMap \ dead |-> portMap[p]]
      /\ UNCHANGED <<addrMap, portIndex, ret>>

\* sweep drops every idle session and the address entry of its source.
Sweep ==
  LET dead == {p \in DOMAIN portMap : portMap[p].idle}
      gone == {portMap[p].source : p \in dead}
  IN  /\ dead # {}
      /\ portMap' = [p \in DOMAIN portMap \ dead |-> portMap[p]]
      /\ addrMap' = [s \in DOMAIN addrMap \ gone |-> addrMap[s]]
      /\ UNCHANGED <<portIndex, ret>>

Next ==
  \/ \E s \in Sources, d \in Dests : LookupKnown(s, d) \/ LookupNew(s, d)
  \/ \E s \in Sources : LookupFull(s)
  \/ \E p \in Ports : LookupBack(p) \/ GoIdle(p)
  \/ Sweep

Spec == Init /\ [][Next]_vars

-------------------------------------------------------------------------------
\* has_destination: does some session go to an address of the set D?
HasDestination(D) == \E p \in DOMAIN portMap : portMap[p].destination \in D

-------------------------------------------------------------------------------
\* The maps are over known sources and ports, and the counter is a port or 0.
TypeOK ==
  /\ DOMAIN addrMap \in SUBSET Sources
  /\ addrMap \in [DOMAIN addrMap -> Ports]
  /\ DOMAIN portMap \in SUBSET Ports
  /\ portMap \in [DOMAIN portMap -> TcpSession]
  /\ portIndex \in Ports \cup {0}
  /\ ret \in Ports \cup {NoPort}

\* The two maps are inverse to one another: the port a source is given leads
\* back to that source, and every session is the session of its source.  With
\* it lookup_back never hands a segment to another client (nat.rs:86), and
\* sweep removes both halves of a session (nat.rs:107).
MapsInverse ==
  /\ \A s \in DOMAIN addrMap :
       InUse(addrMap[s]) /\ portMap[addrMap[s]].source = s
  /\ \A p \in DOMAIN portMap :
       /\ portMap[p].source \in DOMAIN addrMap
       /\ addrMap[portMap[p].source] = p

\* A flow keeps its NAT port for as long as it is in the table: no lookup,
\* of any source, moves it or hands its port to someone else, and only idle
\* sessions leave the table.
PortsStable ==
  [][/\ \A s \in DOMAIN addrMap :
          \/ s \in DOMAIN addrMap' /\ addrMap'[s] = addrMap[s]
          \/ portMap[addrMap[s]].idle
     /\ \A p \in DOMAIN portMap \cap DOMAIN portMap' :
          portMap'[p].source = portMap[p].source]_vars

\* The allocation loop (Tries iterations) looks at Tries different ports, also
\* when it crosses the u16 wrap: a lookup comes back empty-handed only when no
\* more than NumPorts - Tries ports are free.
NoneOnlyWhenFull ==
  [][ret' = NoPort /\ portIndex' # portIndex
       => Cardinality(Ports \ DOMAIN portMap) <= NumPorts - Tries]_vars

===============================================================================
