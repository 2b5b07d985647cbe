# rust-clash: TLA+ models, checks and proofs

rust-clash is a Windows proxy client: a GPUI window and tray icon, an HTTP proxy on
`127.0.0.1:7890`, a system proxy switch ("proxy mode"), and a WinTUN based "enhance
mode" that routes the whole machine through a user-space TCP stack. This directory
holds TLA+ modules of the parts in which the order of steps matters, the TLC
configurations that check them, and the theorems TLAPS proves about them.

Paths below are relative to `src/crates/`.

## 1. Inventory

| Part | Source | State | Operations | Interacts with |
|---|---|---|---|---|
| Mode control | `rust-clash/src/main.rs` | `proxy_on`, `enhance_on`, `enhance_busy`, dialog, saved mode | `toggle_proxy`, `toggle_enhance`, `begin_enhance`, `stop_enhance`, `confirm_elevate`, `restore_mode`, `persist`, quit | spawns tokio futures on `ProxyService` and `TunService`; their ends are UI callbacks |
| Node and profile selection | `rust-clash/src/main.rs`, `clash-core/src/outbound.rs` | node list, selection, `OutboundDialer.current` | `select_node`, `update_profile`, `switch_profile`, `delete_profile`, `confirm_dialog` | connections read `current` when they dial; the TUN moves its host route |
| HTTP inbound | `clash-core/src/inbound.rs` | `listening`, listener token, connection token, 256 permits | `set_listening`, accept, `tunnel_connect`, `abort_active` | dials by `OutboundDialer`, copies by `Relay` |
| System proxy | `clash-core/src/inbound.rs` (`sysproxy`) | registry, undo file, `APPLIED`, `KEEPALIVE` | `set`, keepalive thread, `recover_orphaned`, `force_restore` | the user's and other programs' settings; survives the process |
| Relay | `clash-core/src/io.rs` | two halves, stop token, time of last read | `copy_half`, `idle_until`, `flush_first_record` | both inbounds |
| DoH resolver | `clash-core/src/dns.rs`, `utils.rs` | TTL cache, `inflight` map | `resolve` | dialer, health check, direct connections; futures are dropped by timeouts and tokens |
| Fake-IP pool | `clash-core/src/dns.rs` | `host_to_ip`, `ip_to_host`, `lru`, `next` | `lookup_avoiding`, `lookback`, `touch`, `evict` | DNS answers in the TUN, accept loop of the TUN, NAT (`has_destination`) |
| TCP NAT | `clash-tun/src/nat.rs` | `addr_map`, `port_map`, `port_index` | `lookup`, `lookup_back`, `has_destination`, `sweep` | packet loop and accept loop |
| TUN service | `clash-tun/src/lib.rs`, `win.rs` | `running`, `starting`, `runtime` | `start`, `stop`, `on_node_changed` | routes, stack, adapter |
| Routes and recovery | `clash-tun/src/routes.rs` | routes, DNS, IPv6, firewall rule, undo file | `set_node_host_route`, `install_split_default`, `configure_dns_hijack`, `disable_ipv6`, `uninstall`, `recover` | Windows; survives the process |
| TUN TCP stack | `clash-tun/src/stack.rs`, `packet.rs` | generation, relay token | accept loop, packet loop, DNS, sweep, `bump_generation` | NAT, fake-IP pool, dialer |
| Dialer | `clash-core/src/outbound.rs`, `net.rs` | `current`, race of attempts, layers of a stream | `dial_async`, `dial_via`, `connect_happy`, `to_kind` | resolver, proxy protocols; futures are dropped |
| Health check | `clash-core/src/outbound.rs`, `rust-clash/src/main.rs` | `health_running`, `health_cancel`, results, the list's health | `toggle_health`, `check_stream`, `apply_health_result`, sort | shares the list with selection; one cancel flag for all runs |
| Profile store and node catalog | `clash-core/src/config.rs` | list in memory, `config.yaml`, content files named by hash | add, update, remove, set default, load, parse, filter | selection, downloads of subscriptions |
| Rules | `clash-core/src/rules.rs` | rule database | match | both inbounds |
| Proxy protocols | `clash-proxynet/src` | decoder and encoder state of each stream, nonces, held-back bytes | handshakes, `poll_read`, `poll_write`, `vision_detach` | stacked on each other by the dialer, polled by the relay |

What makes the system hard:

- **Two executors.** UI handlers run one at a time; what they spawn runs on tokio and
  interleaves with later handlers at every await. The last part of a spawned future
  is again a UI callback, which may find that everything has changed.
- **State outside the process.** The registry, the routing table, DNS and IPv6
  settings are changed one call at a time, each call may fail, the process may die
  between two of them, other programs write them too. Two undo files carry the way
  back.
- **Threads without a lock.** The keepalive thread and the second half of `set(true)`
  write the registry without the `APPLIED` mutex.
- **Cancellation.** Tokens are replaced and cancelled in separate steps while
  connections take them; a future dropped at an await leaves behind what it holds.
- **Bytes in pieces.** Every stream is a hand-written state machine that may be handed
  one byte or three frames, may be told Pending anywhere, and sits on another such
  stream; the end of one handshake and the first payload share a segment.
- **Data with several sources of truth.** Security, transport and plugin of a node are
  written in five formats and read from different fields by parser, filter and dialer.
- **Limits.** 55 536 NAT ports with a counter that wraps, 8 192 fake addresses.

## 2. Modules

One module per component, an `MC` module and a configuration for TLC, and a `Proofs`
module where there are theorems.

| Module | Models | Grain of a step | Abstractions |
|---|---|---|---|
| `TcpNat` | `nat.rs` | a method (one mutex) | instants become "idle for more than the timeout"; the port range and the loop's length are constants |
| `FakeIpPool` | `FakeIpPool` of `dns.rs` | a method (one mutex) | addresses are their low 16 bits |
| `TunStack` | `stack.rs` over `TcpNat` and `FakeIpPool` | a critical section of the packet loop, the accept side or the sweeper | a client socket has one connection at a time; rules are not looked at |
| `SysProxy` | `sysproxy::windows` of `inbound.rs` | one registry write, file operation or read | `ProxyOverride` goes with `ProxyServer`; `AutoDetect` and `AutoConfigURL` are one flag; `apply_wininet` mirrors the registry |
| `ModeControl` | mode handlers, `set_listening`, `set_system_proxy`, `TunService` | a UI handler; a future between two awaits | system proxy calls are single steps (`SysProxy` has their inside), `start_inner` has four |
| `TunRoutes` | `routes.rs` and its callers in `win.rs` | one `route` or `netsh` command or file operation | one operation at a time (`ModeControl` has their overlap); the dialer's node is not part of it |
| `NodeSwitch` | node changes, tokens and connections of both inbounds | one access to shared state | tokens are numbers: one is cancelled when it is below the current one |
| `DohResolver` | `resolve` over cache and `inflight` | one critical section | `resolve_uncached` (system resolver, UDP, DoH, with fallbacks) is one step with any outcome |
| `Relay` | `copy_bidirectional` | what a half does between two awaits | a chunk is its place in the stream; the clock has `IdleLimit` ticks |
| `NodeConfig` | the parsers, `NodeFilter`, normalisation, `to_kind`, and the order of layers in `dial` | operators | an entry is what a provider can say; names, addresses and secrets are left out |
| `Dialer` | `filter_all`, `dial_via`, `connect_happy`, the layers, over `NodeConfig` | one await | time limits may fire at any moment while what they limit is open |
| `HealthCheck` | `toggle_health`, `check_stream`, the loop and the list | a task between two awaits; a turn of the loop | latencies are classes |
| `ProfileStore` | `ProfileStore`, `ContentStore`, and the UI's use of them | one file operation begun or ended | a content is its hash; `config.yaml` is a record, cut short it is the entries before the cut |
| `BytePipe` | nothing: what a stream promises | | |
| `Stream` | the connection, the application and the polling that all streams share | a delivered segment, a poll | a byte is its place in the stream; headers, tags, lengths are tokens |
| `Shadowsocks`, `Vmess`, `Obfs`, `Transport`, `ProxyDial`, `Reality`, `Vision` | `ss.rs`; `vmess/stream.rs`; `obfs.rs`; `transport.rs`; `socks.rs`, `http_connect.rs`; `reality/`; `vless.rs`, `vision.rs` | one state of a `poll_read` or `poll_write` | cryptography: a tag opens under the nonce it was sealed with and not under another |
| `ProxyStreams` | the streams together, and their refinement of `BytePipe` | | one stream, and one direction of it, per behaviour: the halves share only the connection |

Names follow the code: `addrMap` is `addr_map`, `LookupBack` is `lookup_back`,
`Reload` is `reload_nodes`. Variables marked *ghost* are not in the code; they
record what a property needs of the past. The constants called `Max...` are bounds
of the checks. Definitions whose comment starts with "Mutant" are plausible bugs:
each replaces one definition, and TLC finds the named property violated then.
Type invariants and the other conjuncts of an inductive invariant stand in the `Proofs`
modules, next to the proofs that need them.

### How the modules compose

- `TunStack` EXTENDS `TcpNat` and `FakeIpPool`; its actions are made of theirs. The
  properties of the two parts (`MapsInverse`, `PortsStable`, `NoneOnlyWhenFull`,
  `PoolExact`) are checked in the composition, where the pool's `in_use` callback is
  the NAT's `has_destination`. That every step of the stack is a step of `TcpNat` or
  leaves its table alone is a theorem, `StackImplementsNat`.
- `Dialer` EXTENDS `NodeConfig`: the layers it puts on are those the parsers, the filter
  and `to_kind` produce for the entry.
- `ProxyStreams` EXTENDS the protocol modules. `Vision` runs over the record layer of
  `Reality`, below it the connection of `Stream`.
- `Pipe == INSTANCE BytePipe WITH ...` in `ProxyStreams` is the refinement mapping, and
  `RefinesPipe == Pipe!Spec` the property: each of eleven streams, against every kind of
  server it may meet, implements the pipe. The mapping shows a reader's bytes as they are.
  A forged byte is no byte of the server (`sent` is 0 then), so that none may be read.

## 3. Runs

States are distinct states. All finish within about three minutes with two workers.

| Run | Bounds | States | Shows |
|---|---|---|---|
| `tun_stack` | 2 sources, 2 ports, 1 try; 3 hosts, pool of 2, 4 addresses, 1 reserved | 678 680 | maps inverse, ports stable, `None` only when full, pool exact, right host, address kept |
| `sysproxy` | main, a task and the keepalive thread; 2 calls a process, 1 foreign write, 1 failing call, 2 crashes | 652 823 | undo file while ours; settings back on exit; recovery clears |
| `mode` | 2 futures at a time, 2 attempts, 6 user actions, 1 failing bind, 1 failing system proxy call | 194 033 | the TUN has one owner, mode shown and saved, no dead proxy, busy flag clears |
| `routes` | 2 nodes, 3 calls, 3 failing commands, 2 crashes | 218 278 | the routes' node has its host route, undo file covers, clean when off |
| `node_switch` | 1 connection per inbound, 2 changes in flight, 2 changes, 3 profiles | 559 650 | tunnels follow the node, one generation, agreement, cancelled connections end |
| `doh` | 3 callers, 2 hosts | 589 485 | single flight, no lost wake-up, right answers, everybody answered |
| `relay` | 2 chunks a side, 1 tick of idle time | 192 024 | nothing lost, half-close in order, stop only for a cause, relay ends |
| `streams` | 11 download and 7 upload streams; 2 bytes down, 3 frames, 3 bytes up in chunks of at most 2, 1 empty frame | 725 042 | refinement of `BytePipe`, errors have a cause, the end is seen, uploads decode |
| `dialer` | every entry, 4 lists of addresses, races of 2 | 424 524 | dialled as configured or misread as stated, secrets protected, race gives up last, dials end |
| `health` | 2 runs, 1 permit, 3 lists | 204 199 | nothing left "checking", runs end |
| `profiles` | 2 URLs sharing a content with a local file, 4 operations, 2 downloads, 1 crash | 2 693 992 | content kept, content from its URL, saved is shown |

Why the bounds are enough for the interesting cases:

- *tun_stack*: fewer tries than ports (55 535 of 55 536 in the code), so that
  exhaustion, "free port but not found", wrap-around through 0 and reuse after a sweep
  all happen; more hosts than places, so that evictions happen under a live connection;
  a loop over the addresses that can fail with an eviction behind it. Sources and hosts
  are symmetric.
- *sysproxy*: two calls a process are an on and an off in either order from two
  threads; one foreign write can fall between any two steps; a second crash can hit
  the recovery from the first.
- *mode*: two starts in flight at once take five actions; six leave one more. Two
  attempts exercise the retry of `begin_enhance`.
- *routes*: a start and two switches, with a failure in each.
- *node_switch*: two overlapping changes is what it takes for them to finish in the
  other order; connections are independent of each other but for the permits.
- *doh*: a leader, a waiter and a newcomer for one host, or two leaders and a waiter.
- *relay*: with two chunks one can be in the half while another waits in the socket.
- *streams*: two frames and an empty one put every decoder through its loop and back
  into its first state. What is under way is cut into segments of one token or taken as
  a whole, which puts a boundary at every place of every header and also bundles
  handshake answer and payload. An upload of three bytes in chunks of two fills a frame,
  leaves a rest, and may be accepted token by token. The limit of 64 empty frames is 1.
- *dialer*: the entries are enumerated in full: every security, key, flow, transport and
  plugin of every type, as far as the format can say it. Two attempts leave one late while
  the other fails or has not started; the list of three is cut.
- *health*: with one permit a task waits while another probes; two runs are what it
  takes for one to overtake the other. The lists hold a line of information, two equal
  entries, and nothing.
- *profiles*: two profiles sharing a content, one of them updated and one deleted, with
  a second download coming back late, take four operations.

The fair runs assume what the scheduling gives and nothing of the peers:

- *mode*: weak fairness of each future's next step: tokio polls a ready task, the UI
  executor a callback; Windows commands end. The await of the resolver in `start_inner`
  (`TunResolve`) is under no fairness, because nothing bounds it, and neither is the user.
- *node_switch*: weak fairness of the accept loop, of `handle_accepted`, of a request
  (10 s time limit) and of a `select!` that sees a cancelled token. A dial and
  `flush_first_record` may take for ever.
- *doh*: weak fairness of each caller's step; every network lookup has a timeout. A
  drop is never required.
- *relay*: weak fairness of a half that can go on, strong fairness of a write to a
  socket that becomes writable again and again, the clock and the idle timer. That
  peers resume reading is a premise of the property (`ReadersResume`), not of the
  specification.
- *streams*: weak fairness of `Read` alone: a woken task is polled. A task that was not
  woken is not ready, which is what `EndIsSeen` is about. Neither the server nor the
  connection is fair; the end of the connection is the premise.
- *dialer*: weak fairness of each attempt's start (a timer) and end (the time limit of a
  connect), of taking results, and of the layers (15 s). Nothing bounds the resolver.
- *health*: weak fairness of each run's loop (20 ms timer) and of its tasks (3 s limit).
  Clicks are not fair.

### Deadlock

`mode`, `doh`, `relay`, `streams`, `dialer`, `health` and `profiles` switch the deadlock
check off: a process that has exited, callers that have all been dropped, a relay or a
stream that is over, a dial that has ended, and a user out of operations have no next
step.

### The run that finds a disagreement

`doh_drop` states what the test at `dns.rs:666` expects, that a lookup is answered. A
leader dropped at its await leaves its `inflight` entry; later callers wait for ever.

### Exceptions stated in the properties

Some properties hold only outside a window the code leaves open. Each is a premise
of the property, by a ghost variable or a condition, and listed as a hazard:

- `late` in `SysProxy`: the keepalive thread, or `set(true)` after it released the
  lock, writes the registry after a `set(false)` has begun. The proxy is then on
  without an undo file, also after a clean exit.
- `ExitRestores` and a crash: for a user whose proxy was disabled, a crash after
  `ProxyEnable` and before `ProxyServer` is taken for another program's setting.
  `AutoDetect` and `AutoConfigURL` are changed and not in the undo file: no property
  asks for them, although the repository's README says that settings are restored.
- `used.hasty` in `ModeControl`: the user acts while a future is in flight. Proxy mode
  switched on while an enhance start is under way leaves both flags set, although the
  two modes are documented to exclude each other.
- `TunOwned` ends with the process: a quit during `start_inner` leaves adapter and
  routes behind until the next start.
- `overlap` and `skipped` in `NodeSwitch`: overlapping node changes; profile changes in
  enhance mode that do not touch the route; `confirm_dialog`, which aborts nothing.
- `CutEnds` leaves out a tunnel in `flush_first_record`, `StopEnds` a half blocked in
  `write_all` by a peer that never reads again: neither await watches its token.
- `BusyClears` excepts `Hung`: `start_inner` awaits `resolve_node_ipv4` without a time
  limit, and `resolve` behind a dropped leader (run `doh_drop`) never answers. Then
  `enhance_busy` and `starting` stay set for the rest of the process. Without the
  exception TLC finds that behaviour.
- `NodeRouted` speaks of `TunRoutes.node` and of what a start or switch has reported, not
  of the dialer's node, which other code changes at other moments. `select_node` sets it in
  a UI callback (`main.rs:745`), after the old node's route is gone and the generation
  bumped: until the callback runs, connections are dialled to a node without host route.
  `update_profile` sets it before the switch and keeps it when the switch fails
  (`main.rs:1063`); `confirm_dialog`, `delete_profile` and `switch_profile`
  (`main.rs:674`, `1093`, `1234`) leave the route alone. No property denies these windows;
  `ChangeAgrees` of `NodeSwitch` says when the two agree again.
- `lost` and `gap` in `TunRoutes`: failures and crashes between a change and its
  `write_undo`. A crash there leaves a host route that recovery does not know.
- `true` in `TunStack`: the address had left its host before the SYN, or the session was
  swept after 300 s without packets while the relay lives 600 s. A segment of a closed
  connection, which would set the destination of its successor's session, is not modelled.
- `HeaderSplit` in `ProxyStreams`: the response header of VMess comes in two parts; when
  the second is not there yet, the next poll takes it for the first and the stream fails.
- A Vision stream cut inside its first frame header hands the UUID to the application as
  payload; the refinement mapping leaves such tokens out after a cut.
- `Blind` protocols report a cut as an end of file; `BytePipe` allows it for them alone.
- `DialsAsListed` excepts the entries in `Misread`, which are parsed and listed and then
  dialled as something else: REALITY, its key or an unknown security of a type other than
  VLESS (read for every type by `yaml_to_node`, `map_xray` and `map_singbox`, dialled with
  TLS or without); a flow or a plugin of a type that has none; v2ray-plugin with the bare
  flag `tls`, of which `opt_from_plugin` sees only `tls=true` or `tls=1`; SOCKS and HTTP
  nodes with TLS or a transport. It also excepts plugin modes and VMess ciphers that only
  the dial refuses. `SecretsProtected` covers the misread entries too and excepts SOCKS
  and HTTP nodes alone, whose TLS `to_socks` and `to_http` drop.
- `RunEnds`: a cancelled health check overtaken by the next one polls for ever.
  `NoneLeftChecking`: of two equal entries only the first gets a result.
- `failed` and `damaged` in `ProfileStore`: write errors are ignored and the old content
  deleted all the same; a content file cut short by a crash is never written again.
  `origin`: a name given anew takes a download that began for the earlier profile.

## 4. Proofs

TLAPS proves the theorems below for every value of the constants that satisfies the
named assumptions: any number of clients, hosts, futures, connections, profiles, crashes
and failures, where TLC's runs have two or three. The bounds called `Max...` are any
natural numbers. Each inductive invariant but `StreamInv` was checked by TLC on the run's
instance before it was proved; `StreamInv` quantifies over all sequences of tokens, which
TLC cannot enumerate, and only its consequences are checked. In each module the proof that a step preserves it goes action by action
(lemmas `...Step`), over lemmas that say once what a record update does to the types
(`...Effect`, `...Updates`).

**`TunStackProofs`** (`NatAssumption`: ports are positive and the loop is no longer than
the range; `PoolAssumption`: the same of the addresses; `StackAssumption`: fake addresses
are destinations, and "no host" is no host).

- `TypeCorrect`, `NatBijection`, `NatPortsStable`, of `TcpNat` by itself, where packets
  and sweeps come in any order. `MapsInverse` is inductive together with the types; the
  arithmetic is in `ProbeInRange` (no iteration of the allocation loop leaves the range,
  although the counter wraps to 0).
- `NatNoneOnlyWhenFull`: a failed lookup has looked at `Tries` different ports.
  `ProbesDiffer` shows that the iterations are injective across the wrap, `LoopCounts`
  turns that into a cardinality.
- `StackPoolExact`: `Inverses` (the two maps of the pool) and `Lists` (each host in the
  LRU list once), preserved by eviction (`EvictMakesRoom`) and by the move to the front
  (`TouchReorders`).
- `StackImplementsNat`: `StackSpec => Spec`. A packet is a lookup, an accept a
  `lookup_back`, everything else a stutter. Through it the table's properties hold in the
  stack (`StackTable`).
- `StackRightHost` and `StackAddressKept`. The inductive invariant `StackInv` adds
  `Tracks`: as long as a connection has its session, the session holds its address as
  destination and its port, and the address is its host's or nobody's. It needs both
  tables: the pool asks the NAT whether an address is in use, so that a step of the pool
  preserves a fact about connections only because of a fact about sessions.

**`OutboundProofs`** (`HealthAssumption`: a list holds keys, and no result of a probe is
"checking"; `RelayAssumption`; `DohAssumption`: the special values are distinct), for the
parts a connection meets on its way out. The names of `Dialer`, `HealthCheck` and
`DohResolver` carry a prefix so that one module can extend them and `Relay`.

- `DialGivesUpLast`, for a race of any number of addresses. `RaceInv` adds what the
  channel holds: an attempt that has connected is in it, unread, as long as the race is open
  (`RaceOpen`), so the race never gives up while it has not read a success.
- `DialProtectsSecrets` and `DialsAsTheyAreListed`, for every entry a provider can write
  in any format. `StackInv` says that the stack grows along `Layers(Node)`. What that
  sequence is follows from one lemma per stage of the conversion: `ParsedFields`,
  `AcceptListed`, `NormalizedFields`, and `NodeLayers`, the layers by what is left of the
  entry's fields. `SealedLayers` says that no layer of Shadowsocks or VMess is
  readable; `GivenIsAsked` that the layers are those the provider asked for outside
  `Misread`, and that an entry asking for security has TLS, REALITY or one of these two
  protocols in any case.
- `RelayForwards`: `Forwards` is inductive with the types, `LeavesAtEof` (a half about to
  shut its destination down, unless stopped, has read everything its source sent) and `ClosedIsDone`.
- `RelayStopHasCause`: an action property, step by step from the same invariant.
- `HealthNoneLeft`, for any number of nodes, permits, results in a batch and overlapping
  runs. `HealthInv` says that whatever the list shows as being checked is awaited by the
  last run (`LeftOver`, `Awaited`: in a task or in its channel), and that a loop counts
  exactly the tasks that have sent (`Counted`), so that it cannot end before the last
  answer. A replaced list, a sort and a batch of answers preserve it (`FreshList`,
  `SortKeeps`, `ApplyKeeps`); a cancelled run falls out of it until the next one asks
  for every node again (`ToggleOnStep`).
- The resolver in front of the dialer: `DohTypeCorrect`, and `DohSingleFlight` and
  `DohWaiterHasLeader`, of which neither is inductive: one speaks of the leaders, the other
  of the waiters, and both need the third side of the triangle. The inductive invariant is
  `Flight`, the conjunction of `SingleFlight` (a leader is the one `inflight` names),
  `EntryLed` (an entry names a caller that leads for that host, or was dropped) and
  `WaiterHasEntry` (a waiter without an answer has an entry). It rules out the lost wake-up
  for any number of callers and hosts: `Publish` removes the entry and sends to all
  subscribers in one critical section.
- `DohAnswerForHost`: needs the same fact of every place an answer passes through
  (cache, leader's `result`, receiver): `Traced`.

**`TunRoutesProofs`** (`RoutesAssumption`: the special values are none of the ordinary ones).

- `RoutesNodeRouted`, `RoutesUndoCovers`, `RoutesIdleClean`. None is inductive: between two
  commands the system is always half changed. `RoutesInv` says of each place in `start`,
  `on_node_changed`, `uninstall` and `recover` what has been done and what is left:
  `RouteBeforeUse` (the host route before the split routes), `InOrder` (each setting is
  changed or restored by exactly the steps behind it), `InFile` (the undo file names the
  route and the IPv6 state, or a write of it is next).

**`NodeSwitchProofs`** (`SwitchAssumption`: the inbounds' connections are distinct, node
lists are sequences).

- `SwitchTunnelsFollowNode`, `SwitchOneGeneration`, `SwitchChangeAgrees`. `SwitchInv`
  adds `OneBump` (the runtime mutex around `bump_generation`), `InStep` (counter, token and
  cancelled tokens are one apart at most, and only during a bump), `TokensTaken` (a
  connection that passed the check holds a token no younger than its generation) and `Undisturbed` (a lone change carries the
  node that list and dialer will show).

**`ModeControlProofs`** (`ModeAssumption`).

- `ModeTunOwned`: needs `StartInv`, that only one future is inside `start_inner`, that
  `starting` says so, that there is no runtime while it resolves the node, and that the
  adapter is without a runtime only at its last await.
- `ModeShownTrue`, `ModeNoDeadProxy`: `SavedInv` (a begin under way still has to save),
  `BootInv`, and for the user who waits `PatientInv` and `ListenInv`: one future at a
  time, and `Underway` says for each of its awaits which of the flags, the runtime, the
  system proxy and the listener it has changed. `OnPath` gives each kind of future its
  awaits.

**`ProfileStoreProofs`** (`StoreAssumption`: the special values are none of the ordinary
ones).

- `StoreContentKept`, `StoreContentFromUrl`, `StoreSavedIsShown`. `StoreInv` says which
  writes may be left: contents, then the list as it is in memory, then the content the
  list has forgotten (`Ordered`); what `config.yaml` lists is there, what is shown is
  there or about to be written (`OnDisk`); each file is whole, damaged or being written
  (`FilesKnown`); profiles in memory, on disk and in the writes left, and the downloads
  under way, have a rightful URL (`Sourced`). `TornEffect` is what a crash inside the
  write of the list may leave of it.

**`SysProxyProofs`** (`SysProxyAssumption`: the actors are distinct, our server is not
another's).

- `ProxyUndoWhileOurs`, `ProxyExitRestores`, and `ProxyRecoverClears`, an action property.
  `ProxyInv` says which actor may be where (`Places`), which stages hold the mutex
  (`Locked`), that a restore has its file (`FileThere`) and ends with a registry that is
  not ours (`Cleared`), and for each place of `set(true)`, `set(false)` and recovery what
  registry and undo file hold. That takes three layers, one per premise: `Guarded` (no late
  write, no failure, and not both a crash and a foreign write), `Unmixed` (no crash: our
  server never stands in the settings without being enabled, or a foreign write in the
  middle of a restore would switch it on), `Returned` (nobody else wrote). The writes that
  take no lock are covered by the lemma `OnTime`: one that is not late falls between a
  `set(true)` and a `set(false)`.

**`StreamProofs`** (`StreamAssumption`: the bounds of the streams are numbers), for the
four kinds of stream that are transparent behind a handshake: simple-obfs HTTP,
httpupgrade, SOCKS and HTTP CONNECT, against every server they may meet.

- `TunnelsRead`: the inductive invariant `StreamInv`. What the reader holds, what has
  arrived and what is in flight are one piece (`Rest`) of one sequence, the answers `h` of
  the server and behind them the bytes of its application; `Along(h, p)` says that the
  piece begins behind the first `p` tokens and reaches to the end unless the connection
  was cut. One lemma per movement of tokens preserves it (`ArriveMoves`, `PullMoves`,
  `BufTakes`, `WireTakes`, `AlongPut`, `AlongSay`, `AlongEnd`), wherever the segments are
  cut. Each protocol adds what its server has said and where in it each state of its reader
  is (`HttpSaid`, `HttpAt`, `SocksSaid`, `SocksAt`: for SOCKS the three address types and
  the extra read of a domain's length); an open reader is at `Len(h) + Len(got)`.
- `TunnelErrorHasCause`: `ErrorHasCause`, from the same invariant; an end of file inside an
  answer is a cut, because a server that closes has said all of it.
- `TunnelsRefinePipe`: `RefinesPipe`. `StepMaps` gives each step its step of the pipe:
  `Serve` is `Send`, `End` or a stutter, a delivered segment a stutter, the end of the
  connection `End` or a stutter, a poll `Read`, `Eof`, `Fail` or a stutter (`Polled`).

### Model-checked only

- The liveness properties (`BusyClears`, `CutEnds`, `AnsweredOrAbandoned`, `StopEnds`,
  `EndIsSeen`, `DialEnds`, `RunEnds`): fairness and ENABLED are outside the prover's reach.
- `UplinkDecodes`: the reference decoder is a fold over what was sent, and what it
  computes for every input takes an induction over sequences, which is outside too.
- `RefinesPipe` and `ErrorHasCause` of the seven other streams (Shadowsocks, both headers
  of VMess, simple-obfs TLS, WebSocket, REALITY, Vision). They have frames: there the
  sequence is not fixed by the number of bytes sent but by how the server cut them into
  frames, and what a reader has decoded so far is a recursive function of it, so that the
  step from one frame to the next takes an induction over sequences.

## 5. Not modelled

Text and byte syntax (YAML, links, JSON, DNS messages, IP packets), cryptography and key
derivation, parsing and rewriting of HTTP requests, the WinTUN FFI and interface probing,
binding of sockets to the physical interface, the macOS and GNOME variants of the system
proxy, the rule table, tray, theme and paths. `PROJECT.json` gives the reason for each.
Within modelled parts: traffic counters, error texts and logs, statistics of
subscriptions; the Windows commands and the peers of connections are external and take
any outcome.

## 6. Plan

1. `Listener`: `set_listening` step by step (flag, token, handle), and `ModeControl`
   over it.
2. Pure operators against reference definitions: rule matching, checksum update of
   rewritten packets.
