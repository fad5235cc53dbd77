# A TLA+ verification of evilresp

evilresp is a RESP proxy that injects faults into the replies of a Redis
server, deterministically: a run that is repeated with the same seed and the
same commands has to inject the same faults. This directory holds TLA+ models
of the parts of the program whose correctness depends on interleavings,
failures and long sequences of commands, TLC configurations that check them,
and TLAPS proofs. All paths are relative to the repository; code is in
`src/src/`, its documentation in `src/README.md`.

## 1. The system

### Components, their state and operations

| component | code | state | operations | modelled in |
|---|---|---|---|---|
| command numbering and reset | `proxy.rs` `SharedState`, `proxy_connection`, `reset_incrementing_state` | `reset_epoch`, `command_ids`, `reset_barrier`; per task its `reset_epoch` | accept, read a command, check the epoch, take the barrier, draw an index, MODE RESET | `ResetProtocol`, `CommandIndex` |
| upstream session | `upstream_connection.rs`, `upstream_identity.rs`, `transaction.rs` | the session if there is one, pending identity fields, the names of an open MULTI | connect, identify, exchange, retry identification, observe a reply, lose the session | `UpstreamSession` |
| transport faults and delivery | `transport.rs`, `connection_fault.rs`, `connection.rs` | settings, plan, outcome, socket | configure, plan, write chunks, shut down, stall, reset, record | `Transport` |
| cluster topology | `cluster.rs`, `cluster_rewrite.rs`, part of `topology_evil.rs` | slot ranges, maps from endpoints and node IDs to listeners, redirection map | discover, register primaries and replicas, bind, rewrite addresses | `ClusterMap` |
| connection loop | `proxy.rs` `proxy_connection` | the client's `EvilConfig`, upstream, transaction | the pipeline forward, observe, rewrite, canonicalize, mutate, deliver, record | in aspects, by `ResetProtocol`, `UpstreamSession`, `TopologyRedirect`, `Transport`, `Fingerprints` |
| topology faults | `topology_evil.rs`, `topology_config.rs` | TOPOLOGY and REDIRECT settings | inject or alter MOVED and ASK | `TopologyRedirect`, `RedirectBounce` |
| MONITOR | `proxy.rs` `stream_monitor`, `publish_monitor_command` | a broadcast channel of 1024 lines | subscribe, publish, lag, end | `Monitor` |
| evil configuration | `evil.rs`, `chaos.rs`, the parsers of the other files | `EvilConfig` of a connection | DEBUG EVIL, DEBUG CHAOS | `EvilConfig` (TRANSPORT and TOPOLOGY in detail in `Transport`, `TopologyRedirect`) |
| mutation and framing | `mutation.rs`, `framing.rs`, `exec_mutation.rs`, `evil.rs` | none | trees of frames to trees of frames, trees to bytes | `ReplyFaults` |
| canonicalization | `evil.rs` | none | sort what has no order | `Canonical` |
| generator | `generator.rs` | none | random reply trees within budgets | `Generator`, `Corpus`, `GeneratedTrees` |
| RESP | `resp.rs` | none | read, parse, encode | `RespReader`, `RespParser`, `RespStream`, `Frames`; `FrameTypes`, `RespHeaders` |
| repro writer | `repro.rs` | a file behind a mutex | append | `ReproLog`; a record's content and time in `Transport` |
| fingerprints | `protocol_fingerprint.rs`, `proxy.rs` | two hashes per connection | update, reset, report | `Fingerprints` |
| statistics | `stats.rs` | counters | count | `EvilConfig` |
| startup and shutdown | `proxy.rs` `run`, `serve_topology`, `serve_listener`, `ProxyListener` | listeners, the socket file | bind, accept, fail, Ctrl-C, drop | `Lifecycle` |
| command line, logging, errors | `cli.rs`, `main.rs`, `lib.rs`, `logging.rs`, `error.rs` | none | start | no |

### How they interact

`main` discovers the topology once. One task per listener accepts clients; it
reads the epoch and spawns a task per client (`handle_connection`,
`proxy_connection`). That task owns the client's socket, its `EvilConfig`, an
`UpstreamConnection` and the `TransactionCommands`; tasks share only
`SharedState`: the two counters with their barrier, the monitor channel, the
repro file and statistics. Within a task everything is sequential. What can go
wrong therefore lies (a) between tasks, at the barrier and the counters;
(b) between a task and the upstream, whose session may break between any two
steps; (c) between a task and the client's socket, which takes a part of what it
is given, or fails; and (d) in long sequences of settings or of topology
entries that combine in ways no test spells out.

### What is hard, and what makes it correct

* Numbering. Indexes seed every fault. In each epoch they have to be
  0, 1, 2, ... whatever commands and resets race; a connection older than the
  epoch must not draw one; and nobody may be stuck at the barrier because some
  other client or upstream hangs.
* Upstream. A command whose reply is missing may have been executed, and may
  yet be. It must not be sent again; a reply must never answer another command;
  identification must neither enter a transaction nor leave replies behind; the
  names used for an EXEC reply are those of the commands the server queued.
* Delivery. Chunk offsets, truncation, extra replies and fault offsets are set
  independently and meet in one slice expression. The byte count has to be exact
  through short writes and errors; no partial reply may remain on a connection
  that goes on; the repro record has to say what happened.
* Topology. Nodes may be listed repeatedly, with or without IDs, under several
  endpoints or contradicting each other. Startup has to stop or give every node
  one listener, and all rewritten addresses have to agree.
* Injected redirections. What a redirection names is looked up in the topology
  of the start; whether it is injected before the command is executed, after it
  or not at all depends on the mode, the phase, the filters and a cutoff on an
  index that all clients advance. A client that follows the redirections has to
  get through once injection stops, and a command held back must not run.

* Settings. Some thirty settings are changed one command at a time and checked
  one command at a time. A rejected command must leave nothing behind, a preset
  must leave nothing of what was there, and a client that switches everything
  off has to get its replies untouched.
* Replies. What is recorded has to be what was done, at the path that is named:
  choosing a frame, changing it, numbering headers and encoding them are
  separate walks over a tree that changes in between. Seeds are hashes of
  canonical replies, so the canonical form must not depend on an order that
  means nothing.
* RESP. A reader that keeps counters and a parser that recurses decide
  separately where a frame ends; both have to keep limits whatever lengths a
  peer advertises.
* Streams and files. A monitor may lag, leave, or be there across a reset; an
  append to the repro file may fail half way, and be followed by others.

The `hazards` of `PROJECT.json` list these at their lines, each with the
properties that would catch it.

## 2. The modules

### CommandIndex and ResetProtocol

`CommandIndex` is the promise: connections belong to generations, a current
connection draws the next index, a reset opens a generation whose first index
is 0. `ResetProtocol` is the code: one action per step of a task between two
points where another task can run. `LoadEpoch` and `Spawn` are separate because
the listener reads the epoch before it spawns the task; `CheckStale` and
`CheckFresh` are the check after a command is read; `Enqueue`, `GrantRead` and
`GrantWrite` are tokio's `RwLock`, a fair queue (external); `RecheckStale` and
`RecheckFresh` the second check; `BumpEpoch` and `ZeroIndex` the two stores of
`reset_incrementing_state`. `Serve` stands for everything a command does
afterwards, successful or not; the other modules look inside. Commands are
kinds: forwarded, MODE RESET, MONITOR, and those answered without an index.
`issued` is a history variable: the indexes drawn, by epoch of the drawing task.

`ResetProtocol` implements `CommandIndex` with `member <- epoch`.

### UpstreamSession

One client connection and its upstream. `pc` follows
`UpstreamConnection::exchange` and `Session::{connect, exchange}`. The server is
external: `OutcomesInside` and `OutcomesOutside` list what it may answer to a
command in and outside MULTI.
`SessionFails` is every `?` of the exchange; what was written on the lost
session is moved to `orphans`, from where it may still be processed
(`OrphanProcessed`). `Observe` is `TransactionCommands::observe`, and `Bypass`
the branch for CLUSTER SHARDS and NODES in cluster mode that does not call it.
`answers` and `processed` are histories. Commands carry an id so that a reply
can be told from the reply to another command; the code has no such ids.

### Transport

`Configure` is DEBUG EVIL TRANSPORT (`TransportConfig::updated`,
`apply_debug_evil`), `Answer` and `FailBefore` draw a plan (`plan`,
`before_plan`), `NextChunk`, `Write`, `Flush`, `StartShutdown`, `Shutdown`,
`Complete` and `DeliveryError` are `deliver`, `BeginFault` to `DropHalves` are
`finish_fault`, `stall` and `prepare_reset`, `Record` and `EndOfCommand` the end
of the loop body. Byte strings are lengths; a random draw is a choice over
everything the generator can return; a probability is 0, 100 or between.
`chunk_ends` is a set: the code's vector is strictly increasing
(`StrictlyIncreasing`, `BTreeSet`).

### ClusterMap

`Discover` takes any reply out of `Topologies`; `RegisterKnown`, `RegisterNew`
and `Reject` are the loop body of `map_cluster_slots`; `r` and `k` are its
position, over primaries first and replicas afterwards; `ReplicasDone` is the
final lookup; `AddRedirection` is `ClusterRedirectionMap::from_slot_ranges`;
`Bind` and `BindFails` are `serve_topology`. `Redirected` and `Listed` are what
clients are told afterwards, for any address the upstream may name, in the
topology or not. A local address is its port.

### TopologyRedirect and RedirectBounce

`TopologyRedirect` follows the commands of the connections in `Conns`, one per
listener. `SetTopology` is `parse_topology` and its assignment; `StartCommand`
draws the index; `Decide` is the part of `proxy_connection` before the exchange
(`configured_redirection` with no upstream bytes, and MODE RANDOM), `Forward`
the exchange with `normalize_cluster_redirection`, `After` the part behind it.
`Primary`, `FirstRanges` (the ranges in which a primary comes first, its place in
the list of primaries), `AllNodes`, `Replicas` and `Owners` are `RedirectNodes`,
over slot ranges as in the code; `Configured` is `configured_redirection` with
`FocusedRedirections` and `Legacy` is `maybe_mutate_topology` with `MixedFaults`,
each as the set of faults the draws allow. A key is its
slot; a probability is 0, 100 or between; the 32-bit slots are the valid ones
and one on either side. An address is a port with the way it is written: `Bare`
is an IPv6 address without brackets. `Relays` is what `ClusterMap` shows of
rewritten redirections: a listener, or an error.

`RedirectBounce` adds a client that follows redirections and an upstream that
executes at the owner and answers MOVED elsewhere, both external. It is the
bounce experiment of `src/README.md`, with other clients and resets.

### FrameTypes, Frames, RespHeaders, RespParser, RespReader, RespStream

`FrameTypes` is `Frame`: a tree of types, bytes and children, its declared length
and its numerals. `Frames` is `encode`, its bytes as ASCII codes in a sequence,
and the walks over a tree. `RespHeaders` is what reader and parser share: the
limits, `parse_len` and the first byte of a frame. `RespParser` is `parse_frame`
with its helpers (`take_line`, ...), returning a frame and a position or the kind
of error. `RespReader` is `read_raw_frame`: `pending` is the stack of counters;
each action takes what the code reads next (a prefix, a line, a body), the peer
choosing the bytes. The line and the body of the code arrive in pieces; the
model takes a piece as a whole, because the code only appends it to `raw`, and
`PeerCloses` may come in the place of each. `AsksFor` keeps the checks of the
limit as the code has them: a length is compared with what is left, a null is
not, so that a null which ends at the last byte allowed is a frame (the run
reaches it). A prefix that is itself the last byte allowed ends like a closed
stream, since `read_line_raw` then reads nothing. `RespStream` compares the two:
what the reader delimits is what the parser accepts.

The parser, the encoder and the walks are recursive over trees and are in modules
of their own, so that theorems can be about the reader and the generator.

### Corpus, Generator and GeneratedTrees

`Corpus` is what single draws may return, a set for each: the boundary tables as
samples, integers in 3 and 5 bits for 32 and 64, and `mutate_scalar` with its
repairs for a draw that does not change the value. `Generator` builds a tree by
`frame_at` and `build`, with the recursion as a stack of open aggregates, and
`violation` with its own nesting check; it also says what is to hold of a single
frame (`FrameBounded`, `FrameOfProtocol`, `MembersDiffer`). `GeneratedTrees` says
it of every frame of a tree, and that its bytes parse back to it.

### ReplyFaults

One reply through `mutate_command_reply`: the EXEC edit (`exec_mutation.rs`), then
`mutate` (`mutation.rs`) with ONE (`EligibleWeight`, the walk that counts down) or
MANY (the walk that rolls at each frame and goes on behind a replacement), then
`mutate_length` (`framing.rs`) with the walk that numbers headers and the encoder
that counts them. The walks are sequences of positions in pre-order. A
probability is 0, 100 or between.

### Canonical

`canonicalize_response` in its three modes. The action `Swap` is the server
(external): it exchanges two elements of something that has no order. `Forget`
is the reference: the reply with multisets in the place of what has no order.

### EvilConfig

Connections with their settings. `Connect`, `Debug` and `Disconnect` are what a
client does. `Debug` takes any command of `Commands` through `Requested`
(`EvilConfig::apply_debug_command` with the parsers of the subcommands, or
`chaos::apply`), then through `Refused` and `Restored`, the rejection of FAULT
RESET on a Unix client, and `Counted`, the counters of `stats.rs`. A parser is a
set, empty for an error. The preset of DEBUG CHAOS is `PresetFraming`,
`PresetExec`, `PresetTopology` and `PresetTransport` over the defaults.
Probabilities are counted in sixths of a percent, in which the preset's divisions
are exact. `history` is the commands with their outcomes, which the properties
look back at (`Last`). `Touches` says which families the loop of `proxy.rs` would let touch a reply to
a command with these settings.

### Monitor, ReproLog, Fingerprints, Lifecycle

`Monitor`: commands of clients are published at the two places of the loop
(before and after the dispatch of local commands), if there is a receiver; a
monitor task subscribes, writes its OK, and then receives and writes. The
channel (tokio's broadcast, external) keeps `Buffer` lines. A socket takes
`SocketBuffer` lines that its client has not read.

`ReproLog`: a line is `Parts` pieces, the last of them the newline; an append takes
the mutex, writes piece by piece, may fail after any of them, flushes and
releases (`Unlock`). `Restart` ends the process at any point and leaves the file
as it is.

`Fingerprints`: one connection whose client may pipeline. A fingerprint is the
sequence of what it was fed. The reference is the log of the client: `InPlaces`
and `OutPlaces` are the places of the log that count by the rules of
`src/README.md`, and `Selects` says that a sequence is the log at these places.

`Lifecycle`: `Bind`, `BindFails`, `StartServing`, `AcceptFails`, `JoinNext`,
`CtrlC`, `Kill` and `Start` over the listeners; `Drop` is the drop of a listener.
`serve_listener` owns its listener, so a failing `accept` drops it there and then:
the socket file is gone before `join_next` tells `serve_topology`, and a process
killed in between leaves none.

### MCReplies and MCServices

The modules about replies (`RespStream`, `Canonical`, `GeneratedTrees`, `ReplyFaults`)
and those about what connections use beside their upstream (`Monitor`,
`ReproLog`, `Fingerprints`, `Lifecycle`) are each put together by one module,
`MCReplies` and `MCServices`. A behaviour is a behaviour of one of the modules,
chosen at the start (`stage`, `subject`); the variables of the others do not
change. This is sound because the modules of a group share no state, and TLC
visits the sum of their states instead of the product. `Monitor`, `ReproLog` and
`Fingerprints` are extended, so that the run checks the very definitions that are
proved and evaluates their assumptions; they name their specifications
`MonitorSpec`, `ReproSpec` and `FingerprintSpec`. The others are instantiated:
their properties appear as conjunctions of the modules' own, and their
assumptions are evaluated for every instance.

## 3. Runs

| run | instance | states | shows |
|---|---|---|---|
| `reset` | 3 connections, 1 listener, 1 reset, 2 commands per epoch, fair | 101,910 | `IndexesContiguous`, `ResetFencesIndexes`, refinement of `CommandIndex`, `BarrierNeverBlocks` |
| `reset_revival` | 2 connections, 2 resets | 967 | violation of `InvalidatedForGood`, section 5 |
| `upstream` | cluster mode, 4 commands, fair | 458,559 | `AtMostOnce`, `RepliesPaired`, `IdentityOutsideTransactions`, `ExecNamesKnown`, `CommandsAnswered` |
| `upstream_cluster_exec` | the same, without fairness | 21,820 | violation of `ExecNamesMatch`, section 5 |
| `transport` | replies to 3 bytes, 1 extra of 2 bytes, offsets to 3, lists of offsets to 3 entries, a stall of 2 ticks, fair | 835,420 | `ChunksTileWire`, `SuccessIsComplete`, `OutcomeTruthful`, `SurvivingClientInSync`, `StallBounded` |
| `cluster_map` | topologies of up to 3 ranges and 4 nodes from 10 nodes, ports to 4 | 745,341 | `MapsConsistent`, `SlotsReachNode`, `OneListenerPerNode`, `RewritesAgreeWithSlots`, `ListenersNeverMove` |
| `redirect` | 1 connection, 4 topologies of 3 slots, 36 settings, cutoff 1 | 972,012 | `FocusedAsAsked`, `ExecutionAsAsked`, `CutoffExact`, `MutationsTruthful` |
| `redirect_bounce` | 2 connections, cutoff 3, 2 resets, fair | 106,138 | `ExecutedOnce`, `EventuallyServed` |
| `redirect_ipv6` | as `redirect`, IPv6 listeners | 74,691 | violation of `MutationsTruthful`, section 5 |
| `replies` | streams to 16 bytes and 3 levels; every arrangement of some forty replies and modes; trees of 4 frames in 4 profiles; 14 replies under 264 settings | 519,007 | `FramesAgree`, `CanonicalForm`, `GeneratedWithinLimits`, `RecordExact`, `FaultsAsAsked` |
| `evil_config` | a TCP and a Unix connection, 3 DEBUG commands | 395,133 | `TransportServable`, `PresetReplaces`, `RepliesLeftAlone`, `CommandsAccounted` |
| `services` | 2 clients with 2 commands each and a monitor behind 2 lines; 4 records, 2 connections, 2 runs; 3 requests with replies of 2 pieces; 3 TCP listeners or a Unix one, 3 starts; fair | 229,432 | `MonitorStream`, `StreamDrains`, `LinesWhole`, `AppendsSettle`, `FingerprintsMatchLog`, `StartsAndStops` |

The type invariants (`TypeOK`) are proved for `ResetProtocol`, `Transport`,
`UpstreamSession`, `TopologyRedirect` and `EvilConfig`, and as a part of the
inductive invariants of `Monitor` and `ReproLog`; of `ClusterMap` the part that
the maps need (`MapTypes`). Those of the other modules say what the variables
range over. Adding the name to a cfg checks it.

### Bounds

* Three connections are what a reset needs to meet a reader and a task that
  queues behind it. Two commands in an epoch show a gap and a repetition. One
  reset keeps the graph small enough for liveness; two that race are in
  `reset_revival`, and any number in the proofs. `WithinBounds` counts commands
  under way, so that no counter passes its bound.
* Four commands are MULTI, a command that is queued, rejected or bypassed, EXEC,
  and one after it; the session may break at any step of them and any number of
  times. Cluster mode has the branches of standalone mode and the bypass.
* Replies of three bytes with an extra reply of two have offsets before, inside,
  at the end of and behind either. `MCOffsetLists` has accepted lists and ones
  with a zero, unsorted and too long. Two boundaries reach `MaxBoundaries`.
* Two endpoints on one host and one port on two hosts, two IDs and none: enough
  for every case of `Conflict`. `ListenPorts` 0, 1 and 3 with `MaxPort` 4 cover
  the port that cannot be mapped, enough ports and too few.
* Three slots give a topology with a single primary, one with a replica, one with
  a primary in two ranges and a slot nobody owns, and one with three primaries of
  which one comes first as a replica: NEXT wraps, and WRONG_NODE, REPLICA and
  NEXT each have a case where they do not apply. Indexes from `MaxIndex` on are
  the same for the cutoff. `redirect` needs one connection because faults only
  use the connection's own settings; `redirect_bounce` has the two it takes to
  bounce, and a cutoff that leaves room for a bounce forth and back and forth.

* Sixteen bytes hold three nested aggregates with a value, or an aggregate
  with a blob and a null, and are few enough that limits are met in the middle
  of lines, bodies and headers. The depth of 3 stands for 128: reader and parser
  only compare with it.
* Trees of four frames reach the deepest level with an aggregate at each, and
  have three equal members to replace. `MaxItems` is 3 for 4 because trees with
  more frames than `MaxFrames` are cut off.
* The replies of `MCReplies` have every type, a map, a null, nested and empty
  aggregates, equal EXEC results and a single one; `MCConfigs` has every
  strategy, count and depth, length faults with and without a target, and EXEC
  edits, with probabilities 0, 50, 100. `MCCases` has sets of sets whose members
  change places once sorted, maps with repeated keys and nested EXEC results.
* Three DEBUG commands are a setting, one that conflicts with it or changes its
  ground, and one that is to undo both. `MCCommands` has every family of faults with
  values that are accepted and rejected, at the boundaries of the presets' bands.
* A channel of two lines with four commands laps a receiver that has stopped,
  also while it is writing. One line in the socket makes a writer wait.
* Four records over two connections and two runs: a failure, a record behind it,
  and one behind that; three pieces have a failure before, inside and at the end
  of a line.

### Deadlock

Deadlock is checked for `ResetProtocol`, `TopologyRedirect`, `RedirectBounce` and
the stages of `MCReplies`, whose finished states stutter or go on. The other
models may stop: a client has gone, a connection was closed, startup has failed,
a bound is reached.

### Fairness

* `ResetProtocol!FairSpec`: weak fairness of the steps a task takes by itself
  (`Internal`). The runtime polls a task that is ready, and the lock is fair.
  Nothing is assumed of clients, of upstreams, or of writes to a client.
* `UpstreamSession!FairSpec`: weak fairness of the task's steps and of the
  server's answers. The second is an assumption on the upstream: the code has no
  timeout, and with an upstream that neither answers nor breaks the session a
  command waits for ever.
* `RedirectBounce!BounceSpec`: weak fairness of the client's request and the
  steps that answer it. That the client keeps retrying and the upstream answers
  is assumed; `src/README.md` says that recovery depends on both. Nothing is
  assumed of other clients.
* `MCServices!Spec` has the fairness of its modules. `Monitor`: weak fairness of each monitor task and of its client's reading.
  The second is an assumption on clients and only about those that stay:
  `StreamDrains` excludes a client that left, and `DepartedDropped` is about it.
  Nothing is assumed of the clients that send commands.
* `ReproLog`: weak fairness of an append: the mutex is fair, and a write to
  a file returns, with or without an error.
* `Lifecycle`: weak fairness of binding, of the step to serving and of
  `join_next`. Nothing is assumed of clients, failures or signals.
* `Transport!FairSpec`: time passes and an expired deadline is acted on. Nothing
  is assumed of the client.

## 4. Proofs

Each theorem holds for all values of the constants that satisfy the named
assumptions; bounds on counters are among the constants, so "for every bound" is
"without bound". Every theorem has the form `Spec => []P` or `Spec => [][A]_vars`
and rests on an inductive invariant of its module.

| module | theorems | about |
|---|---|---|
| `ResetProtocol_proofs` | `TypeCorrect`, `BarrierCorrect`, `NumberingCorrect`, `Fencing`, `Refinement` | numbering over any number of resets |
| `UpstreamSession_proofs` | `UpstreamInvariant`, `UpstreamTyped`, `CommandsProcessedAtMostOnce`, `RepliesStayPaired`, `IdentityStaysOutside`, `ExecNamesFollow`, `ExecNamesMatchStandalone` | any commands over any number of lost sessions |
| `Transport_proofs` | `TypeCorrect`, `TilingCorrect`, `AccountingCorrect`, `CompletionCorrect`, `SurvivorsInSync`, `RecordsTruthful` | replies, offsets and stalls of any length |
| `ClusterMap_proofs` | `MapsCorrect`, `SlotsCorrect`, `ListenersCorrect`, `ListenersStay`, `RewritesCorrect` | any topology, consistent or not |
| `TopologyRedirect_proofs` | `TypeCorrect`, `ExecutionCorrect`, `CutoffCorrect`, `FocusedCorrect`, `MutationsCorrect`, `BounceExecutesOnce` | any settings, clients and slots |
| `EvilConfig_proofs` | `SettingsTyped`, `TransportStaysServable`, `QuietRepliesLeftAlone`, `PresetsReplace`, `CommandsStayAccounted` | any sequence of DEBUG commands |
| `Services_proofs` | `StreamsCorrect`, `RecordsWhole`, `FingerprintsCorrect`, `SocketFiles` | any number of monitors and any channel; of appends, failures and restarts; of requests and short writes; of starts |
| `Replies_proofs` | `ReaderBounded`, `TreesWithinLimits` | any limits, whatever a peer sends and whatever is drawn |

`ResetProtocol_proofs`, from `ConnsAssumption`, `BoundsAssumption` and
`NoEpochAssumption`. The inductive invariant is `TypeOK /\ BarrierProtectsIndex
/\ IndexesContiguous`. Contiguity alone is not inductive: that a draw extends
the current epoch needs that the drawing task is current (the second check
under the guard) and that `command_ids` is the number of indexes drawn, which
holds except between the two stores of a reset; and that nobody draws in between
needs the exclusion of readers and writer. `Refinement` maps `Spawn` to `Join`,
`DrawIndex` to `Draw`, `BumpEpoch` to `Reset` and every other step to a stutter;
`Fencing` is the action property.

`UpstreamSession_proofs`, from `ClusterModeAssumption`, `MaxCommandsAssumption`
and `DataCommandsAssumption` (the commands taken as examples are none of those
with a meaning of their own). At every place of the task `ChannelInv` says what
is on its way: nothing, the fields written and not answered, or the one command
and then its one reply. That is what makes a reply to an abandoned command
impossible, because a lost session takes its buffers with it. `CommandInv` ties
the command in hand to the answers given so far, `ProcessedInv` counts who
processed it and bounds the orphans, and `TransactionInv` says that the names
follow the server's transaction once the reply in hand is observed; between the
server's step and the observation the two differ, so the invariant looks one
observation ahead. `ExecNamesMatchStandalone` assumes `~ClusterMode`:
`upstream_cluster_exec` shows that with it the property fails.

`Transport_proofs`, from `LengthsAssumption` and `OffsetListsAssumption`. First
about plans: whatever `DeliveryPlans`, `SetFault`, `ReplyPlans` and
`BeforePlans` return tiles the bytes they plan (`DeliveryPlansTile`,
`SetFaultTiles`, `ReplyPlansGood`, ...), which needs that FAULT and TRUNCATE are
never on together. Then the step invariant: types, the plan in hand tiles the
wire (`PlanInv`), the byte count (`WrittenWithinChunk`), completeness
(`SuccessIsComplete`), and that the socket is open while the loop goes on
(`SocketInv`). `RecordsTruthful` adds `RecordInv`: the chunks counted are the
ends behind the delivery (`CountInv`, which needs that the chunk at hand is the
next one), the stage of an error is the one being carried out (`StageInv`), and
what a fault has done to the socket (`FaultInv`).

`ClusterMap_proofs`, from the four assumptions of `ClusterMap`. The invariant is
`MapsConsistent` with the types and the position of the loop (`MapTypes`,
`NothingBefore`) and, once `locals` are looked up, that they are the entries of
`local_by_upstream` (`LocalsLookedUp`). The two central lemmas are
`KnownListener` (a node without conflict has one listener under whatever it is
known by) and `NewListener` (an unknown node is in no map, and its port is
unused); `KnownKeepsMaps` and `NewKeepsMaps` are the induction steps.
`RewritesCorrect` goes on from there: the redirection map holds the listener of
every node it has been through, by endpoint, by ID and, unless two nodes share
it, by port, and nothing else (`RedirectionInv`).

`TopologyRedirect_proofs`, about `TopologyRedirect` and `RedirectBounce`, from
`SlotsAssumption`, `RedirectsAssumption`, `AddressesAssumption`,
`TopologiesAssumption` and `BouncesAssumption`. `TopologiesAssumption` is what a
cluster reports: a range has a primary, not among its own replicas, and ranges
that share a slot have the same primary. The code takes the first range in several
searches, so the lemmas on operators need the least element of a set of ranges
(from the well-foundedness of `<`). Per connection, `ConnInv` ties the stage of
the command (`StageInv`) to what was executed, answered and recorded; a step of
one connection leaves that of the others alone (`SameKeeps`). `FocusedCorrect` and
`MutationsCorrect` assume `~Ipv6`; for `MutationsTruthful` `redirect_ipv6` shows
that the hypothesis is needed. `BounceExecutesOnce` follows from `RunsInv`: where
the client's command is, how often it was executed.

`EvilConfig_proofs`, from `ConfigAssumption` (the vocabulary of commands and of
numbers is any, in which "0" is zero). `Shaped` is that settings keep their
fields, `Servable` is `TransportServable` for one connection, and `Agrees` ties
each family of settings to the last accepted command that could change it.
`Servable` is needed for the others: a command that is refused after it was
applied has only its transport settings put back, and that this undoes all of it
holds because only a TRANSPORT command can be refused then (`RejectedKeeps`).
`CommandsStayAccounted` rests on `StatsInv`, which relates the counters to the
history and to the sets of connections; `SettingsTyped` on a lemma for every
parser.

`Services_proofs` has four parts.

`StreamsCorrect`, from `MonitorAssumption`. `MonInv` holds of each monitor: the
stream is in order, everything from the subscription to the receiver's place was
written, lost or is in hand (`Placed`), and what was handled since the OK is in
the channel. The properties alone are not inductive: that the line in hand is
written only once needs that everything written or lost is before it.

`RecordsWhole`, from `ReproAssumption`. The pieces of the holder of the lock
are the end of the file (`EndInv`), everything before belongs to appends that are
over (`Over`), no piece is there twice (`Distinct`), and where the holder began is
behind a newline or a line that was cut off (`Boundary`); only one connection
writes at a time because the queue has no repetition (`QueueInv`).

`FingerprintsCorrect`, from `FingerprintAssumption`. What a fingerprint has to
cover is a set of places of the client's log, so that a new piece is one more
place or none (`SelectsConcat`) and no induction over the log is needed. The
invariant adds to the property which request the reply in hand is for
(`ReplyInv`), that the client has seen every MODE RESET whose reply is written
(`ResetInv`), and that an answer looked only at what lies before the request it
answers (`AnswersInv`): later events do not reach it (`EarlierSame`).

`SocketFiles`, from `LifecycleAssumption`, for an arbitrary instance of
`Lifecycle`. A process that has ended listens nowhere, only a listener that is
bound can fail, and a TCP listener has no file.

`Replies_proofs`. The modules are instantiated by `MCReplies`, so their assumptions
are hypotheses of the theorems; `MCReplies` evaluates them for its instances.

`ReaderBounded`, from `LimitsAssumption` and `StreamAssumption` (a peer sends
bytes). `WithinLimits` with "a loop of the reader has a level to go on with" is
inductive: what a header asks for fits into what is left (`AsksWithin`; a null asks
for nothing, whatever is left), and the depth is checked before a level is opened (`CountersAfterHeader`).

`TreesWithinLimits`, from `CorpusAssumption` and `GeneratorAssumption`; the latter
has that the keys of the map, `key:0` to `key:3`, are short and differ, which TLC
evaluates. "Every frame of a tree" is said without recursion, by the paths from
the root (`IsPath`): `TreeKept` is that a path has at most so many frames and that
`Kept` holds of its last. `GenerateInv` says that the i-th open aggregate has room
for `MaxDepth - i` levels and that its children keep to them; a closed aggregate
is one level higher (`ClosedKept`). The members of a set stay different because
the replacements that are tried are one more than the members (`DistinctIsNew`,
by the pigeonhole principle).

Only model-checked:

* All of liveness: `BarrierNeverBlocks`, `CommandsAnswered`, `StallBounded`,
  `EventuallyServed`, `StreamDrains`, `AppendsSettle` and the liveness in
  `StartsAndStops`. It needs fairness and is out of the prover's reach.
* `CanonicalForm`, `RecordExact` and `FaultsAsAsked`. `Frames` and the modules on
  it (`RespParser`, `RespStream`, `GeneratedTrees`, `ReplyFaults`, `Canonical`) are
  recursive over trees; what they compute for every tree would take an induction
  over data that the prover cannot do.
* For the same reason the rest of `FramesAgree` and `GeneratedWithinLimits`. Of
  `FramesAgree` the conjunct `WithinLimits` is proved; that reader and parser
  agree, and that re-encoding is stable, is not. Of `GeneratedWithinLimits` the
  limits, the types of the protocol and the distinct members are proved; that
  numbers are well formed (`Decimal` is recursive) and that the parser finds the
  generated tree is not.

## 5. Findings

* `upstream_cluster_exec`. In cluster mode the branch for CLUSTER SHARDS and
  CLUSTER NODES (`proxy.rs:338`) answers without `TransactionCommands::observe`.
  Queued inside MULTI such a command is missing from the names, and the replies
  of the EXEC array are canonicalized under the names of their successors.
  `ExecNamesKnown` says what does hold: nothing else is ever missing.
  `README.md` has "Transaction bookkeeping follows upstream acknowledgements".
* `reset_revival`. Of two concurrent MODE RESETs the second has been made stale
  by the first while it waited for the write guard. It is not checked again
  (`proxy.rs:816`, unlike `proxy.rs:369`), takes the next epoch for its own and
  stays connected. `README.md` says a reset "invalidates older client
  connections". Numbering is not affected: `NumberingCorrect` is proved with this
  case included.
* `redirect_ipv6`. `redirection_targets` (`topology_evil.rs:495`) writes an IPv6
  listener without brackets, `connect_addr` and the rewriting of redirections
  with them. `wrong_server` compares the texts, so the node a redirection names
  already can be chosen as the wrong one, and is recorded as such. `README.md`
  says the mixed faults "change destinations among mapped primaries".

Seen on the way:

* A MONITOR connection only waits for lines (`proxy.rs:291`): a reset does not
  end it, and it is given the commands of the next epoch. `Monitor` has this
  behaviour; the sentence it contradicts is the one of `reset_revival`.
* An append that failed half way, or was cut off by a kill, leaves the beginning
  of a line; the next record is written behind it (`repro.rs:35`) and, although
  its append succeeded, is not a line of JSON. `LinesWhole` says what does hold:
  the record is there in one piece, and the damage ends with it.
* The first listeners serve clients, and tell them the addresses of all, while
  later ones are not bound yet (`proxy.rs:149`); `StartsAndStops` shows that an
  address told is served in the end unless the proxy stops.
* An `Inline` inside an array loses the white space before its words when it is
  re-encoded; Redis answers with none.

## 6. Not modelled

The wording of errors, log lines and the STATUS text; hashes (a fingerprint or a
seed is what was hashed); which values a seeded generator draws: every draw is a
choice, so determinism is shown as far as it depends on the order of operations
and the canonical form, not on the generator. The command line is checked before
anything starts. The grammars of frame paths, numbers and regular expressions
are given to `EvilConfig` as tables. The parsing of a CLUSTER SLOTS reply is
reduced to its result, with the substitution of an unknown host; a reply that
does not parse is `Standalone`, and a host is its text, whichever type of reply
carries it. An explicit `TARGET host:port` of a redirection is one word in
`EvilConfig` and one endpoint (`Literal`) in `TopologyRedirect`. The timer of the
statistics line decides nothing. The words of a request (`argv_lossy`,
`command_name`) and the text of a monitor line are pure conversions of one frame
that the tests of `resp.rs` and `proxy.rs` cover; the modules begin with the kind
of a command.
`apply_debug_evil` sets a connection's own configuration (`proxy.rs:303`) before it
waits for the reset barrier (`proxy.rs:311`). `EvilConfig` and `Monitor` take the two
as one step, as nobody else reads that configuration; the wait and its races are in
`ResetProtocol`.
The aspects of the connection loop are modelled one by one and not composed:
their product is beyond TLC, and they share only the order of the branches, which
each module keeps.

## 7. Plan

Done: models and runs of all components of section 1 but the command line, and
proofs of the safety properties of all of them that are not about functions over
whole trees. What a careful reader may add: the whole of `ClusterMap!TypeOK`, of
which `MapTypes` has what the proofs need.
