# Verification of go-p2p

TLA+ models of the peer-to-peer node in `go/`, the TLC runs that check them and
the TLAPS proofs about them. Line numbers in the modules and below refer to the
files in `go/` and `docs/`.

To use it, in this directory:

    tlc -workers 2 -config Transport.cfg Transport       # a run
    tlapm TransportProofs.tla                            # a proof

`PROJECT.json` lists the runs with their modules, the source lines of every
definition, the hazards, the findings, the theorems, and, for every property
that holds, a mutation of the model (a `Mut...` operator) that breaks it.

## 1. The system

A node has an **identity** (an X25519 key pair in two files), a **registry** of
peers it knows, and a **transport** that keeps WebSocket connections to them. A
**controller** sends requests over the transport and waits for answers, a
**worker** answers them, and a **content bus** publishes events to local
subscribers and to all peers. An HTTP **API** announces peers to the registry.
Beside these are two binary protocols that the node's own connections do not
use: UEPS, signed packets with a dispatcher of intents, and Levin, framed packets
with a storage format for their payloads.

| Part | State | Operations that change it | Concurrency |
|---|---|---|---|
| Transport (`node/transport.go`) | `conns`, `pendingConns`, `ctx`, `wg`; per connection `closeOnce` and two goroutines; `Connected` in the registry | `handleWSUpgrade`, `Connect`, `performHandshake`, `readLoop`, `keepalive`, `Close`, `GracefulClose`, `dropConnection`, `Stop` | one goroutine per handshake, two per connection, callers |
| Deduplicator (same file) | `seen` with times | `IsDuplicate`, `Mark`, `Cleanup` | all read loops and a cleanup goroutine |
| Rate limiter (same file) | `tokens`, `lastRefill` | `Allow` | one read loop |
| Controller (`node/controller.go`) | `pending`, a channel per request | `sendRequest`, `handleResponse`, the request methods | callers, read loops, timeouts |
| Registry (`node/peer.go`) | `peers`, `kdTree`; `dirty`, `saveTimer`, the file; `allowedPublicKeys` and its file | add, update, remove, score, metrics; `scheduleSave`, its callback, `Close`; allow, revoke, `IsPeerAllowed` | all of the above, and a timer |
| Identity (`node/identity.go`) | key file, config file, identity in memory | `loadIdentity`, `GenerateIdentity`, `Delete` | crashes; managers that share files |
| Content bus (`pkg/contentbus`) | `subscribers`, `closed`, owned resources | `Subscribe`, `Publish`, `handleMessage`, `Close` | callers and read loops |
| Worker (`node/worker.go`, `node/bundle.go`) | miners, profiles, installation directories, all outside | one handler per message type; extraction of bundles | one read loop per connection |
| API (`pkg/api`) | none of its own | `announcePeer` | requests |
| UEPS (`ueps`, `node/dispatcher.go`) | a stream; `handlers` under a reader-writer lock | `MarshalAndSign`, `ReadAndVerify`, `RegisterHandler`, `Dispatch`, `Handlers` | a reader, goroutines that register or iterate |
| Levin (`node/levin`) | a stream and its write lock | `WritePacket`, `WriteResponse`, `ReadPacket`, `Close`; storage encoding and decoding | writers and a reader of one connection |

What makes it hard: a connection is established in four separately locked steps
while it may already be closing; two connections of one peer replace each other;
`Stop` works on a snapshot; answers come late, twice, or not at all; a timer
callback, `Close` and callers share one dirty flag and one temporary file;
several operations read a peer, do something slow, and write the copy back; an
identity is two files that are written one after the other, and that may be
there and not be readable; deployments of two
controllers unpack into one directory; a frame is two writes, either of which may
stop part-way and leave the connection open.

## 2. Modules

| Module | Models | Proofs |
|---|---|---|
| `RateLimiter` | `PeerRateLimiter` of one connection | `ReceiveProofs` |
| `ReadLoop`, on top of it | the read loops: rate limit, deduplication over all loops, handler | `ReceiveProofs` |
| `Controller`, `MCController` | requests and responses | `NodeProofs` |
| `Transport` | life of connections, admission, `Stop` | `TransportProofs` |
| `PeerRegistry` | contents of the registry, the KD-tree, callers that write back | `PeerRegistryProofs` |
| `RegistrySave` | debounced persistence of the registry | `RegistryFilesProofs` |
| `Allowlist` | allowlist, its file, `IsPeerAllowed` | `RegistryFilesProofs` |
| `MCRegistryFiles` | the two above for TLC | |
| `ContentBus`, `MCContentBus` | the publish/subscribe controller | `ContentBusProofs` |
| `Identity` | the two files of an identity | `NodeProofs` |
| `MCNode` | `Identity`, `PeerRegistry` and `ReadLoop` for TLC | |
| `Worker`, `MCWorker` | the worker's handlers, deployments of bundles | `WorkerProofs` |
| `LevinHeader` | little-endian integers and the packet header as operators on bytes | `LevinProofs` |
| `Levin`, on top of it | writers and a reader of a Levin connection | `LevinProofs` |
| `FrameChannel` | what a Levin connection promises, abstractly | `LevinProofs` |
| `LevinCodec` | varint and portable storage as operators on bytes | |
| `LevinStorage` | a connection whose payloads are sections in portable storage | |
| `Ueps` | signed packets, their reader, the dispatcher | `ReceiveProofs` |
| `UepsReads` | what the reader should make of a stream, over whole packets | |
| `MCWire` | `LevinStorage` and `UepsReads` for TLC | |

One action is what the code does under one lock, or one operation on a file, a
channel or a socket. Where a Go function takes several such steps, a variable
(`pc`, `stage`, `closing`, ...) records how far each goroutine has got, and other
goroutines may run in between. Messages, peers and keys are model values. A
variable marked *history* exists for a property and guards no action.

**RateLimiter.** Time is counted in ticks, `Second` of them to a second, so that
the truncation to whole seconds (transport.go:163) is visible. `OpenWindow`
starts observing one connection, `Watched`, at any moment.

**Controller.** `pending` and one-slot channels as in the code. A call goes
through connect, register, send, wait, unregister, close; `handleResponse` takes
the channel under the lock (`TakePending`) and sends after it (`Deliver`). The
deferred function removes the entry and closes the channel in two steps. A send
on a closed channel sets `crashed`. Peers send any message that answers a
request they got, repeated, of any type, or no answer; the network may lose it
and a peer may disconnect.

**Transport.** `stage[c]` follows the goroutine that establishes `c`, `closing[c]`
the function run once by `closeOnce`, `reader[c]` and `keeper[c]` the loops.
`conns` is the map, `reg` whether a peer is registered and its `Connected` flag.
`Stop` cancels, takes its snapshot, closes, drains the HTTP server (which may
time out and fail) and waits for the loops. A keepalive may give up at any
moment, since time is left out. A connection that replaces another in the map
does not close it, as in the code.

**ReadLoop.** A message goes through the limiter of its connection, is decrypted or
dropped, looked up (`IsDuplicate`) and marked (`Mark`) in two steps, and handed to the
handler if there is one by then: `OnMessage` may set it at any moment, and a message
that finds none is marked and gone. The limiter is that of `RateLimiter`, and the clock
is shared. The histories `marks` and `handled` keep when which loop marked a message,
and which of the marks came to a call of the handler.

**PeerRegistry.** Each registry operation is one step, as it holds `r.mu`.
`announcePeer`, `Connect` and `PingPeer` are calls of several steps, with the copy
of the peer they read in `copy`. The KD-tree is the set of its points;
`SelectNearestPeers` gives the sets of peers that the nearest-point search may
return. The scale of the scores is a parameter. An announcement may have any score, and
`AddPeer` and `UpdatePeer` store it as it is; the histories `lowest` and `highest` keep
how far announcements have gone beyond the scale.

**RegistrySave.** Callers change and then schedule, outside `r.mu`. Timers fire
and may find that `Close` was first. A save marshals under the read lock, writes
the temporary file in two steps (it is torn in between), and renames; `fd` tells
where a file that is still being written has been renamed to. Writes and renames
may fail, with the clean-up that follows. `Restart` loads what is on disk.

**Allowlist.** Changes, the snapshot that follows in its own lock section, the
write and the rename; and `IsPeerAllowed` as two lock sections, with a history
of which rules applied at some moment, and at all moments, of the call.

**ContentBus.** `mu` and `subsMu` are in the guards (`CanRLock`, `Readers`): a
writer that waits keeps new readers out, as Go's `RWMutex` does. `Close` waits in
`Stop` for the read loops that are in `handleMessage`. `sync.Once` makes other
callers of `Close` wait for the first. The size of the channels' buffers,
`channelBuffer`, is an option that `Init` chooses.

**Identity.** Files hold the number of a key pair, nothing, or a torn write.
Every file operation may fail, reading a good file included, and `Exit` ends a manager
anywhere, between calls or in the middle of one. That `Delete` finds the files that are
there (`coreio.Local.Exists`) is taken for granted. The history `broken` records that an
operation that changes the files has begun and none has succeeded since: in between they
may hold halves of two identities. `LoadOrCreateIdentityWithPaths` begins one when it
could not read a file, and generates an identity over the one that is there.

**Worker.** `HandleMessage` runs on the read loop of each connection, so requests of
one peer come one after the other and those of different peers overlap. A handler
that calls a manager or writes files takes a step for each; a bundle is checked,
then extracted entry by entry, each file opened (which empties it) and written in
two steps. Sends, managers and file operations may fail, a manager may be missing,
the identity may be deleted, and messages may come before `RegisterWithTransport`.
The histories `solo` and `installed` tell which acknowledged deployment nothing has
overlapped or followed.

**Levin.** The stream is a sequence of bytes. `Write` and `WriteFails` are the two
`conn.Write` of `writeFrame`, under `writeMu`; a failing one leaves any number of its
bytes. `ReadHeader`, `ReadPayload` and `ReadFails` are the two `io.ReadFull` of
`ReadPacket`. Headers are encoded and decoded by `LevinHeader`, payloads by `LevinCodec`;
both have the values of a byte and the four sizes of integer as parameters: with small
ones every boundary of the formats is within TLC's reach, and with 256 values and 1, 2,
4, 8 bytes the definitions are the code's. A call's payload is bytes, or the failure to
encode them, as `WritePacket` knows nothing of sections; `LevinStorage` adds those. `FrameChannel` is the abstract specification, a
queue of whole packets, and `Levin` is shown to implement it: `sent` is mapped to
the packets whose header has been written.

**Ueps.** An element of the stream is a tag-length-value triple; the MAC is the pair of
the key and of the bytes it was computed from. Of the triples with one tag the reader
keeps the last. A packet may have one triple damaged, its tag into any other or its value
into one of the same length; it may be signed with another secret, carry a triple this
version does not know, or be too large to build; and the stream may end anywhere. A
header triple with fewer bytes than the reader takes from it makes the reader panic
(`ReadPanics`), before it has verified anything. `Dispatch` is
three steps: threshold, lookup under the read lock, call after it. A writer that
waits keeps new readers out. Handlers are atomic and do not call the dispatcher.

## 3. Runs that hold

Bounds are the smallest at which the cases named can happen; the proofs in
section 5 remove them where they exist.

| Run | Bounds | Shows |
|---|---|---|
| `Controller` | 2 requests of different kinds, 2 read loops, 2 message identifiers: an answer and a repetition or a stray one race a timeout | one delivery for a request (`SingleDelivery`); success only on a valid answer of one's own (`OkMeansAnswered`); nothing left behind (`NoPendingLeak`); every call returns (`CallsReturn`) |
| `Transport` | an inbound and an outbound connection of 1 peer, limit 1: they replace each other, and a handshake is refused or fails at every point | no dead entry in the map (`NoDeadEntry`); no connection evicts another (`EvictOnlySelf`); `pendingConns` is exact (`PendingExact`); `Stop` returns (`StopReturns`); no loop outlives its connection (`NoLoopLeak`); a peer that vanished leaves the map (`DeadPeerEvicted`) |
| `Node`, identity | 1 manager, up to 5 key pairs, failures and crashes anywhere | a node keeps its identity until it is replaced or deleted, and only a failing read replaces it unasked (`IdentityKept`); a deleted one does not return (`NoResurrection`) |
| `Node`, registry | 2 peers, scores 0 to 2 with arguments and announcements below and above the range, 1 call that overlaps all other operations | only announcements take a score out of range, and no further than they go (`ScoreAsAnnounced`); the tree is never stale (`TreeFresh`); selection never prefers a peer that is worse in everything, for peers not beyond the ideal (`BestAreSelected`) |
| `Node`, read loops | 2 loops, 1 message that comes again and again, burst 2, 1 token a second of 2 ticks, time to live 1, clock to 3: the bucket empties and refills, entries expire, the handler is set early, late or never | every window lets through at most the burst and the refill of the seconds begun in it (`WindowBound`); one connection handles a message once in its time to live (`OncePerConnection`); a message is dropped only as the duplicate of one that was handled within the time to live, or marked before there was a handler (`DropsOnlyHandled`) |
| `RegistryFiles` | peers: 2 callers, 2 timers, 1 `Close`, 3 changes, so that two saves overlap and a change falls between; allowlist: 2 keys, 1 peer, 2 writers, 1 check | a change is on disk, or somebody will save it, or a save failed (`NoLostChange`); it does not stay unsaved (`EventuallySaved`); whoever is admitted was allowed at some moment of the check (`TrueIsJustified`); who is allowed by one rule throughout is admitted (`SteadyRuleAdmits`); changes that do not overlap are on disk (`SequentialPersisted`) |
| `ContentBus` | 2 subscribers, 2 topics, a local and a remote event, 2 callers of `Close`; buffers of 1, which the second event finds full, with a transport that `Close` stops, and of 2, which hold both in order, with one that it leaves running | no send on a closed channel, and all closed in the end (`NoSendOnClosed`, `AllClosed`); events of the topic only, once, in order (`InOrder`); nothing lost but to a full buffer (`NoSilentLoss`); a successful `Close` released what it owns (`OkMeansReleased`); `Close` returns (`CloseReturns`) |
| `Worker` | 2 peers with 1 or 2 requests each, 1 directory, 2 files: deployments of whole, too large, misnamed, damaged and foreign bundles overlap and follow each other; profiles deployed while another peer starts a miner with them; every kind of request valid and not, with and without managers | an acknowledged deployment that nothing overlapped is there whole (`AckedIsInstalled`); only verified bundles leave files or profiles (`OnlyVerifiedIsKept`); no request has two answers or one that is not its own (`AnsweredOnce`); each is answered, or not for a known reason (`EveryRequestAnswered`) |
| `Wire`, Levin | 6-bit bytes, integers of 1 to 4 bytes; a section for every type of value at a boundary of its size or length, two that have no encoding, payloads at and above the reader's limit; 2 writers that interleave, writes and reads that stop after 0, 1 or 20 bytes | the connection implements `FrameChannel` (`FramesArriveWhole`); a payload reads back as its section, and nothing shorter does, and so do lengths at every limit of the varint (`StorageExact`); every call returns and whole packets are returned (`WrittenIsReturned`) |
| `Wire`, UEPS | 3 packets, the first damaged in each of its triples, with a tag of every kind or another value, or odd in another way; 2 goroutines that register, 1 iteration | what is accepted is what was signed, in order, and a refusal costs no other packet but the one a damaged payload tag runs into (`ReadsMatchPackets`); handlers run within the threshold, in order, and were registered during `Dispatch` (`HandledInBounds`); an iteration sees one state of the map (`IterationIsSnapshot`); nobody blocks for good (`DispatcherProgress`) |

`Node`, `RegistryFiles` and `Wire` each have parts that share no state; a behaviour
takes one of them, so that no state is spent on their product.

Bounds that are not the code's, but cap a counter or a set: `MaxTime`
(`ReadLoop`), `ReplyIds` and `ReplyTypes` (`Controller`), `Inbound` and `Outbound`
(`Transport`), `Timers`, `Closers` and `MaxChanges` (`RegistrySave`), `MaxKeys`
(`Identity`), in `ContentBus` the sets of calls and events, `Cuts` and `Programs`
(`Levin`), `Scenarios` (`Ueps`, `Worker`). The metrics in `Node` are 0 and 1; negative ones, which an
announcement may have, are covered by the proofs alone. `Base`, `Widths`, `ByteValues` and
`MaxValue` scale numbers down that the code has fixed.

**Fairness.** Only steps that a goroutine takes by itself once it can are fair;
what users, peers and the file system do is not.
- `Controller`: a call that has begun goes on; its timeout (controller.go:112) is
  one of the steps. Peers need not answer.
- `Transport`: handshakes end, since they run under deadlines; the body of
  `closeOnce` goes on; a loop ends when it must, that is when its socket is shut or
  the context cancelled, and not before; `Stop` goes on. Nobody need call `Close`
  or `Stop`.
- `RegistrySave`: a caller that changed a peer calls `scheduleSave`; timers fire;
  saves go on. Saves need not succeed.
- `ContentBus`: calls under way go on. Subscribers need not receive, and `Stop`
  is not forced to fail.
- `Worker`: a read loop goes on with its message; whether a step succeeds or fails is
  open. Nobody need register the worker.
- `Levin`: a write returns, by its deadline (connection.go:99), and a reader that has
  the bytes it waits for goes on. Reads need not time out and nobody need close.
- `Ueps`: the peer's writes, the reader, and goroutines that register go on when the
  lock lets them; an iteration's body ends. The stream need not end.

## 4. Where the code and its documentation disagree

Each of these runs checks one sentence of a doc or comment, and TLC gives a
behaviour of the code that contradicts it. The sentences are quoted in
`PROJECT.json`.

| Run | Property | What happens |
|---|---|---|
| `ControllerClosed` | `ClosedChannelIsHandled` | a response taken from `pending` is sent after its request has timed out and closed the channel: panic |
| `TransportLimit` | `LimitEnforced` | two upgrades count before either adds to `pendingConns` |
| `TransportReplaced` | `LiveMeansConnected` | the end of a replaced connection clears the flag of a connected peer |
| `RegistryScores` | `ScoreInRange` | an announcement's score is stored as it comes, above the maximum or below 0 |
| `IdentityReplaced` | `CreatesOnlyIfNone` | a file of the identity is there and cannot be read at the moment: it is taken for missing, and another identity is generated over it |

Other expectations hold only in the weaker form that section 3 states. The
models contain the behaviour that breaks the stronger one:

- Transport: a connection that ends before `SetConnected(true)` leaves the flag
  set; an outbound or late handshake starts loops after `Stop` has returned.
- Deduplication is per connection: two loops can look a message up before either
  marks it.
- Saving: `Close` can return before a timer callback that has taken `dirty` has
  written; two saves share one temporary file, so the file may be torn for a
  moment.
- Allowlist: of two overlapping changes the older snapshot can be written last;
  `IsPeerAllowed` can refuse a peer that was allowed throughout, but by its key at
  one moment and by its registration at another.
- Content bus: if `Stop` fails the registry is not closed; `Close` reports it.
- Read loops: a message that arrives before `OnMessage` is marked and lost, and so are
  its repetitions within the time to live.
- Registry: a caller that writes back an
  old copy restores an old score, and `PingPeer` the distance and hops it read; an
  announcement clears `Connected`. Selection goes by the distance from an ideal peer with
  the maximal score: beyond it a higher score counts as worse.
- Worker: a deployment that fails leaves what it has unpacked and has emptied older
  files of the same names; two that overlap can leave a mixture. A request whose
  handler fails when the node has no identity gets no answer.
- Levin: after a write that stopped part-way, or a read that timed out inside a
  packet, the connection is still open and what is read from it may be garbled.
- UEPS: a damaged payload tag makes the reader take the next packet along; a tag damaged
  into one that needs a longer value makes it panic, and whether anything recovers from
  that is up to the caller, which is not in this repository.
- Identity: after an interrupted `Delete` or replacement, or with two managers on
  the same files, the files can hold halves of two identities.

## 5. Proofs

All are for arbitrary constants that satisfy the named assumption of the module.

- **ReceiveProofs**, the rate limiter (`LimiterAssumption`: natural numbers, a second has
  a tick). `WindowBound` is not inductive: what was let through may be fine while the
  bucket holds more than is still due. The strengthening, `WindowBudget`, adds the
  tokens in the bucket, and how old the last refill can be when the window opens.
  The lemmas are about quotients.
- **ReceiveProofs**, the read loops (`ReadLoopAssumption`). `LoopsUseLimiter` is a
  refinement: every step of the read loops is a step of `RateLimiter` or leaves it
  alone, so `WindowBound` carries over. `OncePerConnection` becomes inductive with
  `Covered`: a mark within the time to live is covered by an entry at least as young,
  and a loop that was told that a message is fresh has no such mark of its own.
  `DropsOnlyHandled` needs `EntriesFromMarks`: an entry has the time of some loop's mark,
  and that mark came to a call of the handler or is about to, or is not younger than the
  handler (`FromMark`).
- **ReceiveProofs**, UEPS (`UepsAssumption`: packets hold bytes and scores of two bytes,
  further triples have tags of their own, and handlers are registered for bytes).
  `HandledInBounds` speaks of scores and intents that come off the wire, so the proof
  first shows that they are numbers and bytes: `BigEndianBytes`, `SignedTriples` and
  `WireTriples` for what is built and for what damage leaves of it, `LastTLVOf` and
  `ResultIsTyped` for what the reader makes of it. `UepsInv` then follows a packet
  through `Dispatch`: it is the last result and no handler has run for it; past the
  breaker it is within the threshold; until the lookup the handler registered at the
  moment is one the packet may get, and afterwards the one found is.
  `IterationIsSnapshot` is inductive by itself.
- **NodeProofs**, the controller (`ControllerAssumption`, `NoneIsNoMessage`: the sets of
  requests and peers are disjoint from the null value). The invariant `IInv` joins
  `NoPendingLeak`, `SingleDelivery` and `OkMeansAnswered` with `Untouched` (a request
  that is not registered has left no trace) and `Provenance` (a message in a place
  of a request answers it, and the request was sent). One lemma for each group of
  actions.
- **NodeProofs**, the identity (`IdentityAssumption`, and `Single`: one manager over the files, as both
  properties require). `NoResurrection` needs `AgeInv`: not only what is in memory but what
  is in the config file is younger than the last `Delete` that succeeded, for a load takes
  the identity from there. `IdentityKept` needs
  `FileInv`, that the two files agree with what was granted unless an operation has begun
  and none has succeeded since, and `CallInv`, what a call that is between the files has in hand.
- **TransportProofs** (`TransportAssumption`: finite sets). `NoDeadEntry` needs
  `Staged`: until it is stored nobody closes a connection, it has no loops and `Stop`
  does not know it. `EvictOnlySelf` follows from the actions. `PendingExact` is
  inductive with the finiteness of the set that is counted, and gives `TypeOK` for
  the counter.
- **PeerRegistryProofs**. `TreeFresh` is inductive with `TypeOK`, as every operation
  that changes the tree's data rebuilds it. `ScoreAsAnnounced` also needs that the
  copies calls have in hand are within what was announced (`CopiesAsAnnounced`) and that
  the scale is (`ScaleIsAllowed`), for defaults and clamped scores are on it.
  `BestAreSelected` follows from `TreeFresh`: the tree has exactly the known peers
  (`PointsAreIds`), and a peer that is better in every respect and not beyond the ideal is
  nearer to it (`BetterIsNearer`), so no nearest set leaves it out for a worse one. Scale,
  metrics and scores are arbitrary, negative ones included; the weights are the code's.
- **RegistryFilesProofs**, the peers' file (`RegistrySaveAssumption`). `NoLostChange` rests
  on what overlapping saves have in common: each holds the read lock, so all have
  marshalled the same peers (`SnapInv`), the temporary file they share has nothing else
  in it (`TmpInv`), and a save whose temporary file was moved or deleted by another can
  rely on the file at its final place (`DiskInv`).
- **RegistryFilesProofs**, the allowlist (`AllowlistAssumption`). `CheckInv` ties what the
  first lock section of `IsPeerAllowed` read to the rules of the whole call so far;
  `AloneInv` follows the snapshot of a change that runs alone to the file.
- **WorkerProofs** (`WorkerAssumption`: a peer's requests are its own and have distinct
  IDs, bundles are sequences of tar entries). `TalkInv` gives `AnsweredOnce`: the requests
  still to do are the last ones asked (`TodoInv`), only the others have been answered or
  given up (`AnswerInv`), and an outcome about to be sent is a reply to the request under
  way (`CallInv`). `DeployInv` gives `AckedIsInstalled`: a deployment that is alone is the
  only one in its directory (`SoloInv`), the files of the entries it has passed are
  whole (`Extracted`), and no bundle counts as installed where one is being unpacked
  (`EntryOf`). `OnlyVerifiedIsKept` follows with `EntryOf`, since only a verified bundle
  has an entry to write.
- **ContentBusProofs** (`ContentBusAssumption`: finite sets, buffers of any size but 0). `LockInv`:
  one `Close` runs, and once `closed` is set no reader holds the lock. With it `SubInv`
  (the channels in the map are those returned, until all are closed) gives
  `NoSendOnClosed` and `AllClosed`, and `ReleaseInv` gives `OkMeansReleased`. For `InOrder`
  and `NoSilentLoss`, `EventInv` says whom each event has still to visit, and in whose
  buffer, history or losses it is for the others.

- **LevinProofs** (`CodecAssumption`: bytes of 6, 7 or 8 bits and four growing widths;
  `LevinAssumption`: the calls' arguments have the types the methods take, and a payload's
  length fits its field). `LevinImplementsChannel`, the refinement of `FrameChannel`,
  in four parts. First the numbers: what `LittleEndian` writes `FromLittleEndian` reads back
  (`LittleEndianBack`), negative return codes by way of two's complement (`SignedBack`),
  hence `HeaderRoundTrip`. These are inductions over the width; `Induction` states the
  principle for a set of numbers, and is proved from the well-foundedness of the
  naturals. Second the layout: `InPlace` says at which byte of the stream each frame that
  is due begins, and the lemmas from `BeginFrame` to `GiveUpFrame` what writing, reading
  and giving up do to it. `Aligned` adds where the reader is. Third the invariant
  `LevinInv`: `LockInv` (whoever is inside a frame holds the lock, so one payload at most
  is owed), `StreamInv` (until a call stops inside a frame, reader and stream are aligned
  with the calls whose header was written) and `LimitInv`. Last, one lemma for each
  action (`WriteFollows`, `ReadHeaderFollows`, ...): it keeps `LevinInv` and is a step of
  the channel or leaves it alone.

The type invariants are proved along with these.

Only model-checked: all liveness (TLAPS here has no fairness or ENABLED);
`ReadsMatchPackets`, which compares what a fold over a stream computes with a second
definition over whole packets, and would take induction over the stream; and
`StorageExact`, since the encoder and the decoder of `LevinCodec` are recursive.

## 6. Not modelled

- Inside `Transport`, a handshake's challenge, keys and versions, which end in one
  success or one failure; the time between pings, so how soon a silent peer is
  noticed; TLS and origins; `Start`. The identity that the keepalive reads is
  taken to be there.
- Of the registry `LastSeen`, names, sorted listings, which are read-only or
  have no effect on the rest, and `FindNearby`: floating-point trigonometry, which
  TLC cannot evaluate (it takes coordinates (0, 0) for missing ones, peer.go:640).
- `GetAllStats`, which makes one modelled call for each peer; the contents of
  statistics and logs.
- Creating bundles, `StreamBundle` and `ReadBundle`: input and output of one caller
  through archive and encryption libraries.
- JSON encoding of messages, the signature of envelopes, key derivation, the
  challenge and shared secret of an identity: calls of libraries without state.
- UEPS triples with damaged lengths, after which the reader takes triples from the middle
  of others, and how much memory a Levin decoder asks for: the abstractions of the
  streams leave them out.
- A body of an iteration over `Handlers` that itself registers or dispatches, and so waits
  for the lock that its iteration holds.
- Options, buffer pool, error values, logging, construction of the service and the
  façade: no protocol and no state of their own. The other HTTP handlers read the
  registry or answer 501.
