# TLA+ models of EventMachine's descriptors (`src/ext/ed.cpp`)

This directory holds TLA+ specifications of the descriptor layer of
EventMachine. That layer is the per-socket state machines that the reactor
drives: close scheduling, outbound buffering and partial writes, read bursts,
proxy links and backpressure. The directory also holds the TLC configurations
that check them. Every action is translated from `src/ext/ed.cpp`. `PROJECT.json`
maps each definition to the lines it models.

## 1. Inventory

### Components and how they interact

| Component (spec name) | Code | State | Operations that change it |
|---|---|---|---|
| Descriptor close state machine | `EventableDescriptor` 71-264 | `bCloseNow`, `bCloseAfterWriting`, socket, reactor's `NumCloseScheduled` | `ScheduleClose`, `ShouldDelete`, destructor, `Close` |
| StreamConnection | `ConnectionDescriptor` 571-1147, 1186-1329 | `OutboundPages` (buffer, length, offset), `OutboundDataSize`, `bPaused`, `bConnectPending`, epoll interest, `UnbindReasonCode` | `SendOutboundData`/`_SendRawOutboundData`, `Read`, `Write`/`_WriteOutboundData`, `HandleError`, `Pause`, `Resume`, `ScheduleClose` |
| Proxy and backpressure | `StartProxy`, `StopProxy`, `SetProxiedFrom`, `_GenericInboundDispatch` 404-474; pause at 764; resume at 1278; destructor 135-140 | `ProxyTarget`, `ProxiedFrom`, `BytesToProxy`, `ProxiedBytes`, `MaxOutboundBufSize` | the same, plus every `Read` of a source and every write of a sink |
| Heartbeat and timeouts | `GetNextHeartbeat` 545-564, `Heartbeat` 1590-1620, 2127-2141 | `InactivityTimeout`, `PendingConnectTimeout`, `LastActivity`, `NextHeartbeat` | timer expiry, reads and writes updating `LastActivity` |
| TLS framing | `_DispatchInboundData` 1045-1077, `_CheckHandshakeStatus` 1093, `_DispatchCiphertext` 1526-1584 | `SslBox` (outside `src/`), `bHandshakeSignaled` | reads, writes, `StartTls` |
| ListenSocket | `AcceptorDescriptor` 1675-1816 | none of its own | accept burst of up to 10 sockets |
| DatagramSocket | `DatagramDescriptor` 1822-2180 | datagram queue, `OutboundDataSize` | `Read`, `Write`, `SendOutboundData`, `SendOutboundDatagram`, `Heartbeat` |
| StreamConnection, watch-only mode | `SetWatchOnly` 683-687, `SetNotifyReadable`/`SetNotifyWritable` 740-758, watch-only branches of `SelectForRead`/`SelectForWrite`, `Read`, `Write`, `HandleError` | `bNotifyReadable`, `bNotifyWritable`, epoll interest | the two setters, and `Read`, `Write` and `HandleError` on readiness |
| WakeupSignal, FileWatchSource | `LoopbreakDescriptor` 1627-1668, `InotifyDescriptor` 2190-2242 | the handle (`MySocket`) | constructors (the inotify one may throw), destructors; `Read` forwards to the reactor, `Write` throws |
| Descriptor handles | `EventableDescriptor` constructor, destructor, `Close` (71-210); `SetAttached` | `MySocket`, `bAttached`, the process's descriptor table, the poll set | every kind's construction and deletion, fatal-error `Close` |
| Reactor | `em.cpp`, not in `src/` | poll set, handle table, timer queue | collects the ready events of a pass, then calls `Write`, `Read` and `HandleError` for each descriptor in that order (ed.cpp's comments at 944 and 698); runs due heartbeats; deletes a descriptor once `ShouldDelete()` holds |

The reactor is single-threaded. It runs one descriptor's handler to
completion, then the next one. Descriptors interact in two places:

- Proxy links. A source's `Read` calls its target's `SendOutboundData`, which
  can pause the source. The target's `_WriteOutboundData` can resume the
  source. The destructor of either side unwinds the link.
- The reactor's pending-close counter, which every `ScheduleClose` and every
  destructor touches.
- The process's descriptor table and the poll set. Every descriptor's
  `Close` releases a handle the kernel hands to the next socket, and
  deregisters it from the poll set the reactor shares.
- The reactor's pass. The ready events of every descriptor are collected
  before any is dispatched, so a callback of one descriptor can change the
  state of another whose readiness has already been collected.

### Hard behaviours in the code

- Partial `writev` over several pages, and failed writes
  (`_WriteOutboundData`).
- Epoll interest recomputation. A stale `EPOLLOUT` with an empty queue trips
  `assert(nbytes > 0)`.
- Close requests that arrive in any order from the application, the peer,
  errors and timeouts.
- A proxy byte limit that falls inside a chunk.
- Backpressure pause and resume across two descriptors.
- Teardown of a descriptor that is linked on both sides.
- Heartbeat deadlines computed from the real time, checked against a cached
  loop time.
- Readiness collected at the start of a pass and dispatched after earlier
  callbacks of the same pass have changed the state it was collected for.
- The TLS drain loop, the once-only handshake event, and plaintext that
  waits inside the adaptor while the handshake runs.

The hazards are listed one by one, each at its line, in `PROJECT.json`
"hazards".

## 2. Modules

| Module | Models | Composition |
|---|---|---|
| `ByteStream` | Abstract spec: what the outbound side of a stream promises. Bytes are named by their position, and the peer receives a prefix of what was queued, in order, without loss or duplication. | none |
| `Connection` | One `ConnectionDescriptor` with its outbound pages, without TLS and not watch-only. | Implements `ByteStream` under `queued <- Unsent(OutboundPages)`, `sent <- wire`. |
| `MCConnection` | Bounds for `Connection`. | `EXTENDS Connection` |
| `Proxy` | A set of connected descriptors joined by proxy links, with outbound queues abstracted to their byte counts. | Shares the close operators of `Connection`. Each descriptor is a record in `ed`. |
| `MCProxy` | Bounds and symmetry for `Proxy`. | `EXTENDS Proxy` |
| `Heartbeat` | The timeouts of one `ConnectionDescriptor`, and the reactor's heartbeat dispatch. The dispatch is modelled from the spec, because `em.cpp` is not in `src/`. | Uses the same close operators |
| `MCHeartbeat` | Bounds for `Heartbeat`. | `EXTENDS Heartbeat` |
| `DatagramChannel` | Abstract spec: what the outbound side of a message socket promises. Datagrams are named 1, 2, 3, ... in the order they are queued. A step takes a prefix of the queue off and carries an ordered selection of it to the network. | none |
| `Datagram` | One `DatagramDescriptor`: its per-message queue, read and write bursts, heartbeat and deletion. | Implements `DatagramChannel` under `issued <- nextId - 1`, `queue <- Ids(OutboundPages)`, `carried <- wire`. |
| `MCDatagram` | Bounds for `Datagram`. | `EXTENDS Datagram` |
| `Acceptor` | One `AcceptorDescriptor`, with the kernel's accept queue in front of it and the process's descriptor table behind it. | Accepted connections only hold a descriptor here; their life is `Connection`. |
| `MCAcceptor` | Bounds for `Acceptor`. | `EXTENDS Acceptor` |
| `Tls` | The TLS plumbing of one `ConnectionDescriptor`, an adaptor written from the spec (`SslBox_t` is in `ssl.cpp`, outside `src/`), and the peer on the other end of the socket. | Its close operators are those of `Connection`; outbound pages are whole ciphertext records, and partial writes are left to `Connection`. |
| `MCTls` | Bounds for `Tls`. | `EXTENDS Tls` |
| `WatchOnly` | One `ConnectionDescriptor` in watch-only mode, with the socket's readiness and a reactor pass modelled from the spec and ed.cpp's comments. | Stands alone: watch-only connections do no I/O, so none of `Connection`'s data path applies. |
| `MCWatchOnly` | The model checked as it is (it has no constants). | `EXTENDS WatchOnly` |
| `Lifecycle` | The handle of descriptors of every kind (own socket, attached handle, wake pipe, inotify) from construction to deletion, against the process's descriptor table and the poll set. | The per-kind data paths are the other modules; here only `MySocket`, `bAttached`, `bCloseNow` and the destructor chain. |
| `MCLifecycle` | Three descriptors under symmetry, handles 0..5. | `EXTENDS Lifecycle` |

### How `Connection` corresponds to the code

- Variables are the descriptor's fields: `MySocketValid`, `bCloseNow`,
  `bCloseAfterWriting`, `bConnectPending`, `bPaused`, `OutboundPages`,
  `OutboundDataSize`, the epoll interest bits `epollIn`/`epollOut`,
  `UnbindReasonCode`, and the reactor's `NumCloseScheduled`.
- `deleted` marks that the destructor has run.
- `nextByte` and `wire` are history. They number the bytes the application
  sends and record what the peer received.
- A page is `[first, len, off]`. `first` is the number of its first byte.
- `Gathered` is the `writev` gather of up to `IovMax` pages.
- `ConsumeSent` is the loop at 1283-1303 that frees fully sent pages and
  advances the offset of the first partly sent one.
- Actions, one per handler: `Read`, `ConnectCompleted`, `ConnectFailed`,
  `WriteOutboundData(n)`, `WriteFailed`, `HandleError`, `Delete` (the
  destructor), `SendOutboundData(len)`, `AppScheduleClose`, `Pause`,
  `Resume`.
- Each action ends with the `_UpdateEvents` call of its handler.
- `Read` covers the whole burst at once, with its outcome chosen among data
  then EOF, would-block, a fatal error, or a pause.

### How `Proxy` corresponds to the code

- `ed[d]` holds, for descriptor `d`:
  - `alive`, which is false once the destructor has run;
  - `valid`, the socket;
  - the close flags, `bPaused` and `OutboundDataSize`;
  - the proxy fields `ProxyTarget`, `ProxiedFrom`, `BytesToProxy`,
    `ProxiedBytes` and `MaxOutboundBufSize`;
  - `got`, the burst's `total_bytes_read > 0`;
  - history counters of bytes read, bytes handed to the application, and bytes
    forwarded.
- `StopProxy`, `ScheduleClose`, `SendOutboundData`, `GenericInboundDispatch`,
  `Resumed` and `Destroy` are operators from table to table. An action
  composes them in the order its code calls them.
- `Read()` is split into `ReadStart`, `ReadChunk` and `ReadEnd`, because a
  chunk's dispatch can pause the reader. The split stays atomic: while a burst
  is running no other action is enabled (`Idle`). This is how the
  single-threaded reactor behaves.
- `StartProxy(s, t, bufsize, length)` has two switches:
  - `AllowBusyStart` lets the application make the failing call to a busy
    target. The call leaves `ProxyTarget` set, as the code does.
  - `AllowSelfProxy` lets a descriptor proxy to itself. The code allows this.

### How `Heartbeat` corresponds to the code

- Time is discrete. `now` is `GetRealTime()`. `loopTime` is
  `GetCurrentLoopTime()`, cached by `UpdateTime` at the start of a pass.
- `Tick` advances `now`. It is disabled while a heartbeat is due or a
  deletion is pending, because the reactor's poll wait ends at the next
  deadline.
- `Activity` is the `LastActivity` stamp that `Read` (969) and
  `_WriteOutboundData` (1208) put on every read or write. It is taken with the
  loop time.
- These re-queue the heartbeat through `GetNextHeartbeat`, as their code does:
  - `SetCommInactivityTimeout`;
  - `SetPendingConnectTimeout`, which ignores 0;
  - `ConnectCompleted`, which is `SetConnectPending(false)`.
- `RunHeartbeat` is `ConnectionDescriptor::Heartbeat` followed by
  `QueueHeartbeat`. On a watch-only connection its `ScheduleClose` throws:
  `thrown` is set, and the reactor stops.
- `armedAt` is history. It records when the timeouts were last configured.
- `TimeTilNext` is the `time_til_next` of `GetNextHeartbeat` (551-556): the
  inactivity timeout, or the connect timeout while a connect is pending and
  it is shorter. Both are full timeouts.

### How `Datagram` corresponds to the code

- A page is `[id, len]`. The id is the datagram's place in queue order, and
  `len` is kept because `OutboundDataSize`, and so `ShouldDelete`, counts
  bytes. Addresses (`ReturnAddress`, the resolved address of
  `SendOutboundDatagram`) are left out, because no property depends on them.
- `QueueDatagrams` is the body that `SendOutboundData` and
  `SendOutboundDatagram` share (2046-2071). A scheduled close refuses the
  send. Otherwise a page is pushed, the size grows, and the interest becomes
  `EPOLLIN | EPOLLOUT`. `SendOutboundDatagram`'s early returns for a bad
  address change nothing, so they are not steps.
- `Read(replies)` is the whole read burst. Each dispatched datagram's
  callback may reply, and `replies` are the lengths of those replies.
- `Write(k, outs)` is the whole write burst over the first `k` pages, with
  `outs` the `sendto` results. `Burst` is the page bookkeeping: every page is
  popped and subtracted, whatever `sendto` returned. A fatal error records the
  reason, `Close()`s the socket and ends the burst. The interest is then
  recomputed with `SelectForWrite`, which tests pages, not bytes.
- Time is abstracted: `Heartbeat` may fire whenever a timeout is armed.
  `SetCommInactivityTimeout` refuses 0, so a datagram socket's timeout cannot
  be turned off.
- `Delete` is the destructor. `stranded` records how many pages it freed
  unsent.

### How `Acceptor` corresponds to the code

- `status[c]` follows client `c` through the accept path: idle, queued,
  reset by the peer, refused when the listener closed, discarded after a
  setup failure, registered, and closed.
- `backlog` is the kernel's accept queue. `openFds` counts the descriptors
  in use, and `MaxFds` is the process limit: `accept` fails with EMFILE at
  that limit.
- `Read` is `AcceptorDescriptor::Read`. `AcceptLoop` is its loop, in
  which `BurstOver` is the loop bound together with the `break` on a failed
  `accept`. `AcceptOne` is one turn: a failed `SetFdCloexec` or
  `SetSocketNonblocking` shuts down and closes the socket. Otherwise the
  connection is announced and added. What the accepted callback does to the
  new connection, and the interest computed after it (1773-1781), are
  straight-line code of `Connection`'s state and are not modelled here.
- `Connect`, `Reset` and `CloseConnection` are the environment: clients, the
  kernel, and the accepted connections' own close.
- `ListenerEvents` is the interest the constructor registers (1679):
  `EPOLLIN`, level-triggered. `Readable` is what epoll reports for it. It is
  reported while the queue is not empty, or, for an edge-triggered
  interest, only after a new arrival (`arrived`). The edge-triggered case
  is only the mutant's.

### How `WatchOnly` corresponds to the code

- `bNotifyReadable`, `bNotifyWritable` and `events` (`EpollEvent.events`)
  are the descriptor's fields. `Init` is the constructor's flags followed
  by `SetWatchOnly(true)` from `AttachFD`.
- `SelectForRead`, `SelectForWrite` and `UpdateEvents` are their
  watch-only branches and `_UpdateEvents(read, write)` with epoll.
- `SetNotifyReadable` and `SetNotifyWritable` are the setters. The
  application may call them at any step. Its callbacks, and those of other
  descriptors dispatched in the same pass, run between the reactor's steps.
- The reactor's pass is spec-modelled. `Poll` collects what epoll reports
  (`Reported`) into `ready`. `EPOLLHUP` is reported whatever the interest.
  `DispatchWrite`, `DispatchRead` and `DispatchError` take the collected
  events in the order Write, Read, HandleError. ed.cpp's comments give that
  order: "we always write before reading" (944), and Read is called before
  HandleError (698).
- `Read` and `Write` are the watch-only branches of
  `ConnectionDescriptor::Read` (955-967) and `Write` (1148-1159). A `Write`
  with notify-writable off reaches `assert(!bWatchOnly)`, which `failed`
  records; the process aborts, and nothing is enabled after it.
- `DispatchError` and `HandleErrorWrite` are `HandleError` (696-710). It
  calls `Read()`, then tests the flag again and calls `Write()`. A callback
  may run between the two.
- `SocketChanges` and `Hangup` are the environment. Detaching the fd
  (`em.cpp`'s `DetachFD`) is not modelled, so the socket stays valid.

### How `Lifecycle` corresponds to the code

- `sock` is each descriptor's `MySocket`, `kind` its class and whether it
  is attached, `closeNow` its `bCloseNow`. `holder` is the process's
  descriptor table: handles 0-2 are the standard ones, the others free, the
  application's, or a descriptor's. `reg` is the reactor's poll set, and
  `closed` records every `close()` a descriptor made and who held the
  handle then.
- `Close` is `EventableDescriptor::Close` (158-210): if the socket is valid,
  `Deregister`, then `close` unless the handle is 0-2 or attached, then
  invalidate. `SysClose` is the `close()` call. The kernel drops a closed
  handle's registrations, which Close's comment says EventMachine relies on.
- `Destructor` is the destructor chain: `DerivedDestructor`
  (`~InotifyDescriptor`, 2219-2223, which closes its handle and invalidates
  it), then `~EventableDescriptor` (129-143), whose last step is `Close`.
  Its counter and callbacks are `Connection`'s and `Proxy`'s.
- `Create` is the `LoopbreakDescriptor` constructor (1627-1643) on the wake
  pipe, or a connection's on a socket the reactor opened. `Attach` is
  `AttachFD` with `SetAttached(true)` (673-677). `CreateInotify` is the
  `InotifyDescriptor` constructor (2190-2213): `EventableDescriptor(0, em)`,
  then `inotify_init`. When it throws, the base destructor runs `Close` with
  `MySocket` = 0.
- `ScheduleClose` and `ShouldDelete` are those of the base class, for
  connections. `FatalError` is the `Close()` of a fatal read (1017-1018) or
  write (1325-1326) error. `Delete` is the reactor deleting a descriptor
  (spec-modelled): a connection once `ShouldDelete()` holds, the wake and
  inotify descriptors at teardown. `AppOpen` is the application opening a
  handle to attach, and `LowestFree` the kernel's allocation.

### How `Tls` corresponds to the code

- Data are records: a handshake flight, a chunk of application data (named
  1, 2, ... in the order the application sends it), or garbage. Flight `j`
  is sent by the client when `j` is odd; the side that sends the last
  flight completes on sending it, the other on receiving it.
- The adaptor (`box`, operators `Box...` and `Handshake`) is modelled from
  the spec, because `ssl.cpp` is not in the repository. It buffers inbound
  records (`inQ`), advances the handshake only when plaintext is asked for
  (`BoxGetPlaintext`), returns -2 on a protocol failure, queues application
  plaintext (`ptQ`) until the handshake is done, and holds at most `CtCap`
  records of produced ciphertext (`ctQ`). A client's adaptor produces its
  first flight when it is created.
- `St` packs the descriptor's fields into one record so that the code's
  loops can be written as recursive operators over it:
  - `ReadLoop` is `_DispatchInboundData`: the `GetPlaintext` loop, which
    checks the handshake before it dispatches each record. On -2 it records
    EPROTO, closes now and returns. Otherwise `_CheckHandshakeStatus` and
    `_DispatchCiphertext` follow.
  - `DispatchCiphertext` is `_DispatchCiphertext`. `DrainCiphertext` is its
    first loop, where `_SendRawOutboundData` drops records once a close is
    scheduled. `Pump` is the `PutPlaintext(NULL, 0)` loop.
  - `SendChunks` is the chunk loop of `SendOutboundData`'s TLS branch.
- The actions are the operations:
  - `StartTls`, `SendOutboundData(n)` (n chunks), `AppClose(aw)`;
  - `Read(k)`, a read that delivers `k` records to `_DispatchInboundData`;
  - `Write(k)`, which puts `k` pages on the socket;
  - `Delete`, which is `ShouldDelete`.
- `PeerRecv`, `PeerSend` and `PeerGarbage` are the peer. It answers each
  flight it receives, sends one application record once it is done, and may
  at any time send one garbage record.
- Application callbacks run no code here. A callback that sends or closes
  from inside `ReadLoop` is the same as the corresponding action taken
  just after it, except that the rest of that read's records are
  dispatched first.

## 3. Runs

| Run | Config | Expect | What it shows |
|---|---|---|---|
| `connection_pass` | `MCConnection.cfg` | pass | `OutboundBytesAccounted`: the byte count equals the unsent bytes of the pages through every partial and failed write. `InterestMatchesState`: epoll interest equals `SelectForRead`/`SelectForWrite`, and `EPOLLOUT` never has an empty gather. `CloseNeverRetracted` (action property): a close request is never withdrawn or downgraded. `CloseAfterWritingCompletes` (liveness): a close-after-writing connection that is not left paused is eventually deleted. `StreamRefinement`: `Connection` implements `ByteStream`. |
| `connection_close_counter` | `MCConnection_counter.cfg` | violation | `CloseCounterAccurate` fails. After a fatal read error, `Close()` runs without `ScheduleClose`, and the destructor still decrements `NumCloseScheduled`, to -1. |
| `proxy_pass` | `MCProxy.cfg` | pass | `ProxyLinksSymmetric`: a live source points at a live target exactly when that target points back. `InboundConserved`: every byte read goes to the application or to the target, once. `ProxyNeverExceedsLimit`: a limited proxy forwards at most its limit. |
| `proxy_busy_target` | `MCProxy_busy.cfg` | violation | `NoDanglingProxyLink` fails. d1 proxies to d2. d3's `StartProxy` to d2 throws but leaves `d3.ProxyTarget = d2`. Deleting d2 leaves d3 pointing at freed memory. |
| `heartbeat_pass` | `MCHeartbeat.cfg` | pass | `TimeoutCloseImmediate`: a timeout upgrades a pending close-after-writing to an immediate close. `InactivityCloseWithinTwice`: an idle connection is closed within twice its inactivity timeout, counted from its last activity or re-configuration, whichever is later. `ConnectCloseWithinPeriod`: a pending connect is closed before one more connect timeout has passed after its deadline, a bound stated independently of the model's `TimeTilNext`. The slack is needed: with an inactivity timeout of 2 and a connect timeout of 3, the close comes at 4. |
| `datagram_pass` | `MCDatagram.cfg` | pass | `TypeOK` includes the spec's invariant that `OutboundDataSize` is the bytes still queued. `WriteArmedOnlyWithPages`: the assertion at 1971 holds, so an open socket armed for `EPOLLOUT` has a page. `QueuedDatagramLeaves` (liveness): every queued datagram, empty ones too, eventually leaves the queue. `DatagramRefinement`: `Datagram` implements `DatagramChannel`, so what is sent is an ordered selection of what was queued. |
| `acceptor_pass` | `MCAcceptor.cfg` | pass | `NoFdLeak`: the process holds exactly the listener and the registered connections, through setup failures part way through a burst. `QueuedClientAcceptedBelowLimit` (liveness): a queued client is eventually accepted, reset or refused, unless the descriptor table fills. A burst that stops at its count leaves clients queued, and the level-triggered listener is reported again. |
| `tls_pass` | `MCTls.cfg` | pass | `HandshakeEventOnceFirst`: the application sees the handshake event at most once, and before any decrypted data. `HandshakeSignalledWhenDone`: a completed handshake has been signalled between events, also when it completed on input without plaintext. `CiphertextFlushed`: between events on a connection that is not closing, the adaptor holds no ciphertext, and once the handshake is done no plaintext, even though it has room for only one record. `HandshakeProgress` (liveness): a started handshake completes or the connection is deleted, also against a garbage-sending peer. |
| `tls_after_writing` | `MCTls_afterwriting.cfg` | violation | `AfterWritingSendsTls` fails. A server starts TLS and the application sends before the handshake is done, so the plaintext waits in the adaptor. A close after writing follows. `ShouldDelete` counts only `OutboundPages`, which is empty, so the connection is deleted and the plaintext is never sent. |
| `watchonly_pass` | `MCWatchOnly.cfg` | pass | `InterestFollowsNotify`: at every step the epoll interest has `EPOLLIN` exactly when notify-readable is on, and `EPOLLOUT` exactly when notify-writable is on. `NotifyDelivered` (liveness): a notify event that the application keeps asking for, on a socket that stays ready for it, is fired. |
| `watchonly_stale_write` | `MCWatchOnly_stale.cfg` | violation | `WriteOnlyWhenNotifying` fails, so `assert(!bWatchOnly)` at 1159 is reachable. Notify-writable is on, and the poll reports `EPOLLOUT`. A callback earlier in the pass turns notify-writable off. The collected `EPOLLOUT` is still dispatched, and `Write` falls past its notify branch. |
| `lifecycle_pass` | `MCLifecycle.cfg` | pass | `NoForeignClose`: a descriptor only closes a handle it holds. That covers the failed inotify constructor's `Close` of handle 0, attached handles, and a handle a fatal error closed and the kernel handed on before deletion. `FdsReleased`: a deleted descriptor holds no handle. `RegisteredOnlyLive`: the poll set names only live descriptors on the handles they hold. `~InotifyDescriptor` skips `Deregister` (2221), where the spec says `Close` deregisters before releasing, so this holds there only because the kernel forgets a closed handle. An attached handle, left open, needs the `Deregister`. The run reaches 30,756 states. |

Each property of a passing run has a mutant in `PROJECT.json`. A mutant is a
variant of a mapped definition, for example:

- `_SendRawOutboundData` without the zero-length guard;
- a failed write that is not reset to 0;
- a missing `_UpdateEvents`;
- a `ScheduleClose` that overwrites;
- a strict `ShouldDelete`;
- a requeue at the wrong end;
- a write of more than is queued;
- a destructor that does not detach its source;
- a dispatch that drops the remainder, or forwards past the limit;
- a datagram `Write` that subtracts only the sent datagrams' bytes, or
  requeues a blocked datagram at the back;
- a send that arms `EPOLLOUT` before its close test;
- the pre-15Nov07 `SelectForWrite` that tests bytes;
- an accept turn that skips a failed socket without closing it;
- `_CheckHandshakeStatus` without its `bHandshakeSignaled` test;
- `_DispatchInboundData` without the check after its loop;
- `_DispatchCiphertext` as a single pass instead of `do ... while (did_work)`;
- `StartTls` that does not drain the new adaptor;
- `GetNextHeartbeat` without its connect-pending branch;
- an edge-triggered listener;
- a `Close` that closes handles 0-2, that never closes, or that closes
  without `Deregister`;
- a `SetNotifyReadable` that recomputes the write side, or a
  `SetNotifyWritable` that does not recompute at all.

The property of its run catches each one.

### Bounds

- `MCConnection`: 4 bytes in pages of up to 2 bytes, and `writev` of at most
  2 pages. Queues of up to 4 pages are therefore longer than one gather, so
  partial writes can stop inside the first page, inside a later page, or at
  the iovec cap. The run reaches 1,776 states.
- `MCProxy`: 2 descriptors under symmetry. Reads are bursts of 2 chunks of up
  to 2 bytes, at most 2 bytes in all. The application sends while a queue
  holds fewer than 1 byte. The threshold is 1, and the limit is 0 or 1.
  These bounds are enough for a limit to fall inside a chunk, with a
  remainder; for a sink to go above its threshold and drain back; and for
  proxying in both directions and to oneself. The run reaches 2.18M states in
  about a minute.
- `MCHeartbeat`: timeouts of 2 and 4 ticks, a connect timeout of 2 or 3
  ticks, a quantum of 1, and a horizon of 12 ticks. This is room for a
  timeout, a check that finds recent activity, and the re-armed timeout
  after it. The run reaches about 151,000 states.
- `MCDatagram`: 4 datagrams of 0 or 1 byte, and read and write bursts of 2.
  A write burst can therefore stop at its count with pages left, a queue can
  hold only empty datagrams, and a read can queue two replies at once. The
  run reaches 1,974 states.
- `MCAcceptor`: 3 clients, bursts of 2 accepts, and a limit of 3 descriptors
  (the listener plus two connections). A burst can stop at its count, at
  EMFILE part way through, or after a setup failure. With one discarded
  client, a burst can stop at its count below the limit, which is the case
  the liveness property is about. The run reaches 4,508 states.
- `MCTls`: both roles, a three-flight handshake, an adaptor with room for
  one ciphertext record, 2 chunks of application plaintext, and one record
  from the peer plus at most one garbage record. Three flights give each
  role one completion case: the client completes on output, without any
  plaintext, and the server completes on input that may carry data. One
  record of room makes the drain loop go round more than once when two
  chunks are queued. The run reaches 3,296 states.
- `MCWatchOnly`: no bounds are needed. The state is two notify flags, the
  interest, the socket's readiness and the pass's collected events, so TLC
  explores all of it (320 states).
- `MCLifecycle`: 3 descriptors under symmetry and handles 0..5, so 3 free
  handles. Three descriptors can be of different kinds at once, with one
  attached handle among them. The table can fill, so the inotify
  constructor's failure path is reached either way. A handle closed by a
  fatal error is handed to the next descriptor before the first is deleted.
  The run reaches 30,756 states.
- The busy-target run needs a third descriptor.

### Fairness

- `Connection`:
  - weak fairness on `Delete`: the reactor's cleanup pass runs every
    iteration;
  - weak fairness on connect completion or failure: the kernel settles a
    pending connect;
  - weak fairness on writes: a peer that reads accepts bytes.
- `Proxy`:
  - weak fairness on finishing a read burst and on writes;
  - strong fairness on `Delete`. The reactor tests `ShouldDelete()` on every
    pass, so a deletion that is enabled in infinitely many passes happens,
    even if the application's calls interleave.
- `Datagram`: weak fairness on `Write` and `Delete`. The reactor calls
  `Write` whenever the armed socket is writable, and it deletes on every
  pass. Each `sendto` outcome is left free, because a blocked or failed send
  still pops the datagram.
- `Acceptor`: weak fairness on `Read` and on deleting the listener. The
  reactor polls on every pass, and calls `Read` whenever epoll reports the
  listener. No fairness is assumed for the application closing connections,
  which is what lets EMFILE last.
- `WatchOnly`: weak fairness on `Poll` and on each dispatch step. The
  reactor runs pass after pass, and dispatches every event it has
  collected. The application's calls and the socket's readiness get no
  fairness.
- `Tls`: weak fairness on `Read`, `Write`, `Delete` and on the peer
  receiving. The socket is level-triggered both ways, the reactor deletes on
  every pass, and a peer's TLS stack answers what it receives. The peer's
  own sends and its garbage get no fairness. Weak fairness of `Read` is
  written out with `ReadReady`, its enabling condition: a read is enabled
  exactly when records wait on a live TLS connection. With `WF_vars`, TLC
  would evaluate the whole read loop to decide `ENABLED`, which is far
  slower.
- `Lifecycle`: no fairness; its properties are invariants, and deletion
  may never happen.
- `Heartbeat`: no fairness is needed, because its properties are invariants.
  The reactor's promptness is in the guard of `Tick`.
- No fairness is assumed for the application's calls, the peer's data, or
  errors.

## 4. Plan for the remaining sittings

1. Compose `Tls` with `Connection`, so that ciphertext records become byte
   pages with partial writes. Alternatively, give `ReadLoop` a callback that
   re-enters `SendOutboundData`.
2. Give `Connection` the reactor pass of `WatchOnly`, with readiness
   collected before dispatch. A `Pause` from another descriptor's callback
   then meets a collected `EPOLLIN` (hazard at 983).
3. Refine `Proxy` against `Connection`, giving the sink its page queue, if
   the state space allows.

## 5. Not modelled

- The reactor (`em.cpp`) is outside `src/`. The modules model only what
  ed.cpp relies on: the heartbeat queue, level-triggered readiness, and a
  pass that collects readiness and then dispatches it. The handle table,
  descriptor adding and removal, timers and `DetachFD` are not modelled.
- OpenSSL, and `SslBox` beyond what the spec says of it (`Tls` models it
  abstractly). Also not modelled: the peer-verify callback, the
  certificate and cipher getters, `SetTlsParms`, and the TLS-path return
  value of `SendOutboundData` (a constant 1).
- Findings of earlier sittings are kept as definitions but no longer as
  runs, to keep the set of runs small:
  - `Heartbeat.HeartbeatNeverThrows` fails. A watch-only connection never
    stamps `LastActivity`, so once it has an inactivity timeout its
    heartbeat expires. `ScheduleClose` then throws "cannot close watch only
    connections" from the reactor's timer dispatch (1617, 720-721).
  - `Datagram.AfterWritingFlushes` fails. A reply of length 0 is queued,
    then a close after writing. `ShouldDelete` sees `OutboundDataSize` = 0,
    and the destructor frees the datagram unsent (229).
  - `Heartbeat.InactivityCloseOnTime` fails. The spec's deadline is the
    time left on the timeout. The code re-arms a full timeout after a check
    that finds recent activity, so the connection stays open up to about
    twice the timeout (553). `InactivityCloseWithinTwice` and
    `ConnectCloseWithinPeriod` are the bounds that hold.
  - `Acceptor.QueuedClientServed` fails. When the descriptor table is full,
    every `accept` fails with EMFILE, and `Read` treats that as an empty
    queue (1745-1751). A queued client then waits while the listener stays
    readable. `QueuedClientAcceptedBelowLimit` is the bound that holds.
  - `Proxy.PausedSourceResumed` fails. A paused source is resumed only by
    a write of its current sink, and a paused descriptor does not write
    (884-885). TLC's trace restarts the proxy to a drained sink. With
    restarts excluded, the mutual case remains: two connections proxying
    to each other, each paused by the other. The spec's backpressure
    contract mentions neither.
  `tls_after_writing` reports the same weakness of `ShouldDelete` for data
  held in the TLS adaptor.
- Keepalive and socket-name helpers: pure `setsockopt`/`getsockname`
  wrappers.
- `LoopbreakDescriptor::Read` and `InotifyDescriptor::Read` only call the
  reactor (`_ReadLoopBreaker`, `_ReadInotifyEvents`, in `em.cpp`); their
  `Write`s throw and are never dispatched. `Lifecycle` models their handles.
- `Lifecycle` does not carry `NumCloseScheduled`. The failed inotify
  constructor decrements it without an increment, as the fatal error of
  `connection_close_counter` does.
- The `(unsigned int)` cast in the pause test (764) wraps only at 4 GiB
  queues, beyond any bound TLC can explore.
- The resume test's `<` (1278), where the spec says at or below the
  threshold, is modelled in `Proxy.Resumed` but is not a run of its own. A
  queue that drains to exactly the threshold is not empty, so the sink writes
  again and resumes its source then.
- `DatagramDescriptor::Write` calls `Modify` after a fatal error has
  `Close()`d the socket (2009). A send after that `Close`, but before
  deletion, does the same (2064), because `Close()` schedules no close.
  `Datagram.Write` models the call. Whether it harms anything depends on
  `em.cpp`'s `Modify`, which is not in this repository, so no property
  checks it. `ConnectionDescriptor::_UpdateEvents` guards the same call
  (622).
- A hung-up watch-only socket with both notify flags off is reported on
  every pass (`Poll` stays enabled in `WatchOnly`). `HandleError` does
  nothing for it, so the reactor spins until the application detaches the
  descriptor. No property states this: spinning is not a state predicate,
  and detaching is in `em.cpp`.
