# SpwRmap in TLA+

SpwRmap is a C++ library, with Python bindings and two command line tools, that
reads and writes the memory of SpaceWire nodes: it sends RMAP commands through a
SpaceWire-to-TCP bridge and hands the replies to the callers. This directory
models the library in TLA+, checks the models on small instances with TLC, and
proves the main results for every instance with TLAPS. `PROJECT.json` lists
which lines of the source each definition stands for.

## The system and the modules

An application thread calls `write`, `read`, `writeAsync` or `readAsync`. The
call takes a transaction ID from a pool, registers a reply callback and an error
callback under it, builds the command in a shared buffer and sends it. A second
thread, inside `runLoop`, receives frames, puts packets together, parses them,
and either dispatches a reply to the callback registered under its ID or, as a
target, answers a command. Around this the node is connected or accepts, is shut
down, and (in Python) is started and stopped by its owner.

| part of the program | source | module |
| --- | --- | --- |
| what a try of an operation promises | `README.md`, `spw_rmap_node_base.hh` | `AsyncResult` |
| transaction IDs, callback tables, the four calls, dispatch of replies, timeouts of the Python calls | `spw_rmap_tcp_node_impl.hh`, `pyspw_rmap.cc` | `Transactions` |
| reception of frames and packets | `spw_rmap_tcp_node_impl.hh`, `recvSome` of `tcp_client.cc`, `tcp_server.cc` | `ReceivePath` |
| transmission of commands, replies and time codes | `spw_rmap_tcp_node_impl.hh`, `sendAll` of both backends | `SendPath` |
| builders, parser, CRC, the fields of the replies | `packet_builder.cc`, `packet_parser.cc`, `crc.cc` | `Codec` |
| TCP between the two backends | external, as the backends use it | `Sockets` |
| `SpwRmapTCPClient`, `TCPClient`, `start`/`stop` and the worker of the Python class | `spw_rmap_tcp_node.hh`, `tcp_client.cc`, `pyspw_rmap.cc` | `ClientNode` |
| `SpwRmapTCPServer`, `TCPServer`, its loop and its shutdown | `spw_rmap_tcp_node.hh`, `tcp_server.cc` | `ServerNode` |
| a client and a server on one host name | composition | `Link` |
| `spwrmap`, `spwrmap_speedtest` | `app/*.cc` | `Tools` |

`MCTransactions` and `MCCodec` give TLC the symmetry set and the packet contents.
`ReceivePathProofs`, `SendPathProofs`, `LinkProofs`, `ToolsProofs`,
`CodecBytes` and `CodecProofs`, `TransactionsInvariant` and
`TransactionsProofs` hold the proofs. Operators
whose comment describes a mistake (`ReleaseKeepsTaken`, `FitsWhole`, ...) stand
before the definition they vary; no specification uses them. They are there to
show that each property would notice such a mistake.

### Transactions and AsyncResult

A *try* is one pass through `startWriteAsyncOperation_` or
`startReadAsyncOperation_`: one promise, one ID, one command. `<<t, n, k>>` is
the k-th try of thread t's n-th operation. One step is one critical section, or
one call made outside every lock, so all interleavings the mutexes allow are
there. `poll()` holds the mutex of a slot over several steps while it runs a
reply callback; `LockFree(i)` makes the others wait for it.

| variables | code |
| --- | --- |
| `available`, `expired` | `available_transaction_ids_`, and those in use for longer than `transaction_timeout_` |
| `replyCb`, `errorCb` | `reply_callback_`, `reply_error_callback_`, by the try that registered them |
| `promise`, `kind`, `slot` | the shared state of a try's promise, the call it belongs to, its ID |
| `pc`, `op`, `try`, `victim`, `handling`, `left` | the threads inside the calls |
| `pollPc`, `pollIdx`, `pollTry`, `pollRes`, `runs` | the thread inside `runLoop` |
| `cmds`, `replies` | the network, which may lose, delay and reorder |
| `process` | whether `std::terminate` was called |

`AcquireId`, `FindExpired`, `NoId` are `getAvailableTransactionID_`;
`ForceRelease` to `ReleaseVictim` the forced release of an expired ID with the
error handler it runs; `Install` to `SendFailRelease` the rest of the start
functions; `WaitReady`, `WaitTimeout`, `PythonTimeout` the three ways a wait
ends; `Cancel`, `CancelRelease` `cancelTransaction_`; `PollReceive` to
`PollUnlock` the dispatch of a reply in `poll()`. `set_value` on a satisfied
promise and `get()` on a broken one throw out of `noexcept` functions:
`SetValue` and `WaitReady` then end the process (a Python call passes the
exception of `get()` on).

`AsyncResult` is the abstract specification: a future goes from pending to a
value once; either its callback was called, once and before, or it reports a
failure and the callback is never called. `Transactions` implements it with
`future <- promise, calls <- runs`.

### ReceivePath

`recvAndParseOnePacket_` with `recvExact_`, `ignoreNBytes_` and `recvSome` of
either backend. A frame is its type, its length and how much of it arrives
before the connection ends; a byte is `<<frame, index>>`, so that a byte of the
wrong packet shows. `ReadHeader` covers the checks on the header, the space check
and the resize; `ReadEop`, `ReadPart`, `IgnoreEep`, `ReadTimeCode` the bodies;
`HeaderEnd`, `BodyFails`, `ReceiveError` the ends. A server's `recvExact_`
returns 0 when the peer closes and the packet is parsed as it is; a client's
returns an error. Both are modelled.

### SendPath

Application threads and the loop share `send_buf_`. The sizes are those of the
code, so that `Demand` (what the buffer is compared with and resized to),
`TotalSize` (what `build()` needs) and the frame header can be compared; contents
are the identity of the frame. `Build` is the critical section up to the send,
`Send` one `::send` of `sendAll`, `SendError` a send that fails or times out
midway. `emitTimeCode` sends without the mutex.

### Codec

The four builders, the parser and the CRC on bytes, composed as two nodes use
them: a command is built, perhaps damaged in one bit, parsed, answered as
`poll()` does, perhaps damaged, and parsed again. `damaged` records what the
inverted bit belongs to (`Part`): the path, which no CRC covers, the reply
address length of a write command, which says what its header CRC covers, or
the rest of the packet.

### Sockets, ClientNode, ServerNode, Link

`Sockets` has the server's listening sockets and the connections with the state
of the descriptor at each end; what a closed end has not received is lost. The
server sets `SO_REUSEPORT`, so a second listening socket may be bound while a
forgotten one is open (`abandoned`), and a client may get stuck at it.
`ClientNode` is one calling thread (`Start` to `RequestEnds`; Python's GIL
serialises the calls and the bindings never release it) and the worker
(`LoopCheck` to `LoopClearConnected`), with `running_`, `connected_`,
`thread_`, `thread_error_`, `shutdown_mtx_` and the backend. The loads of the
two flags by `stop` are separate steps, and so are the worker's test of
`tcp_backend_` and its call through it. `ServerNode` is the serving thread
(`AcceptOnce` to `ServeFailed`) and a thread that calls `shutdown`
(`ShutdownServer`, one step under `shutdown_mtx_`). `accept_once` goes through
all addresses, goes on after a success, and holds `shutdown_mtx_` while it
waits for a peer, as in the code. Use of a null or a destroyed backend is
recorded in `undefined` and ends the behaviour. `Link` interleaves the two.

### Tools

Both `main` functions from the range check to the exit code: the chunked write of
the pattern, the measured reads with their callback, the five-number summary, and
every way to give up. The node below is reduced to what it does for a caller.
`std::ranges::sort` is stated by its result: the k-th value is the least that k
of the values do not exceed.

## The runs

Each is `tlc -workers 2 -config <cfg> <module>`. Deadlock is checked in all of
them. The numbers are distinct states.

| cfg, module | states | what it checks |
| --- | --- | --- |
| `TransactionsThreads`, `MCTransactions` | 762,088 (with symmetry) | two threads and the loop over one ID, so that every timeout, forced release and late reply concerns an ID somebody else wants: the callback of `write`/`read` never runs after the caller has gone (`CallbackWithinCall`), callbacks run once, futures resolve after them, the loop never sets a promise twice, no ID leaks, and the refinement `ImplementsAsyncResult` |
| `TransactionsOneCaller`, `MCTransactions` | 76,439 | what holds when only one thread calls: a registered ID is not handed out again, promises are dropped only by a caller that gave up, and only a failed send can end the process |
| `TransactionsLiveness`, `MCTransactions` | 51,526 | `CallsReturn`: every call returns, replies or not; `DispatchedResolves`: a reply being dispatched resolves its future, also when the callback throws |
| `Receive`, `ReceivePath` | 894,222 | stores stay inside `recv_buf_`, the parser gets the packets sent, in order and whole, but for one that the end of a server's connection cuts short (`PacketsIntact`), the loop ends with the connection |
| `Send`, `SendPath` | 986,764 | each sender sends its own frame from inside the buffer, RMAP frames do not mix, refusals are justified, an unanswered command ends the loop |
| `CodecExchange`, `MCCodec` | 113,841 | the CRC is that of the standard, commands are understood field by field, an undamaged exchange is answered (`UndamagedAnswered`), an inverted bit behind the path is noticed (`DamageNoticed`), and one anywhere never yields a reply to another command |
| `Tools`, `Tools` | 179,784 | the pattern is written exactly, success means data read back, the summary is right, the loop thread is joined, `main` returns |
| `Link`, `Link` | 225,857 | nothing of a former worker is left when `start` connects, `stop` finds what it shuts down, a stop is not reported as an error, no client descriptor is lost; `stop` returns, a lost server is noticed, a serving loop ends with its connection, whoever ended it |

Four runs end in a counterexample: the code does not do what its documentation
says. Each checks one property.

- `TransactionsStaleCancel`, `CancelsOwnTransaction`. `README.md` says that on
  timeout "the pending transaction is cancelled". `write` and `read` decide to
  cancel after the wait; by then a late reply can have released the ID and
  another thread can have taken it. Its callbacks are cleared, and its promise
  is broken.
- `TransactionsPython`, `PythonCallbackWithinCall`. The Python calls are
  documented as synchronous, but give up after a second without cancelling: the
  callback of the finished call can still run.
- `SendReadAuto`, `AutoResizeNeverRefuses`. The policy is documented as "Auto
  resize if needed"; the length `sendReadPacket_` compares `send_buf_` with and
  resizes it to leaves out the frame header. In the run the buffer passes the
  comparison, is not resized, and `build()` refuses what is left of it. The theorem `RefusalsAreJustified`
  shows that reads are the only sends this happens to.
- `LinkStop`, `WorkerKeepsBackend`. `stop` is documented to "shut down and join
  the worker thread"; the shutdown destroys the backend before the join, possibly
  between the worker's test of the pointer and its call.

## Bounds

- *Transactions.* One ID and two threads give every conflict over a slot; two
  tries give a retry after a timeout, under an ID with a late reply. The
  one-caller run has two IDs and three operations, for reuse out of order. The
  liveness run has one try, and a write, an asynchronous read and a Python call,
  one of each way to wait. The proofs have no bounds.
- *ReceivePath.* Three frames are a part, an end and something between; lengths
  0 to 3 around a buffer of 3 lie on both sides of every check, and an ignore
  buffer of 1 is smaller than what it ignores.
- *SendPath.* A buffer of 29 bytes is the exact size for some of the frames and
  too small for others; reply addresses of 0 and 5 bytes are padded by 0 and 3.
  Two chunks per frame suffice for a send to be interrupted.
- *Codec.* Reply addresses fill 0, 1, 2 and 3 words, one with a leading zero;
  every bit of every byte is inverted. Memory addresses stay below 2^31, TLC's
  integers.
- *Link.* Two addresses, connections, starts and accepts: each loop over
  addresses goes on to another, and each second call meets what the first left.
- *Tools.* An address space of 6 (for 2^32), chunks of 2 (for 1024) and lengths
  below 4 (for 2^24) give every base and up to 4 bytes, so ranges that end with
  and beyond the address space; 1 to 5 reads give both parities of both halves.

## Fairness

Weak fairness of a thread inside a call, step by step: it is runnable, and the
waits in the calls have time limits or end with a mutex released after finitely
many steps.

- `Transactions`: each caller, whose waits have timeouts, and the dispatch of a
  reply that was received. Nothing obliges the network to deliver, an ID to
  expire, or the loop to keep running.
- `ReceivePath`: the loop, where it finds what it waits for. Not the peer.
- `Link`: the calling thread inside its call (connect and `wait_for` are
  limited), the worker and the serving thread. Not the calls themselves, not a
  `shutdown` of the server, and not `accept`, which may wait for ever: `Accept`
  is only enabled when a connection is queued, and `AcceptFails` is not fair.
- `Tools`: `main` and the loop thread. Not the target's answers: `future.wait()`
  in the speed test has no limit, and `Returns` excepts it.

## The proofs

`tlapm <module>` checks them. They hold for every value of the constants that
satisfies the `ASSUME` of the module: numbers are naturals, a thread is not the
loop, `None` is none of the tries or exit codes; in `Codec`, the fields of a
command fit their bytes, a target path has bytes below 32, and a reply address
has at most 12 bytes, as `build()` asserts, and an inverted bit is one of the
eight of a byte. TLC finds no violation of any of the
inductive invariants on the instances of the runs.

- **ReceivePath** (`ReceiveTypeCorrect`, `ReceiveInBounds`, `ReceivesPackets`,
  `WholeUnlessCut`).
  The bounds of `StoresInBounds` are inductive together with the types (`IInv`).
  `PacketsIntact` needs more: `PInv` adds that the first `total` bytes of
  `recv_buf_` are the open parts of the packet (`OpenParts`), that the next part
  is stored right behind them as long as frames arrive whole (`InPlace`), that a
  body is read only if it has bytes (`BodyHasBytes`), and that only the last frame
  of a closed connection may be cut (`FramesCut`). What a packet is, is stated over
  the frames (`Joins`, `Delivered`) and not by recursion, so that one more
  frame is one more case and no induction over data is needed. `PacketsIntact` has
  one exception (`LastCutShort`): `recvExact_` of a server reports the end of the
  connection inside a payload as 0 bytes, and `poll()` parses what came before.
  `WholeUnlessCut` says when the exception is out of the question: for a client,
  and as long as no frame is cut.
- **SendPath** (`SendTypeCorrect`, `SendBufferSafe`, `RefusalsAreJustified`,
  `FramesStayApart`, `LoopAnswersAll`). `SendsOwnFrame` alone is not inductive:
  that nobody else builds into the buffer follows from the mutex, so the
  invariant adds `Holding`, by which a thread that sends from the buffer owns it.
  `RefusalsAreJustified` is an action property; it rests on `DemandOfFrame`,
  which compares demand and need for all four packets. For what is in the
  connection a second invariant, `CInv`, is built on the first: a frame appears
  only once its sender has begun it (`Known`), of the frame being sent only
  chunks already passed to `::send` are there (`Ahead`), since its first chunk
  only it and time codes have followed (`Alone`), and all commands before the one
  in hand are answered (`Answering`).
- **Codec** (`CommandsUnderstood`, `UndamagedIsAnswered`, `DamageIsNoticed`,
  `AnswersMatch`, `CrcsArePolynomials`). Nearly all of it is about the operators.
  `CodecBytes` has the bytes: exclusive or, the CRC, numbers in bytes, and where
  the builders put each field. `CodecProofs` has the packets and the exchange.

  *Agreement.* `CrcChecks`: whatever is followed by its own CRC has the CRC
  zero; this only needs that a byte cancels itself and that the table starts with
  zero, and goes by induction on the length of the packet (`NatSteps`, induction
  for a set instead of a predicate). `HeaderShape`: `CommandHeader` puts each
  field where the parser looks for it, whatever the size of the reply address
  field. `Stripped`: padding and stripping a reply address lose nothing but its
  own leading zeros. `ParseSelects`: the path ends where it should, and the
  instruction selects the function. `ReadUnderstood`, `WriteUnderstood`,
  `ReadAnswered` and `WriteAnswered` put these together for the four packets; the
  invariants `CInv` and `AInv` carry them through the exchange.

  *The table.* An entry is eight halvings of its index by the polynomial, and
  these commute with one more. `Halve` goes round four orbits, of 127, 127, 1
  and 1 bytes, and along an orbit each entry follows from the one before
  (`TableIsPolynomial`). One halving keeps bytes apart, so the table does too.

  *Damage.* As the table is one-to-one, so is one step of the CRC in either
  argument (`CrcStepOneToOne`), and two sequences of bytes that differ in one
  byte have different CRCs. `HitNoticed` says so of what the parser checks. A bit
  in a byte that says which checks there are (the instruction, a length) changes
  the function or the length that is checked, and is treated apart, for each of
  the four packets (`ReadHit`, `WriteHit`, `ReadReplyHit`, `WriteReplyHit`). The
  invariant `DInv` says at each phase what the receiver will make of the packet.
  `AnswersMatch` follows: `ReplyMatchesCommand` holds unless a bit of a path or of
  the reply address length of a write command was inverted.

  The theorems about replies assume that reply addresses are paths of bytes below
  32 (`PathReplies`): the reply travels with its reply address in front, and
  `parse` ends the path at the first byte that is not below 32.
- **Transactions** (`TransactionsTypeCorrect`, `CallbackStaysWithinCall`,
  `CallbackRunsAtMostOnce`, `FutureAfterCallback`, `LoopNeverSetsTwice`,
  `IdsNeverLeak`). IDs are reused while replies to their former users are under
  way, so what is known of an ID says little; the invariant follows the tries.
  A try is unborn (known to its own thread only), callable (its callback is in
  the table or in the loop's hands) or neither. Its heart is `CallablePending`: a
  callable try is pending, has not run its callback, and its caller, if it is one
  that cancels, still waits. `Placement` keeps callbacks in the slot of their
  try, so that clearing a slot clears the right one, and `Settled` says that a
  thread completing a try by an error has already taken its callback away.
  `TransactionsInvariant` states it and shows it of the steps of the calls,
  `TransactionsProofs` of the loop and the network.
- **Refinement** (`NodeImplementsAsyncResult`). From that invariant, every step
  of `Transactions` is a step of `AsyncResult` or leaves futures and calls alone.
- **One caller** (`RegisteredIdsStayTaken`, `PromisesAreKept`,
  `OnlyFailedSendTerminates`, `CancelsOwnWhenAlone`).
  These have the hypothesis `OneCaller`, and need it: with two threads TLC
  violates each of them, the first three by a forced release of an ID its owner is
  still using, the last by a late cancellation of an ID that has changed hands.
  There may still be any number of IDs, operations and retries, and the loop runs
  beside the caller. `SInv` says what one thread can
  rely on: the ID it was just given is its own (`InstallOwns`), its slot holds
  nobody else's callbacks until it clears it (`OwnSlot`), a slot cleared to be
  released stays so (`StaysCleared`), and while the loop holds a slot the ID
  cannot be handed out (`LoopHolds`). `CancelsOwnWhenAlone` is the property the
  run `TransactionsStaleCancel` violates: the flaw takes a second thread.
- **Link** (`LinkTypeCorrect`, `StartIsFresh`, `StopFindsBackend`,
  `StopIsClean`, `DescriptorsOwned`). The invariant `LInv` adds where the worker
  can be for each value of the flags (`Worker`), the connection behind them
  (`Backing`), and why a worker comes out of its loop (`Cause`: a stop has begun,
  or the server's end is gone). Of the server the proofs only use that it never
  changes a client's end and never brings back an end that is gone. For the types
  the server's own state is needed too: where its loop over the addresses is, and
  that what it accepted exists (`States`, `Counters`).
- **Tools** (`ToolsTypeCorrect`, `WritesPattern`, `SuccessIsRead`,
  `LoopIsJoined`, `SummaryIsRight`). `TInv` adds that the speed test writes and reads only in a
  range that fits the address space, and reads once all is written (`Progress`),
  that what lies before `off` is written (`Written`), that there are as many
  latencies as reads that brought the pattern back (`Counted`), and where the
  loop thread is (`Threads`). `Reported` adds that what is printed was computed
  from all latencies. That it is right rests on one fact about sorting: the k-th
  value has fewer than k values below it and at least k up to it (`SortedNth`),
  and no other value has (`NthUnique`). The order of the five numbers, the halves
  on either side of the median and the mirrored quartiles follow by counting.

Only model-checked:

- all liveness, which is out of the prover's reach;
- `ReplyMatchesCommand` when a bit of a path or of the reply address length of a
  write command was inverted. A path that ends too early, or a header cut at
  another place, is then refused only because its CRC does not happen to fit,
  which depends on the addresses and data.

## Not modelled

- **Callbacks that call back** into the node. `on_complete` runs with a slot's
  mutex held; one that starts a transaction while its own ID is the expired one
  would lock it again.
- **Replies under reused IDs** are modelled; that they complete another try is a
  consequence of reuse after a timeout, which `tests/test_spw_rmap_node.cc`
  requires. No property forbids it. Nor does one say that a read reply has the
  length asked for: neither the parser nor `poll()` checks it.
- **The unlocked `reply_error_callback_[i] = nullptr`** of the error handler is an
  atomic step (`HandlerClear`), though it is a data race on a `std::function`.
- **Lengths without bound.** Frame lengths are taken to be allocatable and their
  sums not to wrap 64 bits; the recursion after error ends has no depth.
- **The parser's memory** of earlier packets: fields that a packet does not set.
- **Configuration.** `setTimeout` only moves the moment an ID expires, which is
  any moment here; `setSendTimeout` on a connected node only sets an option under
  the mutex; `registerOnRead` and `registerOnWrite` are called before the loop.
- **Backend and traffic apart.** `SendPath` assumes a backend throughout; `Link`
  carries one command and one reply at a time, each one receive, and no malformed
  packets, since its peer is this library's server.
- **Start after stop** uses a null backend. `Connect` records it and stops; the
  documentation says to launch `start()` once.
- **More than one address on a server.** `ServerNode` shows what `accept_once`
  does with them (a second wait, abandoned sockets, stuck clients), and that
  `shutdown` waits for an `accept`; nothing is promised about either.
- **The server's destructor**: in `Link` the server outlives the client.
- **Tools**: argument parsing, printing, mean and standard deviation. A reply
  comes within its try's timeout or never.
- **Target nodes** (`target_node.hh`) hold addresses, whose lengths are constants
  here. `span_caster.hh` converts arguments. The examples and `debug.hh` have no
  state of their own.
