# A TLA+ verification of go-udt connection management

This directory has TLA+ models of the UDT implementation in `src/udt/`:
- the state machine of `udtSocket`;
- the handshake the socket runs with a peer;
- the goroutines that drive it;
- the multiplexer's routing of handshakes, and its lifetime: the mutex, the teardown and the socket ids;
- the read deadline: `SetReadDeadline`, its timers, and a Read blocked in `fetchReadPacket`;
- `Read` itself: how it takes messages from `messageIn` and copies them into the caller's buffer, in stream and datagram mode, and how `shutdown` ends it.

It also has TLC configurations that model-check small instances, and TLAPS proofs, for every value of the constants, of five invariants, of an action property of the read deadline, that the read deadline and Read each implement an abstract specification of what they promise, and that Read delivers bytes in order and can lose the tail of a message.

## The system

`src/udt/udtsocket.go` holds two revisions of the socket, one after the other:
- lines 1-372 are an older four-state socket;
- lines 373-1155 are the current one, with eight values of `sockState`. `multiplexer.go` calls a `newSocket` signature that matches neither revision exactly.

The project models the current revision.

### Goroutines and what they share

Three goroutines touch a socket's fields without any lock:

| goroutine | code | what it does |
|---|---|---|
| user | `startConnect` / `startRendezvous` (824-858) | arms the `connectWait` WaitGroup and the timers, starts the manager, sends the first handshake, blocks in `connectWait.Wait()`, then returns `connectionError()` |
| read loop | `multiplexer.goRead` → `readPacket` → `readHandshake` (multiplexer.go 271-323, udtsocket.go 932-1049, 1133-1155) | routes a datagram to a socket. A handshake moves the socket through its state machine. On success it calls `connectWait.Done()` |
| manager | `goManageConnection` (860-895), `shutdown` (1051-1087) | selects on the linger, handshake-timeout and retry channels. On timeout it runs `shutdown(Timeout)`, which also calls `connectWait.Done()` |

The manager's `select` evaluates `s.connTimeout`, `s.connRetry` and `s.lingerTimer` when it is entered. If another goroutine later assigns `nil` to a field, a select that is already waiting on the old channel is not affected.

### Components

| component | source | module | status |
|---|---|---|---|
| socket connection management | udtsocket.go 824-1087 | `UdtSocket` | partly modelled: the data-path cases of the manager are not yet modelled |
| listener | not under `src/` | `UdtSocket` (`ListenerAccept`, `ListenerRefuse`) | modelled from the spec |
| multiplexer routing | multiplexer.go 271-323 | `UdtSocket` (`Routed`) | only the routing |
| multiplexer lifetime: mutex, teardown, socket ids | multiplexer.go 51-146, 196-354 | `Multiplexer` | modelled, except goWrite and goReceiveTick |
| read deadline | udtsocket.go 502-534, 725-755 | `Deadline` | modelled; Write's deadline uses the same code and is not modelled separately |
| Read's copying | udtsocket.go 502-611, 1051-1086 | `SocketRead` | modelled without the deadline, which `Deadline` covers |
| Write, Close | udtsocket.go 612-673 | — | not modelled: both depend on `udtSocketSend` / `udtSocketRecv`, which are not under `src/` |
| RTT / rate estimators | udtsocket.go 1088-1121 | `Estimators` | modelled as pure operators, proved |
| packet-id heaps | part_000, datapacket_heap.go | `Heaps` | the searches, as one-iteration operators, proved |
| Ack2Packet codec, MTU discovery, socket options | part_000, multiplexer.go 148-194 | — | not modelled: pure I/O or serialisation |

## Module `UdtSocket`

### State

- **Fields of the socket:**
  - `sockState`
  - `initPktSeq`
  - `mtu`
  - `isDatagram`
  - `farSockID`, where `NoSock` stands for 0
  - the timer fields `connTimeout`, `connRetry` and `lingerTimer`, each TRUE when non-nil
  - `toPending`: whether the handshake-timeout channel has not ticked yet
  - `connectWait`, which is TRUE when non-nil, with `wg` the counter of the WaitGroup it points to
  - `sockShutdown` and `sockClosed`: whether each channel is closed
  - `launched`: whether `launchProcessors` has run
- **Multiplexer tables:** `sockets` and `rvSockets`, plus `accepted`, which says whether the listener has created B.
- **Goroutine program counters:**
  - the manager's pc is `mgr`; `cap` is the set of channels its current select waits on, and `sd` holds the arguments of a running `shutdown`;
  - the read loop's pc is `rl`, with `rlPkt` and `rlFrom` for a handshake being accepted;
  - the user's pc is `user`, with `dialErr` for the result.
- **Environment:**
  - `net` is the set of handshakes in flight;
  - `crashed` is the set of hosts that panicked;
  - `rvHeard` is an auxiliary variable used only by `RendezvousCompletes`.

### Actions

| action | code |
|---|---|
| `StartConnect`, `StartRendezvous` | the start functions up to `Wait()` |
| `WaitReturn` | `Wait()` returns, then `connectionError()` |
| `RhConnecting`, `RhRendezvous`, `RhConnected` | the three branches of `readHandshake` on a packet that `Routed` delivers |
| `RhAccept`, `RhRelease` | the accepting tail of the Connecting and Rendezvous branches, split at the nil test of `connectWait`. This is exactly where the manager can interleave |
| `ListenerAccept` | the `sockStateInit` branch of the socket the listener creates |
| `ListenerRefuse` | the listener's HsRefused answer, modelled from the spec |
| `FireRetry`, `FireTimeout`, `FireLinger` | the cases of the manager's select |
| `SdRelease`, `SdFinish` | `shutdown`, split at its `Done()`, so that the read loop can interleave |
| `Lose` | the network drops a datagram. Delivery leaves the datagram in `net`, so it may also be duplicated or reordered |

`Done` models `WaitGroup.Done` under the `if s.connectWait != nil` test that precedes it. A nil field or a zero counter is a panic: the host is added to `crashed` and takes no further steps.

### Abstractions

- **Time.** A timer fires at any moment after it is armed. This includes every real ordering of the 250 ms retry, the 3 s or 30 s timeout and the linger time.
- **Data.** A packet keeps only the fields `readHandshake` tests.
- **Cookies and sequence numbers.** `InitSeqs` and `MTUs` are small sets of constants.
- **Processors.** The data-path goroutines that `launchProcessors` starts are represented by the flag `launched` alone.

## Runs

`MC_UdtSocket.tla` sets `InitSeqs = {1}` and `MTUs = {1, 2}`. Two MTUs is the least number for which the lowering of `mtu` can go wrong. A single sequence number suffices because a mismatching echo is ignored by the same test as a foreign packet.

| run | cfg | expect | shows |
|---|---|---|---|
| dial_safety | `MC_UdtSocket_dial.cfg` | pass | `MtuAgree`: both ends of a dial end with the same mtu, under loss, duplication, refusal and every interleaving |
| dial_live | `MC_UdtSocket_dial_live.cfg` | pass | with an accepting listener (`ListenerRefuses = FALSE`; refusal is left out, see below): `DialReturns` (startConnect returns, or the host panicked) and `ManageExits` (a terminal socket's manager returns) |
| rendezvous_live | `MC_UdtSocket_rendezvous.cfg` | pass | the same two properties for two rendezvous peers |
| dial_ok_early | `…_dial_ok_early.cfg` | violation | `DialOkOnlyWhenConnected`: startConnect returns nil for a socket that timed out, because `shutdown` calls `Done()` (line 1064) before it writes `sockState` (1067) |
| wg_panic | `…_wg_panic.cfg` | violation | `NoWaitGroupPanic`: the accept (992) and the timeout's shutdown (1063) both pass the nil test and both call `Done` |

Three more properties are stated in `UdtSocket` and TLC finds all three violated. They have no run, because an ordinary test meets them as well:
- `DialReturns` and `ManageExits` with a refusing listener (`ListenerRefuses = TRUE`): after HsRefused (961) nothing calls `Done`, so startConnect blocks forever, and shutdown returns at once on the Refused socket, so the linger timer is never armed and the manager goroutine never exits; a test that dials a refusing listener hangs (`RefusedDialBlocks` proves that both persist once reached);
- `HandshakeTimeoutOnlyWhileConnecting`: the timeout channel the select already holds fires after the handshake (878) and shuts down a Connected socket whose manager has been idle for 3 s;
- `RendezvousCompletes`: the test `s.farSockID == 0` (1003) makes a rendezvous socket ignore every HsRendezvous, so every rendezvous ends in Timeout (`RendezvousNeverConnects` proves that no rendezvous socket connects).

- **Deadlock checking.** Every cfg sets `CHECK_DEADLOCK FALSE`. A connected pair with nothing in flight has no handshake step left; the data path that would run next is not modelled.
- **Fairness.** Weak fairness is assumed on:
  - every step of the manager;
  - the accepting tail of the read loop;
  - the return from `Wait()`.

  This holds because Go timers fire once their delay has passed, and a runnable goroutine is eventually scheduled. The network, the listener and the users are not fair: a packet may be lost forever. That is why the liveness properties allow the timeout to be the way a dial ends.

## Module `Multiplexer`

This module models one multiplexer of `multiplexer.go` over its whole life. The goroutines that share its fields are:
- the users in `Users`. Each one calls `multiplexerFor`, then `newSocket`, then sends its first handshake with `sendPacket`, and later calls `closeSocket` from its socket's manager. The users in `RvUsers` also call `startRendezvous` and, when the socket ends, `endRendezvous`.
- the listener `Lsn`, which calls `multiplexerFor` and `listenUDT` (or created the multiplexer), and later `unlistenUDT`.
- the read loop `goRead`, whose pc is `rd`.

### State

| variable | field |
|---|---|
| `registered` | the process-wide `multiplexers` map holds this multiplexer |
| `conn`, `pktOut` | `m.conn` and `m.pktOut`: open, closed, or nil |
| `socks` | the keys of `m.sockets` |
| `nextSid` | `m.nextSid`, an integer of `SidBits` bits |
| `listenSock`, `rvList` | `m.listenSock != nil` and the sockets of `m.rvSockets` |
| `holder` | which goroutine holds `servSockMutex` |
| `pc`, `mysid` | each process's program counter, and the id its `newSocket` allocated |
| `panics` | the runtime panics that happened; once one has, no goroutine takes a step |

### Actions

`checkLive` is split at every access to a shared field:
- `ClConn`: the `conn == nil` test;
- `ClLive1`: the first `isLive`;
- `ClDel`: `Delete`;
- `ClLive2`: the re-check and `Store`;
- `TdClose`, `TdConnNil`, `TdPkt`, `TdPktNil`: the four teardown statements.

`isLive` is one step, because it holds the mutex for its whole evaluation. That is also why it blocks while the mutex is held.

The read loop's dest-0 branch is two actions:
- `ReadLock` locks the mutex at line 296.
- `ReadRoute` is the rest, with three outcomes: a rendezvous match releases the mutex; otherwise a listener present releases it; with no listener nothing releases it.

`ReadNilConn` is the loop's next `m.conn.ReadFrom` after the teardown has set `m.conn` to nil. `startRendezvous` and `endRendezvous` are not under `src/`; `RvStart` and `RvEnd` model them from the spec, as a change to the list under the mutex.

### Runs

| run | expect | shows |
|---|---|---|
| mux_server | pass | with a listener for the multiplexer's whole life, `NoLockLeak` (the read loop releases the mutex after every dest-0 handshake) and `CloseCompletes` (closeSocket and unlistenUDT return) |
| mux_client | pass | `NoEndpointLeak`: with the last socket or listener going away while other goroutines dial, listen and close, once nothing uses the multiplexer and no closeSocket or unlistenUDT is under way, one of their `checkLive` calls has closed the endpoint and `pktOut`, however their two `isLive` checks interleaved. `QuiescentMux` names the states where no goroutine is inside an operation. A dead program is excluded, since the process's endpoint goes with it |
| mux_lock_leak | violation | `NoLockLeak`: without a listener, a dest-0 handshake from a peer that is not rendezvousing leaves the mutex locked (line 296) |
| mux_panic | violation | `NoPanic`: after any teardown the read loop calls `ReadFrom` on the nil `m.conn` (line 273); a socket created during the teardown sends into the closed `pktOut`; closeSocket and unlistenUDT can both tear down, and the second calls `Close` on a nil conn |

Three more properties are stated and found violated by TLC, but have no run of their own. The first two fail on the mux_client configuration:
- `MuxLifetime`: a goroutine that got the multiplexer from `multiplexerFor` registers a listener or socket after `checkLive`'s re-check, and the endpoint is closed under it.
- `NoZeroSid`: the decrementing counter hands out socket id 0 whenever `nextSid` starts at 1.
- `TerminalStateFinal` in `UdtSocket`: an accept interleaved with `shutdown(Timeout)` writes Connected after Timeout. This is the interleaving that wg_panic shows.

### Bounds

- **Users.** Two dialling users are enough: one of them dials in rendezvous mode. With the listener, three goroutines can run `checkLive` at once, and three are needed for a re-check to see a socket that a third goroutine stored.
- **Socket-id width.** `SidBits` is 2 (1 in mux_client, where the ids do not matter to its property). `nextSid` starts at every value, as `randUint32()` can.
- **Datagrams.** `DestZeroTraffic` says whether datagrams with destination 0 arrive at all.

### Fairness

- Each step after a goroutine has started an operation is weakly fair.
- Every step that takes `servSockMutex` is strongly fair, because Go's `sync.Mutex` hands the lock to a waiter in starvation mode.
- The environment's moves are not fair:
  - when a user dials;
  - when a socket ends;
  - when the listener closes;
  - when a datagram arrives.

## Module `Deadline`

The read deadline of a connected socket, with three actors:
- the user calling `SetReadDeadline` → `setDeadline` (725-750);
- a goroutine looping on `Read` → `fetchReadPacket(true)` (502-522);
- the Go runtime firing `time.Timer`s.

Messages arrive on `messageIn`. That sender, `ingestData`, is not under `src/`, so `Arrive` is modelled from the spec.

### State

| variable | code |
|---|---|
| `field` | `s.readDeadline`: a timer index or `NoTimer` (nil) |
| `passed` | `s.readDeadlinePassed` |
| `tmr[t]` | timer `t`: not created, active, fired (a value waits in `C`), or idle |
| `upc`, `udl`, `uold` | the user's position in `setDeadline`, its deadline (`zero`, `past` or `future` against `time.Now()`), and `oldTime` |
| `rpc`, `rcap`, `rres` | the reader's position, the channel its `select` waits on (`deadline`, 508-511), and the result of its last Read |
| `msgs`, `sent` | messages waiting in `messageIn` and messages arrived |
| `expired` | history: the deadline in force has passed |

`expired` changes at the points where a deadline takes effect:
- a timer of the field fires;
- a past-deadline call writes `timerPassed` (733);
- a zero-deadline call completes its drain;
- a future-deadline call `Reset`s its timer.

### Actions

- `SetCall(dl)` is setDeadline up to its blocking receive (725-739):
  - with no timer, a non-zero deadline creates one and the call ends;
  - otherwise `timerPassed` may be set, the field may be cleared, and `Stop` runs.
- `Drain` is `_, _ = <-oldTime.C` (740). It is enabled only when the old timer's channel holds a value.
- `ResetTimer` covers 741-744.
- `RdTop`, `RdMsg`, `RdTick` and `RdTimedOut` are the loop of `fetchReadPacket`. `RdAgain` is the caller's next Read.

`Stop` depends on the Go version, which the repository does not pin (it has no `go.mod`):
- before Go 1.23, a value already in `C` stays there;
- from Go 1.23, `Stop` discards it.

The constant `TimerChan` chooses between the two.

### Abstract specification and refinement

`ReadDeadline.tla` states what a read deadline promises, after spec.md line 185:
- a deadline is `none`, `armed` or `expired`;
- it changes only by a call, to the call's target, or by an armed deadline expiring;
- a call takes effect in one step (`SetDeadline`) or between its start and its return (`BeginSet` … `EndSet`);
- a Read returns an arrived message, or a timeout only while the deadline is expired.

`Deadline` maps onto it:
- `dl` is `AbsDl`: expired once `expired` holds, otherwise armed while `s.readDeadline` is set;
- `busy` is the user being inside setDeadline;
- `target` is `TargetOf(udl)`;
- `queued` is `msgs`, and `result` is `rres`.

`DeadlineRefines == Abs!Spec`, with `Abs` that instance.

Two points about the mapping:
- **A past deadline set with no timer is armed, not expired.** setDeadline creates a timer with a negative duration, which expires at its first firing. That is why the abstract `Effect("expired")` allows `armed`.
- **A hung call stays busy forever.** The abstract spec allows it, because the refinement is about safety.

### Runs

| run | cfg | expect | shows |
|---|---|---|---|
| deadline_safety | `MC_Deadline_safety.cfg` | pass | `TimeoutOnlyAfterExpiry`: against four calls of any kind and a looping reader, a Read returns ETIMEDOUT only while the deadline in force has passed. `DeadlineRefines`: the model implements `ReadDeadline` |

- **`BlockedReadTimesOut` has no run.** TLC finds it violated in two ways. A Read that blocked while no deadline was set has loaded a nil channel (509-511), so the timer that a later `SetReadDeadline(time.Now())` creates never reaches its `select`, against the comment at 749-750. And the setter's drain (740) can take the tick that a blocked Read waits for. The first is what the net.Conn deadline tests do, so an ordinary test meets it.
- **`SetDeadlineReturns` has no run.** It states that setDeadline's receive does not block forever, and TLC finds it violated. Any second call made before the first deadline has fired blocks forever, with no reader involved, so a unit test meets it.
- **Bounds.** Four calls cover all three kinds of deadline in every order that matters: create, replace, drain and reset. Two messages let a Read return data both before and after a deadline.
- **Fairness.** Weak fairness on the timers (a Go timer fires once its delay has passed) and on the steps of both goroutines. The user's calls and the arrivals are not fair.
- **Deadlock checking.** Deadlock is not checked, because the reader may wait for a message forever.

## Proofs (`UdtSocket_proofs.tla`)

- **`TypeCorrect`** proves `Spec => []TypeOK`. It rests on `TypeInit` and `TypeStep`, which has one step per action, and on the lemmas below:
  - `SendHandshakeType`: a sent handshake is a `Packet`;
  - `MinOfType` and `MinOfFacts`: facts about the lowered mtu;
  - `DoneType`: `Done` keeps the counter in {0, 1}, because it crashes the host instead of going negative;
  - `CaptureType`.
- **`MtuAgreeHolds`** proves `Spec => []MtuAgree`. `MtuAgree` is not inductive as it stands, so it is strengthened to `MtuInv`, which holds in dial mode and is the conjunction of:
  - `BState`: the listener's socket B stays Init or Connected, `accepted` iff Connected, and it never runs a handshake or a timer;
  - `NoRendezvous`: no socket of a dial is ever in Rendezvous;
  - `MtuOrder`: once accepted, `mtu[B] <= mtu[A]`, and a launched A has `mtu[A] = mtu[B]`;
  - `RespMtu`: every HsResponse of B in flight carries B's current mtu;
  - `ReqMtu`: every handshake of A in flight carries A's mtu until A launches;
  - `PendingResp`: a response the read loop is accepting came from B.

  TLC checked `MtuInv` as an invariant on a larger instance (InitSeqs={1,2}, MTUs={1,2,3}) before it was proved. `MtuStep` has one step per action, and each step shows that the action leaves B's side alone (`Frame`) or adds only a well-sized packet.
- **The early release, for every value of the constants.** `ReleaseBeforeTimeout` states, as a single step, what the dial_ok_early trace shows on the small instance. From a state where shutdown(Timeout) is about to release a waiting `startConnect` of a Connecting or Rendezvous socket, `SdRelease` leaves the counter at 0, the user still waiting and the state still open. The `connectionError` that `WaitReturn` would read is therefore nil, while the manager has yet to write Timeout.
  The hypothesis describes states that TLC's counterexample reaches. The theorem does not show that reachability for every value of the constants; only TLC does, on its instance.
- **`RendezvousNeverConnects`** proves, for every value of the constants, that in rendezvous mode no socket ever adopts a peer id, launches its processors or becomes Connected. This is the finding at 1003 as a theorem: the Rendezvous branch ignores every HsRendezvous while `farSockID` is 0, and the only write of `farSockID` it can reach is after that test (1016).
  - The inductive invariant is `RvInv`: every socket has `farSockID = NoSock`, an idle read loop, no processors, and a state in Init, Rendezvous or terminal. TLC checked it on the rendezvous configuration (16,656 states) before it was proved.
  - `RvStep` disposes of the accepting and dial-only actions by their guards. Every other action meets `RvKeeps`: it writes no peer id and moves a socket only to Rendezvous or a terminal state.
- **`RefusedDialBlocks`** proves `Spec => [](RefusedBlocked => []RefusedBlocked)` for every value of the constants. `RefusedBlocked` says that A is Refused, its dialler waits on a counter of 1, its manager is in its select with no linger timer armed or captured, and its read loop is idle.
  - The HsRefused branch (961-963) releases nothing, and shutdown returns at once on a socket that is not open (1051-1053). So no step can ever call `Done` for A, and `startConnect` never returns. Neither case of the select that returns (865-872) can fire: only shutdown arms the linger timer (1071-1075), and only the linger case closes `sockClosed`. So the manager goroutine never exits. This is the safety core of both liveness failures of a refused dial (`DialReturns`, `ManageExits`).
  - `RefusedStep` shows that A's own actions are disabled, including `FireLinger`. The retry and timeout cases recapture the select's channels without the linger timer (`AKeeps`). B's actions and the network leave A's fields alone (`AUnchanged`, `DoneOther`).
  - TLC reaches `RefusedBlocked` on the dial_safety configuration (StartConnect, ListenerRefuse, RhConnecting). The proof covers every state reached after that.
- **Constants.** The proofs assume only `ConstAssumption`.
- **Left to TLC.** Liveness (`DialReturns`, `ManageExits`) is only model-checked: TLAPS does not handle ENABLED and fairness. The action properties `DialOkOnlyWhenConnected`, `TerminalStateFinal` and `HandshakeTimeoutOnlyWhileConnecting` are violated by the code, so there is nothing to prove about them beyond the steps above.

## Proofs (`Multiplexer_proofs.tla`)

- **`TypeCorrect`** proves `Spec => []TypeOK` for every set of users and every id width. `TypeOK` is not inductive as it stands, because:
  - `Store` adds the id the user's `Alloc` chose;
  - `RvStart` adds the user to the rendezvous list.

  The inductive `TypeInv` adds that a user about to `Store` holds an allocated id, and that only rendezvous users reach `RvStart`. `SidWrap` shows that newSocket's wrapping decrement stays in `0 .. 2^SidBits - 1`.
- **`NoLockLeakWithListener`** proves `Spec => []NoLockLeak` under the hypotheses `Listener = "initial"` and `~MayUnlisten`. These are the mux_server configuration, now for every number of users.
  - The invariant is `ListenerInv`: `listenSock` stays set, and the read loop holds the mutex only in its routing step.
  - The argument is that with a listener, `ReadRoute` always leaves through one of the two branches that unlock.
  - The mux_lock_leak run shows that the hypothesis is needed.
- **`MuxAssumption`** includes `2^SidBits \in Nat \ {0}`. The provers cannot derive it without induction over the width.
- **Left to TLC.** `CloseCompletes` is liveness, so it is only model-checked.

## Proofs (`Deadline_proofs.tla`)

- **`NoSpuriousTimeout`** proves `Spec => TimeoutOnlyAfterExpiry`, for every number of calls and messages and both semantics of `Stop`.
- **`TypeCorrect`** proves `Spec => []TypeOK` along the same invariant.
- **`DeadlineRefinement`** proves `Spec => DeadlineRefines` with two lemmas:
  - `RefInit`: the initial state maps to the abstract one;
  - `RefStep`: under `IInv`, every step is an abstract step or a stutter.

  Each step maps as follows:
  - a call with no timer is `SetDeadline`;
  - otherwise a call is `BeginSet`, and the `Drain` or `ResetTimer` that returns from it is `EndSet`;
  - the first firing of the field's timer is `Expire`;
  - the two timeout returns are `ReadTimeout`, and `RdMsg` is `ReadData`.

  For `EndSet` of a past deadline, `IInv` has the conjunct that a past-deadline call being drained has already expired the deadline.
- **The invariant.** `IInv` is `TypeOK` with the strengthening `Strength`:
  - timers are created in order, at most one per call;
  - the only active timer is the field's;
  - a fired timer belongs to an expired deadline, and is the field's timer or the one being drained;
  - once `timerPassed` is set, no timer is active again and the field stays set;
  - a reader that took a tick, or a user about to `Reset`, sees no live timer.
- **The argument.** The last two conjuncts are what allow a zero-deadline drain or a `Reset` to clear `expired`. The property then follows because its two timeout returns happen from states with `passed` set or a tick taken.
- **Splitting `TypeOK`.** It is split into `BoolTypes` and `DataTypes`. Zenon proves the Boolean part, and SMT does the rest with the Boolean types as hypotheses.
- **Left to TLC.** `BlockedReadTimesOut` and `SetDeadlineReturns` are liveness, so only TLC checks them.

## Module `Estimators` and its proofs

The estimators are `applyRTT`, with `absdiff`, and `applyReceiveRates` (udtsocket.go 1088-1121). Each one updates its fields under its own lock (`rttProt`, `receiveRateProt`). An update is therefore one atomic step, and only its arithmetic matters.

**What is modelled.**
- `Ewma(x, y)` is `(x*7 + y) >> 3`. It is used for the RTT, the delivery rate and the bandwidth.
- `VarEwma(v, d)` is `(v*3 + d) >> 2`, for the RTT variance.
- `applyRTT` updates the variance with the RTT from before the sample, as line 1098 does before line 1099.
- In `applyRate`, a zero sample leaves the estimate alone.

**Why the values are naturals.** The operators work on naturals, not 32-bit words. `x*7 + y` overflows a 32-bit `uint` only for an RTT above about 600 s, or a rate above about 600 million packets/s, so the width does not matter here.

**What is proved, with no TLC run** (there is nothing concurrent to explore):
- `EwmaBetween`: a new estimate lies between the old estimate and the sample.
- `VarBetween`: the same holds for the variance, which lies between the old variance and the deviation.
- `EwmaFixedPoints`: an update leaves the estimate unchanged exactly when the sample is 0 to 7 above it.

**What this means.** Because of the floor, an estimate rising towards a steady sample stops 1 to 7 units short of it for good. For example, `bandwidth` starts at 1 and stays at 1 for every sample up to 8. A falling estimate always reaches the sample. This is the numeric_edge hazard at line 1099.

## Module `Heaps` and its proofs

`dataPacketHeap` (datapacket_heap.go) and `packetIDHeap` (part_000) are slices that container/heap keeps in heap order, with `Less` comparing `Seq`. The library guarantees one thing, and it is the only thing assumed here: the root `h[0]` is the smallest element (`RootIsMin`).

**How the searches are modelled.** A heap is a function from `0 .. n-1` to sequence numbers. Each search is a loop over an index, and its body is an operator giving the outcome of one iteration:
- `Continue(i)`: go on at index `i`;
- `Found(i)`: return the element at `i`;
- `Panic`: an out-of-range index.

The operators are `DMinIter`, `DFindIter`, `compare`, `PFindIter`, `PMinIter` and `PWrapIter`. `DFindIter` is also the search of `Remove`.

**Why one step is enough.** Suppose an iteration at index 0 goes on at index 0 while `0 < n`. Then the loop condition still holds, so the loop never returns. Proving that single step therefore proves non-termination, and no induction is needed.

**The cause.** Every search steps to `idx*2` and `idx*2+1`. The children of `i` in a 0-based heap are `2i+1` and `2i+2`, and `0*2` is `0` again.

**What is proved, for every heap:**
- `DMinNeverReturns`: `dataPacketHeap.Min` loops for ever on a non-empty heap and panics on an empty one.
- `PFindOnlyRoot`: `packetIDHeap.Find` hangs for every stored id except the minimum.
- `PMinBelowRootHangs`: `packetIDHeap.Min` hangs when its lower bound is below every stored id.
- `PWrapHangs`: the wrap-around loop of `packetIDHeap.Min` hangs on a non-empty heap.
- `DFindMisses`: in the heap 1, 2, 3, `dataPacketHeap.Find(3)` visits 0, 1 and 3, then returns nil although 3 is at index 2. A search for an id below the root hangs.

**Why there are no runs.** No caller of these methods is under `src/`, and a search is a single sequential call, so there is no interleaving for TLC to explore.

## Module `SocketRead` and its proofs

`SocketRead.tla` models the user side of a socket's inbound data path:
- `Read` in both modes (556-611);
- the non-blocking path of `fetchReadPacket`, and its blocking path with no deadline set (502-534);
- what `shutdown` does to that path (1051-1086). It makes the state terminal, then sends nil into `messageIn` to wake a blocked Read.

The deadline is left out here, because `Deadline` models it.

### State

A message is named by its arrival number `k` and has `lens[k]` bytes, and its `j`-th byte is `<<k, j>>`. The bytes' values are abstracted away; only their identity matters, so that loss, duplication and reordering can be seen.

| variable | code |
|---|---|
| `messageIn` | the channel `s.messageIn`, a sequence of arrival numbers, capacity `MsgCap`; `0` is the nil that `shutdown` sends |
| `cur` | `s.currPartialRead`, always a tail of one message: `[msg \|-> k, from \|-> j]` is bytes `j .. lens[k]` of message `k`; `msg = 0` is the nil slice |
| `open`, `sdpc` | `isOpen()`, and where `shutdown` is: before its send of nil, or done |
| `rpc` | where the Read caller is: idle, in the datagram branch, at the top of the stream loop, or about to `copy` |
| `connErr` | Read's local `connErr`, taken from `sockState` once when the call starts (557) |
| `l`, `n` | `len(p)` and `n`; `idx` is always equal to `n`, so it is not a variable of its own |
| `out` | every byte Read has copied to the caller, in order |

### Actions

- `Arrive`: the receiving side hands a payload to `messageIn`. That code (`udtSocketRecv`) is not under `src/`, so this action is modelled from the spec. It waits while the channel is full.
- `ShutdownState` (1051-1067): the `isOpen` test, then the terminal `sockState`.
- `ShutdownWake` (1086): `s.messageIn <- nil`, which blocks while the channel is full.
- `ReadCall` (536-579): a call with a buffer of length `l`, which takes `connErr`.
- `ReadDatagram` (558-573): one message, truncated to the buffer.
- `ReadLoop` (580-598): the top of the stream loop. It leaves when the buffer is full, keeps a pending partial read, or fetches. The fetch blocks only for the first packet of a call, and only while `connErr` is nil (583).
- `ReadCopy` (599-607): `copy`, then the reset to nil or the slice `currPartialRead[n:]`.

Only one Read runs at a time. The code has no lock on `currPartialRead`, so two concurrent Reads on one socket would race on it. That race is not modelled.

### Runs

| run | cfg | expect | shows |
|---|---|---|---|
| read_safety | `MC_SocketRead_safety.cfg` | pass | `DeliveredInOrder`: Read hands over the arrived bytes in arrival order, each at most once, in both modes. `ReadReturnsOnceCopied`: a Read that has copied something returns |
| read_loss | `MC_SocketRead_loss.cfg` | violation | `StreamIntact`: in stream mode, Read loses bytes. Line 602 compares the whole call's `n` with `len(s.currPartialRead)`, where it should use `thisN`. Line 606 slices by `n` as well. So once a Read has copied a first message, the rest of the next one is cut short or dropped. |

- **How the loss happens.** With a buffer of 2 and two 1-byte messages, nothing is lost, because `n >= len` holds either way. The loss needs a second message that is longer than what the call has left to copy. `MsgLens = {1, 2}` and `BufLens = {2}` are the least bounds for that.
- **Bounds of `read_safety`.** Three messages, three calls, lengths 1 and 2 for both messages and buffers, and a channel of capacity 2. These reach:
  - a message split across two calls;
  - a buffer filled from two messages;
  - a truncated datagram;
  - a full channel on which `shutdown` must wait;
  - a Read that starts after `shutdown`.
- **Fairness.** Weak fairness on `ReadStep`, because a started Read runs on its caller's goroutine. Weak fairness on `ShutdownWake`, because `shutdown` runs on the manager's goroutine. The peer and the user are not fair.
- **Deadlock checking.** Deadlock is not checked. A Read may wait for data that never comes.
- **`ShutdownUnblocksRead` has no run.** It states that once `shutdown` has sent its nil, a Read in progress returns. TLC finds it violated. A Read that started before the shutdown holds `connErr` nil (557) and keeps it, so it takes the nil as an empty packet and blocks again on the next fetch. A test that closes a socket under a blocked Read meets this.

### Proofs (`SocketRead_proofs.tla`)

| theorem | what it proves |
|---|---|
| `InvariantHolds` | `Spec => []IInv` |
| `TypeCorrect` | `Spec => []TypeOK` |
| `InOrder` | `Spec => []DeliveredInOrder` |
| `MarkerHolds` | `Spec => []MarkerInv`: the nil is in `messageIn` only once shutdown has made the state terminal |
| `ReadCopyLosesTail` | a step of `ReadCopy` that has already copied `n > 0` bytes, with the rest of the packet longer than the room left, resets the slice or cuts it short. It never keeps the bytes the caller has not yet taken. This is the loss of `read_loss`, for every length |

- **Assumptions.** Only `SocketReadAssumption`: the bounds are naturals, and the lengths and the capacity are positive.
- **The inductive invariant.** `DeliveredInOrder` is not inductive: a step appends bytes, and what keeps them in order is the state of the channel and of `cur`. `IInv` adds `Strength`:
  - the channel's messages are in arrival order;
  - every byte copied, and the pending partial read, come from messages that have arrived;
  - the pending partial read lies within its message;
  - every message still in the channel is later than the partial read, and both are later than the last byte copied;
  - a copy step has room left;
  - a datagram socket has no partial read.

  TLC checked `IInv` as an invariant on 230,248 states before it was proved.
- **The argument.** Each step appends a run of consecutive bytes of one message, which starts after the last byte copied: either the partial read, or the head of the channel. The lemmas `AppendBytes` (an ordered sequence followed by a later run stays ordered), `AppendQueue`, `TailQueue` and `FetchFacts` (what a fetch takes and leaves) carry this through each action.
- **`MarkerHolds`.** `MarkerInv` says that the nil is in the channel only once shutdown is done, and that shutdown makes the state terminal before it sends. A datagram Read that blocked and then receives the nil therefore finds the socket closed. TLC checked `MarkerInv` on the read_safety bounds before it was proved.
- **Read after a terminal state.** spec.md section 7 says that Read fails after a terminal state. No run states this, because the code breaks it in ordinary close-then-read sequences:
  - a Read called after shutdown with data still queued takes it with the non-blocking fetch (561) and returns it with no error;
  - a datagram Read woken by shutdown's nil holds the nil `connErr` it read at the start (556), so it returns 0 and no error (566).
- **Left to TLC.** `ReadReturnsOnceCopied` and `ShutdownUnblocksRead` are liveness.

## Not modelled yet

The following parts are not modelled yet:
- `Write` and `Close`;
- the older socket revision (udtsocket.go 1-372);
- the deadline in `Read`, together with the copying: `Deadline` and `SocketRead` each model one of them;
- `dataPacketHeap.UpperBound`, and the container/heap glue of both heaps (`Len`, `Less`, `Swap`, `Push`, `Pop`).

The hazards they carry are listed in `PROJECT.json` with the lines where they bite.
