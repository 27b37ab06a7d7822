# A verification project for realtime-sdk

TLA+ models of the parts of the Go realtime SDK that keep state, most of them
shared by several goroutines, the TLC configurations that check them on small instances, and
TLAPS proofs of the properties that matter most. File and line references are to
the repository (`src/`); `PROJECT.json` maps every definition to its lines.

Contents: [the system](#1-the-system), [the modules](#2-the-modules), [the
runs](#3-the-runs), [where code and documents
disagree](#4-where-code-and-documents-disagree), [the proofs](#5-the-proofs), [what is
not modelled](#6-what-is-not-modelled), [the plan](#7-the-plan).

## 1. The system

```
application ── Client ── Manager ── ConnectionStrategy (WebSocket | HTTP polling) ── server
                 │  ▲       │ forwardMessages, forwardEvents, reconnect
                 │  └── EventBus.Notify (one goroutine per handler)
                 └── HandlerRegistry.HandleMessage
```

| component | state | operations | interacts by | hard behaviour | what makes it correct |
|---|---|---|---|---|---|
| WebSocket strategy, `pkg/patterns/strategy` | `connected`, `conn`, `closeChan`, `eventChan`, `msgChan` under `ws.mu` | `Connect`, `Disconnect`, `readLoop` | posts events and messages on bounded channels | a read loop, a Disconnect and the network end the same link; fields read anew after the lock was released; channel sends under the lock | the end of each link is reported exactly once; a live link has its reader; no socket that works is lost |
| send path, same file | `sendQueue`, one `writeLoop` per link | `Send`, `SendJoinChannel`, `SendLeaveChannel` | writes to the link's connection | write loops outlive links and share one queue; several writers | an accepted message is in one place; a healthy link has a writer; one writer at a time |
| polling strategy, same file | as above, without a connection | `Connect`, `Disconnect`, `Send`, `pollLoop` | posts events | posts under the lock, stale close channel | same contract as the WebSocket strategy |
| connection manager, `pkg/connection` | `state`, `reconnectCount`, `closeChan`, `doneChan`, `wg` | `Connect`, `Disconnect`, `Close`; `forwardMessages`, `forwardEvents`, `handleConnectionLost`, `reconnect` | drives a strategy, reads its channels | dials without the lock, several goroutines that redial, Close against a dial under way | nobody is stranded in a pending state; a live link is served, visible and given up by Close |
| message dispatch, `pkg/handlers`, `pkg/client` | handlers, middlewares, default handler under a `RWMutex` | `OnMessage`, `OnAllMessages`, `SetDefaultHandler`, `OnEvent`, `Use`, `HandleMessage`, `HandleEvent`, `Clear`; the middlewares | a goroutine per message and handler, one more per timeout | registration and Close against dispatches that hold the read lock; timeouts that let it go; panics | a dispatch runs what was registered when it began; removed handlers are not called; Close gets through; errors and panics end where they should |
| event bus, `pkg/patterns/observer` | subscriptions by type and for all types, under a `RWMutex` | `Subscribe`, `SubscribeAll`, `Unsubscribe`, `Clear`, `Notify`, `NotifySync` | a goroutine per event and handler | subscriptions that come and go while events are under way; handlers run under the lock | each event is heard by its subscribers, each once; nothing after unsubscribing |
| streams, `pkg/client` | `active`, `sequence` under a mutex | `StartStream`, `SendFrame`, `End` | notifies under its mutex | frames against the end | frames lie between start and end |
| channel list, `pkg/client` | `channels` under `c.mu` | `JoinChannel`, `LeaveChannel`, `Channels` | manager, strategy, server, with no lock across | requests that fail, links that change, calls that overlap | what the list says of a channel |
| configuration, `pkg/config`, `pkg/client` | the builders' configs | `With...`, `Build`, `WithDefaults`, `Validate` | passed by value to the client | setters after the defaults | a client's config is usable, and its own |
| messages, `pkg/message`, `pkg/patterns/factory` | messages and the maps they point to | factory, `Builder`, `Clone`, the client's send methods | wait in the send queue by reference | who shares what | a message is written as it was sent |
| mock server, `pkg/mock` | `clients`, `channels`, `started` under `s.mu`, a lock per client | `Start`, `Stop`, the WebSocket handler, the envelope handlers, `BroadcastMessage`, `SimulateEvent` | one goroutine per connection, and the test's | joins, leaves, losses, broadcasts and Stop at once | channels hold registered clients only; Stop disconnects |
| Snowflake, `internal/utils` | `lastTime`, `sequence` under a mutex | `Generate` | called by anybody | sequence exhausted within a millisecond; the wall clock | ids are unique and increase |
| circuit breaker, `internal/utils` | `state`, `failures`, `lastFailure` under a mutex | `Allow`, `Success`, `Failure` | called by anybody | outcomes that come late | closed while failures in a row stay below the threshold; cools down; does not stay open |
| rate limiter, `internal/utils` | `tokens`, `lastRefill` under a mutex | `Allow`, `Wait` | called by anybody | fractions of tokens, pauses, competing waiters | no window of time exceeds burst and rate |
| retry, `internal/utils`; `calculateBackoff` | one call's | `Retry` | | overflow, zero attempts | attempts, answer and waits |
| selector, protocol, events, example | none to speak of | | | | not modelled |

`PROJECT.json` lists, under `hazards`, each place where the code can go wrong in
a way a test would hardly reach, with the properties that watch over it.

## 2. The modules

```
LinkContract  <== implemented by ==  WebSocketStrategy   HTTPPollingStrategy
                                        ^        ^
                       ConnectionManager          SendPath        MockServer

MCStandalone:       Snowflake  CircuitBreaker  RateLimiter  Retry  HTTPPollingStrategy
MCMessageDispatch:  MessageDispatch  Middleware  EventHandlers
MCClient:           Stream --> EventBus   ClientChannels   Configuration   Messages
```

`X`'s instance is in `MCX`; section 5 says where the proofs are. Parts that share no
state are checked in one run: a variable `part`, chosen at the start, says which of them
moves in a behaviour, and the others stay as they are. Every operator whose name begins
with `Bug_` is a plausible mistake in the definition that follows it; each shows that a
property can fail (`mutants` in `PROJECT.json`).

**LinkContract** is abstract: a link is raised, dropped and reported, in that
order. The manager's recovery hangs on these reports alone.

**WebSocketStrategy**: one action per step between two lock operations or channel
operations. `DialOK` and `ConnectError` are `Connect`, which holds `ws.mu` over the
dial; `DisconnectDown` and `DisconnectReport` are `Disconnect`, which holds it over a
send that may block (`mu` names the holder); `ReadTop`, `ReadMessage`, `ReadEnvelope`,
`SendEvent`, `SendMessage`, `ReadError`, `SendError`, `ReadExit` and `ReportLoss` are
the points of `readLoop` and its deferred function. Links are numbered by dial; close
channel, connection and read loop carry the number of the dial that made them, and a
read loop keeps `rconn`, its local copy of `ws.conn`. `NetworkLoss` may strike an open
connection at any time, and `ReadError` may come on one that nothing has happened to (a
close frame, a protocol error). Either makes it `"lost"`: nothing will be read from it
any more, but the socket is there until Disconnect closes it (`Unclosed`), which no read
loop does. Envelopes are of the kind that posts an event, of the kind that does not, or
messages.

**ConnectionManager** EXTENDS WebSocketStrategy: its steps take the strategy's
actions as conjuncts (`ConnectDial` does `DialOK` or `ConnectError`), as the code
calls it. `m.mu` is never held over a blocking call, so each critical section
is one action. Manager goroutines carry no identity and are counted by the point they
are at (`fwd`, `mfwd`, `redial`). `budget` bounds the application's calls.

**SendPath** EXTENDS WebSocketStrategy too: `Connect` starts a write loop beside the
read loop. A write takes two steps, so that two goroutines can be seen in one. Messages
are numbered by acceptance. `wchan` is the channel a select waits on, evaluated when it
is entered. Marshalling may fail, when a message's metadata has no JSON form.

**HTTPPollingStrategy** follows the same conventions with `hp.mu` and `pollLoop`.

**MockServer**: each connection is a client with a handler goroutine; `Testers` are
goroutines of the test. `s.mu` is visible only while `Stop` holds it over `Shutdown`
(`stopping`); the lock of a client is held while some goroutine's `target` is that
client. A connection is accepted while the listener is open, upgraded whenever its
request comes to it, and registered when `s.mu` can be had (`Accept`, `Upgrade`,
`Register`): the last two ask nobody whether the server has stopped.
`broadcastToChannel` walks the live map: members that leave during the walk are not
visited, members that join may be (`seen`, `due`). `CastNext` comes to a member and
takes its lock in one step.

**Snowflake**: generators, each with its wall clock. `Pack` is the shift-and-or
of `Generate` as arithmetic on fields of any width; `Node` is the mask of
`NewSnowflake`. The spin loop holds the mutex (`spinning`).

**MessageDispatch**: `readers` are the dispatches that hold the registry's read lock;
`call` is what waits for the write lock, and keeps new readers out as `sync.RWMutex`
does. Each of the three loops of `dispatchMessage` takes its list when it begins
(`rest`). `Expire` is the timeout middleware: it unlocks while the handlers go on.
Handlers are numbered in the order of registration, so that their calls can be told
apart. Only `OnMessage`, `OnAllMessages` and `Use` can be reached through `Client`;
`SetDefaultHandler` is a method of the registry itself.

**Middleware**: one dispatch in a chain of logging, recovery, timeout and filter
middlewares, in any order and number up to a bound. A goroutine is on its way in
or out at a place of the chain, with what comes back (`result`); a timeout starts
another one and waits for it or for its context. Handlers may return nil, an
error or a panic, or never. **EventHandlers** is `OnEvent` and `HandleEvent`, which runs
the handlers after it has let the lock go.

**EventBus**: `request` is what waits for the write lock, `syncing` the
NotifySyncs that hold the read lock; `spawned` are the goroutines of Notify. Each
loop of NotifySync visits the live map in any order. `mapped` tells types
that have an (empty) map from those that have none, as HasSubscribers does. **Stream**
EXTENDS it: `SendFrame` and `End` take the stream's mutex (`holder`) and, inside,
the bus's read lock (`NotifyStream` does `Notify`).

**ClientChannels**: a call goes through four points: `IsConnected`, the map under `c.mu`
(`Record`), the manager's look at its state (`CheckState`), the strategy's at its
connection (`TakeConn`), then the write. Between any two the link may break, end and be
dialed again. A link ends with its connection closed or gone (`"down"`), or because a
read loop ended and left the connection open (`"left"`), in which case the server keeps
its client. `requests` and `members` are those of the client of the last link. Only as
much of the manager and the strategy is modelled as such a call can see; the server's
part is `handleJoinChannel` and `handleLeaveChannel` of the mock server, and forgetting
a client some time after its connection is gone (`ServerForgets`). `overlapped`,
`crossed` and `sure` are history: the calls the properties can speak about.

**Configuration**: a field that has a default is negative, zero or positive, a
required string empty or not. **Messages**: messages refer to their maps (Metadata,
Attachments, Mentions) by number, so that sharing shows; a change flips a bit.

**CircuitBreaker**: operations overlap freely; the count and the time since the last
failure are kept as far as the code compares them. `streak` and `quiet` are history.
**RateLimiter**: tokens are counted in fractions (`Token` make one), time in ticks;
`Observe` begins a window at any time. **Retry**: multipliers are counted in parts of
one (`One`), so that they may be fractions. `Durations` is Go's conversion from float64,
which truncates, with either end of the range for what does not fit; `CalculateBackoff` is
the manager's formula.

## 3. The runs

| run | asks | bounds |
|---|---|---|
| `strategy` | fields consistent, link watched and its end reported once (`ImplementsContract`), which sockets are left behind, one reader, messages in order | 2 callers, 2 dials, 2 messages, channels of 2 |
| `manager` | nobody stranded, link served, one outage at a time, link visible, Close releases it | 2 callers; 2 Connects, a Disconnect, a Close; 2 dials, 1 reconnection attempt |
| `manager_liveness` | reconnecting ends, losses are noticed, Close completes | 2 callers; a Connect, a Close; 2 dials, 2 attempts, 1 message |
| `send` | a message is in one place, queue bound, writer present, who may be overtaken | 1 sender, 1 joiner, 1 caller, 2 dials, 2 messages, queue of 2 |
| `mock_server` | no ghost member, what Stop leaves open | 2 clients, 1 tester, 1 channel, channel lists of 2 |
| `standalone` | Snowflake: unique, ordered ids. Breaker: closed by streak, cool-down, does not stay open. Limiter: rate kept, waiters served. Retry: attempts, answer, waits. Polling: contract, alternating events, poller present | 2 generators, 4 nodes, sequences of 2, 3 milliseconds, clocks set back; 3 operations, threshold 3, timeout 2 ticks; 2 waiters, a bucket of 7/3 tokens, 2/3 token a tick, windows of 5 ticks; 240 configs with multipliers from 1/2 to 3 and durations up to 31; 2 callers, 3 connects, events 3 |
| `dispatch` | dispatches run what was registered, retired handlers stop, Close and dispatches end; errors and panics in chains, timeouts answer; event handlers run as registered | 1 goroutine that registers, 1 that closes, 2 handlers, 2 messages on 1 channel; all chains of up to 4 middlewares; 2 calls of HandleEvent, 3 handlers, 2 types |
| `client` | who hears events, calls return; frames within a stream; what Channels() may be trusted for; usable configs; messages as sent | 1 user, 2 subscriptions, 2 events at a time; 2 goroutines, 2 frames; 2 goroutines, 1 channel, 3 links, 2 requests on their way; 3 fields; 2 messages |
| `FindLostLoss`, `FindDisconnectUndone`, `FindCloseHangs`, `FindTwoWriteLoops` | see section 4 | as small as shows it |

Where a part states several things they are named conjuncts of the property the run checks:

| property | its parts |
|---|---|
| `PollsAsItSays` | `PollingTypeOK`, `EventsAlternate`, `LinkIsPolled` |
| `RetryKeepsPlan` | `RetryTypeOK`, `RetryAnswers`, `WaitsFollowFormula` |
| `RefusedAreServed` | `OpenEnds`, `WaitersAreServed` |
| `AcceptedAreKept` | `SendTypeOK`, `AcceptedOnce` |
| `MembersAreLive` | `MockTypeOK`, `NoGhostMember` |
| `HandlersRunAsRegistered` | `DispatchTypeOK`, `RunsAsRegistered`, `EventsRunAsRegistered` |
| `OutcomesComeBack` | `MiddlewareTypeOK`, `PanicsAreCaught`, `ErrorsComeBack` |
| `DispatchesEnd` | `CloseGetsThrough`, `DispatchEnds`, `TimeoutAnswers` |
| `EventsAreHeard` | `BusTypeOK`, `HeardBySubscribers`, `ClaimsAreTrue` |
| `ChannelsCanBeTrusted` | `ChannelsTypeOK`, `ListIsTrue`, `NoSilentMembership` |
| `MessagesAreKept` | `MessagesTypeOK`, `SentAsGiven` |
| `CallsReturn` | `BusCallsReturn`, `StreamCallsReturn` |

The type invariants of the strategy, the manager, Snowflake, the breaker and the limiter are
proved (section 5), and the runs do not repeat them.

Why the bounds are enough for what they show: every defect seen here needs at most one
reconnection, so two links suffice to have goroutines of a former link meet the next;
two callers suffice to interleave one call with another; channels of one or two elements
are full as soon as one event waits (in `manager_liveness` `msgChan` fills, `eventChan` has
room for all events of its two links); a sequence of two ids is exhausted by the third
call in a millisecond. In `mock_server` a client may join the same channel twice, which
is where its list and the channel's map diverge. Four middlewares make room for a
recovery outside, between and inside two timeouts. In `client`, three links let a call
see two changes of link, and channels are independent of each other. What holds for
every bound is in section 5. Symmetry is used in `manager` (callers) and `mock_server`
(clients), which check invariants only and treat those alike. Message order
(`MessagesInOrder`), the sole reader (`OneReaderPerLink`) and `OpenSocketIsOwned` are
stated up to a certain point (`overtaken`), after which the code does not keep them
(section 4).

Deadlock is checked where the system can always go on (`strategy`,
`mock_server`). It is off where it may stop: bounded calls
used up, a closed manager, a closed client, all messages handled.

**Fairness.** Safety needs none. `FairSpec` of ConnectionManager: weak fairness of each
forwarding goroutine, each reconnect goroutine, each call under way and each read loop
except waiting for the network, since the Go scheduler runs whatever can run. Nothing
forces the application to call, the network to fail, a dial to succeed or Close's
context to expire. Weak fairness is enough for the lock as well, because whoever waits
for `mu` in these runs has no rival that takes it over and over. `dispatch`: weak
fairness of the dispatches and the calls that have begun, taken together, which suffices
as none can go on without end; handlers return, except for `TimeoutAnswers`, which
assumes nothing of them. `client`: weak fairness of each call that waits for the bus and
of each NotifySync with its handlers; strong fairness of each stream call, since a
`sync.Mutex` and a `RWMutex` do not starve a waiter. `standalone`: time passes,
operations end, refused callers ask again and waiters poll. `CloseCompletes` runs with
an event channel of 4 slots, as many as its two links can fill (an error and an end
each): with a full one Close blocks (`FindCloseHangs`).

## 4. Where code and documents disagree

Four runs each show one document refuted:

- `FindLostLoss`: DESIGN.md:332, "Network errors - Trigger reconnection". A
  connection that `reconnect` has dialled and the network takes before `m.state`
  is set (manager.go:213) is never redialled.
- `FindDisconnectUndone`: client.go:97, "Disconnect closes the connection". The
  event of a wanted Disconnect is taken for a loss (manager.go:156). The state is
  Disconnected by then (:246 comes before :249), but handleConnectionLost refuses only
  Closed and Reconnecting (:163), and so redials whenever it comes to the event.
- `FindCloseHangs`: README.md:204, "Close with timeout". Close ends the receivers
  of `eventChan` before it calls a Disconnect that sends to it.
- `FindTwoWriteLoops`: README.md:265 and :267. The write loop of a lost link goes on
  and writes to the next connection beside its own loop; so does SendJoinChannel.

Other behaviours are the reason for a condition in a property that holds.
Each can be seen by removing the condition:

- After Disconnect and Connect, a read loop of the old link that has not returned
  finds the new link's fields: it may mark it down and leave its socket open
  (strategy.go:144) or read it as a second reader (:153). Hence `overtaken`, the
  history of a Connect that met such a loop, in `OpenSocketIsOwned`, `OneReaderPerLink` and
  `MessagesInOrder`.
- Every link that ends by itself leaves its socket unclosed, one on which only a read failed
  (a close frame, a protocol error) included: the deferred function of readLoop closes
  nothing (strategy.go:142-149), Disconnect returns early (:280) and the next Connect
  overwrites the field (:129), against "No resource leaks" (DESIGN.md:471).
  `OpenSocketIsOwned` says that no others are left behind.
- Concurrent Connects, or a Connect and the reconnection after a Disconnect:
  the loser gets ErrAlreadyConnected and sets Disconnected over a live link
  (manager.go:84, :98). Hence `OneSession`.
- A Connect under way when Close runs overwrites Closed (manager.go:107), and its
  link stays up (manager.go:97). `ClosedIsReleased` speaks of a state that is Closed.
- Every reconnection leaves a write loop behind (strategy.go:238), and a
  Disconnect can leave a poll loop (strategy.go:444): nothing closes the channel
  it waits on. `HealthyLinkHasWriter` and `LinkIsPolled` ask for the right one only.
- `Stop` closes registered clients only (server.go:98). A request accepted before, or until
  Shutdown has closed the listener, may be upgraded and registered at any time after: the
  handler does not look at `started` (:113-136). Hence `late` in `StopDisconnects`.
- A clock set back makes Snowflake repeat ids: `steady` in `IdsAreUnique`. So do
  two node ids that agree in their lower ten bits: `DistinctNodes`.
- A dispatch that timed out may call handlers that Close has cleared: `detached`
  in `RetiredHandlersStop`.
- `Channels()` lists "joined channels" (client.go:257), but a reconnection keeps the
  list while the server forgets it, a request that fails leaves it changed, and a join
  that overlaps a leave may end either way (client.go:195): `sure` in `ListIsTrue`,
  `overlapped` in `NoSilentMembership`, which states the one direction that survives
  reconnections. And a connection left open (above) keeps its client and its channels at
  the server, whatever is joined and left over the next link: both speak of the client
  of the link that is up.
- HasSubscribers misses handlers of all types when the last subscription to a
  type was taken back (observer.go:139): `ClaimsAreTrue` is an implication.
- A recovery outside a timeout does not catch the handlers' panics (handlers.go:192),
  and one whose value is no error is reported as success (:177): `Guarded`,
  `ErrorsComeBack`.
- Retry does not limit the first wait, a product that overflows may come out
  negative, and with a fraction for a multiplier each step loses what is after the
  point (utils.go:102): the conditions of `WaitsFollowFormula`, which asks for waits
  never above the formula, and equal to it when the multiplier is whole.
- A negative MaxReconnects, buffer size or timeout passes Validate and WithDefaults
  (config.go:67). HeartbeatInterval is set, defaulted and never used.

## 5. The proofs

TLAPS proves the following for every value of the constants that satisfies the
`ASSUME` of the module; TLC evaluates those assumptions in every run. Every invariant
and action property that a passing run checks is proved. Each proof rests on an inductive
invariant, which says besides the property what the code relies on unsaid.

| module | proves about |
|---|---|
| `LinkContract` | the contract itself |
| `WebSocketStrategyProofs` | WebSocketStrategy |
| `ConnectionManagerProofs` | ConnectionManager |
| `SendPathProofs` | SendPath |
| `StandaloneProofs` | Snowflake, CircuitBreaker, RateLimiter, Retry, HTTPPollingStrategy |
| `MockServerProofs` | MockServer |
| `DispatchProofs` | Middleware, EventHandlers, MessageDispatch and the specification that composes them |
| `ClientProofs` | EventBus, Stream, Configuration, Messages, ClientChannels |

**The link and its recovery**

- **LinkContract** `EndsAreReported`: whoever keeps the contract reports every end
  exactly once. Inductive: a link raised is up, owed or reported.
- **WebSocketStrategy.** `StrategyInv` adds to the types: while connected, the close
  channel, connection and last dial agree (`FieldsInv`); the read loops that have begun
  are those of the dials made, one about to report holds the lock, and while connected
  the last has not finished (`LoopsInv`); what a loop has in hand is what its point
  needs (`LocalsInv`). From it follow `TypeCorrect`, `ConnectedConsistent`,
  `LinkWatched`, `KeepsContract` (a refinement: Raise is DialOK, Drop is DisconnectDown
  or ReadExit, Report is the send that releases the lock) and so `EndsAreReported`. A
  second invariant (`SoleInv`), kept as long as no Connect met a stale loop, says that the
  loops of earlier dials have finished, and that a loop finishes only when its own
  connection is closed or can no longer be read: it gives `NoOrphanSocket` and
  `SoleReader`. A third relates `msgChan`, the message in hand and those read: it gives `InOrder`.
- **ConnectionManager.** `DrivesStrategy`: each step of the manager is a step of the
  strategy or leaves it alone, so all of the above holds under the manager.
  `ManagerTypeCorrect`, `PendingOwned` (an owner for each pending state) and
  `LiveLinkServed` (strengthened by `ForwardersInv`: forwarding goroutines come in
  pairs, and are there wherever a reconnect goroutine is at work). `OneOutage` is about
  a token: the link, the report that its end owes, the event in the channel, the
  forwarder that handles it, the reconnect goroutine and the first Connect hand it on to
  each other, and there is one (`OutageInv`). `LiveLinkVisible` uses it: whoever writes a
  state other than Connected holds the token, so the link is not live. `ClosedReleased`: a
  manager that says Closed over a live link is inside Close, or somebody who dialled is
  about to overwrite the state (`ReleasedInv`).
- **HTTPPollingStrategy.** `PollingKeepsContract`, the same refinement for the
  other strategy, and `PollingSaysTruly`: the holder of the lock owes the event of the
  change that it made (`LockFollows`), and the last event that waits is not the one that
  is posted next (`EventsFollow`); poll loops wait on the close channel of their connect or
  a later one, and only a closed one lets them go (`PollLoopsFollow`).
- **SendPath.** A failing write loop posts on the strategy's channel, so SendPath is not
  a refinement of WebSocketStrategy; `SendKeepsStrategy` shows that it keeps its
  invariant all the same. `WritersInv` says what a write loop took from the fields and
  when. `AcceptedKept`: one lemma for each way into and out of the queue, a loop's hand,
  a connection and those dropped. `HealthyLinkServed`: what a loop of the last dial
  loaded is of the last dial. `SentInOrder`: the queue is sorted and what has been taken
  from it is older than all it holds, whoever took it; with one loop, what is written
  comes before what is in hand.

**The server and the client**

- **MockServer** (`NoGhosts`, `StopsDisconnect`). A client is in the server's map
  exactly while its handler is between registering and cleaning up (`HandlerInv`), only
  certain points of a goroutine write or walk a channel (`GoroutineInv`), and who is
  between being accepted and being registered while the server is stopped is `late`
  (`LateInv`). The cleanup follows `client.Channels`, from which every leave takes one
  entry: the lemmas about `RemoveFirst` say that no other channel disappears from it.
- **MessageDispatch** (`RunRegistered`, `RetiredStop`). Whoever holds the read lock
  finds the lists as they were, so what has run and what is left make up the plan up to
  the present loop (`MessagesGo`); handler numbers are never used again, so that a
  handler cleared cannot come back under another registration (`NumberingOK`, which
  counts the calls that still wait for the lock). `AllParts` takes the composed
  specification apart, so that `HandlersRun` speaks of what the run checks.
- **EventHandlers** (`EventsRun`): what a call has run, followed by what is left, is the
  list it found (`CallsGo`).
- **Middleware** (`OutcomesBack`), for chains of any length: one goroutine is on its way in
  (`WayIn`), and a panic is on its way out only in the goroutine that ran the
  handlers, with no timeout and no recovery between it and them (`WayOut`).
- **EventBus** (`EventsHeard`, `RemovedStayQuiet`): while a NotifySync holds the read
  lock the subscribers of its event are those it found; each event is heard from one
  NotifySync or from the goroutines of one Notify, not from both. **Stream**
  (`FramesInOrder`): what has been published is what the stream's state says, but for
  what the holder of its mutex is about to publish (`PublishedInv`); `StreamUsesBus`:
  the bus's theorems hold with streams too.
- **ClientChannels** (`ChannelsTrusted`): when all requests on their way are taken, is a
  channel joined? (`InTheEnd`.) A call that has recorded its channel keeps it so until
  it is over (`Recorded`), and one that began before the link was dialed leaves the
  server's end alone (`Fresh`).
- **Messages** (`MessagesKept`): maps are not shared but for those of Options, which only
  the client's own messages point to (`OwnMaps`). **Configuration** (`ClientsUsable`).

**Utilities**

- **Snowflake.** `Pack` is monotone in time and sequence number and separates nodes; the
  issued ids are those with a time and number up to the last (`IdsAreAccountedFor`),
  while the clock is steady it is not behind (`ClockIsAhead`). Hence `UniqueIds`,
  `SnowflakeTypeCorrect`, `OrderedIds`, for any number of generators and widths of fields.
- **CircuitBreaker.** The breaker's count is the history's streak, its time since the
  last failure the history's, and half open means quiet (`BreakerInv`): hence
  `BreakerTypeCorrect`, `BreakerClosedByStreak` and `BreakerCoolsDown`.
- **RateLimiter.** What was allowed in the window and what could be allowed now are
  together no more than a full bucket and the inflow since the window began (`Balance`):
  hence `LimiterTypeCorrect` and `LimiterKeepsRate`. The products are left to one lemma
  (`Products`).
- **Retry** (`RetryTypeCorrect`, `RetryAnswersTruly`, `RetryPlanKept`). The next wait is
  the formula's for the next attempt (`WaitsInv`): multiplying, truncating and limiting
  step by step never gets above the power, as truncation only takes away, and comes to the
  same as limiting the power when the multiplier is whole.
  The provers know `x^n` for no variable `n`, so `RetryPlanKept` has the two
  equations that define it as a hypothesis (`PowersMultiply`); they hold in TLA+'s integers.

Some assumptions on constants say only that a placeholder is none of the values it
stands beside (`NoType`, `NoEvent`, `Nobody`), or that there are finitely many
goroutines to count (`Users`, `Callers`); `Retry` takes waits not to be negative and
multipliers to be positive fractions, `ClientChannels` begins with a link and so has
room for one.

**Only model-checked: liveness under fairness**, which is out of the prover's reach:
`ReconnectSettles`, `LossIsNoticed`, `CloseCompletes`, `DispatchesEnd`, `CallsReturn`,
`RefusedAreServed`. Nor can induction theorems that take a property as a parameter be
used; two proofs take a least counterexample of a concrete set instead (`WFMin`). None
of the proofs needs what a recursive definition computes.

## 6. What is not modelled

- Payloads, JSON, formatting, logging; the network below a connection.
- Delays: a timer may fire at any time; how long it is, is in Retry. The comment at
  manager.go:230 says `2^attempt`, the code computes `2^(attempt-1)`.
- Panics of libraries (two writers in gorilla, a map race, a WaitGroup reused):
  the state that leads to them is modelled, not the crash.
- Messages on a channel named `"*"`, for which dispatchMessage runs the wildcard handlers
  twice (handlers.go:93, :102).
- In the mock server's broadcast, the wait for a member's lock (server.go:345, :321), in
  which the member may be cleaned up: nothing is said of who is written to. That one
  goroutine at a time writes to a client is the lock's doing, and is not stated either.
- Multipliers of Retry that are zero or negative, and negative waits.
- What the server still knows of links before the last (ClientChannels).
- Handlers that call back into the registry or, from NotifySync, into the bus (they
  block on their own read lock).
- Rounding of float64 in the rate limiter and in Retry: tokens and durations are exact here.
- In messages, what values inside Metadata share; data races of an application that
  changes a message it has sent.
- ClientChannels has its own small view of manager, strategy and server, instead of
  the modules that model them: their composition is out of TLC's reach.
- The strategy selector, a map with a current entry, and BaseObserver: unused, and with
  one assignment per method there is nothing to state that the code does not say itself.
  Protocol frames (unused), event types, the factories of events, streams and frames:
  values without state. The example program.

## 7. The plan

Done, in this order: LinkContract and WebSocketStrategy (the root of all recovery),
ConnectionManager over it, SendPath, HTTPPollingStrategy, MockServer, Snowflake,
MessageDispatch; CircuitBreaker, RateLimiter, Retry; Middleware, EventHandlers;
EventBus, Stream, ClientChannels, Configuration, Messages; and the proofs, first
of the strategy and the manager's ownership, then of the utilities, then of all the rest.

Next, theorems that no run's property states yet: the order of messages (`InOrder`) up
to the manager's own channel; abstract specifications of the send path (a queue that
hands each message out once) and of the event bus (an event with the set of those who
still have to hear it), and that SendPath and EventBus implement them.
