# Garden in TLA+

Specifications, model-checking runs and machine-checked proofs for
`code.cloudfoundry.org/garden`: the server that lets clients create, use and
destroy containers of a pluggable backend, and that destroys a container nobody
has used for its grace time.

## The system

| Part | State | Operations | Source |
| --- | --- | --- | --- |
| `TimeBomb` | lock, countdown, pause count, defused flag, a Go timer | `Strap`, `Pause`, `Unpause`, `Defuse`, `Reset` | `server/timebomb` |
| `Bomberman` | a map handle → bomb, owned by one goroutine | signals on unbuffered channels: strap, defuse, reset, pause, unpause, cleanup | `server/bomberman` |
| Request handlers | one goroutine per request | 26 routes: query the backend; create; destroy; look up, pause, call, unpause; set the grace time | `server/request_handling.go` |
| Reaper | one goroutine per fired timer, the set `destroys` | `reapContainer`, then the cleanup signal | `server/server.go` |
| Server lifecycle | `started`, `stopping`, idle connections, a wait group | `Start`, `SetupBomberman`, `Serve`, `Stop`, the `ConnState` callback | `server/server.go` |
| Streamer, `chanWriter` | a map of streams, channels of 4000 entries | `Stream`, `ServeStdout`, `ServeStderr`, `Stop`, deletion after a grace time | `server/streamer`, `server/chanwriter.go` |
| Process sessions | a hijacked connection, stdin pipe, status channels | `handleRun`, `handleAttach`, `streamInput`, `streamProcess` | `server/request_handling.go` |
| Client | connections, exit status and stream goroutines of a process | `Run`, `Attach`, `Wait`, one method per route | `client`, `client/connection` |
| Data | errors and specs as JSON, IP ranges, routes | `MarshalJSON`, `UnmarshalJSON`, `lastIP`, the table of routes | `errors.go`, `client.go`, `container.go`, `net_out_rule.go`, `routes`, `transport` |
| Backend | the containers | external; an interface in `backend.go`, `client.go`, `container.go` | — |

How they interact. A handler that uses a container looks it up, sends *pause* to
the Bomberman, makes its call and sends *unpause* when it returns. Creating a
container is followed by *strap*, destroying it by *defuse*, a new grace time by
*reset*. A timer that runs out starts a goroutine that destroys the container
(`reapContainer`) and sends *cleanup*. Destroy requests and reapers exclude one
another through `destroys`. After a restart `SetupBomberman` straps bombs to the
containers the backend still has.

A caller uses the same interfaces (`garden.Client`, `garden.Container`) whether it
holds the backend or the client of this repository, which turns each call into an
HTTP request, for the server to turn back into a call of the backend. Run and
Attach keep their connection: it carries standard input, signals and the exit
status, while each output has a connection of its own, served by the streamer.

What is hard about it: a sender goes on when its signal has been *taken*, not
when it has been handled; a timer may have fired when the call that should stop
it arrives; everything is found by handle, and a handle may be reused; backend
calls fail; the server may die between any two steps; the exit status of a
process overtakes its output; a connection may break after the request on it
has been carried out; what JSON leaves out must not have meant anything.

## Modules

| Module | Models |
| --- | --- |
| `TimeBombOps` | the methods of `TimeBomb` as operators on its value, and Go timers as they use them |
| `TimeBomb` | one bomb, its callers in `manageBombs`, and a clock |
| `Bomberman` | `manageBombs`: one action per case of its `select`, and the hand-over of a signal |
| `Handlers` | the 26 handlers, each by the order of its steps, and the table of routes |
| `GardenServer` | the handlers, the reaper, `SetupBomberman`, crash and restart, the Bomberman and the backend, composed |
| `ServerLifecycle` | `Serve`, `Stop`, the `ConnState` callback, and the loop of `net/http` that calls it |
| `Streamer` | one stream: `chanWriter.Write`, `serve`, `drain`, `Stop` and the deletion |
| `ServerSession` | the server's side of Run and Attach: the handler, `streamInput` and the wait for the process, on top of `Streamer` |
| `ProcessSession` | the client's side of it (`Run`, `Attach`, `streamProcess`, `streamHandler`, `process`), composed with `ServerSession` over a network that breaks; implements `LocalProcess` |
| `LocalProcess` | **abstract**: what the caller of Run or Attach, and the process, may rely on, without a network |
| `GardenErrors` | the errors of `errors.go`, their status codes and their JSON |
| `Payloads` | the specs and rules that travel as JSON, and which of their fields survive |
| `NetRules` | the range constructors and `lastIP` of `net_out_rule.go`, and what they are to mean: addresses in order, and a network's addresses |
| `Router` | the routes, and how a request is built from and matched to them |
| `Connection` | each method of the client by the request it sends, and what it makes of the answer |
| `Dispatch` | each handler by what it takes out of a request, asks of the backend and writes |
| `Backend` | the containers as a caller of the interfaces sees them (external) |
| `LocalApi` | **abstract**: what the caller of the API may rely on, without a network |
| `RemoteApi` | `Connection`, `Router`, `Dispatch`, `GardenErrors`, `Payloads` and `Backend` composed; implements `LocalApi` |
| `NetAccess` | `RemoteApi` with `NetRules`: what the rules that reach the backend open |
| `MC_…` | finite instances for TLC |
| `TimeBombProofs`, `GardenServerProofs`, `ContainerProofs`, `ServerLifecycleProofs`, `StreamerProofs`, `SessionProofs`, `RouteProofs`, `RemoteProofs` | theorems and their proofs |

There are three compositions. `GardenServer` has the bomb, the Bomberman, the
handlers and the reaper: what concurrent requests do to containers.
`ProcessSession` has the client, the handler and the streamer of one process.
`RemoteApi` has everything a call passes through from the caller to the backend
and back, with the handler as one step. `ServerLifecycle` stands alone: it shares
no state with the handlers but the connection they run on.

**TimeBombOps.** A bomb is a record of the fields of the struct and of what the
Go runtime knows of its timers. Every method holds the lock throughout, so it is
one operator. Dropping a reference to a timer that has yet to fire increments
`loose`; nothing can stop such a timer.

**TimeBomb.** `Call` applies a method; `Tick` lets time pass; `Fire` starts the
goroutine of a timer that has run out, at that moment or later. `quiet` counts
the ticks since the last call, `fired` the detonations since then, so that a bomb
that is Reset after it has gone off owes a new one. `lost` remembers an `Unpause` without its
`Pause`, which the Bomberman really delivers (see `listed_in_use`).

**Bomberman.** `signal` is what `manageBombs` has taken from a channel and not
yet handled. `Send` is enabled when it is back in its `select`. The case *strap*
reads the grace time twice, in `ManageStrap` and `ManageArm`. Bombs are kept per
*incarnation* of a handle (the n-th container created under it), so that a timer
of an earlier container stays distinguishable; `timeBombs[h]` says whose bomb
the map has. Durations are abstracted away: a live timer may fire at any moment.

**GardenServer.** `pc[p]` is the step that goroutine `p` is about to take; the
steps of all handlers are shared, and `Routes[op[p]]` says which one follows.
Reading a body, a backend call and a send to the Bomberman are separate steps.
Locked sections are one step. `Crash` ends all goroutines, timers and bombs; the
backend's containers survive, and nothing is served until `SetupStrap` has run
for each of them. A client refers only to handles it was given, by the answer to
a Create or by List.

**ServerLifecycle.** `conn[c]` is where the goroutine of a connection is; each
case of `ConnState` is an action, except that StateIdle is two: its look at
`s.stopping` and its section under `s.mu`. What lies between the callbacks
(accept, read, handler, close) is external and modelled as `net/http` does it: in
particular the callback for StateNew comes after `Accept` has returned. `Stop` is
one action per statement that others can observe; it holds `startMutex`
throughout. `early` remembers the requests that were in a handler when it began.
`Serve` is called once.

**Streamer.** The n-th write of the process to a pipe is the number n. A full
channel drops a write. `select` in `serve` may take either case when both are
ready, so a reader may see `done` with output left. An error of a write ends
`serve` but not `drain`. The process may write before the stream is registered
and after it is stopped; `last` remembers what it had written at Stop. Streams
share only the map and the counter of names, so one stands for all.

**ServerSession, ProcessSession.** `up` and `down` are the payloads on the session's
connection; the n-th piece of input is `[data |-> n]`, the n-th signal or window size
`[control |-> n]`. `handler`, `input`, `client`, `source`, `waiter` and `copy[r]` say
where the goroutines are. The three cases of the handler's `select` are three actions,
enabled together when several channels are ready. `feed` is the piece that
`streamInput` is writing to the stdin pipe, which blocks until the process reads it.
`Deferred` is what the handler does on every way out: close the connection, stop the
stream. `Cut` breaks the session's connection; `broken` holds the outputs whose
connection broke. The caller sends up to `MaxPayloads` pieces of input and signals, in any
mixture. Any `MaxFaults` of the listed faults may happen, but only one in a session that
carries payloads (`MayFail`, `MaySend`).

**LocalProcess.** A process at hand: it reads the next piece of input or gets the next
signal when it likes, what it writes comes in order, and Wait returns, once, how it
ended, after all of its output. What a session may add to that is all there: it is refused
(`Refuse`), the input breaks off with an error and never with an end (`InputBreaks`), an
output breaks off (`BreaksOff`) or loses pieces that did not fit the channel, and Wait may
not know (`WaitFails`). `ProcessSession` implements it under the mapping in which the
session has begun when the stream is there (`stream # "no"`) and an output is held as long
as its connection is unbroken and found the stream (`Unbroken`); the other variables
are the session's own. Payloads, connections, channels, and the goroutines of both sides
have no counterpart: their steps are stutters.

**NetRules, NetAccess.** A byte is the set of its bits that are one, so that the `^`, `|` and
`&` of the code are the complement, the union and the intersection, for any number of bits.
`Less` compares addresses by the first bit in which they differ; that this is the order of
the numbers they stand for, and that `Nets` are the networks with a prefix for a mask, is
checked as two assumptions of `MC_RemoteApi`. `Asks[i]` are the networks that the caller of
the i-th call wants opened; `RangesAssumption` says that the call's ranges are made of them
with the functions of `net_out_rule.go`.

**Payloads.** A struct is a record under its json tags, with the value that Go gives it
when nothing is set; a pointer is a sequence of at most one element. `Marshal` drops the
fields that have their zero value (`omitempty`) and `Unmarshal` decodes into a zero
value, so that a zero that is lost comes back as zero and a pointer to zero is kept.

**Connection, Dispatch, Backend.** A call is `<<method, handle, arguments>>`.
`Request(a)` is what the client sends; `Handled(req)` what the handler then asks of the
backend; `Returned(a, r)` what the caller gets. `Backend` remembers for each container
its properties, its grace time and the last call that acted on it with its arguments:
two calls that reach the backend with different arguments are told apart. `IsCall` says
which calls Go's types allow: the fields of each argument are those of its struct. It adds
two conditions that the types do not state. The handles of a bulk call are not empty and
hold no comma, which is what joins them in the query (connection.go:551-568). And what is
put into a path stands for itself there (`Sendable`): it is one of `Names`, the strings
that are not empty and hold no `/`, `?`, `#`, `%`, `+` or control character. Rata parses the
path that it has joined, which cuts it at `?` and `#`; pat decodes `%` and `+`, and does not
match an empty last segment. A successful Run is answered with 201, all else with 200
(`StatusOf`).

**LocalApi and RemoteApi.** In `LocalApi` a call takes effect at most once, at one
moment, and returns the result of that moment; one that returns the error of a broken
connection may have taken effect or may do so later. `RemoteApi` is shown to implement
it under the mapping that gives a call its answer when the server has written one:
`Serve` is `Perform`, `ServeError` is `Refuse`, `LoseRequest` and `LoseAnswer` are
`Break`, `Reap` is `Vanish`. Two steps are in the abstract specification because the
code needs them. `StreamBreaks` is `Truncate`: when `io.Copy` of StreamOut fails midway the
handler returns as after a complete copy (request_handling.go:281-292). `GraceTimeFails` is
`Ignore`: an error of the container's SetGraceTime is logged, and the caller is told that
all went well (request_handling.go:716-723).

## Runs

| Run | Result | What it shows |
| --- | --- | --- |
| `time_bomb` | pass | every sequence of 7 calls on a bomb with countdowns 0, 1, 3: no timer is left behind, a held or defused bomb is still, an idle one detonates, and never before its current countdown has passed |
| `server` | pass | 4 requests, 2 reapers and a crash on one container: pauses match holders, no timer runs on a container in use, every container is guarded, bombs count down the current grace time |
| `server_live` | pass | the container is reaped, bombs are collected, nobody blocks, with 2 requests and a crash |
| `server_any_client` | pass | destroys are exclusive and claims are given back, with handlers of every shape, List, a failing Destroy, reuse of the handle and a crash |
| `lifecycle` | pass | 3 connections and 2 calls of Stop: the wait group counts right, `s.conns` holds resting connections only, the backend is stopped after the requests that were in flight, only an idle connection that its client keeps can hold up Stop, Serve returns after it |
| `streamer` | pass | 2 pipes that overflow, 2 readers on one or on both: output is in order, what was written before Stop is not left behind, short output is complete, the stream is deleted, readers end once the process writes no more |
| `session` | pass | a Run or an Attach with two payloads and a fault, or with two faults: `ProcessSession` implements `LocalProcess`; Wait tells the truth, after the output, and does return, and the connections are then closed; input and signals arrive in order; a signal sent before the end of the input is not left behind; stdin ends only when the client says so |
| `api` | pass | two calls out of one for every method, over connections that break: `RemoteApi` implements `LocalApi`, and NetOut, BulkNetOut and Create open exactly the networks that the caller of that call asked for |
| `time_bomb_zero` | violation | `Reset` to zero detonates at once, where the tests say a grace time of 0 never does |
| `listed_in_use` | violation | a client that got the handle from List before the Strap uses a container whose timer runs |
| `handle_reuse` | violation | the reaper destroys a new container under the handle of the one whose time ran out |
| `late_connection` | violation | a connection accepted just before the listener closed is counted after `handling.Wait`, and its request is handled after the backend was stopped |

The four violations are the entries under `findings` in `PROJECT.json`, each
with the line of the repository it contradicts.

**Bounds.** `MaxOps = 7` is enough for two nested Pause/Unpause pairs around
Resets to and from zero. `MaxQuiet = 4` exceeds the largest countdown.
Grace times are {0, 5}: the code distinguishes only zero from non-zero.
Four requests are a Create, a user, a second user or a SetGraceTime, and a
Destroy at the same time; two reapers allow the timers of two incarnations, or
of a Reset after a detonation, to run at once. One handle suffices because no
step relates two handles except through the single `signal`, where a signal for
another handle only delays. `server` and `server_live` use `MaxFailures = 0` and
`MaxIncarnation = 1` because the properties do not survive a failed Destroy or
reuse (see *Known limits* and `handle_reuse`), and the routes leave out List
(`listed_in_use`); `server_any_client` lifts all three.
Three connections are one in flight, one idle and one arriving while Stop runs;
two calls of Stop contend for `startMutex`. Channels of `Capacity = 2` with
`MaxWrites = 3` overflow, and leave more than one write to drain.
The session has one output with one write, and `MaxPayloads = 2`: two pieces of input, two
signals, or one of each, which is what it takes to see one overtake another. `MaxFaults = 2`
covers a failure during the handling of another; payloads and two faults at once are more
states than TLC finishes. A second output multiplies the states beyond
what TLC finishes. The theorems of `SessionProofs` hold for every value of both bounds and
any outputs.
In `api` two calls are enough for one to see the effect of another, at any point of its
way; the calls of `MC_RemoteApi` use every field whose zero value means something.
Addresses have two bytes of two bits, which has masks that end inside a byte, at
its edge, and nowhere; the network of all addresses is asked for with NetOut and
with BulkNetOut.
Deadlock is not checked: requests, connections and writes are finitely many, and
when all are done and no timer runs the system rests.

**Fairness.** Weak fairness of every goroutine's steps, of `SetupStrap`, of
`manageBombs` and of the firing of each timer: the Go scheduler runs what can
run, and the runtime fires timers that are due. A goroutine that waits to send
is weakly fair only because the Bomberman always comes back to its `select` and
requests are finitely many, so the channel is not taken by others for ever; Go
serves the senders of a channel in order. Nothing is assumed of clients, of the
calls on containers (`CallReturns`) or of crashes. In `ServerLifecycle`, the
goroutines of Stop and of the connections run, a handler that is not hijacked
returns, `readHeaderTimeout` is set (`New` takes it from its caller), and a read
on a connection the server has closed fails; a client need not send or hang up.
The repository's client never keeps a connection (`DisableKeepAlives` in
`connection_hijacker.go`), so that for it `OnlyIdleHoldsStop` says that Stop
always ends. In `Streamer`, the sleep of the deleting goroutine ends and readers
run: a write to a client succeeds or fails. `drain` ends when it finds the channel empty,
so a process that never stops writing may keep it going; `ReadersEnd` therefore asks that
a reader ends *or the process writes again*, which does not depend on `MaxWrites`. In `ProcessSession`, the handler, `streamInput`, the
client's goroutines and those of each output run; the process need not read, write or
exit, the caller need not send anything, the server need not stop. `RemoteApi` is
checked for safety only.

## Proofs

`TimeBombProofs`, for every set of countdowns and all bounds, from
`CountdownsAssumption` and `BoundsAssumption`. The inductive invariant `IInv`
says more than the properties: a held or defused bomb has not merely no *live*
timer but none at all (otherwise `Reset`, which restarts any timer that is not
nil, would set it ticking); the count is negative only after a lost Pause; and
the clock together with what the timer has left covers the countdown.

* `TypeCorrect`, `NoTimerIsLoose`, `HeldBombIsStill`, `WaitingBombTicks`,
  `DetonatesWhenQuiet`.

`GardenServerProofs`, for any handles, requests, reapers, routes, grace times and
bounds, from `ContainersAssumption` and `ServerAssumption`. It begins with what every
method of the bomb does to its fields (`PauseFacts`, `ResetFacts`, ...).

* `OneDestroyPerHandle` and `DestroysMatchGoroutines`. The invariant `ClaimInv`
  says that at most one goroutine is between claim and release for a handle, and
  that `destroys` holds exactly those handles. Most steps are *bystanders*: they
  move one goroutine that is outside this section and leave `destroys` alone;
  one lemma deals with all of them.
* `TypeCorrect`. The type invariant is not inductive: the grace time of a
  container is written only by a goroutine that has looked one up, and *reset*
  names a container, never "none"; `TypeInv` adds this.

`ContainerProofs`, about the same specification, for servers on which no handle is
used twice (`MaxIncarnation = 1`, an assumption of each theorem: `handle_reuse` shows
what happens otherwise), any handles, requests, reapers, grace times and crashes.

* All rest on `MadeFirst`: whatever refers to a handle (the map, a timer, a signal, a
  goroutine past its Create) does so after a container was made under it.
* `EveryContainerGuarded` (`Guarded`), when `backend.Destroy` does not fail. `GuardInv`
  adds that whoever is about to take the bomb out of the map (*defuse*, *cleanup*) does
  so for a container that is gone or claimed, and whoever is about to put one in
  (*strap*) names the container that exists, if any.
* `CountdownNeverStale` (`CountdownCurrent`).
* `EveryPauseCounted` (`PausesBalanced`), for finitely many requests of clients that do
  not list. `UseInv` says why the strap comes first: only answered handles are used
  (`KnownUsed`), a handle that is being strapped is not known (`NewUnknown`), only one
  goroutine creates it (`OneCreator`), and set-up comes before all requests; so nobody
  holds a container whose bomb is being made (`StrapUnheld`).
* `UsersStopTheClock` (`InUseNotTicking`), under all these assumptions: a container in
  use is guarded by a bomb in the map, which counts its user, and a bomb that counts
  anybody has no timer (`HeldIsStill`).

`ServerLifecycleProofs`, for any finite set of connections and any callers of
Stop, from `LifecycleAssumption`.

* `TypeCorrect`, `HandlingIsCount`, `OnlyIdleConns`, `StopWaitsForInFlight`. That
  the wait group never goes below zero needs that it *is* the number of counted
  connections (`CountInv`). A request in flight is counted, so `handling = 0`
  leaves none when Stop goes on; it keeps its connection because Stop closes only
  what it took from `s.conns`, and no connection in that set was in a handler
  when Stop began (`EarlyInv`).

`StreamerProofs`, for any pipes, readers, capacity and number of writes, from
`StreamerAssumption`.

* `TypeCorrect`: a reader that is about to write holds a write.
* `StoppedStreamIsDrained`. `StopOrder` says that what comes after Stop has a
  greater number than what came before it, and that nobody drains, or ends without
  an error, before Stop.

* `OutputInOrder`. `OrderInv` says that the channel is increasing, that what a reader
  holds or has delivered comes before all that is still in the channel, and that no two
  readers hold the same write.
* `OutputIsComplete`. `WholeInv` says that delivered, held and waiting writes of the only
  reader of a pipe together are all writes, as long as they fit the channel.

`SessionProofs`, for any outputs, statuses, and numbers of payloads and faults,
from `SessionAssumption` and `OutputsAssumption`.

* `WaitIsFaithful`. `FaithInv` says that the payloads under way to the client, and what
  the waiting goroutine has decoded, report only how the process really ended.
* `WaitAnswersOnce`. `OnceInv`: the goroutine that waits for the exit status is started
  only by a client that has not reported a failed output.
* `OnlyTheClientEndsInput`. `EofInv` says that an end of input under way was sent by the
  client, and that the pipe is untouched before the handler starts.
* `SessionTypeCorrect`. The steps of the streamer inside a session are steps of
  `Streamer` itself or leave it alone (`StreamSteps`), so that the invariants of
  `StreamerProofs` carry over (`StreamInv`).
* `WaitFollowsOutput`. `TellInv` says that who hears how the process ended hears it from
  a handler that had not stopped the stream before the process had written its last;
  `OpenInv` that every output the caller wants is being copied when the client goes on
  to the next, and that a copy ends only with the reader on the server or with its
  connection. The rest is `WholeInv` of `StreamerProofs`.
* `InputKeepsOrder`. `InputInv` says that what the process has read, what `streamInput`
  holds and what is on the connection are numbered without a gap, and to the last number
  sent as long as the connection holds; the same of signals until the process exits.
* `SessionIsLocal`, the refinement of `LocalProcess`. `LocalInv` joins all of these with
  `OrderInv` of `StreamerProofs` and three more: nothing of the session exists before its
  stream (`BegunInv`), what the waiting goroutine has decoded is a status or an error
  (`PendingInv`), and readers serve wanted outputs only (`ServedInv`). Each group of steps
  has a lemma: the handler (`LocalStarts`, `LocalHandler`), `streamInput` (`LocalInput`), the
  process (`LocalRuns`), the caller (`LocalSends`), the outputs (`LocalOutput`, where a
  write to the client is `Comes` and a failed one `BreaksOff`), and the two ways in which
  Wait gets its answer (`LocalExited`, `LocalOpenFails`); the others are stutters
  (`LocalQuiet`). That the answer comes after the output is `OutputBeforeWait` in the state
  after the step. The proof needs that no output is called as the session's own connection
  is ("main"), which `OutputsAssumption` says.

`RouteProofs`, for any arguments and for all handles, process ids and property names in
`Names`, from `NamesAssumption`, follows a call to the backend.

* `OneRoute`: no request matches two routes. `Candidate` computes the only one it can
  match, and each of the 28 routes is shown to be its own candidate.
* `RouteRoundTrip`: the router gives the handler the name, parameters, query and body that
  the client made the request from. A route is found by its name, its path has no
  parameter twice, and its request, whose last segment is not empty, matches it and so, by
  `OneRoute`, nothing else.
* `CallArrives`: what the handler asks of the backend is what the caller asked of the
  client, for every method and every call of `IsCall`. One lemma per method
  (`StopArrives`, ...) puts together the route, the parameters and what becomes of the
  arguments on the way (`ContainerComes`, `ProcessComes`, `RulesCome`, `HandlesCome`): what
  `omitempty` drops at any depth of a spec comes back as the same zero. Lookup is the
  exception, which lists the containers and looks for its handle among them.

`RemoteProofs` follows the answer back, and puts both ways together, for any slots, calls,
errors and number of losses, from `CallsAssumption` (every call is one of `IsCall`) and
`FailuresAssumption` (a failure of the backend is a Go error).

* `RoundTrip`: `UnmarshalJSON` after `MarshalJSON` gives every error of `errors.go` back
  as it was, and any other as its message. `NotFoundAgrees`: the status is 404 exactly
  for the errors that arrive as one of the two not-found types.
* `RemoteTypeCorrect` and `RemoteIsLocal`, the refinement. `RemoteInv` says of each slot
  by itself that its request is the one that its call makes, and that an answer is there
  only for a request that arrived and decodes to a result or to a known error
  (`Settled`), never to what stands for "not answered yet" in the abstract specification.
  `CallReturnable` says what each method of the backend can return, `ResultReturns` that
  the caller gets just that, and `ServedAsMeant` joins these with `CallArrives`. Then each
  step is the abstract step of its name, in a lemma of its own: `SendIsInvoke`,
  `ServeIsPerform`, `ServeErrorIsRefuse`, `StreamBreaksIsTruncate`, `GraceTimeFailsIsIgnore`,
  `ReturnIsReturn`, `LossIsBreak`, `ReapIsVanish`. Slots do not mix: `SlotByItself` carries the invariant
  over to the slots that a step does not touch.

* `NetworkRange`: for any number of bytes and of bits, the addresses of a network are those
  between the two ends that `IPRangeFromIPNet` makes. An address outside the network
  differs from the network's own in a bit of the mask; at the first such bit it is below
  the start or above the end (`FirstDifference`, `RangeIsInNet`). The other direction is
  `NetIsInRange`.
* `NetworksOpened` (`OpensTheNetworks`), from `AsksAssumption` and `RangesAssumption`
  (callers make their ranges with the functions of `net_out_rule.go`). `RangesMade` says that
  what a container remembers as its last call is a call that was made, for that container
  and with those ranges (`CallRemembers`, `RangesArrive`, which needs `CallArrives`); the
  ranges made of a network are that network by `NetworkRange` (`MadeOpens`).

Every safety property of a run is stated by a theorem. Only model-checked is liveness
(`WaitingDetonates`, `EventuallyReaped`, `BombsCollected`, `NobodyBlocked`,
`OnlyIdleHoldsStop`, `ServeEnds`, `StreamDeleted`, `ReadersEnd`, `WaitReturns`,
`SignalReachesProcess`): the prover does not handle fairness.

## Known limits of the code

Behaviour that the models show, that no line of the repository contradicts, and that
the properties therefore allow:

* When `backend.Destroy` fails in the reaper, the error is logged, the bomb is dropped
  and nothing tries again (server.go:327-333); a restart straps a new bomb. Hence
  `MaxFailures = 0` where `Guarded` and `EventuallyReaped` are checked.
* A connection that looked at `s.stopping` just before Stop and enters `s.conns` after
  the swap is closed by nobody; Stop waits until its client hangs up (server.go:133).
  `OnlyIdleHoldsStop` makes it the exception.
* A truncated StreamOut looks complete to the caller (request_handling.go:281-292), and a
  grace time that the container refuses looks set (request_handling.go:716-723).
* A process that goes on writing after Stop may keep `drain`, and so a reader, from ending
  (streamer.go:84-93).
* An Unpause whose Pause was lost leaves the count of a bomb below zero (timebomb.go:69);
  it takes a client that learned the handle from List (`listed_in_use`).
* After the end of stdin nobody reads the session's connection: signals sent later are
  not delivered (request_handling.go:1034); nor are signals behind input that the
  process does not read (request_handling.go:1036). `SignalReachesProcess` is about what was sent before the end of the input, and
  names input that is never read as its exception.
* When the second output cannot be opened, Wait reports that while the first is still
  streamed, and its connection stays open (connection.go:255).
* A client that attaches to a stream more than a grace time after its process ended gets
  no output and no error (streamer.go:110).

## Not modelled

* The backend, beyond how the code uses it; what a call does inside a container; the data
  of Info and Metrics answers, which are opaque values.
* The text of JSON, URLs and HTTP: a path is a sequence of segments, and handles,
  process ids and property names that are empty or hold `/`, `?`, `#`, `%`, `+` or a control
  character are outside the model (`Names`), as are commas in the handles of a bulk call.
  `lastIP` is taken to get a mask as long as its address, as `net.ParseCIDR` makes it.
* A failure of the server to hijack a connection after the process has started
  (request_handling.go:790-798).
* The deprecated `Start`, which serves without setting `started`; a second `Serve`
  of the same server; the file system calls of `Listen`; logging.
* Generated fakes, and scripts. The fakes are most of the lines that the modules do not
  reach.
