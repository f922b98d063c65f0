# A verification project for sc_netfw

sc_netfw is a small server framework on top of libevent: one main reactor with a
selector thread, as many sub-reactors and service workers as there are cores, a
session manager, and queues between them. This directory holds TLA+ modules of
its parts, TLC configurations that check them on small instances, and proofs
that TLAPS checks for every value of the constants. `PROJECT.json` lists the
components, runs, mutants, findings, hazards and theorems, and for every
definition that models code the lines it stands for.

    tlc -workers 2 -config ReactorSafety.cfg MCReactor.tla     # a run
    tlapm OwnershipProofs.tla                                  # the proofs

## The system

| part | state | operations | talks to |
|---|---|---|---|
| Selector, Acceptor, MainReactor (`Selector.cpp`, `Acceptor.cpp`, `MainReactor.cpp`) | libevent's base, `events_` (descriptor -> event), the listener, `running_` | accept, AddEvent, DeleteEvent, dispatch of a readable descriptor, Start | SessionManager (calls), SessionDemutiplexor (callback `OnPushSession`) |
| SessionManager | `sessions_` ("ip:port" -> session) behind a mutex | AddSession, DeleteSession, GetSession, Exist | called by the selector thread and the sub-reactors |
| SessionDemutiplexor | queue `sessions_` of sessions to read, mutex, condition variable, `sub_reactors_` by thread identifier | OnPushSession, OnSessionDispatch, OnPushMessage, constructor, destructor | sub-reactors, MessageDemutiplexor |
| SubReactor | `running_`, callbacks, the packet being filled | OnDataRecv: read until EAGAIN, re-arm, push; Start, Stop | the socket, Selector::AddEvent, SessionManager::DeleteSession |
| MessageDemutiplexor, ServiceWorker | `queue_` of contexts, mutex, condition variable; per worker callbacks and `running_` | OnPushMessage, OnMessageDispatch, constructor, destructor | ServiceHandler |
| Session, SessionImpl | the descriptor, closed by the last reference | SendMessage | workers |
| DataPacket | `data_`, `capacity_`, `length_` | both constructors, PushBack, CapacityExpand, CopyFromArray, CopyToArray | sub-reactor, handler |
| NetWrapper | owns the demultiplexors and the handler | construction order, Launch | all |
| DBStore, Statement, ResultSet | `instance_`, queue of connections, mutex, condition variable; a client's statement | Init, GetConnection, PutConnection, Destory; ExecuteUpdate, ExecuteQuery, commit, rollback | client threads, MySQL |

A connection goes round: the selector accepts it, files the session under its
address and adds a one-shot edge-triggered read event. When the descriptor is
readable the selector finds the session by the address `getpeername` gives,
deletes the event and queues the session. A sub-reactor takes it, reads until
EAGAIN, adds a new read event (from its own thread) and pushes the packet to the
message queue; or, at the end of the connection, deletes the session by name.
A worker takes the packet and answers it through the session.

What is hard in this code: nothing but the one-shot event keeps two sub-reactors
from reading the same socket; sessions are found by name and live by reference
count; events are kept by descriptor number and outlive descriptors; every
thread is started and stopped by condition variables that are notified without
their mutex; the parts start in their constructors, before they are connected;
and the database pool never replaces a connection it has dropped.

What makes each part correct:

- selector and sub-reactors: a session has one owner, stays in somebody's reach, and
  is unregistered only by its own end; the process does not abort;
- queues and workers: nothing queued is forgotten while a worker sleeps; every
  thread starts and stops;
- packet: the bytes handed on are the stream, and no copy leaves its block;
- construction: the tables threads read without a lock are complete by then;
- destruction: a part outlives the threads that use it;
- database pool: a connection has one holder, carries no foreign transaction,
  a waiter is woken, and the store outlives who holds a connection.

## Modules

| module | models | checked in | proved in |
|---|---|---|---|
| `Reactor` | a connection from accept to the end of the handler: libevent events, session manager, both queues, sub-reactors, workers | `MCReactor` | `OwnershipProofs`, `StreamProofs` |
| `Turns` | what selector, queue and sub-reactors promise a connection: it is read in turns, one sub-reactor at a time, and what a turn reads is passed on once; `Reactor` implements it | `MCReactor` | `StreamProofs` |
| `MessagePool` | MessageDemutiplexor and its workers down to check, wait and notify; construction and destruction | `MCMessagePool` | `MessagePoolProofs` |
| `WorkQueue` | what the pool promises: contexts taken in order, each by one worker and once; `MessagePool` implements it | `MCMessagePool` | `MessagePoolProofs` |
| `Startup` | NetWrapper's construction while data arrives | `MCStartup` | `StartupProofs` |
| `DataPacket` | the growing buffer with every operation of its class, at the width of int | `MCDataPacket` | `DataPacketProofs` |
| `SessionWrite` | a worker's way back: SendMessage's loop of writes, peers that read, stop reading or end | `MCSessionWrite` | `SessionWriteProofs` |
| `Shutdown` | the destruction of a NetWrapper: the sub-reactors' end, and the parts threads use while the others go | `MCShutdown` | `ShutdownProofs` |
| `DBPool` | DBStore from Init to Destory, and the statements of its clients | `MCDBPool` | `DBPoolProofs` |
| `Lending` | what the store promises: a connection with one client at a time, dropped by the store only when the server has closed it, otherwise lost only by a client that uses it; `DBPool` implements it | `MCDBPool` | `DBPoolProofs` |

An operator whose comment calls it wrong, or whose name says what is missing
(`NotRecorded`, `NotNotified`), is not part of a specification.
It stands beside the operator it distorts, and `PROJECT.json` pairs the two
with the property that must fail when one replaces the other.

### Reactor

A step is what one thread does between two points where another could see the
difference: a critical section, a system call or a libevent call.

State. `idOf`, `fdOf`, `conn`, `sent`, `taken` are a session's connection as the
kernel has it. `sessions` is `SessionManager::sessions_`; `events` is
`Selector::events_`, which says whether the map's event for a descriptor is
still pending or has run; `pending` counts libevent's events on a descriptor and
`watch` is epoll's registration. `newborn` is the session
`Acceptor::OnAcceptedCallback` has on its stack. `sessionQ`, `msgQ` are the
queues; `pc`, `cur`, `datagram` a sub-reactor's place, session and packet;
`work` a worker's context. `Live` is the reference count: the places that hold
a `shared_ptr` to the session, the last of which closes the descriptor.

libevent is modelled from how `Selector.cpp` uses it: `event_add` tells epoll
about a descriptor only when it is the first pending event on it, a one-shot
event leaves the base before its callback runs, closing a descriptor takes it
out of epoll but not out of libevent. With `EdgeRace`, as in both passing runs, an
`event_add` outside the loop's thread may lose the edge it was added for: the base
is made without locks (the comment at `Selector.cpp:144`), and `epoll_wait` may
report the descriptor before the sub-reactor has put the event where the loop's
thread looks for it. The session's `watch` is then `"spent"` until its peer sends
more or ends.

`getpeername` fails on a reset connection and its result is ignored. The address
read is then uninitialised: nobody's, or one of `StaleAddr`. If it happens to be the
address of another registered session, that session is queued in its place and
ownership breaks: two sub-reactors may read one socket. What does hold is stated
of `OwnNameSpec`, the behaviours of `Spec` in which `OnDataRecv` finds the
connection's own session or none (`OwnName`).

`Accept` needs a free descriptor number: a call that fails for want of one changes
nothing, and libevent makes it again.

Abstractions: a unit is data that no read splits; a peer connects again from an
address only when its previous connection there is gone or reset; a descriptor
number is free when no live session has it; the queues are atomic FIFOs (what
`MessagePool` looks into); write and signal events are never used.

Runs:

- `ReactorSafety` - two addresses, three sessions, two descriptors, two
  sub-reactors, one unit each, with `EdgeRace`. Three sessions on two
  descriptors are the least at which an address and a descriptor are reused
  at once. An uninitialised address may be either of the two, under `OwnNameSpec`.
  `SingleOwner`: watched, queued or read, never two of them.
  `OutOfReachOnlyByEvent`: a registered session that no thread has and the loop does
  not look at (`OutOfReach`) has a stale event on its descriptor (`StaleEvent`), or
  its edge was lost (`LostEdge`), and then it has been read from before and what
  waits came after the last read. `AbortsOnlyOnReset`, `UnregisteredOnlyAtEnd`, and
  `IInv`, the invariant of the proofs; it contains `ServedIsRegistered`: what is
  queued or read is what its address names, so that `DeleteSession`, which goes by
  name, removes the right session. `TurnsSpec`: events, descriptors, addresses and
  the order of the queues forgotten, every step is one of `Turns` or none (`Watched`
  is what epoll watches, `InTurn` and `Parcel` what a sub-reactor reads and holds,
  `PassedOn` what the message side has, or has handled).
- `ReactorStream` - one address, three connections over two descriptors, two
  sub-reactors, under the fairness below; an uninitialised address may be nobody's or
  the same one. The first connection sends up to three units, the second none, the
  third one (`Sends`), they come up in order and the first is on descriptor 1: these
  are bounds (`StreamSpec` in `MCReactor`), which keep the run small without symmetry,
  unsound for liveness. They are enough for a stream that is read in turns by
  two sub-reactors, for an edge that is lost, and for a connection refused because
  its address is registered, whose stale event a third one then finds on its
  descriptor.
  `NothingLost`: a unit that was read is never in two places, and while its session is
  registered it is in exactly one, from the packet to the handler. `DatagramsContiguous`: no datagram has
  a hole, which it would have if two sub-reactors read in turn (three units are
  the least that can leave one). `OvertakenOnlyAtPush`: `OnDataRecv` listens to
  the session again before it pushes what it read, so a later datagram may be
  handled first; this is the only moment at which it can be. `SentIsHandled`: what
  is sent on a registered session is handled, unless the connection ends, the
  process aborts, or it stays unread for ever behind a stale event or a lost edge
  (`Unreached`). Both happen in this run, and in the code. `RestMeansHandled` says as
  much of the states in which no thread has anything to do, and is proved.
- `ReactorCheck`, `ReactorLoss`, `ReactorStranded` - the findings below.

Fairness: weak, for every thread; the kernel schedules them and none has a way
to stop. For the selector it is weak fairness per session: epoll's ready list is
handled in full before the next poll. Peers owe nothing, so a lost edge need not be
made up for.

### MessagePool

A worker that finds the queue empty holds the mutex until `wait` lets it go:
`Look` and `Block` are two steps with the mutex taken between them
(`Checked = {}` guards everyone who locks). `OnPushMessage` locks;
the destructor's `PushNull` and `NotifyAll` do not, and can come between.
`missed` remembers whether they did.

Run `MessagePool` - three workers, two messages. `QueueSpec`: forgetting locks,
sleep, sentinels and the destructor, every step is a step of `WorkQueue` or none
(`MessagePool` maps its queue to the set that waits, and a worker's `item` to
what it has taken). `WorkConserving`: a worker sleeps on a non-empty queue only if
as many are woken as there are messages. `PoolInv`, the invariant of
the proofs, holds among others `StartedIsAwake` (no worker that has been started
sleeps before its first callback), `InOrder` (the queue holds the latest
messages in the order of their pushes), `EnoughSentinels` (after the last nullptr
there are items for all workers that may still take one) and `SleepsOnlyIfMissed`
(a worker sleeps through the join only if it missed the last `notify_all`).
`JoinDescends`: during the join every step of a worker, a spurious wakeup too, lowers
the number of steps it has left (`StepsLeft`).
`PushedIsHandled`; `ShutdownCompletes`: the destructor ends unless its last
`notify_all` fell between a check and a wait, and then it may hang.

Fairness: weak for a thread's own steps; strong for `Look`, which needs a mutex
that others hold for a few instructions at a time, again and again. Nobody has
to push or to destroy the pool, and no spurious wakeup is owed.

A push is one atomic step. In the destructor, where the mutex is not held,
a worker's pop may overlap them; what that does to the deque's memory is not
modelled.

### Startup

The main thread's `step` follows `NetWrapper::NetWrapper`: acceptor,
sub-reactors, their callbacks, Start for each thread (`running_ = true`, then
`notify_one`, without the mutex), MessageDemutiplexor, and the two `push_back`s
of `CreateRelationShip`, each of which passes through a state in which either of
the vector's pointers may be the old or the new one (`Loads`). Datagrams may
arrive as soon as the port is open. A loop over the callbacks loads `begin()`
in one step and `end()` in another (`BeginLoop`, `EndLoop`), between which the main
thread may do anything, return from the constructor included; if the two are of
different blocks the loop runs off the vector (`crashed`). `first` is what a loop in
progress has loaded, `exposed` the loops in progress when the constructor returned.

- `Startup` - two sub-reactors, two datagrams. `LoopsOverCompleteTables`:
  `sub_reactors_` and a reactor's callbacks are complete before its loop reads
  them without a lock. `StartupInv`: the types, `ConstructionOrder` (how far
  `step` has come says what exists and who is connected), `OneReader` (a datagram that
  is being read is with one sub-reactor), and `SleepsOnlyIfMissed`: the only way a
  started thread sleeps on is a notification between its check and its wait.
  `LoopsInProgress` is there too: a loop that found no callback began before the
  constructor returned. `ExposedOnlyIfBegunEarlier`: from then on no datagram is
  dropped, and a loop runs off its vector only if it had loaded `begin()` before;
  that one does is what the code allows (`SessionDemutiplexor.cpp:57`,
  `MessageDemutiplexor.cpp:78`). `ConstructionEnds`: the main thread is never
  kept from a mutex that a main loop holds for good. `LaterIsHandled`.
- `StartupOrder` - a finding below.

Fairness: weak for every thread; strong for the main thread, which takes each
sub-reactor's mutex while the sub-reactor may be awake for a moment.

### DataPacket

Bytes are known by their place in what the caller has put in, a block is a function
from its offsets, and `block` is its true size, which `capacity_` need not say: it
does not after `CapacityExpand`, which changes the block only, nor after
`CopyFromArray` on a packet of MAXSIZE or more, which replaces the block and leaves
`capacity_` and `length_` as they were. `put` is how many bytes there should be, or
`Unknown` once the block may be smaller than `capacity_` says. `status` ends a
packet's life: `threw` is the `new[]` of a negative size (an argument, or a sum that
does not fit int), `aborted` the CHECK of `PushBack`, `undefined` a memcpy past
the block or of a negative size, or the members a null pointer leaves uninitialised.
`culprit` remembers the call and its size. `CopyToArray` changes nothing unless it
leaves the block. The arrays of the callers are as long as they say.

The run takes a MAXSIZE of 4, reads of 1 to 4 bytes, every call with -5, -1, 0, 3 and 9
bytes (negative, nothing, less than MAXSIZE, more than two of them), `CopyToArray`
with `length()` too, and an int of 5 bits and
a sign, so that the buffer is exactly full, one short and one over at many
capacities, and int's limit is reached. `PacketInv`: the block is what `capacity_`
says or larger until it is spoilt, and has at most one read's worth free.
`DataIsStream`; `FailsOnlyWhenFull`: `PushBack` throws only within two steps of the
largest int, the other calls only for the size they ask for. `OverrunsOnlyIfMisused`:
a memcpy leaves its block only if the packet was spoilt, if the size is negative, or
if `CopyToArray` is asked for more than `length()`, none of which the class prevents.
Reading has no other bound: `OnDataRecv` stops at EAGAIN.

### SessionWrite

A step is one `write()` of as much as the send buffer takes, or the taking of a
context, or the return of `OnHandler`. While the buffer is full the loop turns on
EAGAIN, which changes nothing: the worker is held and the state stays. The first
write after a reset reports it and ends the loop; the next one on that connection
is EPIPE with the SIGPIPE that nobody handles (`killed`).

Run `SessionWrite` - two workers, two sessions, an answer longer than the
send buffer (3 units over 2), an empty one, and two for the session whose peer
need not read, which together can hold both workers. `AnswerInv`: the types, and a peer
gets each answer's units in order, once, from the first on, and as many as the
offset says; and a context is queued or in one worker's hands until `OnHandler`
returns for it (`NoneMislaid`). `CutOnlyByEnd`: a full buffer is no error. `MixedOnlyIfOverlapped`:
nothing but two workers on one session mixes two answers; it does happen, since
`Session::mutex_` is not used. `PushedIsDone`: a peer that stops reading delays
the others only if such peers hold every worker for good.

Fairness: weak for every worker, and for the peers in `Reader`; nothing is
asked of the others.

### Shutdown

`phase` follows `NetWrapper::~NetWrapper` through the members in the reverse order
of their declaration. A part leaves `alive` when its destruction begins; a
thread that uses it after that is undefined behaviour, which is recorded in
`dangling` and ends the run of the model. The selector goes on dispatching
events meanwhile. Accepting is left out: it uses a subset of the parts that
dispatching uses.

The destructor pushes its nullptrs without the mutex (`SessionDemutiplexor.cpp:32`)
under which the selector pushes to the same `std::queue` (`:51`) and the sub-reactors
pop. So a push has two steps, of which `found` is the first one's result: it finds the
end of the queue, then writes there and moves it. A push that meanwhile was
overtaken by another may be written over that one, with the end of the queue where
it leaves it; `lost` counts by how many items a push of the selector shortened the
queue so. Or the deque's parts no longer fit together, which is `torn` and ends
the behaviour, as does a pop that tears it. Pops and the selector's pushes exclude
each other, since both lock.

Run `Shutdown` - two sub-reactors, two events. `DanglesOnlyWhereUnjoined`: what is
gone is used only by threads that are joined later. The explicit
`sub_reactors_.clear()` joins the sub-reactors before the queue, the session
manager and the selector go; only the map itself can be used while it is taken
apart. The workers use the handler, and the selector's thread everything, after
their end. `ShutdownInv`: the types, the order of the destruction, and
`EnoughSentinels`: one nullptr each is enough, although sessions are still being
queued and a session may go over a nullptr, but for the items that are `lost`; so
only a missed notification or a lost item lets one sleep (`SleepsOnlyIfMissed`).
(That takes a push of the selector during which two nullptrs or more are pushed; a
nullptr that goes over a session, or a session over a nullptr, leaves as many items as
there were before.) `ReactorsAreJoined`: unless a sub-reactor had not begun when it was stopped
(it then waits for a `running_` that stays false), a notification was missed, items
were lost, or the map or the deque was torn. `SelectorIsJoined`: a selector that is in a callback when the
loop is broken leaves it, or uses the freed base. One that polls is not woken by
`event_base_loopbreak` (the program links libevent without its thread support), and
the destructor waits for it. The test program never gets here, because Launch joins
the selector.

Fairness: as in `MessagePool`; nobody has to start the destruction.

### DBPool

Each critical section is one step, since everybody locks here. The server may
close any connection at any time; `Reconnect` may fail. What the database has
against a statement does not need a closed connection: whatever `ExecuteQuery` and
`ExecuteUpdate` catch is fatal, and `prepareStatement`, `commit` and `rollback` may
throw on a live connection, too (bad SQL, a constraint, a deadlock), and
the references, the last one to the connection among them, go with the client's stack. Clients do as `main()` does: the
connection, the statement and the result set are variables of one scope, which ends
behind `PutConnection`, so that `Leave` deletes a statement on a connection that
somebody else may have by then. `instance_` is reset by the end of `~DBStore`
(`pc[Owner] = "none"`) and set by `Init`, again and again.

Run `DBPool` - three clients, two connections, so that clients wait for each
other and the destructor waits with them. `LendingSpec`: the queue, the sleeping and
the transactions forgotten, every step is one of `Lending` or none (`Exists`, `Lent`,
`Users` and the sets of pooled, broken, lost and closed connections are its state), so
the store drops a connection only if the server has closed it, and any other is lost
only in the hands of a client that was using it. `OnePlace`: a connection is pooled, with
one client, closed or lost, and none is mislaid. `CleanInv`, with `PooledIsClean`:
nobody gets a connection with another's transaction. `WorkConserving`.
`OutlivesHolders`: the store is not destroyed while a client has a connection of
it. `SomebodyIsServed` while a connection is left;
`DestoryCompletes` unless one was lost, in which case the destructor waits for ever.
`StuckMeansLost` says of both what can be said of a state, and is proved.

Fairness: weak, for the store's own steps and for the clients' return of what
they took. Bounds: the clients do not enter GetConnection once Destory has been
called, and `Init` is called again only when they have nothing left of the store
before.

## Findings

- `ReactorCheck`: `CHECK_NOTNULL(session.get())` at `Selector.cpp:206` fails, and
  ends the process, when a peer resets its connection before the event is
  dispatched.
- `ReactorLoss`: a datagram followed by the end of the connection is read and
  thrown away (`SubReactor.cpp:97-108`), against the README's "it would push the
  message to threadpool for processing".
- `ReactorStranded`: a connection from an address still registered leaves a
  stale event, and the next connection on that descriptor number is registered
  but never listened to, against the README's "Main-reactor is used for listen
  event what ever read or write".
- `StartupOrder`: the session side is started by its constructor, before the
  message side exists, against the comment at `NetWrapper.cpp:38`.

## Proofs

All are for any sets of peers, sessions, descriptors, threads, messages and
connections and any bounds. The named assumptions of the modules
(`ReactorAssumption`, `ThreadsAssumption`, `ContextAssumption`, `PoolAssumption`,
`StartupAssumption`, `PacketAssumption`, `WriteAssumption`, `ShutdownAssumption`,
`DBPoolAssumption`) say only that bounds are naturals, that send buffers hold something, that `None` is none of the
things it stands in for, that different kinds of threads are different, that there
is at least one thread of each pool (`get_nprocs_conf()`) and one connection, and that
sets that are counted are finite. Nothing is assumed of the constants of `WorkQueue`,
`Lending` and `Turns`.

- `OwnershipProofs`: `TypeCorrect`. Types alone are not inductive, because
  `DeleteEvent` subtracts from a count: `Typed` adds that an entry of `events_`
  stands for a pending event (`EventsAreCounted`) and that a busy sub-reactor has
  a session. Then `Invariant` and, from it, `SingleOwnership`,
  `ServedRegistered`, `OutOfReachByEvent`, `OnlyResetsAbort` and
  `UnregisteredAtEnd`, all of `OwnNameSpec`, whatever `StaleAddr` is. That its extra
  conjunct costs nothing where one would expect so is proved, too: `NoStaleName`, if
  no other peer has an address in `StaleAddr` (it is empty, or there is one peer, as
  in `ReactorStream`), and `OrderlyName`, as long as no connection is reset; in both
  cases `OwnName` follows from the invariant, since what is watched is registered
  under its own address. `SingleOwner` alone says
  nothing about where a new event may come from. The invariant adds that what
  is watched is registered with exactly one event, the one in `events_`
  (`WatchedHasEvent`), that what is served has none (`ServedHasNoEvent`), and that
  registered sessions have different descriptors (`Names`). Then adding an event
  to a served session makes it the watched one, dispatching it takes the only
  event, and an end that is read is the end of the session its address names.
  `UnwatchedIsStale` is the stale half of `OutOfReachOnlyByEvent`. For the other half
  `Edges` follows a session through its turn: it is only queued when its peer has
  sent or ended; so a sub-reactor that comes to EAGAIN has read something; and an
  edge is only lost with something behind it (`LostEdge`).
- `StreamProofs`, on top of it: `StreamInvariant`, `PacketsAreStretches`,
  `OvertakenInWindow` and `EveryUnitAccounted`, which is `NothingLost`. Because
  nobody else reads its socket, a sub-reactor's packet reaches to the end of what
  was read from its session (`PacketReachesEnd`), so what it passes on has no hole,
  and it is overtaken only after it has let the socket go. For `NothingLost` the
  places of a unit are counted - sub-reactors that hold it, entries of the queue,
  workers, the handler - and every step moves one from one count to the next.
  `Accounted` adds that what is not read yet is nowhere. When the system is at rest
  only the handler is left of the places, and a session that nobody serves is
  watched, or out of reach by a stale event or a lost edge: `HandledAtRest`.
  `ImplementsTurns`: one lemma for each action maps it to a step of `Turns` or to
  none; it needs the ownership invariant where `Turns` has a guard that the code does
  not test (a session that is accepted is nobody's, adding the event of a served
  session watches it, the one `DeleteSession` removes is the one that was read), and
  of `Stream` that a sub-reactor takes a session with an empty packet.
  `TurnsAreExclusive` is about `Turns` alone: a session is in one place, and a unit
  read is in one parcel or passed on; inductive with the fact that the parcel of a
  turn that lasts holds its session's units only. Together: `ReadInTurns`.
- `MessagePoolProofs`: `PoolInvariant`, `NoForgottenPush`, `StartWakes`,
  `SentinelsSuffice`. `ItemsLeft` counts: sentinels pushed are at most the items
  in the queue plus the workers past their last pop; each pop moves one item to
  one such worker, because no worker that has been stopped comes back. So a worker
  that looks during the join finds an item, and none goes to sleep again:
  `OnlyMissedSleep`, and `JoinIsShort`, which bounds the steps it takes.
  `ImplementsQueue`: every step maps to a step of `WorkQueue` or to none; and, with
  `PlacedOnce`, which is about `WorkQueue` alone, `HandedOnce`: whatever threads are woken or stopped,
  a context is never in two places and never nowhere. When all workers wait, that
  leaves it handled (`HandledAtRest`): the queue is empty by `NoForgottenPush`.
- `StartupProofs`: `StartupInvariant`, `TablesAreComplete`, `OnlyEarlierLoopsCrash`,
  `NeverShutOut`, `HandledAtRest`. A thread that loops has been started, which
  `ConstructionOrder` puts behind the tables it reads, and behind the last mutex the
  main thread takes from it. At rest nothing is pushed or being read (`OneReader`),
  so what is left waits for the selector or for a sub-reactor; a thread that is
  started and does not loop has missed its notification. Once the constructor has
  returned both vectors are set, so a loop that ends with two different pointers has
  loaded the first before (`LoopsInProgress`).
- `SessionWriteProofs`: `WriteInvariant` and, from it, `AnswersArePrefixes`,
  `OnlyEndsCut` and `OnlyOverlapsMix`. A context is pushed once and is then in the
  queue, unsent, or with one worker (`WithOneWorker`), so only he moves its offset,
  and what he writes continues the units before it. A worker leaves the loop with
  all sent or the connection at its end (`LeftComplete`). Of two that send to one
  session both are noted (`OverlapsNoted`); one that is not noted wrote last to its
  session (`LastIsAlone`), so what he adds comes behind units of his own. Reading
  moves a unit from the buffer to the peer and leaves the stream as it is; an
  end takes away only what the stream ends with.
- `ShutdownProofs`: `ShutdownInvariant`, `WorksWithLiveParts`, `OnlyMissedSleep`,
  `JoinIsShort`. The same count of sentinels as above, with what was lost added, keeps
  a sub-reactor from waiting on an empty queue. For a push that ends over another's
  item it needs that no more nullptrs were pushed than there are items before the
  place it found (`ItemsLeft`). So, unless items were lost, every step of one that has begun leads to its end
  (`JoinDescends`, which says of the join what the runs' `ReactorsAreJoined` says
  under fairness); until all have left (`MembersLast`) the destructor has not reached a member they use.
- `DataPacketProofs`: `PacketInvariant`, `PacketBlock`, `PacketIsStream`,
  `PacketFailsOnlyWhenFull`, `PacketOverrunsOnlyIfMisused`, for every MAXSIZE, every
  int and every sequence of calls with whatever sizes.
- `DBPoolProofs`: `CleanInvariant`, `NoForeignTransaction`, `InOnePlace`,
  `NoMissedNotification`, `StoreOutlivesHolders`, `ImplementsLending`,
  `StuckOnlyByLoss`. `StoreOutlivesHolders` rests on a
  count: the destructor has closed as many connections as there are, each is in one
  place, so none is left for a client to hold. The refinement rests on it where
  the store ends, and on `OnePlace` where a connection changes hands; the steps
  that only sleep, wake, or work on a transaction are stutters (`StoreRests`). If
  everybody sleeps, nothing is pooled and nobody holds anything, so what the
  destructor has not closed is lost, and it has not closed all (`ClosingOrder`).

Only model-checked is all that is liveness (`SentIsHandled`, `PushedIsHandled`,
`ShutdownCompletes`, `ConstructionEnds`, `LaterIsHandled`, `PushedIsDone`,
`ReactorsAreJoined`, `SelectorIsJoined`, `SomebodyIsServed`, `DestoryCompletes`):
fairness and ENABLED are out of the prover's reach. What can be said of a single
state or step is proved: that a state in which the threads are at rest keeps the
promise (`RestMeansHandled` for `SentIsHandled`, `PushedIsHandled` and
`LaterIsHandled`, `StuckMeansLost` for the two of `DBPool`), that nobody has for good
what the constructor waits for (`RelatesUnhindered`), and that the joins descend and
are slept through only after a missed notification or, in `Shutdown`, a lost item
(`JoinDescends` and `SleepsOnlyIfMissed`, for `ShutdownCompletes` and
`ReactorsAreJoined`).

The violations found by `ReactorCheck`,
`ReactorLoss`, `ReactorStranded` and `StartupOrder` are TLC's alone.

## Not modelled

- What a plugin does in its callback: none is registered in this code. The handler's
  echo stands for it.
- libevent's data structures under concurrent use, beyond the edge an `event_add`
  from another thread may lose.
- The memory of the `std::queue` that `~MessageDemutiplexor` pushes to without the
  mutex (`MessageDemutiplexor.cpp:26`) while a worker pops: a pop that tears the deque
  is undefined behaviour. No push overlaps with these, since the session side is gone
  by then. (`Shutdown` does go below the atomic push, for the queue of the sessions,
  where pushes overlap.)
- That `accept()` fails again and again (`Acceptor.cpp:104`): no state changes but
  the time that goes by.
- Write and signal events of the selector, which have no caller; the monitor thread,
  which only sleeps; parameters and columns of statements and result sets.
- `Utils` (stateless; what the sockets need of it is part of `Reactor`), `Error.h`
  (a table), the build and the test program.

## Plan

Done, in this order: `Reactor`, `MessagePool`, `Startup`, `DataPacket`, `DBPool`,
`SessionWrite` and `Shutdown` with their runs; the first theorems of each; the whole
class in `DataPacket` and the whole life of the store in `DBPool`; `WorkQueue` and
the refinement; the proofs of the safety properties; `OwnNameSpec`, which frees the
proofs of `Reactor` from any assumption on `StaleAddr`; `Lending` and the refinement;
what the liveness properties promise of a state at rest, and the descent of the joins;
`Turns` and the refinement.

Left, for whoever goes on:

1. The queue of `Shutdown`, with a null that is pushed while sessions come in, as
   another refinement of `WorkQueue`.
2. `EventBase`: libevent's pending list and epoll between the loop's thread and
   `AddEvent`, against the comment at `Selector.cpp:144`, refining the `EdgeRace`
   of `Reactor`.
