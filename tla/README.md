# A TLA+ verification of the native IPsec library and its CLI application

The repository (`src/libipsec/`) is a C11 library that controls strongSwan's
`charon` daemon over its VICI socket, reads kernel state over netlink, and a
command-line application built on it.  This directory models the parts of both
whose correctness depends on interleaving, ordering, lost answers, changing
tables and partial failure, checks them with TLC on small instances, and proves
with TLAPS, for every instance, all the safety properties the passing runs check
and that the command client implements its abstract service.

    tlc -workers 2 -config MCViciClient.cfg MCViciClient     # one run
    tlapm ViciClientProofs.tla                               # the proofs of one module

`PROJECT.json` maps every definition to the source lines it models and lists
the runs, the mutants that show each property can fail, the findings, the
hazards and the theorems.

## 1. Inventory

| Component | Source (under `src/libipsec/`) | State | Operations |
|---|---|---|---|
| VICI command client | `ipsec/vici/vici_client.c` | command mutex, deadline, registration of the current call | `ExecuteViciCommand` |
| VICI transport | `ipsec/vici/vici_transport.c` | the socket descriptor | connect, wait, framed send and receive, disconnect |
| packet codec, parser | `ipsec/vici/vici_packet.c`, `vici_parser.c` | a growing buffer; offset, depth and open list of a parse | build, decode |
| connection, credential API | `ipsec/vici/vici_connection.c`, `vici_credential.c` | in charon only | add, remove, add PSK, clear |
| SA control and queries | `ipsec/vici/vici_sa.c` | the collector of a query | initiate, terminate, rekey, list, polling waits |
| statistics, algorithms | `ipsec/vici/vici_stats.c`, `vici_algorithm.c` | none | one query each |
| context life cycle | `ipsec/core/ipsec.c` | `IpsecContext_t` | initialise, deinitialise |
| netlink, XFRM, routes | `ipsec/core/netlink.c`, `ipsec/xfrm/`, `ipsec/route/` | the list being built | dumps of states, policies, links, addresses, routes |
| utilities, log, PSK | `ipsec/core/util.c`, `error.c`, `log.c`, `psk.c` | none | clock, parsing, files |
| peer registration | `app/peer.c` | the peer table, the listener thread | start, stop, accept, register, find |
| CLI session | `app/cli.c` | context, profile, two ownership flags, selected row | the commands |
| connection life cycle | `app/lifecycle.c` | the stop flag | load, start, stop, test loop |
| algorithm test runner | `app/algorithm_runner.c` | current run, case, last closed case | client run, server |
| configuration, catalog, reports, display | `app/config.c`, `algorithm_catalog.c`, `algorithm_report.c`, `show.c`, `command.c`, `main.c` | files, tables | parsing and output |
| scripts | `src/strongswan_script/` | the host | install, stop, remove charon |

How they interact.  Everything the application does to charon is a call of the
library, and every such call is one `ExecuteViciCommand` on the context's single
socket, under the context's mutex.  The listener thread of `peer.c` and the CLI
thread share the peer table under its mutex.  What the application says about
SAs it has learned by polling: charon's lists over VICI, the kernel's over a
netlink socket per query.  Two hosts talk over two protocols
of the application's own: TCP lines REGISTER and ASSIGN (`peer.c`), and UDP
datagrams PREPARE, READY, VERIFY, RESULT, CLEANUP, DONE, ABORT and FINISH
(`algorithm_runner.c`).

What is hard, and what makes each component correct:

- **Command client.**  VICI packets carry no request number, so an answer is
  told apart only by its position in the stream.  A call may be abandoned at any
  byte.  Correct means: no call ever takes another's answer, success is true,
  nothing is performed twice, and the mutex is released.
- **Peer registration.**  Ids are allocated from the table's length, sent, and
  entered only afterwards; either side can give up or restart in between.
  Correct means: the tables of both sides agree, ids are unique, and every wait
  ends.
- **Session.**  Ownership is remembered in flags copied between the session and
  the rows, while charon may have performed a call that was reported as failed.
  Correct means: a flag that is set is true, and a command touches its own row.
- **Context.**  Opening takes an allocation, a mutex and a descriptor and asks the
  daemon for its version; a configuration change opens a second context before it
  closes the first.  Correct means: nothing is lost or freed twice at any failure,
  and commands go to the daemon that is configured.
- **SA lifecycle.**  charon and the kernel work on while the program sleeps and
  asks, every answer is old when it is used, and a command that timed out may
  still be performed.  Correct means: a cleanup reported as verified is clean, and
  every removal ends.
- **Messages.**  Lengths come from the peer and are compared with unsigned
  differences; a collector finds the record of a value by depth and remembered
  names, and serves all events of a query.  Correct means: no read outside the
  message, and every value in the record it was sent for.
- **Kernel queries.**  A dump is a walk over a table that changes meanwhile, in
  datagrams.  Correct means: a list that is returned is not silently short, and a
  snapshot where the kernel allows to tell.
- **Algorithm runner.**  Datagrams are lost, repeated and reordered, SAs are
  found by a name all cases share, and the user may interrupt either side.
  Correct means: a PASS is about the case's own SAs, passed cases leave nothing
  behind, and both sides finish once the network is quiet or the user interrupts.

The hazards, each at the line where it bites, are in `PROJECT.json`.

## 2. Modules

| Module | Models | Used by |
|---|---|---|
| `ViciClient` | `ExecuteViciCommand` and the transport, called by several threads; charon as environment | `MCViciClient`, `ViciClientProofs` |
| `ViciService` | the abstract service a caller of the library programs against | `ViciClient` (`Service`, the refinement mapping) |
| `ViciClientProofs` | TLAPS proofs about `ViciClient` | |
| `PeerRegistration` | initiator's listener and main thread, several responders, both tables | `MCPeerRegistration`, `PeerRegistrationProofs` |
| `PeerRegistrationProofs` | TLAPS proofs about `PeerRegistration` | |
| `NativeSession` | the CLI session and its daemon calls | `MCNativeSession`, `NativeSessionProofs` |
| `NativeSessionProofs` | TLAPS proofs about `NativeSession` | |
| `SessionContext` | `InitializeIpsec`, `DeinitializeIpsec` and the session's configuration | `MCSessionContext`, `SessionContextProofs` |
| `SessionContextProofs` | TLAPS proofs about `SessionContext` | |
| `SaLifecycle` | SA control, polling waits, verification, removal and cleanup | `MCSaLifecycle`, `SaLifecycleProofs` |
| `SaLifecycleProofs` | TLAPS proofs about `SaLifecycle` | |
| `ViciMessage` | packet decoding, the parser and the collectors | `MCViciMessage`, `ViciMessageProofs` |
| `ViciMessageProofs` | TLAPS proofs about `ViciMessage` | |
| `NetlinkDump` | the five kernel queries and the dump they share; the kernel as environment | `MCNetlinkDump`, `NetlinkDumpProofs` |
| `NetlinkDumpProofs` | TLAPS proofs about `NetlinkDump` | |
| `AlgorithmRun` | client and server of the algorithm test over a lossy network | `MCAlgorithmRun`, `AlgorithmRunProofs` |
| `AlgorithmRunProofs` | TLAPS proofs about `AlgorithmRun` | |

### ViciClient and ViciService

One thread is in one of the locations of `ExecuteViciCommand`: waiting for the
mutex, connecting, registering an event, sending the request, reading the
stream, unregistering, unlocking.  `mutex`, `socket`, `eError`, `bRegistered`
are the code's variables; `budget` is the time left to `ullCommandDeadlineMs`,
counted down by `Tick`.  `toDaemon` and `toClient` are the two directions of the
socket.  The field `call` of a packet is history: no client action reads it.

A partial frame is a failed operation, since `TransferViciBytes` disconnects on every
error; so a packet is sent or received whole, or the socket is closed. Closing loses
what the client has not read, but not what charon has not read: those requests move to
`late` and may be performed after the caller was told that the call failed. A packet
that cannot be built (`BuildFails`: no memory, or longer than VICI allows) fails the
call without touching the socket; when it is the EVENT_UNREGISTER, the event stays
registered, and `leftover` (history) says so until charon or the connection forgets it.
A later call then meets events it did not ask for, which `ReceiveViciCommandStream`
skips, and a registration of the same name, which charon confirms again or refuses. The
faults charon may commit are a constant: a length field out of range (the transport
disconnects), a packet of an unknown type, an event or a response its callback refuses.

charon is external code: it reads requests in order, serves one at a time per
connection, streams events of a registered name while it serves, answers, or
crashes and restarts.  A send that finds the socket full is not a case of its
own, since the client writes one packet and waits for its answer.

`ViciService` has a mutex owner, one outcome per caller and, per command,
whether it is pending and how often it took effect.  A caller acquires, submits
at most once, and returns; success is allowed only when the command took
effect; an error says nothing, and the command may take effect later, once, or
never.  The mapping `Service` in `ViciClient` takes for pending the unread requests
of the open and of all closed connections.

### PeerRegistration

The initiator's listener thread accepts one connection at a time, reads the
REGISTER line (or times out), allocates an id, sends ASSIGN, appends the row and
closes.  Its main thread starts it, requests its stop and joins it.  A responder
connects, sends, waits for the ASSIGN or gives up, and appends its own row.
`epoch` counts the initiator's processes and is history in the rows.  Appending
fails exactly where the code's checks fail.

### NativeSession

A profile is its connection name.  Every command is an action at the prompt, or
a sequence of actions, one for each daemon call, because the listener thread and
charon's restarts interleave with them.  A daemon call succeeds, fails without
effect, or fails with its effect: those are the outcomes `ViciService` leaves to
a caller.  `doubt` and `credDoubt` are history: the names of which the session
cannot know the truth, since a call about them failed, charon restarted, or they
were unloaded through another profile.  `config set vici_uri` and `config load` may
replace the context by one to another charon (`ReconnectNativeAppContext`), which
holds whatever others loaded there; the rows that are not selected keep the flags
they earned at the old one, so every name is then in doubt.  `Finish` includes the trailing
`SaveNativeAppSelectedPeer` of `ExecuteNativeAppCommand`.  `tested` is history too:
whether a test command has run.

### SessionContext

`heap` holds the contexts with their allocation, mutex, descriptor, path and
timeout; `session` is the one in `pSession->pContext`.  An opening is one action
for each step of `InitializeIpsec` (allocate, connect to the given or to the two
default sockets, verify the daemon, undo), since charon may start or stop between
them and the listener thread appends rows with the configuration it copied.
Start-up, `config set`, `config load`, `peer select`, `connection load` and
`unload`, and exit are the commands that touch a context or a configuration.

### SaLifecycle

Five programs over one connection name run one after the other: `up`, `down`, one
iteration of the test loop, and an algorithm case on either side with its cleanup.
Each library call is one action.  A command succeeds, or fails and may have been
performed, may still be (`late`), or never will be: again what `ViciService`
allows.  A round of a verification or of a removal is four actions, one for each
query, and `my` holds what the program remembers of them.  The rounds that fit a
timeout are counted, as `uiElapsed` does.  A case runs `CleanupAttempts` attempts
and the last verification.  charon negotiates, deletes, is initiated by its peer,
and performs late commands at any moment; the kernel's entries are removed some
time after their SA.  Reqids are abstracted to whether the program has learned its
own.

### ViciMessage

Each element of a message is one action that chooses the bytes it reads: type,
name, lengths.  `Left` is the code's unsigned difference, modulo `UintRange`.  An
element that is in order goes to the collector of the query (`ikes`, `children`,
`conns`), as one of the names the collector compares with or another one.
`path`, `tree`, `list` and `sent` are history: the document that was really sent.
Callbacks may refuse an element (no memory, a number that does not parse).

### NetlinkDump

An entry is its position in the kernel's walk.  The kernel fills a datagram with
the next entries of the table as it is then, when it gets the request and whenever
a datagram is received, and goes on after the last entry it sent; another process
changes the table in between.  A dump of links is flagged after a change.  The
addresses are asked for with AF_UNSPEC (`address.c:171`), which the kernel serves
family by family with separate generations, so a change of theirs may or may not be
flagged; the other three tables have no flag.  The client waits, receives, and takes one
message per step through the checks in the code's order; a callback appends,
skips or refuses the entry.  The faults are a constant: no socket, failed receive,
a silent kernel, a refusal, an aborted dump, an acknowledgement, a dump without end,
a broken header, sequence or attribute, no memory.

### AlgorithmRun

`net` is the set of all datagrams ever sent and only grows: a receiver may take
one at any time, again, or never, which is loss, repetition and reordering.  A
retransmission adds nothing to the set, so a retry loop is one wait that ends
with the answer, with its timeout, or with Ctrl-C.  The timeouts count only the polls
that find nothing; a datagram that is not awaited costs no time.  The server's case
forgets an error of the receive and goes on, so only silence, Ctrl-C, CLEANUP, ABORT
or a reply that cannot be sent ends it.  All cases load the same
connection name, so an SA is found by that name, and `cObs`, `sObs` record whose
SA was actually judged.  Charon's own DELETE or dead-peer detection (`SaDeleted`)
removes the SAs of the server that the client no longer has; only the client
terminates, so the converse does not arise.

## 3. Runs

| Run | Instance | Checks | States, time |
|---|---|---|---|
| `vici_client` | 2 threads, 3 call identities, timeout 1, buffer 2, faults BAD_LENGTH and BAD_RESPONSE | `TypeOK` `OwnResponse` `OkMeansExecuted` `AtMostOnce` `ConnectErrorMeansNotExecuted` `CleanBetweenCalls`; `HolderReturns`; `ImplementsService` | 852 000, 141 s |
| `vici_client_faults` | fault BAD_EVENT, timeout 1 | violates `OneCommandAtATime` | |
| `peer_registration` | 2 responders, 2 policies, groups of 2, capacity 3, backlog 1, 2 attempts, 2 processes | `TypeOK` `AssignedIsRegistered` `IdsNotShared` `OneEntryPerRegistration`; `StopReturns` `RegisterReturns` | 487 000, 105 s |
| `session` | base and 2 peers, all commands | `TypeOK` `ConnectionFlagsAreTrue` `CredentialFlagsUntilTest`; `RowsKeepTheirProfile` | 3.3 M, 119 s |
| `session_config` | as `session` | violates `ConfigChangesRejected` | |
| `session_context` | 2 allocations, 3 sockets, 3 timeouts, 2 rows, 2 changes | `TypeOK` `NoContextLost` `ConnectedAsConfigured` | 6.0 M, 124 s |
| `sa_lifecycle` | 2 SAs, 2 rounds, 2 attempts, 2 programs, 1 late command | `TypeOK` `VerifiedIsClean` `SuccessLeavesNothing`; `RemovalReturns` | 1.5 M, 144 s |
| `vici_message` | one packet of 0 to 12 or of 25 bytes, or two of 16 and 9; lengths 0, 1, 40; depth 4 | `TypeOK` `ReadsInside` `EventsStartClean` `CollectedAsSent` | 3.0 M, 92 s |
| `netlink_dump` | 3 positions, one of another family, 2 entries per datagram, limit of 3 datagrams, 2 changes, all faults | `TypeOK` `OkIsSnapshot` `OkIsComplete`; `QueryReturns` | 1.2 M, 50 s |
| `algorithm_run` | 2 cases, 1 run | `TypeOK` `PassIsOwn` `DoneIsTrue` `PassLeavesNothing` | 3.1 M, 51 s |
| `algorithm_run_live` | 1 case, 1 run | `RunEnds` `CaseEnds` `InterruptEnds` | 30 000 |
| `algorithm_run_stop` | 1 case, 1 run | violates `PreparedBeforeStart` | |

Why these bounds. A stale answer needs an abandoned call and a later one by the same or
another thread: two threads and three identities, which are reused as soon as nothing
carries them, give unboundedly many calls. A timeout of 1 lets a call expire at each of
its steps, before or after any packet; a buffer of 2 lets an event and the answer queue
up. Capacity 3 with groups of 2 reaches a full group and a full table; two processes
give one restart. Two peers beside the base profile let a command, the selected row and
another row all differ. Two cases let the leftovers of one meet the next; two programs
and two SAs do the same for `SaLifecycle`, where two rounds and two attempts give a wait
that goes on and one that gives up. Two allocations are what a replacement needs at
once; a third opening reuses one that was released. 16 bytes hold an IKE SA with a CHILD
and a value, and 9 more the event after it; 25 hold two SAs; every length up to 12 puts
the end of the message at every place of an element. Three entries in datagrams of two
span two datagrams, with a change before, between and after them; datagrams of one, or
an endless dump, reach the limit of three. The bounds `MaxAttempts`, `MaxEpoch`,
`MaxPeers`, `MaxRuns`, `MaxPrograms`, `MaxLate`, `MaxChanges`, `MaxRows` and
`MaxPerDatagram` cap otherwise unbounded counters in guards. Symmetry is used only in
runs without liveness, over peer names and over allocations.

What the violations show (the quoted lines are in `PROJECT.json`):

- `OneCommandAtATime`: `ReceiveViciCommandStream` returns when an event callback
  fails, with the response unread and the socket kept.  The unregistration and
  the next commands read what is left, until a mismatch closes the socket.
- `ConfigChangesRejected`: `peer select` drops the base profile's ownership flag
  together with its profile, so a loaded connection is forgotten.
- `PreparedBeforeStart`: Ctrl-C during the wait for READY ends the loop with
  `IPSEC_OK`, and the case loads the connection and initiates.

Deviations the models show without a run of their own, since no text of the
repository states the promise that would be broken; the properties leave exactly
these cases out, and say so:

- A test command sets the credential flag however it ended (`cli.c:1092`, 1275,
  1299), so `up` may skip a load that is needed: `CredentialFlagsUntilTest` is
  stated up to the first test command.
- A call whose EVENT_UNREGISTER packet cannot be built returns with its socket open
  and its event registered (`vici_client.c:101`): `CleanBetweenCalls` excepts that
  registration.
- `config set vici_uri` and `config load` move the session to another charon and
  leave the flags of the rows that are not selected (`cli.c:274`, 635), so a later
  `up` of such a row skips loads the new charon needs: after a move the properties
  on flags take every name to be in doubt.
- `peer select` takes the row's configuration but keeps the context
  (`cli.c:424`): `ConnectedAsConfigured` is stated until a peer is selected.
- Raising `command_timeout_sec` keeps the context with the old timeout
  (`cli.c:697`); every blocking initiate and terminate is then refused
  (`vici_sa.c:83`) until the context is opened again.
- A case whose load failed reports its cleanup as verified without a look
  (`algorithm_runner.c:1474`).
- A responder's `down` unloads after it terminated; the peer can initiate in
  between, and that SA stays.
- The errno inside `NLMSG_DONE` is not read (`netlink.c:191`): a dump the kernel
  gave up is returned as a complete list.  States, policies and routes have no
  interruption flag, and addresses one for each family, so those lists are complete
  but not snapshots.  Completeness assumes a kernel that goes on after the last entry
  it sent; the dump of an IPv6 routing table that changed meanwhile goes on after as
  many entries as it sent, and may skip or repeat one by itself.
- Datagrams that nobody awaits do not count towards the timeouts of the algorithm
  test (`algorithm_runner.c:1187`, 1755): a stream of them keeps a wait going until
  Ctrl-C, and `RunEnds` and `CaseEnds` are stated for networks that stop sending them.
- After a restart of the initiator ids start over, and a responder that registers
  again may hold two rows with one id, of which the lookup finds the older.

### Fairness

`ViciClient`: weak fairness of every thread's own steps (a scheduled thread runs; each
wait has `poll`'s timeout, so a step is always possible at the deadline) and of the
clock. Nothing is assumed of charon, of callers, or of the order in which the mutex is
granted, so `HolderReturns` is stated for the holder and not for a waiter.
`PeerRegistration`: weak fairness of the listener thread, of the join and of a
responder's registration, whose waits are all bounded; none of the restarts or of the
user. `AlgorithmRun`: weak fairness of the client's steps and of the server's, except
while they wait for a datagram and were not interrupted: each round of a wait looks at
Ctrl-C, which is all the code guarantees there. `InterruptEnds` needs no more. `RunEnds`
and `CaseEnds` have the assumption on the network as their hypothesis, `QuietNetwork`: a
wait is not kept busy for ever, so that the silent polls add up to its timeout. Nothing
else is assumed of the network, of the user or of charon. `SaLifecycle`: weak fairness
of the program's steps, as each of its calls ends at the command's deadline at the
latest; none of charon or the kernel. `NetlinkDump`: weak fairness of the querying
thread, whose `poll` returns after five seconds; none of the kernel. `NativeSession`,
`SessionContext` and `ViciMessage` state safety only.

## 4. Proofs

### ViciClientProofs

`ViciClientProofs` proves, for every set of threads and calls, every timeout,
buffer size and fault set allowed by `ClientConstants`:

- `TypeCorrect`: `Spec => []TypeOK`, for all faults.

and, when no fault ends a stream before its response (`InSync`: the fault set has
neither UNDECODABLE nor BAD_EVENT):

- `ResponsesAreOwn`, `SuccessIsReal`, `PerformedAtMostOnce`,
  `ConnectErrorIsFinal`, `ConnectionIsClean`: the invariants the run
  `vici_client` checks, the last one but for a registration that could not be undone;
- `Implementation`: `Spec => ImplementsService`, the refinement of `ViciService`.

`InSync` is necessary: the run `vici_client_faults` is the counterexample.

The argument.  None of these is inductive alone: that an answer is the caller's
own depends on everything that is on the socket.  The inductive invariant is

    IInv == TypeOK /\ LockInv /\ CallInv /\ StreamInv /\ ExecInv /\ OwnResponse

- `LockInv`: the mutex is held exactly by the one thread that is past the lock,
  so no other thread can be touching the socket (`OthersOutside`).
- `CallInv`: threads have different calls.
- `StreamInv`: for each location of the holder, exactly what can be in flight:
  nothing before the registration, the REGISTER or its one answer during it, the
  request or a stream of the holder's own events ended by at most one final
  packet while it reads, the UNREGISTER or its answer at the end, and nothing at
  all when nobody holds the mutex or the socket is not open.  It also says that charon
  has the holder's registration or `Forgotten`: none but one left over.
- `ExecInv`: what charon has done and may still do of each thread's call: not
  sent means not performed; success means performed once; a request in `late`
  has not been performed yet.

`Invariant` shows `Spec => []IInv` under `InSync`, with one lemma per action;
`TransportFailsStep` holds the argument they share: after a failure the socket
is closed, so nothing can be misread, and at most one unread request moves to
`late`.  The theorems follow by PTL.  For `Implementation`, every action is shown,
from `IInv` before and after it, to be a step of the service or to leave the mapped
state alone: taking the mutex acquires, writing the request submits, charon's serving
of the current or of a late request performs it, a request that charon drops is lost,
unlocking returns, and everything else is a stutter.

### ViciMessageProofs

From `MessageConstants` only, for packets of any number, length and content:

- `ParserReadsInside`: `Spec => []ReadsInside`; `MessageTypes`: `Spec => []TypeOK`.
- `EventsFindNothing`: `Spec => []EventsStartClean`, and `ListsAreAsSent`:
  `Spec => []CollectedAsSent`, for any number of events, any nesting and depth limit.

The parser's bound is inductive with the fact that a packet is decoded at offset 0:
an offset inside the message makes the unsigned difference the true one
(`LeftInside`), so a length that passes the check ends inside as well
(`NameEndInside`, `ValueEndInside`); and the range of the length keeps the difference
below `UintRange`.

`CollectedAsSent` compares two things that are built in different ways: the
collector's list, from depths and remembered names, and the records of the document
(history) that was sent.  It needs to be known at every element where the collector
believes it is:

    IInv == Inv /\ CollectorTypes /\ CollectInv

- `TreeInv`: a section is in one that was started before it, a value in one that was.
- `PlaceInv`: the names the collector has noted are those of the open sections; so
  nothing is noted at the end of an event, which is `EventsStartClean`.
- `CurrentInv`: the current record is that of the open section that has one.
- `RecordsInv`: the records are as sent, in the order of their sections, so no two
  stand for the same one.

An element that opens a section, closes it or has a value then changes the same record
on both sides; a record that is not current is not touched, as its section is another.

### NetlinkDumpProofs

For every table, datagram size, limit, number of changes and fault set allowed by
`DumpConstants`: `DumpTypes`, `ListsAreSnapshots`, `ListsAreComplete`
(`Spec =>` always `TypeOK`, `OkIsSnapshot`, `OkIsComplete`), the second for links, the
third for a kernel that goes on after the last entry it sent.  The properties speak
of the list at the end, so the invariant follows an entry on its way:

    Inv == TypeOK /\ Shape /\ Order /\ Genuine /\ Reached /\ Same /\ OkIsComplete /\ OkIsSnapshot

- `Shape`: NLMSG_DONE is the last message of its datagram and no datagram follows.
- `Order`: list, buffer and pending datagram ascend, one after the other, below the
  point the walk has reached; so no entry comes twice.
- `Genuine`: every entry on its way was in the table at some moment.
- `Reached`: a lasting entry behind that point is in the list, in the buffer or
  pending; when NLMSG_DONE is on its way, every lasting entry is.
- `Same`: for links, a flagged message is still to be read, or all
  that was sent is the table as it was at first, up to the point reached.

`FillFacts` says what one datagram of the kernel adds; each action has a lemma.

### SessionContextProofs

From `ContextConstants` (finitely many allocations, a positive timeout exists):
`ContextTypes`, `ContextsAreReleased`, `SessionFollowsConfig` (`TypeOK`,
`NoContextLost`, `ConnectedAsConfigured`).  The properties speak of the prompt, so the
invariant says what holds during an opening:

- `LifeInv`: an allocation is the one being opened or the session's, never both; which
  of them exists follows from the step.
- `NameInv`: the session's context is connected as its configuration says, and the one
  being opened as the configuration it is opened for says, so that the hand-over of
  both together keeps them in agreement and a failure changes neither.

### PeerRegistrationProofs

From `PeerConstants`, for any responders, capacity, group size, backlog and restarts:
`PeerTypes`, `AssignmentsAreEntered`, `IdsAreUnique`, `EntriesAreRegistrations`
(`TypeOK`, `AssignedIsRegistered`, `IdsNotShared`, `OneEntryPerRegistration`).

- `ServingInv`: an id that was allocated is still the next one when it is entered,
  since nobody else extends the table; the listener has a connection exactly while it
  serves one.
- `TableInv`: ids are given out in the order of the table, and the allocation is
  injective (division and remainder by `LogonLimit`).
- `ProfileInv`: every profile a responder has or is about to receive is in the table
  of the process that sent it, or is the one about to be appended.
- `UniqueInv`: no two profiles, those on their way included, share process and id.
- `CountInv`: a responder's entries and the connections that can still become one are
  together no more than the registrations it began.

### SaLifecycleProofs

From `LifecycleConstants`, for any SAs, rounds, attempts, programs and late commands:
`LifecycleTypes`, `VerifiedCleanupIsClean`, `SuccessIsClean` (`TypeOK`,
`VerifiedIsClean`, `SuccessLeavesNothing`).

- `FlowInv`: which program can be at which call.
- `RoundInv`: what a round has looked for and not found stays away while `Steady`
  holds, that is, while nobody can bring up an SA.  The order of the queries matters:
  kernel entries come from SAs only, and the kernel is asked after charon.
- `EndInv`: what a program without an error knows when it is about to report.

### NativeSessionProofs

From `SessionConstants`, for any set of names and any table: `SessionTypesHold`,
`LoadedFlagsAreTrue`, `CredentialFlagsHold`, `OtherRowsAreKept` (`TypeOK`,
`ConnectionFlagsAreTrue`, `CredentialFlagsUntilTest` and the action property
`RowsKeepTheirProfile`). The flags are inductive with `CallInv`, which says what a
command of several daemon calls has established at each of them: a load or a loop runs
only while the profile claims no connection, and what a load is about to claim was
loaded. A move to another charon keeps them because it puts every name in doubt, and
only a later successful call about a name takes it out again. `SavedRows` says what the
trailing save of a command changes in the table.

### AlgorithmRunProofs

From `RunConstants` (cases 1 to n, any number of runs): `RunTypes`, `PassesAreOwn`,
`RememberedDoneIsTrue`, `PassesLeaveNothing` (`TypeOK`, `PassIsOwn`, `DoneIsTrue`,
`PassLeavesNothing`).  The run checks one run of two cases; the theorems hold for runs
that follow each other against a server that may have missed the end of the last one.

- `RunInv`: nobody sends for a run that has not begun.
- `NetInv`: since `net` only grows, an old datagram can be received at any time; no
  request is about a case that has not begun, and every RESULT and DONE was asked for,
  so a datagram that fits the present case and run was sent in it.
- `SaInv`: until a case is reported as failed, both daemons have at most the SA of the
  present case, none before its start and after its end, and the server's answers say
  what it saw and left.
- `VerdictInv`: what a verdict PASS stands for from then to the end of its case.

### Only model-checked

The liveness properties `HolderReturns`, `StopReturns`, `RegisterReturns`, `RunEnds`,
`CaseEnds`, `InterruptEnds`, `RemovalReturns` and `QueryReturns`: fairness and ENABLED
are outside the prover's reach. Every other property of a passing run is proved.

## 5. Not modelled

The writer of the codec, configuration parsing, duration parsing and the building
and validation of a connection message: pure functions of their input, sequential
and within reach of unit tests.  Statistics and algorithm queries add nothing to
the command client and the parser.  Display, reports, logs, the catalog and PSK
generation are I/O or tables.  Within modelled components: option parsing of the
CLI, the commands `ike` and `child` (they change no ownership), the rekey commands,
the numbers copied from SAs, states, policies and routes, `xfrm_stats.c`, more than
one algorithm run against one server in the passing runs, and `AcceptNativeAppPeer`
and `StopNativeAppConnection`, which the application does not call.

## 6. Plan

Done: all modules of section 2 and the proofs of section 4.

Next, in this order:

1. `AlgorithmRun`'s cleanup as one outcome, shown to be what the attempts of
   `SaLifecycle` implement.
2. The writer of the codec with its buffer growth, against the parser: what is
   written is what is parsed.
3. Duration parsing with its overflow checks, as a pure operator.

Theorems worth proving next: the refinement of item 1, from the invariants of
`SaLifecycleProofs`.
