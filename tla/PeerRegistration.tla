-------------------------- MODULE PeerRegistration --------------------------
(***************************************************************************)
(* Peer registration of the CLI application (app/peer.c): the initiator's  *)
(* listener thread accepts TCP connections one after the other, assigns    *)
(* the next group and logon id, answers, and appends the peer to its       *)
(* table; a responder connects, sends REGISTER, waits for ASSIGN and       *)
(* appends the same peer to a table of its own.  Either side may give up,  *)
(* fail or restart at any point.                                           *)
(*                                                                         *)
(* A connection is a record: who made it, whether its REGISTER line is     *)
(* there to be read, and whether the responder still holds its end.  A     *)
(* responder runs one registration at a time, so it has at most one live   *)
(* connection.  The epoch of a profile is history: it names the initiator  *)
(* process that made the assignment and no action reads it.                *)
(***************************************************************************)
EXTENDS Integers, Sequences, FiniteSets

CONSTANTS
    Responders,   \* responder processes, each at an address of its own
    Policies,     \* what the initiator's configuration dictates: proposals, mode
    LogonLimit,   \* NATIVE_APP_PEER_LOGON_LIMIT
    Capacity,     \* NATIVE_APP_PEER_CAPACITY
    Backlog,      \* connections the kernel completes before accept
    MaxAttempts,  \* bound: registrations per responder
    MaxEpoch      \* bound: initiator processes

ASSUME PeerConstants ==
    /\ LogonLimit \in Nat \ {0}
    /\ Capacity \in Nat \ {0}
    /\ Backlog \in Nat \ {0}
    /\ MaxAttempts \in Nat
    /\ MaxEpoch \in Nat \ {0}

VARIABLES
    \* the initiator process
    epoch,           \* which process it is
    main,            \* the thread that starts and stops the listener
    bRunning,        \* NativeAppPeerListener_t
    bStopRequested,
    listener,        \* where the listener thread is
    config,          \* the listener's own copy of the base configuration
    queue,           \* completed connections not accepted yet
    peer,            \* the accepted connection (a sequence of at most one)
    ids,             \* the ids allocated to it
    table,           \* the initiator's peer table
    \* the responder processes
    rpc,             \* where each one is in RegisterNativeAppPeer
    reply,           \* the ASSIGN line on its way to it (at most one)
    rtable,          \* its peer table
    attempts         \* registrations it has begun

listenerVars  == <<main, bRunning, bStopRequested, listener, config>>
servingVars   == <<queue, peer, ids, table>>
responderVars == <<rpc, reply, rtable, attempts>>
vars == <<epoch, listenerVars, servingVars, responderVars>>

Ids         == (1 .. Capacity) \X (1 .. LogonLimit)
Connections == [from : Responders, sent : BOOLEAN, live : BOOLEAN]
Entries     == [id : Ids, address : Responders, policy : Policies]
Profiles    == [id : Ids, policy : Policies, epoch : 1 .. MaxEpoch]

TypeOK ==
    /\ epoch \in 1 .. MaxEpoch
    /\ main \in {"idle", "join"}
    /\ bRunning \in BOOLEAN
    /\ bStopRequested \in BOOLEAN
    /\ listener \in {"none", "poll", "receive", "assign", "append", "exited"}
    /\ config \in Policies
    /\ queue \in Seq(Connections) /\ Len(queue) <= Backlog
    /\ peer \in Seq(Connections) /\ Len(peer) <= 1
    /\ ids \in Ids
    /\ table \in Seq(Entries) /\ Len(table) <= Capacity
    /\ rpc \in [Responders -> {"idle", "send", "wait"}]
    /\ reply \in [Responders -> Seq(Profiles)]
    /\ rtable \in [Responders -> Seq(Profiles)]
    /\ \A r \in Responders : Len(reply[r]) <= 1 /\ Len(rtable[r]) <= Capacity
    /\ attempts \in [Responders -> 0 .. MaxAttempts]

Init ==
    /\ epoch = 1
    /\ main = "idle"
    /\ bRunning = FALSE
    /\ bStopRequested = FALSE
    /\ listener = "none"
    /\ config \in Policies
    /\ queue = <<>>
    /\ peer = <<>>
    /\ ids = <<1, 1>>
    /\ table = <<>>
    /\ rpc = [r \in Responders |-> "idle"]
    /\ reply = [r \in Responders |-> <<>>]
    /\ rtable = [r \in Responders |-> <<>>]
    /\ attempts = [r \in Responders |-> 0]

-----------------------------------------------------------------------------
(* The tables.                                                             *)

\* Mutant: ids counted from zero.
SequenceFromZero(ordinal) ==
    <<ordinal \div LogonLimit, ordinal % LogonLimit>>

GetNativeAppPeerSequence(ordinal) ==
    <<(ordinal \div LogonLimit) + 1, (ordinal % LogonLimit) + 1>>

\* The first entry with the id, or 0.  Both tables look an id up this way.
FindNativeAppPeer(t, id) ==
    LET matches == {i \in DOMAIN t : t[i].id = id}
    IN  IF matches = {} THEN 0
        ELSE CHOOSE i \in matches : \A j \in matches : i <= j

\* AppendNativeAppPeer on the initiator's table repeats the capacity check and
\* checks that the ids are still the next ones.
AppendAllowed(id) ==
    /\ Len(table) < Capacity
    /\ id[1] = (Len(table) \div LogonLimit) + 1
    /\ id[2] = (Len(table) % LogonLimit) + 1

-----------------------------------------------------------------------------
(* The responder: RegisterNativeAppPeer.                                   *)

\* A step on the connection that responder r still holds.
OnConnection(c, r, field, value) ==
    IF c.from = r /\ c.live THEN [c EXCEPT ![field] = value] ELSE c

UpdateConnection(r, field, value) ==
    /\ queue' = [i \in DOMAIN queue |-> OnConnection(queue[i], r, field, value)]
    /\ peer'  = [i \in DOMAIN peer  |-> OnConnection(peer[i], r, field, value)]

\* A listening socket exists from the start of the listener to its exit.
Listening == listener \notin {"none", "exited"}

\* The table has room and the connection is made.
OpenNativeAppClientSocket(r) ==
    /\ rpc[r] = "idle"
    /\ Len(rtable[r]) < Capacity
    /\ attempts[r] < MaxAttempts
    /\ Listening /\ Len(queue) < Backlog
    /\ queue' = Append(queue, [from |-> r, sent |-> FALSE, live |-> TRUE])
    /\ rpc' = [rpc EXCEPT ![r] = "send"]
    /\ attempts' = [attempts EXCEPT ![r] = @ + 1]
    /\ UNCHANGED <<epoch, listenerVars, peer, ids, table, reply, rtable>>

SendRegister(r) ==
    /\ rpc[r] = "send"
    /\ UpdateConnection(r, "sent", TRUE)
    /\ rpc' = [rpc EXCEPT ![r] = "wait"]
    /\ UNCHANGED <<epoch, listenerVars, ids, table, reply, rtable, attempts>>

\* ASSIGN arrived: the responder's table takes any ids while it has room.
ReceiveAssign(r) ==
    /\ rpc[r] = "wait"
    /\ reply[r] # <<>>
    /\ rtable' = [rtable EXCEPT ![r] = IF Len(@) < Capacity
                                       THEN Append(@, reply[r][1]) ELSE @]
    /\ reply' = [reply EXCEPT ![r] = <<>>]
    /\ UpdateConnection(r, "live", FALSE)
    /\ rpc' = [rpc EXCEPT ![r] = "idle"]
    /\ UNCHANGED <<epoch, listenerVars, ids, table, attempts>>

\* Mutant: no timeout while waiting for the answer.
GiveUpBeforeSending(r) ==
    /\ rpc[r] = "send"
    /\ UpdateConnection(r, "live", FALSE)
    /\ rpc' = [rpc EXCEPT ![r] = "idle"]
    /\ UNCHANGED <<epoch, listenerVars, ids, table, reply, rtable, attempts>>

\* The receive timeout, or the end of a connection the initiator closed.  The
\* responder cannot know whether an ASSIGN is on its way.
GiveUp(r) ==
    /\ rpc[r] # "idle"
    /\ reply' = [reply EXCEPT ![r] = <<>>]
    /\ UpdateConnection(r, "live", FALSE)
    /\ rpc' = [rpc EXCEPT ![r] = "idle"]
    /\ UNCHANGED <<epoch, listenerVars, ids, table, rtable, attempts>>

RegisterNativeAppPeer(r) == SendRegister(r) \/ ReceiveAssign(r) \/ GiveUp(r)

\* The responder's table is not saved.
RestartResponder(r) ==
    /\ rtable[r] # <<>>
    /\ rtable' = [rtable EXCEPT ![r] = <<>>]
    /\ reply' = [reply EXCEPT ![r] = <<>>]
    /\ UpdateConnection(r, "live", FALSE)
    /\ rpc' = [rpc EXCEPT ![r] = "idle"]
    /\ UNCHANGED <<epoch, listenerVars, ids, table, attempts>>

-----------------------------------------------------------------------------
(* The initiator's listener thread.                                        *)

\* RunNativeAppPeerListener: the flag is looked at before every wait.
ListenerStops ==
    /\ listener = "poll" /\ bStopRequested
    /\ listener' = "exited"
    /\ queue' = <<>>
    /\ UNCHANGED <<epoch, main, bRunning, bStopRequested, config, peer, ids, table,
                   responderVars>>

\* A wait that fails ends the thread; nobody clears bRunning.
ListenerFails ==
    /\ listener = "poll" /\ ~bStopRequested
    /\ listener' = "exited"
    /\ queue' = <<>>
    /\ UNCHANGED <<epoch, main, bRunning, bStopRequested, config, peer, ids, table,
                   responderVars>>

Accept ==
    /\ listener = "poll" /\ ~bStopRequested
    /\ queue # <<>>
    /\ peer' = <<Head(queue)>>
    /\ queue' = Tail(queue)
    /\ listener' = "receive"
    /\ UNCHANGED <<epoch, main, bRunning, bStopRequested, config, ids, table,
                   responderVars>>

\* Mutant: the loop goes on with the connection it has just served.
ConnectionStaysOpen ==
    /\ peer' = peer
    /\ listener' = "receive"

\* The accepted connection is closed and the loop goes on.
CloseConnection ==
    /\ peer' = <<>>
    /\ listener' = "poll"

\* Nothing came in time, or the end of the stream came first.
ReceiveTimesOut == ~peer[1].sent

\* Mutant: the ordinal of the last entry, not of the next one.
AllocateLastIds ==
    /\ Len(table) < Capacity
    /\ ids' = GetNativeAppPeerSequence(IF table = <<>> THEN 0 ELSE Len(table) - 1)

\* AllocateNativeAppPeerIds only reads the table: nothing is reserved.
AllocateNativeAppPeerIds ==
    /\ Len(table) < Capacity
    /\ ids' = GetNativeAppPeerSequence(Len(table))

\* REGISTER is refused when the line is malformed, the address it claims is not
\* the TCP source (a network may translate addresses), or the table is full; the
\* connection is closed without a word.
ReceiveRegister ==
    /\ listener = "receive"
    /\ \/ /\ peer[1].sent
          /\ AllocateNativeAppPeerIds
          /\ listener' = "assign"
          /\ UNCHANGED peer
       \/ /\ peer[1].sent
          /\ CloseConnection
          /\ UNCHANGED ids
       \/ /\ ReceiveTimesOut
          /\ CloseConnection
          /\ UNCHANGED ids
    /\ UNCHANGED <<epoch, main, bRunning, bStopRequested, config, queue, table,
                   responderVars>>

\* The send succeeds whether or not the responder still listens; it fails on a
\* connection that was reset, and then the ids stay unused.
SendAssign ==
    /\ listener = "assign"
    /\ \/ /\ reply' = [reply EXCEPT ![peer[1].from] =
                          IF peer[1].live
                          THEN <<[id |-> ids, policy |-> config, epoch |-> epoch]>>
                          ELSE @]
          /\ listener' = "append"
          /\ UNCHANGED peer
       \/ /\ CloseConnection
          /\ UNCHANGED reply
    /\ UNCHANGED <<epoch, main, bRunning, bStopRequested, config, queue, ids, table,
                   rpc, rtable, attempts>>

\* Mutant: a peer that registers again takes the place of its old entry.
AppendReplacesAddress ==
    /\ listener = "append"
    /\ LET old == {i \in DOMAIN table : table[i].address = peer[1].from}
           new == [id |-> ids, address |-> peer[1].from, policy |-> config]
       IN  table' = IF old = {} THEN Append(table, new)
                    ELSE [i \in DOMAIN table |-> IF i \in old THEN new ELSE table[i]]
    /\ CloseConnection
    /\ UNCHANGED <<epoch, main, bRunning, bStopRequested, config, queue, ids,
                   responderVars>>

AppendNativeAppPeer ==
    /\ listener = "append"
    /\ table' = IF AppendAllowed(ids)
                THEN Append(table, [id |-> ids, address |-> peer[1].from,
                                    policy |-> config])
                ELSE table
    /\ CloseConnection
    /\ UNCHANGED <<epoch, main, bRunning, bStopRequested, config, queue, ids,
                   responderVars>>

\* AcceptNativeAppPeerConnection and the loop around it.
RunNativeAppPeerListener ==
    \/ ListenerStops
    \/ Accept
    \/ ReceiveRegister
    \/ SendAssign
    \/ AppendNativeAppPeer

-----------------------------------------------------------------------------
(* The initiator's main thread.                                            *)

StartNativeAppPeerListener(policy) ==
    /\ main = "idle" /\ ~bRunning
    /\ bRunning' = TRUE
    /\ bStopRequested' = FALSE
    /\ config' = policy
    /\ listener' = "poll"
    /\ UNCHANGED <<epoch, main, servingVars, responderVars>>

\* Mutant: the thread is joined without being told to stop.
StopWithoutRequest ==
    /\ main = "idle" /\ bRunning
    /\ main' = "join"
    /\ UNCHANGED <<epoch, bRunning, bStopRequested, listener, config, servingVars,
                   responderVars>>

StopNativeAppPeerListener ==
    /\ main = "idle" /\ bRunning
    /\ bStopRequested' = TRUE
    /\ main' = "join"
    /\ UNCHANGED <<epoch, bRunning, listener, config, servingVars, responderVars>>

JoinListener ==
    /\ main = "join" /\ listener = "exited"
    /\ main' = "idle"
    /\ bRunning' = FALSE
    /\ UNCHANGED <<epoch, bStopRequested, listener, config, servingVars, responderVars>>

\* A new initiator process: the table, and with it the next id, starts over.
RestartInitiator ==
    /\ epoch < MaxEpoch
    /\ epoch' = epoch + 1
    /\ main' = "idle"
    /\ bRunning' = FALSE
    /\ bStopRequested' = FALSE
    /\ listener' = "none"
    /\ queue' = <<>>
    /\ peer' = <<>>
    /\ table' = <<>>
    /\ UNCHANGED <<config, ids, responderVars>>

-----------------------------------------------------------------------------

Next ==
    \/ \E r \in Responders :
          \/ OpenNativeAppClientSocket(r)
          \/ RegisterNativeAppPeer(r)
          \/ RestartResponder(r)
    \/ RunNativeAppPeerListener
    \/ ListenerFails
    \/ \E policy \in Policies : StartNativeAppPeerListener(policy)
    \/ StopNativeAppPeerListener
    \/ JoinListener
    \/ RestartInitiator

\* Threads keep running and every wait has a timeout.
Fairness ==
    /\ WF_vars(RunNativeAppPeerListener)
    /\ WF_vars(JoinListener)
    /\ \A r \in Responders : WF_vars(RegisterNativeAppPeer(r))

Spec == Init /\ [][Next]_vars

FairSpec == Spec /\ Fairness

-----------------------------------------------------------------------------
(* Properties.                                                             *)

\* What a responder built from an ASSIGN of the running initiator process, the
\* initiator has in its table under the same id, with that responder's address
\* and the same policy; the only exception is the entry it is about to append.
AssignedIsRegistered ==
    \A r \in Responders : \A i \in DOMAIN rtable[r] :
        LET p == rtable[r][i]
            k == FindNativeAppPeer(table, p.id)
        IN  p.epoch = epoch =>
              \/ k # 0 /\ table[k].address = r /\ table[k].policy = p.policy
              \/ listener = "append" /\ peer[1].from = r /\ ids = p.id

\* No two profiles made by one initiator process share an id, in one responder
\* or in two, although allocation reserves nothing and answers get lost.
IdsNotShared ==
    \A r, s \in Responders : \A i \in DOMAIN rtable[r], j \in DOMAIN rtable[s] :
        (/\ rtable[r][i].epoch = rtable[s][j].epoch
         /\ rtable[r][i].id = rtable[s][j].id)
            => r = s /\ i = j

\* The initiator's table holds at most one entry for each registration a
\* responder began: abandoned registrations leave entries behind, but no
\* connection is ever entered twice.
OneEntryPerRegistration ==
    \A r \in Responders :
        Cardinality({i \in DOMAIN table : table[i].address = r}) <= attempts[r]

\* StopNativeAppPeerListener returns, whatever the connected responders do or
\* fail to do, or the initiator process ends.
StopReturns == main = "join" ~> main = "idle"

\* RegisterNativeAppPeer returns.
RegisterReturns == \A r \in Responders : rpc[r] # "idle" ~> rpc[r] = "idle"

=============================================================================
