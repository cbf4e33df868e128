----------------------------- MODULE ViciClient -----------------------------
(***************************************************************************)
(* The VICI command client: ExecuteViciCommand (vici_client.c) over the    *)
(* Unix stream socket of vici_transport.c, called by several threads that  *)
(* share one IpsecContext_t, against a charon daemon that serves requests, *)
(* streams events, crashes and restarts.                                   *)
(*                                                                         *)
(* The VICI protocol has no sequence numbers.  The field "call" of a       *)
(* packet is therefore history only: no client action reads it.  Which     *)
(* packet answers which request is decided by position in the stream.      *)
(***************************************************************************)
EXTENDS Integers, Sequences

CONSTANTS
    Threads,         \* callers sharing one context
    Calls,           \* identities of calls; one is reused once nothing holds it
    NoThread, NoCall,
    CommandTimeout,  \* uiCommandTimeoutMs, in clock ticks
    SocketBuffer,    \* packets the daemon can have unread in the client's socket
    Faults           \* the malformed packets the daemon may send

AllFaults == {"BAD_LENGTH", "UNDECODABLE", "BAD_EVENT", "BAD_RESPONSE"}

\* The faults that end ReceiveViciCommandStream before the RESPONSE is read
\* and leave the socket open.
MidStreamFaults == {"UNDECODABLE", "BAD_EVENT"}

ASSUME ClientConstants ==
    /\ NoThread \notin Threads
    /\ NoCall \notin Calls
    /\ CommandTimeout \in Nat \ {0}
    /\ SocketBuffer \in Nat \ {0}
    /\ Faults \subseteq AllFaults

VARIABLES
    mutex,       \* CommandMutex: its holder, or NoThread
    budget,      \* ticks left to ullCommandDeadlineMs; NoDeadline is its value 0
    socket,      \* iViciSocket: "closed" (-1), "open", or "hungup" (POLLHUP)
    pc,          \* where each thread is in ExecuteViciCommand
    call,        \* the call each thread made last
    streaming,   \* whether that call names an event (pcEventName)
    eError,      \* its eError
    bRegistered, \* its bRegistered
    response,    \* the call whose answer it took for its own, or NoCall
    toDaemon,    \* packets written to the socket and not yet read by charon
    toClient,    \* packets charon wrote and the client has not read
    serving,     \* the request charon is answering on this connection
    registered,  \* charon's event registration of this connection
    leftover,    \* history: a registration whose UNREGISTER could not be built
    late,        \* requests charon can still read from closed connections
    executed,    \* how many times charon performed each call
    daemonUp

clientVars  == <<pc, call, streaming, eError, bRegistered, response>>
channelVars == <<socket, toDaemon, toClient, serving, registered, leftover, late>>
vars == <<mutex, budget, clientVars, channelVars, executed, daemonUp>>

NoDeadline == -1

Locations == {"idle", "lock", "connect", "register", "confirm", "request",
              "stream", "unregister", "unconfirm", "unlock"}

Errors == {"OK", "CONNECT", "TIMEOUT", "TRANSPORT", "PROTOCOL",
           "NOT_SUPPORTED", "CALLBACK", "COMMAND", "NO_MEMORY"}

RequestKinds == {"REGISTER", "UNREGISTER", "REQUEST"}
ReplyKinds   == {"CONFIRM", "EVENT_UNKNOWN", "EVENT", "RESPONSE", "FAILURE",
                 "CMD_UNKNOWN"} \cup AllFaults

Packets(kinds) == [kind : kinds, call : Calls]

Pkt(k, c) == [kind |-> k, call |-> c]

TypeOK ==
    /\ mutex \in Threads \cup {NoThread}
    /\ budget \in {NoDeadline} \cup 0 .. CommandTimeout
    /\ socket \in {"closed", "open", "hungup"}
    /\ pc \in [Threads -> Locations]
    /\ call \in [Threads -> Calls \cup {NoCall}]
    /\ streaming \in [Threads -> BOOLEAN]
    /\ eError \in [Threads -> Errors]
    /\ bRegistered \in [Threads -> BOOLEAN]
    /\ response \in [Threads -> Calls \cup {NoCall}]
    /\ toDaemon \in Seq(Packets(RequestKinds))
    /\ toClient \in Seq(Packets(ReplyKinds))
    /\ serving \in Calls \cup {NoCall}
    /\ registered \in BOOLEAN
    /\ leftover \in BOOLEAN
    /\ late \subseteq Calls
    /\ executed \in [Calls -> Nat]
    /\ daemonUp \in BOOLEAN

Init ==
    /\ mutex = NoThread
    /\ budget = NoDeadline
    /\ socket = "closed"
    /\ pc = [t \in Threads |-> "idle"]
    /\ call = [t \in Threads |-> NoCall]
    /\ streaming = [t \in Threads |-> FALSE]
    /\ eError = [t \in Threads |-> "OK"]
    /\ bRegistered = [t \in Threads |-> FALSE]
    /\ response = [t \in Threads |-> NoCall]
    /\ toDaemon = <<>>
    /\ toClient = <<>>
    /\ serving = NoCall
    /\ registered = FALSE
    /\ leftover = FALSE
    /\ late = {}
    /\ executed = [c \in Calls |-> 0]
    /\ daemonUp \in BOOLEAN

-----------------------------------------------------------------------------
(* The transport: vici_transport.c.                                        *)

\* The requests that wait unread in a stream of packets to the daemon.
Requests(queue) == {queue[i].call : i \in {j \in DOMAIN queue : queue[j].kind = "REQUEST"}}

\* Mutant: the descriptor survives a failed operation.
DisconnectForgotten ==
    UNCHANGED channelVars

\* DisconnectViciTransport.  Whatever was completely written before the close
\* can still be read, and performed, by charon; its answer reaches nobody.
DisconnectViciTransport ==
    /\ socket' = "closed"
    /\ toDaemon' = <<>>
    /\ toClient' = <<>>
    /\ serving' = NoCall
    /\ registered' = FALSE
    /\ leftover' = FALSE
    /\ late' = late \cup Requests(toDaemon)

\* Mutants: a wait without its deadline, a hang-up taken for a refused connect.
WaitFailsOnHangupOnly == socket = "hungup"
WaitErrorHangupIsConnect == IF budget = 0 THEN "TIMEOUT" ELSE "CONNECT"

\* WaitViciSocket reports the expired deadline before it looks at the socket,
\* and a hang-up before it looks at the data.
WaitFails == budget = 0 \/ socket = "hungup"
WaitError == IF budget = 0 THEN "TIMEOUT" ELSE "TRANSPORT"

\* Mutant: the event registration is not undone.
AfterCommandNoUnregister(t, open) == "unlock"

\* Where ExecuteViciCommand goes when the command part ends with the socket
\* open or closed.
AfterCommand(t, open) == IF bRegistered[t] /\ open THEN "unregister" ELSE "unlock"

\* Mutant: the failure is not reported.
TransportFailsUnreported(t, err) ==
    /\ DisconnectViciTransport
    /\ pc' = [pc EXCEPT ![t] = "unlock"]
    /\ UNCHANGED <<mutex, budget, call, streaming, eError, bRegistered, response,
                   executed, daemonUp>>

\* A refusal (success = no) becomes an error only when the call returns, so the
\* error of a later step replaces it as it replaces success.
Report(old, new) == IF old \in {"OK", "COMMAND"} /\ new # "OK" THEN new ELSE old

\* A transport operation that fails has closed the socket: the command part
\* ends and nothing is left to unregister.
TransportFails(t, err) ==
    /\ DisconnectViciTransport
    /\ pc' = [pc EXCEPT ![t] = "unlock"]
    /\ eError' = [eError EXCEPT ![t] = Report(@, err)]
    /\ UNCHANGED <<mutex, budget, call, streaming, bRegistered, response,
                   executed, daemonUp>>

\* A packet that is not sent: BuildViciNamedPacket has no memory for it, or
\* SendViciTransportPacket refuses a request above VICI_MAX_SEGMENT_LENGTH.
\* Nothing was written and the socket is kept.
BuildFails(t, to) ==
    /\ pc' = [pc EXCEPT ![t] = to]
    /\ eError' = [eError EXCEPT ![t] = Report(@, "NO_MEMORY")]
    /\ UNCHANGED <<mutex, budget, call, streaming, bRegistered, response, socket,
                   toDaemon, toClient, serving, registered, late, executed, daemonUp>>

\* SendViciTransportPacket of a packet of thread t, then on to location to.
\* A send that fails never wrote the whole packet, so charon does not see it.
SendViciTransportPacket(t, kind, to) ==
    \/ /\ WaitFails
       /\ TransportFails(t, WaitError)
    \/ /\ ~WaitFails
       /\ toDaemon' = Append(toDaemon, Pkt(kind, call[t]))
       /\ pc' = [pc EXCEPT ![t] = to]
       /\ UNCHANGED <<mutex, budget, socket, call, streaming, eError, bRegistered,
                      response, toClient, serving, registered, leftover, late, executed,
                      daemonUp>>

\* ReceiveViciTransportPacket fails: deadline, hang-up, a length field of zero
\* or above VICI_MAX_SEGMENT_LENGTH, or no memory for the packet.
ReceiveFails(t) ==
    \/ /\ WaitFails
       /\ TransportFails(t, WaitError)
    \/ /\ ~WaitFails /\ toClient # <<>>
       /\ TransportFails(t, IF Head(toClient).kind = "BAD_LENGTH" THEN "PROTOCOL"
                                                                 ELSE "NO_MEMORY")

\* ReceiveViciTransportPacket returns the packet at the head of the stream.
Received(kinds) ==
    /\ ~WaitFails
    /\ toClient # <<>>
    /\ Head(toClient).kind \in kinds
    /\ toClient' = Tail(toClient)

-----------------------------------------------------------------------------
(* ExecuteViciCommand: vici_client.c.                                      *)

\* An identity no packet, unread request or other thread still carries.
Fresh(c, t) ==
    /\ c \notin late \cup {serving}
    /\ \A u \in Threads \ {t} : call[u] # c
    /\ \A i \in DOMAIN toDaemon : toDaemon[i].call # c
    /\ \A i \in DOMAIN toClient : toClient[i].call # c

\* A thread enters ExecuteViciCommand, with or without an event to stream.
Call(t, c, stream) ==
    /\ pc[t] = "idle"
    /\ Fresh(c, t)
    /\ pc' = [pc EXCEPT ![t] = "lock"]
    /\ call' = [call EXCEPT ![t] = c]
    /\ streaming' = [streaming EXCEPT ![t] = stream]
    /\ eError' = [eError EXCEPT ![t] = "OK"]
    /\ bRegistered' = [bRegistered EXCEPT ![t] = FALSE]
    /\ response' = [response EXCEPT ![t] = NoCall]
    /\ executed' = [executed EXCEPT ![c] = 0]
    /\ UNCHANGED <<mutex, budget, channelVars, daemonUp>>

\* Mutant: the deadline is one tick late.
LockLateDeadline(t) ==
    /\ pc[t] = "lock"
    /\ mutex = NoThread
    /\ mutex' = t
    /\ budget' = CommandTimeout + 1
    /\ pc' = [pc EXCEPT ![t] = "connect"]
    /\ UNCHANGED <<call, streaming, eError, bRegistered, response, channelVars,
                   executed, daemonUp>>

\* pthread_mutex_lock, then the absolute deadline of the whole command.
Lock(t) ==
    /\ pc[t] = "lock"
    /\ mutex = NoThread
    /\ mutex' = t
    /\ budget' = CommandTimeout
    /\ pc' = [pc EXCEPT ![t] = "connect"]
    /\ UNCHANGED <<call, streaming, eError, bRegistered, response, channelVars,
                   executed, daemonUp>>

\* ConnectViciTransport: nothing to do on an open descriptor (even one the
\* daemon hung up); otherwise a fresh connection, or an error: no daemon, no
\* permission, no descriptor, a full backlog.
ConnectViciTransport(t) ==
    /\ pc[t] = "connect"
    /\ \/ /\ socket # "closed" \/ daemonUp
          /\ socket' = IF socket = "closed" THEN "open" ELSE socket
          /\ pc' = [pc EXCEPT ![t] = IF streaming[t] THEN "register" ELSE "request"]
          /\ UNCHANGED eError
       \/ /\ socket = "closed"
          /\ pc' = [pc EXCEPT ![t] = "unlock"]
          /\ eError' = [eError EXCEPT ![t] = "CONNECT"]
          /\ UNCHANGED socket
    /\ UNCHANGED <<mutex, budget, call, streaming, bRegistered, response, toDaemon,
                   toClient, serving, registered, leftover, late, executed, daemonUp>>

\* ExchangeViciRegistration reads exactly one packet as the confirmation.
RegistrationError ==
    CASE Head(toClient).kind = "CONFIRM"       -> "OK"
      [] Head(toClient).kind = "EVENT_UNKNOWN" -> "NOT_SUPPORTED"
      [] OTHER                                 -> "PROTOCOL"

Register(t) ==
    /\ pc[t] = "register"
    /\ \/ SendViciTransportPacket(t, "REGISTER", "confirm")
       \/ BuildFails(t, "unlock") /\ UNCHANGED leftover

ReceiveConfirm(t) ==
    /\ pc[t] = "confirm"
    /\ \/ ReceiveFails(t)
       \/ /\ Received(ReplyKinds \ {"BAD_LENGTH"})
          /\ eError' = [eError EXCEPT ![t] = RegistrationError]
          /\ bRegistered' = [bRegistered EXCEPT ![t] = (RegistrationError = "OK")]
          /\ pc' = [pc EXCEPT ![t] = IF RegistrationError = "OK" THEN "request"
                                                                 ELSE "unlock"]
          /\ UNCHANGED <<mutex, budget, socket, call, streaming, response, toDaemon,
                         serving, registered, leftover, late, executed, daemonUp>>

Request(t) ==
    /\ pc[t] = "request"
    /\ \/ SendViciTransportPacket(t, "REQUEST", "stream")
       \/ BuildFails(t, AfterCommand(t, TRUE)) /\ UNCHANGED leftover

\* ReceiveViciCommandStream, one packet per step.  An event goes to the
\* callback of a call that named it and is skipped by any other.
StreamEvent(t) ==
    /\ Received({"EVENT"} \cup IF streaming[t] THEN {} ELSE {"BAD_EVENT"})
    /\ UNCHANGED <<pc, eError, response>>

\* Mutant: every packet that ends the loop is success.
StreamEndAlwaysOk(t) ==
    /\ Received(ReplyKinds \ ({"BAD_LENGTH", "EVENT"} \cup
                              IF streaming[t] THEN {} ELSE {"BAD_EVENT"}))
    /\ eError' = [eError EXCEPT ![t] = "OK"]
    /\ response' = [response EXCEPT ![t] = Head(toClient).call]
    /\ pc' = [pc EXCEPT ![t] = AfterCommand(t, TRUE)]

\* Mutant: a command whose answer cannot be used is sent again.
StreamEndRetries(t) ==
    /\ Received(ReplyKinds \ ({"BAD_LENGTH", "EVENT"} \cup
                              IF streaming[t] THEN {} ELSE {"BAD_EVENT"}))
    /\ pc' = [pc EXCEPT ![t] = IF Head(toClient).kind = "BAD_RESPONSE"
                               THEN "request" ELSE AfterCommand(t, TRUE)]
    /\ eError' = [eError EXCEPT ![t] =
                     IF Head(toClient).kind = "RESPONSE" THEN "OK" ELSE "COMMAND"]
    /\ UNCHANGED response

\* The loop ends: the answer (a parsable one, one with success = no, one the
\* parser or the response callback refuses), an unknown command, an event its
\* callback refuses, or a packet that is neither.
StreamEnd(t) ==
    /\ Received(ReplyKinds \ ({"BAD_LENGTH", "EVENT"} \cup
                              IF streaming[t] THEN {} ELSE {"BAD_EVENT"}))
    /\ LET kind == Head(toClient).kind IN
       /\ eError' = [eError EXCEPT ![t] =
                        CASE kind = "RESPONSE"     -> "OK"
                          [] kind = "FAILURE"      -> "COMMAND"
                          [] kind = "CMD_UNKNOWN"  -> "NOT_SUPPORTED"
                          [] kind \in {"BAD_EVENT", "BAD_RESPONSE"} -> "CALLBACK"
                          [] OTHER                 -> "PROTOCOL"]
       /\ response' = [response EXCEPT ![t] =
                          IF kind \in {"RESPONSE", "FAILURE", "BAD_RESPONSE"}
                          THEN Head(toClient).call ELSE @]
    /\ pc' = [pc EXCEPT ![t] = AfterCommand(t, TRUE)]

ReceiveViciCommandStream(t) ==
    /\ pc[t] = "stream"
    /\ \/ ReceiveFails(t)
       \/ /\ StreamEvent(t) \/ StreamEnd(t)
          /\ UNCHANGED <<mutex, budget, socket, call, streaming, bRegistered,
                         toDaemon, serving, registered, leftover, late, executed, daemonUp>>

\* When the UNREGISTER cannot be built the call returns with its socket open
\* and its event still registered.
Unregister(t) ==
    /\ pc[t] = "unregister"
    /\ \/ SendViciTransportPacket(t, "UNREGISTER", "unconfirm")
       \/ BuildFails(t, "unlock") /\ leftover' = registered

\* The unregistration's own error is reported unless the command had one.
ReceiveUnconfirm(t) ==
    /\ pc[t] = "unconfirm"
    /\ \/ ReceiveFails(t)
       \/ /\ Received(ReplyKinds \ {"BAD_LENGTH"})
          /\ eError' = [eError EXCEPT ![t] = Report(@, RegistrationError)]
          /\ pc' = [pc EXCEPT ![t] = "unlock"]
          /\ UNCHANGED <<mutex, budget, socket, call, streaming, bRegistered, response,
                         toDaemon, serving, registered, leftover, late, executed, daemonUp>>

\* The deadline is cleared, the mutex released, and the call returns eError.
Unlock(t) ==
    /\ pc[t] = "unlock"
    /\ mutex' = NoThread
    /\ budget' = NoDeadline
    /\ pc' = [pc EXCEPT ![t] = "idle"]
    /\ UNCHANGED <<call, streaming, eError, bRegistered, response, channelVars,
                   executed, daemonUp>>

\* The steps of a call, from the lock on: none waits for the caller.
Step(t) ==
    \/ Lock(t)
    \/ ConnectViciTransport(t)
    \/ Register(t)
    \/ ReceiveConfirm(t)
    \/ Request(t)
    \/ ReceiveViciCommandStream(t)
    \/ Unregister(t)
    \/ ReceiveUnconfirm(t)
    \/ Unlock(t)

-----------------------------------------------------------------------------
(* The environment: the monotonic clock and the charon daemon (external).  *)

Tick ==
    /\ budget > 0
    /\ budget' = budget - 1
    /\ UNCHANGED <<mutex, clientVars, channelVars, executed, daemonUp>>

Garbled == Faults \cap {"BAD_LENGTH", "UNDECODABLE"}

\* charon reads the next packet of the connection when it is not serving one.
DaemonReads(kind) ==
    /\ daemonUp /\ serving = NoCall
    /\ toDaemon # <<>> /\ Head(toDaemon).kind = kind
    /\ toDaemon' = Tail(toDaemon)

DaemonWrites(kind, c) ==
    /\ Len(toClient) < SocketBuffer
    /\ toClient' = Append(toClient, Pkt(kind, c))

DaemonRegister ==
    \E kind \in {"CONFIRM", "EVENT_UNKNOWN"} \cup Garbled :
        /\ DaemonReads("REGISTER")
        /\ DaemonWrites(kind, Head(toDaemon).call)
        /\ registered' = (registered \/ kind # "EVENT_UNKNOWN")
        /\ UNCHANGED <<mutex, budget, clientVars, socket, serving, leftover, late, executed,
                       daemonUp>>

\* One registration is undone; one left by an earlier call, of the same event
\* or another, may remain.
DaemonUnregister ==
    \E kind \in {"CONFIRM"} \cup Garbled :
        /\ DaemonReads("UNREGISTER")
        /\ DaemonWrites(kind, Head(toDaemon).call)
        /\ registered' \in {FALSE, leftover}
        /\ UNCHANGED <<mutex, budget, clientVars, socket, serving, leftover, late, executed,
                       daemonUp>>

DaemonExecute ==
    /\ DaemonReads("REQUEST")
    /\ serving' = Head(toDaemon).call
    /\ executed' = [executed EXCEPT ![Head(toDaemon).call] = @ + 1]
    /\ UNCHANGED <<mutex, budget, clientVars, socket, toClient, registered, leftover, late,
                   daemonUp>>

DaemonUnknown ==
    /\ DaemonReads("REQUEST")
    /\ DaemonWrites("CMD_UNKNOWN", Head(toDaemon).call)
    /\ UNCHANGED <<mutex, budget, clientVars, socket, serving, registered, leftover, late,
                   executed, daemonUp>>

DaemonEvent ==
    \E kind \in {"EVENT"} \cup Garbled \cup (Faults \cap {"BAD_EVENT"}) :
        /\ serving # NoCall /\ registered
        /\ DaemonWrites(kind, serving)
        /\ UNCHANGED <<mutex, budget, clientVars, socket, toDaemon, serving,
                       registered, leftover, late, executed, daemonUp>>

DaemonRespond ==
    \E kind \in {"RESPONSE", "FAILURE"} \cup Garbled \cup (Faults \cap {"BAD_RESPONSE"}) :
        /\ serving # NoCall
        /\ DaemonWrites(kind, serving)
        /\ serving' = NoCall
        /\ UNCHANGED <<mutex, budget, clientVars, socket, toDaemon, registered, leftover, late,
                       executed, daemonUp>>

\* A request read from a connection the client has already closed.
DaemonExecuteLate ==
    \E c \in late :
        /\ late' = late \ {c}
        /\ executed' = [executed EXCEPT ![c] = @ + 1]
        /\ UNCHANGED <<mutex, budget, clientVars, socket, toDaemon, toClient, serving,
                       registered, leftover, daemonUp>>

DaemonCrash ==
    /\ daemonUp
    /\ daemonUp' = FALSE
    /\ socket' = IF socket = "open" THEN "hungup" ELSE socket
    /\ toDaemon' = <<>>
    /\ toClient' = <<>>
    /\ serving' = NoCall
    /\ registered' = FALSE
    /\ leftover' = FALSE
    /\ late' = {}
    /\ UNCHANGED <<mutex, budget, clientVars, executed>>

DaemonStart ==
    /\ ~daemonUp
    /\ daemonUp' = TRUE
    /\ UNCHANGED <<mutex, budget, clientVars, channelVars, executed>>

Daemon ==
    \/ DaemonRegister
    \/ DaemonUnregister
    \/ DaemonExecute
    \/ DaemonUnknown
    \/ DaemonEvent
    \/ DaemonRespond
    \/ DaemonExecuteLate
    \/ DaemonCrash
    \/ DaemonStart

-----------------------------------------------------------------------------

Next ==
    \/ \E t \in Threads :
          \/ \E c \in Calls, stream \in BOOLEAN : Call(t, c, stream)
          \/ Step(t)
    \/ Tick
    \/ Daemon

\* A thread inside the library keeps running and the clock advances.  Nothing
\* is assumed of the daemon, of the callers, or of the mutex's fairness.
Fairness ==
    /\ \A t \in Threads : WF_vars(Step(t))
    /\ WF_vars(Tick)

Spec == Init /\ [][Next]_vars

FairSpec == Spec /\ Fairness

-----------------------------------------------------------------------------
(* Properties.                                                             *)

\* A call that took an answer for its own took its own: the answer of no other
\* call, of this thread or another, is ever attributed to it, although packets
\* carry no identity and earlier calls were abandoned at any point.
OwnResponse ==
    \A t \in Threads : response[t] \in {NoCall, call[t]}

\* A call that returned success was performed by the daemon.
OkMeansExecuted ==
    \A t \in Threads :
        (pc[t] = "idle" /\ call[t] # NoCall /\ eError[t] = "OK")
            => executed[call[t]] = 1

\* No request is performed twice, whatever timed out, hung up or was left
\* unread in a closed connection: the client never sends a request again.
AtMostOnce ==
    \A c \in Calls : executed[c] <= 1

\* A call that could not reach the daemon left nothing behind that the daemon
\* may still perform.
ConnectErrorMeansNotExecuted ==
    \A t \in Threads :
        (pc[t] = "idle" /\ eError[t] = "CONNECT")
            => executed[call[t]] = 0 /\ call[t] \notin late

\* Between two calls an open connection carries nothing the next call would
\* meet: no unread packet, no request in progress, and no event registration but
\* one whose EVENT_UNREGISTER packet its own call could not build.  That one call
\* keeps the socket (ExchangeViciRegistration disconnects only through the
\* transport), and the registration lasts until the connection is closed.
CleanBetweenCalls ==
    (mutex = NoThread /\ socket = "open")
        => /\ toDaemon = <<>> /\ toClient = <<>>
           /\ serving = NoCall
           /\ registered => leftover

\* One command at a time on a socket: when a request is about to be written, no
\* other command is in progress on that connection and nothing is left unread.
OneCommandAtATime ==
    \A t \in Threads :
        (pc[t] = "request" /\ socket = "open")
            => serving = NoCall /\ toClient = <<>>

\* The command mutex is released by every call that takes it, against a daemon
\* that never answers, dies, or streams events for ever.
HolderReturns ==
    \A t \in Threads : mutex = t ~> mutex # t

-----------------------------------------------------------------------------
(* The mapping under which the client implements ViciService: a request is *)
(* pending while charon can still read it, from this connection or from    *)
(* one that is closed.                                                     *)

Outcome(t) ==
    IF pc[t] # "idle" THEN "running"
    ELSE IF call[t] = NoCall THEN "none"
    ELSE IF eError[t] = "OK" THEN "ok" ELSE "error"

Service == INSTANCE ViciService WITH
    owner   <- mutex,
    current <- call,
    outcome <- [t \in Threads |-> Outcome(t)],
    pending <- Requests(toDaemon) \cup late,
    effect  <- executed

\* Seen from its callers, the socket client behaves as the atomic service of
\* ViciService: one call at a time, every command performed at most once, and
\* no success without the command having been performed.
ImplementsService == Service!Spec

=============================================================================
