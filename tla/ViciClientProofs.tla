-------------------------- MODULE ViciClientProofs --------------------------
(***************************************************************************)
(* Theorems about ViciClient, for every set of threads and calls, every    *)
(* deadline and every socket buffer.                                       *)
(***************************************************************************)
EXTENDS ViciClient, SequenceTheorems, TLAPS

-----------------------------------------------------------------------------
(* The inductive invariant.                                                *)

Outside == {"idle", "lock"}

\* The mutex is held exactly by the thread inside ExecuteViciCommand; one that
\* waits for it has registered nothing.
LockInv ==
    \A t \in Threads :
        /\ mutex = t <=> pc[t] \notin Outside
        /\ pc[t] = "lock" => ~bRegistered[t]

\* A call in progress has an identity, and no two threads share one.
CallInv ==
    /\ \A t \in Threads : pc[t] # "idle" => call[t] \in Calls
    /\ \A t, u \in Threads : t # u /\ call[t] \in Calls => call[t] # call[u]

\* Nothing is in flight on the connection.
Quiet == toDaemon = <<>> /\ toClient = <<>> /\ serving = NoCall

\* charon holds no event registration but one whose UNREGISTER was never sent.
Forgotten == registered => leftover

\* A registration packet of thread t, or its single answer, is in flight.
Exchanging(t, kind, replies) ==
    /\ serving = NoCall
    /\ \/ toDaemon = <<Pkt(kind, call[t])>> /\ toClient = <<>>
       \/ /\ toDaemon = <<>>
          /\ \E k \in replies : toClient = <<Pkt(k, call[t])>>
       \/ Quiet /\ socket = "hungup"

Final == {"RESPONSE", "FAILURE", "BAD_RESPONSE", "CMD_UNKNOWN", "BAD_LENGTH"}
Interim == {"EVENT", "BAD_LENGTH"}

\* Where the command of thread t is: unread, being answered, answered, or lost
\* with the daemon.  Every packet on its way to the client belongs to it, and
\* only the last one can end the stream.
Unread(t) ==
    /\ toDaemon = <<Pkt("REQUEST", call[t])>> /\ toClient = <<>> /\ serving = NoCall
    /\ executed[call[t]] = 0

Answering(t) ==
    /\ toDaemon = <<>> /\ serving = call[t] /\ executed[call[t]] = 1
    /\ \A i \in 1 .. Len(toClient) :
          toClient[i].call = call[t] /\ toClient[i].kind \in Interim

Answered(t) ==
    /\ toDaemon = <<>> /\ serving = NoCall /\ toClient # <<>>
    /\ executed[call[t]] <= 1
    /\ \A i \in 1 .. Len(toClient) :
          /\ toClient[i].call = call[t]
          /\ i < Len(toClient) => toClient[i].kind \in Interim
          /\ i = Len(toClient) => toClient[i].kind \in Final
          /\ toClient[i].kind \in {"RESPONSE", "FAILURE"} => executed[call[t]] = 1

InProgress(t) ==
    \/ Unread(t)
    \/ Answering(t)
    \/ Answered(t)
    \/ Quiet /\ socket = "hungup" /\ executed[call[t]] <= 1

\* What the connection carries when thread t is inside ExecuteViciCommand.
StreamAt(t) ==
    /\ pc[t] \in {"connect", "register", "request", "unregister", "unlock"} => Quiet
    /\ pc[t] \in {"connect", "register", "unlock"} => Forgotten
    /\ pc[t] \in {"connect", "register", "confirm"} => ~bRegistered[t]
    /\ pc[t] \in {"request", "stream", "unregister"} => bRegistered[t] \/ Forgotten
    /\ pc[t] \in {"register", "confirm", "request", "stream", "unregister", "unconfirm"}
          => socket # "closed"
    /\ pc[t] = "confirm" =>
          /\ Exchanging(t, "REGISTER", {"CONFIRM", "EVENT_UNKNOWN", "BAD_LENGTH"})
          /\ toDaemon # <<>> => Forgotten
          /\ toClient = <<Pkt("EVENT_UNKNOWN", call[t])>> => Forgotten
    /\ pc[t] = "stream" => InProgress(t)
    /\ pc[t] = "unconfirm" =>
          /\ Exchanging(t, "UNREGISTER", {"CONFIRM", "BAD_LENGTH"})
          /\ toDaemon = <<>> => Forgotten

StreamInv ==
    /\ (mutex = NoThread \/ socket # "open") => Quiet /\ Forgotten
    /\ \A t \in Threads : StreamAt(t)

NotSent == {"lock", "connect", "register", "confirm", "request"}
Settled == {"unregister", "unconfirm", "unlock", "idle"}

\* What charon has done, and may still do, of the last call of thread t.
ExecAt(t) ==
    /\ pc[t] \in NotSent => executed[call[t]] = 0
    /\ pc[t] \notin {"idle", "unlock"} => call[t] \notin late
    /\ pc[t] \in NotSent \cup {"stream"} => eError[t] = "OK" /\ response[t] = NoCall
    /\ pc[t] \in {"unregister", "unconfirm"} => eError[t] # "CONNECT"
    /\ (pc[t] \in Settled /\ call[t] \in Calls /\ eError[t] = "OK")
          => executed[call[t]] = 1
    /\ (pc[t] \in {"unlock", "idle"} /\ eError[t] = "CONNECT")
          => /\ call[t] \in Calls
             /\ executed[call[t]] = 0
             /\ call[t] \notin late

ExecInv ==
    /\ \A c \in Calls : executed[c] <= 1
    /\ \A c \in late : executed[c] = 0
    /\ \A t \in Threads : ExecAt(t)

IInv ==
    /\ TypeOK
    /\ LockInv
    /\ CallInv
    /\ StreamInv
    /\ ExecInv
    /\ OwnResponse

-----------------------------------------------------------------------------
(* Type correctness.                                                       *)

\* Sequence facts, with the element type opaque.
LEMMA EmptyType == ASSUME NEW S PROVE <<>> \in Seq(S)
  OBVIOUS

\* The first packet of a stream and the rest of it keep their type.
LEMMA HeadTailType ==
    ASSUME NEW S, NEW q \in Seq(S), q # <<>>
    PROVE  /\ Head(q) \in S /\ Tail(q) \in Seq(S)
           /\ q[1] = Head(q) /\ Len(q) \in Nat \ {0}
  OBVIOUS

\* A packet built by Pkt is a packet of its kinds.
LEMMA PktType ==
    ASSUME NEW kinds, NEW k \in kinds, NEW c \in Calls
    PROVE  Pkt(k, c) \in Packets(kinds)
  BY DEF Pkt, Packets

\* The requests waiting in a stream are calls.
LEMMA RequestsType ==
    ASSUME NEW q \in Seq(Packets(RequestKinds))
    PROVE  Requests(q) \subseteq Calls
  <1> SUFFICES ASSUME NEW i \in DOMAIN q PROVE q[i].call \in Calls
    BY DEF Requests
  <1>1 q[i] \in Packets(RequestKinds)
    OBVIOUS
  <1> QED BY <1>1 DEF Packets

\* What a thread's step leaves well typed.
LEMMA StepType ==
    ASSUME TypeOK, CallInv, NEW t \in Threads, Step(t)
    PROVE  TypeOK'
  <1> USE DEF TypeOK, Locations, Errors, ReplyKinds, RequestKinds, AllFaults
  <1>d ASSUME DisconnectViciTransport
       PROVE  /\ socket' \in {"closed", "open", "hungup"}
              /\ toDaemon' \in Seq(Packets(RequestKinds))
              /\ toClient' \in Seq(Packets(ReplyKinds))
              /\ serving' \in Calls \cup {NoCall}
              /\ registered' \in BOOLEAN /\ leftover' \in BOOLEAN
              /\ late' \subseteq Calls
    BY <1>d, RequestsType, EmptyType DEF DisconnectViciTransport
  <1>f ASSUME NEW err \in Errors, TransportFails(t, err)
       PROVE  TypeOK'
    BY <1>d, <1>f DEF TransportFails, Report
  <1>e WaitError \in Errors
    BY DEF WaitError
  <1>b ASSUME NEW to \in Locations, BuildFails(t, to), leftover' \in BOOLEAN
       PROVE  TypeOK'
    BY <1>b DEF BuildFails, Report
  <1>s ASSUME NEW k \in RequestKinds, NEW to \in Locations, pc[t] # "idle",
              SendViciTransportPacket(t, k, to)
       PROVE  TypeOK'
    <2>1 CASE WaitFails /\ TransportFails(t, WaitError)
      BY <2>1, <1>e, <1>f
    <2>2 CASE ~WaitFails /\ toDaemon' = Append(toDaemon, Pkt(k, call[t]))
              /\ pc' = [pc EXCEPT ![t] = to]
      <3>1 Pkt(k, call[t]) \in Packets(RequestKinds)
        BY <1>s, PktType DEF CallInv
      <3>2 toDaemon' \in Seq(Packets(RequestKinds))
        BY <2>2, <3>1
      <3> QED BY <1>s, <2>2, <3>2 DEF SendViciTransportPacket, TransportFails
    <2> QED BY <1>s, <2>1, <2>2 DEF SendViciTransportPacket
  <1>r ASSUME ReceiveFails(t) PROVE TypeOK'
    BY <1>r, <1>e, <1>f DEF ReceiveFails
  <1>h ASSUME NEW kinds, Received(kinds)
       PROVE  toClient' \in Seq(Packets(ReplyKinds)) /\ Head(toClient) \in Packets(ReplyKinds)
    BY <1>h DEF Received
  <1>1 CASE Lock(t)
    BY <1>1, ClientConstants DEF Lock, channelVars
  <1>2 CASE ConnectViciTransport(t)
    BY <1>2 DEF ConnectViciTransport
  <1>3 CASE Register(t)
    BY <1>3, <1>b, <1>s DEF Register
  <1>4 CASE ReceiveConfirm(t)
    BY <1>4, <1>r, <1>h DEF ReceiveConfirm, RegistrationError
  <1>5 CASE Request(t)
    BY <1>5, <1>b, <1>s DEF Request, AfterCommand
  <1>6 CASE ReceiveViciCommandStream(t)
    <2>1 CASE ReceiveFails(t)
      BY <2>1, <1>r
    <2>2 CASE StreamEvent(t) /\ ~ReceiveFails(t)
      BY <2>2, <1>6, <1>h DEF ReceiveViciCommandStream, StreamEvent
    <2>3 CASE StreamEnd(t) /\ ~ReceiveFails(t)
      BY <2>3, <1>6, <1>h DEF ReceiveViciCommandStream, StreamEnd, AfterCommand, Packets
    <2> QED BY <1>6, <2>1, <2>2, <2>3 DEF ReceiveViciCommandStream
  <1>7 CASE Unregister(t)
    BY <1>7, <1>b, <1>s DEF Unregister
  <1>8 CASE ReceiveUnconfirm(t)
    BY <1>8, <1>r, <1>h DEF ReceiveUnconfirm, Report, RegistrationError
  <1>9 CASE Unlock(t)
    BY <1>9 DEF Unlock, channelVars
  <1> QED BY <1>1, <1>2, <1>3, <1>4, <1>5, <1>6, <1>7, <1>8, <1>9 DEF Step

\* What the clock and the daemon leave well typed.
LEMMA EnvironmentType ==
    ASSUME TypeOK, Tick \/ Daemon
    PROVE  TypeOK'
  <1> USE DEF TypeOK, clientVars, channelVars
  <1>w ASSUME NEW kind \in ReplyKinds, NEW c \in Calls, DaemonWrites(kind, c)
       PROVE  toClient' \in Seq(Packets(ReplyKinds))
    BY <1>w, PktType DEF DaemonWrites
  <1>r ASSUME NEW kind, DaemonReads(kind)
       PROVE  /\ toDaemon' \in Seq(Packets(RequestKinds))
              /\ Head(toDaemon).call \in Calls
    <2>1 Head(toDaemon) \in Packets(RequestKinds) /\ Tail(toDaemon) \in Seq(Packets(RequestKinds))
      BY <1>r, HeadTailType DEF DaemonReads
    <2> QED BY <1>r, <2>1 DEF DaemonReads, Packets
  <1>k Faults \subseteq ReplyKinds /\ Garbled \subseteq ReplyKinds
    BY ClientConstants DEF ReplyKinds, Garbled
  <1>n {"CONFIRM", "EVENT_UNKNOWN", "EVENT", "RESPONSE", "FAILURE", "CMD_UNKNOWN"}
          \subseteq ReplyKinds
    BY DEF ReplyKinds
  <1>1 CASE Tick
    BY <1>1, ClientConstants DEF Tick, NoDeadline
  <1>2 CASE DaemonRegister
    BY <1>2, <1>w, <1>r, <1>k, <1>n DEF DaemonRegister
  <1>3 CASE DaemonUnregister
    BY <1>3, <1>w, <1>r, <1>k, <1>n DEF DaemonUnregister
  <1>4 CASE DaemonExecute
    BY <1>4, <1>r DEF DaemonExecute
  <1>5 CASE DaemonUnknown
    BY <1>5, <1>w, <1>r, <1>n DEF DaemonUnknown
  <1>6 CASE DaemonEvent
    BY <1>6, <1>w, <1>k, <1>n DEF DaemonEvent
  <1>7 CASE DaemonRespond
    BY <1>7, <1>w, <1>k, <1>n DEF DaemonRespond
  <1>8 CASE DaemonExecuteLate
    BY <1>8 DEF DaemonExecuteLate
  <1>9 CASE DaemonCrash
    BY <1>9, EmptyType DEF DaemonCrash
  <1>10 CASE DaemonStart
    BY <1>10 DEF DaemonStart
  <1> QED
    BY <1>1, <1>2, <1>3, <1>4, <1>5, <1>6, <1>7, <1>8, <1>9, <1>10 DEF Daemon

\* Entering ExecuteViciCommand leaves the state well typed.
LEMMA CallType ==
    ASSUME TypeOK, NEW t \in Threads, NEW c \in Calls, NEW stream \in BOOLEAN,
           Call(t, c, stream)
    PROVE  TypeOK'
  BY DEF Call, TypeOK, Locations, Errors, channelVars

\* No step but Call changes a call's identity, and Call takes a fresh one.
LEMMA CallInvStep ==
    ASSUME TypeOK, CallInv, [Next]_vars
    PROVE  CallInv'
  <1> USE DEF TypeOK, CallInv
  <1>1 ASSUME NEW t \in Threads, NEW c \in Calls, NEW stream \in BOOLEAN,
              Call(t, c, stream)
       PROVE  CallInv'
    BY <1>1 DEF Call, Fresh
  <1>2 ASSUME NEW t \in Threads, Step(t)
       PROVE  /\ call' = call
              /\ \A u \in Threads : pc'[u] # "idle" => pc[u] # "idle"
    <2> USE DEF TransportFails, SendViciTransportPacket, ReceiveFails, BuildFails
    <2> QED
      BY <1>2 DEF Step, Lock, ConnectViciTransport, Register, ReceiveConfirm, Request,
         ReceiveViciCommandStream, StreamEvent, StreamEnd, Unregister,
         ReceiveUnconfirm, Unlock
  <1>3 CASE Tick \/ Daemon \/ UNCHANGED vars
    BY <1>3 DEF Tick, Daemon, DaemonRegister, DaemonUnregister, DaemonExecute,
       DaemonUnknown, DaemonEvent, DaemonRespond, DaemonExecuteLate, DaemonCrash,
       DaemonStart, vars, clientVars
  <1> QED BY <1>1, <1>2, <1>3 DEF Next

\* Every reachable state of the client, the connection and the daemon is well
\* typed, whatever packets the daemon sends: in particular an answer is only
\* ever attributed to a real call.
THEOREM TypeCorrect == Spec => []TypeOK
  <1>1 Init => TypeOK /\ CallInv
    <2> SUFFICES ASSUME Init PROVE TypeOK /\ CallInv
      OBVIOUS
    <2> USE DEF Init
    <2>1 toDaemon \in Seq(Packets(RequestKinds)) /\ toClient \in Seq(Packets(ReplyKinds))
      BY EmptyType
    <2>2 TypeOK
      BY <2>1 DEF TypeOK, Locations, Errors
    <2>3 CallInv
      BY ClientConstants DEF CallInv
    <2> QED BY <2>2, <2>3
  <1>2 TypeOK /\ CallInv /\ [Next]_vars => TypeOK' /\ CallInv'
    <2> SUFFICES ASSUME TypeOK, CallInv, [Next]_vars PROVE TypeOK'
      BY CallInvStep
    <2>1 CASE UNCHANGED vars
      BY <2>1 DEF TypeOK, vars, clientVars, channelVars
    <2> QED BY <2>1, StepType, EnvironmentType, CallType DEF Next
  <1> QED BY <1>1, <1>2, PTL DEF Spec

-----------------------------------------------------------------------------
(* The stream stays in step with the calls.                                *)

InSync == Faults \cap MidStreamFaults = {}

\* No request waits in an empty stream.
LEMMA EmptyRequests == Requests(<<>>) = {}
  BY DEF Requests

\* A stream of one packet holds its request, if it is one.
LEMMA OneRequest ==
    ASSUME NEW k, NEW c
    PROVE  Requests(<<Pkt(k, c)>>) = IF k = "REQUEST" THEN {c} ELSE {}
  BY DEF Requests, Pkt

\* While one thread is inside, every other one is idle or waits for the mutex.
LEMMA OthersOutside ==
    ASSUME LockInv, NEW t \in Threads, pc[t] \notin Outside,
           NEW u \in Threads, u # t
    PROVE  pc[u] \in Outside
  BY DEF LockInv

\* A thread that is outside constrains the connection in nothing.
LEMMA StreamOutside ==
    ASSUME NEW u, pc[u] \in Outside
    PROVE  StreamAt(u)
  BY DEF StreamAt, Forgotten, Outside

\* What can still be performed of an unfinished exchange is the holder's own
\* request, which was not performed yet.
LEMMA UnreadRequest ==
    ASSUME IInv, NEW t \in Threads, pc[t] \notin Outside,
           NEW c \in Requests(toDaemon)
    PROVE  c = call[t] /\ executed[c] = 0 /\ pc[t] = "stream"
  <1> USE DEF IInv, StreamInv, Outside
  <1>1 StreamAt(t)
    OBVIOUS
  <1>2 pc[t] \in Locations
    BY DEF TypeOK
  <1>3 CASE pc[t] \in {"connect", "register", "request", "unregister", "unlock"}
    BY <1>1, <1>3, EmptyRequests DEF StreamAt, Forgotten, Quiet
  <1>4 CASE pc[t] \in {"confirm", "unconfirm"}
    <2>1 toDaemon = <<>> \/ \E k \in {"REGISTER", "UNREGISTER"} : toDaemon = <<Pkt(k, call[t])>>
      BY <1>1, <1>4 DEF StreamAt, Forgotten, Quiet, Exchanging
    <2> QED BY <2>1, EmptyRequests, OneRequest
  <1>5 CASE pc[t] = "stream"
    <2>1 \/ toDaemon = <<>>
         \/ toDaemon = <<Pkt("REQUEST", call[t])>> /\ executed[call[t]] = 0
      BY <1>1, <1>5 DEF StreamAt, Forgotten, Quiet, InProgress, Unread, Answering, Answered
    <2>2 Requests(<<Pkt("REQUEST", call[t])>>) = {call[t]}
      BY OneRequest
    <2> QED BY <1>5, <2>1, <2>2, EmptyRequests
  <1> QED BY <1>2, <1>3, <1>4, <1>5 DEF Locations

\* A failed transport operation loses the connection, not the order of things.
LEMMA TransportFailsStep ==
    ASSUME IInv, NEW t \in Threads, pc[t] \notin Outside,
           NEW err \in Errors \ {"OK", "CONNECT"}, pc[t] \notin {"connect", "unlock"},
           TransportFails(t, err)
    PROVE  LockInv' /\ StreamInv' /\ ExecInv' /\ OwnResponse'
  <1> USE DEF IInv, TransportFails, Report, DisconnectViciTransport
  <1>0 pc \in [Threads -> Locations] /\ eError \in [Threads -> Errors]
    BY DEF TypeOK
  <1>1 LockInv'
    BY <1>0 DEF LockInv, Outside
  <1>2 StreamInv'
    <2>1 Quiet' /\ Forgotten'
      BY DEF Quiet, Forgotten
    <2>2 ASSUME NEW u \in Threads PROVE StreamAt(u)'
      BY <1>0, <2>1, <2>2, OthersOutside DEF StreamAt, Forgotten, Outside
    <2> QED BY <2>1, <2>2 DEF StreamInv
  <1>3 ExecInv'
    <2>1 late' = late \cup Requests(toDaemon)
      OBVIOUS
    <2>2 \A c \in late' : executed[c] = 0 /\ (c \in late \/ c = call[t])
      BY <2>1, UnreadRequest DEF ExecInv
    <2>3 ASSUME NEW u \in Threads PROVE ExecAt(u)'
      <3>1 CASE u = t
        BY <1>0, <3>1 DEF ExecInv, ExecAt, NotSent, Outside, Locations
      <3>2 CASE u # t
        <4>1 pc[u] \in Outside /\ pc'[u] = pc[u] /\ eError'[u] = eError[u]
          BY <1>0, <3>2, OthersOutside
        <4>2 call[u] \in Calls => call[u] # call[t]
          BY <3>2 DEF CallInv
        <4>3 pc[u] = "lock" => call[u] \in Calls
          BY DEF CallInv
        <4> QED BY <4>1, <4>2, <4>3, <2>2 DEF ExecInv, ExecAt, Outside, NotSent, Settled
      <3> QED BY <3>1, <3>2
    <2> QED BY <2>2, <2>3 DEF ExecInv
  <1>4 OwnResponse'
    BY DEF OwnResponse
  <1> QED BY <1>1, <1>2, <1>3, <1>4

\* Steps that change only where thread t is and what it knows keep what the
\* invariant says of the other threads.
LEMMA OthersExec ==
    ASSUME IInv, NEW t \in Threads, NEW u \in Threads, u # t,
           pc'[u] = pc[u], eError'[u] = eError[u], response'[u] = response[u],
           call'[u] = call[u], late' \subseteq late,
           call[u] \in Calls => executed'[call[u]] = executed[call[u]]
    PROVE  ExecAt(u)'
  BY DEF IInv, ExecInv, ExecAt, NotSent, Settled, CallInv

\* Entering ExecuteViciCommand with a fresh identity keeps the invariant.
LEMMA CallStep ==
    ASSUME IInv, NEW t \in Threads, NEW c \in Calls, NEW stream \in BOOLEAN,
           Call(t, c, stream)
    PROVE  LockInv' /\ StreamInv' /\ ExecInv' /\ OwnResponse'
  <1> USE DEF IInv, Call, channelVars
  <1>0 TypeOK
    OBVIOUS
  <1>1 LockInv'
    BY DEF LockInv, TypeOK, Outside
  <1>2 StreamInv'
    <2>1 Quiet' <=> Quiet
      BY DEF Quiet
    <2>2 ASSUME NEW u \in Threads PROVE StreamAt(u)'
      <3>1 CASE u = t
        BY <3>1 DEF StreamAt, Forgotten, TypeOK
      <3>2 CASE u # t
        <4>1 /\ pc'[u] = pc[u] /\ call'[u] = call[u] /\ bRegistered'[u] = bRegistered[u]
             /\ call[u] # c
          BY <3>2 DEF TypeOK, Fresh
        <4>2 StreamAt(u)
          BY DEF StreamInv
        <4>3 executed'[call[u]] = executed[call[u]] \/ call[u] \notin Calls
          BY <4>1 DEF TypeOK
        <4>4 pc[u] = "stream" => call[u] \in Calls
          BY DEF CallInv
        <4> QED BY <4>1, <4>2, <4>3, <4>4, <2>1
            DEF StreamAt, Forgotten, Exchanging, InProgress, Unread, Answering, Answered, Quiet
      <3> QED BY <3>1, <3>2
    <2> QED BY <2>1, <2>2 DEF StreamInv, Forgotten
  <1>3 ExecInv'
    <2>1 ASSUME NEW u \in Threads PROVE ExecAt(u)'
      <3>1 CASE u = t
        BY <3>1 DEF ExecAt, TypeOK, Fresh, NotSent, Settled
      <3>2 CASE u # t
        BY <3>2, OthersExec DEF TypeOK, Fresh
      <3> QED BY <3>1, <3>2
    <2>2 \A d \in Calls : executed'[d] <= 1
      BY DEF TypeOK, ExecInv
    <2>3 \A d \in late' : executed'[d] = 0
      BY DEF TypeOK, ExecInv, Fresh
    <2> QED BY <2>1, <2>2, <2>3 DEF ExecInv
  <1>4 OwnResponse'
    BY DEF OwnResponse, TypeOK
  <1> QED BY <1>1, <1>2, <1>3, <1>4

\* Taking the command mutex keeps the invariant.
LEMMA LockStep ==
    ASSUME IInv, NEW t \in Threads, Lock(t)
    PROVE  LockInv' /\ StreamInv' /\ ExecInv' /\ OwnResponse'
  <1> USE DEF IInv, Lock, channelVars
  <1>1 LockInv'
    BY ClientConstants DEF LockInv, TypeOK, Outside
  <1>2 StreamInv'
    <2>1 Quiet' /\ Forgotten'
      BY DEF StreamInv, Quiet, Forgotten
    <2>2 ASSUME NEW u \in Threads PROVE StreamAt(u)'
      <3>1 ~bRegistered[t]
        BY DEF LockInv
      <3>2 CASE u # t
        BY <3>2, ClientConstants DEF LockInv, StreamAt, Forgotten, TypeOK, Outside
      <3>3 CASE u = t
        BY <3>1, <3>3, <2>1 DEF StreamAt, Forgotten, TypeOK
      <3> QED BY <3>2, <3>3
    <2> QED BY <2>1, <2>2 DEF StreamInv
  <1>3 ExecInv'
    <2>1 ASSUME NEW u \in Threads PROVE ExecAt(u)'
      BY DEF ExecAt, ExecInv, NotSent, Settled, TypeOK
    <2> QED BY <2>1 DEF ExecInv
  <1>4 OwnResponse'
    BY DEF OwnResponse
  <1> QED BY <1>1, <1>2, <1>3, <1>4

\* ConnectViciTransport keeps the invariant: a new connection is quiet.
LEMMA ConnectStep ==
    ASSUME IInv, NEW t \in Threads, ConnectViciTransport(t)
    PROVE  LockInv' /\ StreamInv' /\ ExecInv' /\ OwnResponse'
  <1> USE DEF IInv, ConnectViciTransport
  <1>1 LockInv'
    BY DEF LockInv, TypeOK, Outside
  <1>2 StreamInv'
    <2>1 StreamAt(t)
      BY DEF StreamInv
    <2>2 Quiet' /\ Forgotten' /\ ~bRegistered'[t]
      BY <2>1 DEF StreamAt, Forgotten, Quiet
    <2>3 ASSUME NEW u \in Threads PROVE StreamAt(u)'
      <3>1 CASE u # t
        BY <3>1, OthersOutside DEF StreamAt, Forgotten, TypeOK, Outside
      <3>2 CASE u = t
        BY <3>2, <2>2 DEF StreamAt, Forgotten, TypeOK
      <3> QED BY <3>1, <3>2
    <2> QED BY <2>2, <2>3 DEF StreamInv
  <1>3 ExecInv'
    <2>1 ASSUME NEW u \in Threads PROVE ExecAt(u)'
      <3>1 CASE u # t
        BY <3>1, OthersExec DEF TypeOK
      <3>2 CASE u = t
        BY <3>2 DEF ExecAt, ExecInv, CallInv, NotSent, Settled, TypeOK
      <3> QED BY <3>1, <3>2
    <2> QED BY <2>1 DEF ExecInv
  <1>4 OwnResponse'
    BY DEF OwnResponse
  <1> QED BY <1>1, <1>2, <1>3, <1>4

\* Writing one packet into a quiet connection.
LEMMA SendStep ==
    ASSUME IInv, NEW t \in Threads,
           NEW kind, NEW to,
           \/ pc[t] = "register" /\ kind = "REGISTER" /\ to = "confirm"
           \/ pc[t] = "request" /\ kind = "REQUEST" /\ to = "stream"
           \/ pc[t] = "unregister" /\ kind = "UNREGISTER" /\ to = "unconfirm",
           SendViciTransportPacket(t, kind, to)
    PROVE  LockInv' /\ StreamInv' /\ ExecInv' /\ OwnResponse'
  <1>0 pc[t] \notin Outside /\ pc[t] \notin {"connect", "unlock"}
    BY DEF Outside
  <1>a WaitError \in Errors \ {"OK", "CONNECT"}
    BY DEF WaitError, Errors
  <1>b CASE WaitFails /\ TransportFails(t, WaitError)
    BY <1>0, <1>a, <1>b, TransportFailsStep
  <1>c CASE ~WaitFails
    <2> USE <1>c DEF IInv
    <2>1 /\ toDaemon' = Append(toDaemon, Pkt(kind, call[t]))
         /\ pc' = [pc EXCEPT ![t] = to]
         /\ UNCHANGED <<mutex, budget, socket, call, streaming, eError, bRegistered,
                        response, toClient, serving, registered, leftover, late, executed,
                        daemonUp>>
      BY DEF SendViciTransportPacket
    <2>2 StreamAt(t) /\ Quiet /\ socket = "open" /\ mutex = t /\ pc \in [Threads -> Locations]
      BY <1>0 DEF StreamInv, StreamAt, Forgotten, WaitFails, TypeOK, LockInv
    <2>3 toDaemon' = <<Pkt(kind, call[t])>>
      BY <2>1, <2>2 DEF Quiet
    <2>4 LockInv'
      BY <2>1, <2>2 DEF LockInv, Outside
    <2>5 StreamInv'
      <3>1 ASSUME NEW u \in Threads, u # t PROVE StreamAt(u)'
        BY <1>0, <2>1, <2>2, <3>1, OthersOutside DEF StreamAt, Forgotten, Outside
      <3>2 toDaemon' # <<>>
        BY <2>3
      <3>3 StreamAt(t)'
        BY <2>1, <2>2, <2>3, <3>2
           DEF StreamAt, Forgotten, Exchanging, Quiet, InProgress, Unread, ExecInv, ExecAt, NotSent
      <3> QED BY <2>1, <2>2, <3>1, <3>3, ClientConstants DEF StreamInv
    <2>6 ExecInv'
      <3>1 ASSUME NEW u \in Threads PROVE ExecAt(u)'
        BY <2>1, <2>2 DEF ExecInv, ExecAt, NotSent, Settled
      <3> QED BY <2>1, <3>1 DEF ExecInv
    <2>7 OwnResponse'
      BY <2>1 DEF OwnResponse
    <2> QED BY <2>4, <2>5, <2>6, <2>7
  <1> QED BY <1>b, <1>c DEF SendViciTransportPacket

\* A packet that cannot be built leaves a quiet connection, and a registration
\* behind only when it was the one to undo it.
LEMMA BuildFailsStep ==
    ASSUME IInv, NEW t \in Threads, NEW to, BuildFails(t, to),
           \/ pc[t] = "register" /\ to = "unlock" /\ leftover' = leftover
           \/ pc[t] = "request" /\ to = AfterCommand(t, TRUE) /\ leftover' = leftover
           \/ pc[t] = "unregister" /\ to = "unlock" /\ leftover' = registered
    PROVE  LockInv' /\ StreamInv' /\ ExecInv' /\ OwnResponse'
  <1> USE DEF IInv, BuildFails
  <1>0 /\ pc \in [Threads -> Locations] /\ eError \in [Threads -> Errors]
       /\ pc[t] \notin Outside /\ mutex = t
    BY DEF TypeOK, LockInv, Outside
  <1>1 LockInv'
    BY <1>0 DEF LockInv, Outside, AfterCommand
  <1>2 StreamInv'
    <2>1 StreamAt(t) /\ Quiet
      BY DEF StreamInv, StreamAt
    <2>2 Quiet'
      BY <2>1 DEF Quiet
    <2>3 ASSUME NEW u \in Threads, u # t PROVE StreamAt(u)'
      BY <1>0, <2>3, OthersOutside DEF StreamAt, Outside
    <2>4 StreamAt(t)'
      BY <1>0, <2>1, <2>2 DEF StreamAt, Forgotten, AfterCommand
    <2>5 socket # "open" => Forgotten'
      BY DEF StreamInv, Forgotten
    <2> QED BY <1>0, <2>2, <2>3, <2>4, <2>5, ClientConstants DEF StreamInv
  <1>3 ExecInv'
    <2>1 eError'[t] \notin {"OK", "CONNECT", "COMMAND"}
      BY <1>0 DEF ExecInv, ExecAt, NotSent, Report, Errors
    <2>2 ASSUME NEW u \in Threads PROVE ExecAt(u)'
      <3>1 CASE u = t
        BY <1>0, <2>1, <3>1 DEF ExecInv, ExecAt, NotSent, Settled, AfterCommand
      <3>2 CASE u # t
        BY <1>0, <3>2, OthersExec
      <3> QED BY <3>1, <3>2
    <2> QED BY <2>2 DEF ExecInv
  <1>4 OwnResponse'
    BY DEF OwnResponse
  <1> QED BY <1>1, <1>2, <1>3, <1>4

\* A failed ReceiveViciTransportPacket keeps the invariant.
LEMMA ReceiveFailsStep ==
    ASSUME IInv, NEW t \in Threads, pc[t] \in {"confirm", "stream", "unconfirm"},
           ReceiveFails(t)
    PROVE  LockInv' /\ StreamInv' /\ ExecInv' /\ OwnResponse'
  <1>1 {WaitError, "PROTOCOL", "NO_MEMORY"} \subseteq Errors \ {"OK", "CONNECT"}
    BY DEF WaitError, Errors
  <1>2 pc[t] \notin Outside /\ pc[t] \notin {"connect", "unlock"}
    BY DEF Outside
  <1> QED BY <1>1, <1>2, TransportFailsStep DEF ReceiveFails

\* The single answer of a registration exchange leaves a quiet connection.
LEMMA ExchangeAnswer ==
    ASSUME NEW t, NEW kind, NEW replies, NEW kinds,
           Exchanging(t, kind, replies), Received(kinds)
    PROVE  /\ toDaemon = <<>> /\ serving = NoCall /\ toClient' = <<>>
           /\ \E k \in replies \cap kinds :
                 toClient = <<Pkt(k, call[t])>> /\ Head(toClient).kind = k
  <1>1 PICK k \in replies : toClient = <<Pkt(k, call[t])>> /\ toDaemon = <<>>
    BY DEF Exchanging, Received, WaitFails, Quiet
  <1>2 Head(toClient).kind = k /\ Tail(toClient) = <<>>
    BY <1>1 DEF Pkt
  <1> QED BY <1>1, <1>2 DEF Received, Exchanging, Quiet

\* Reading the answer to a registration keeps the invariant.
LEMMA ConfirmStep ==
    ASSUME IInv, NEW t \in Threads, ReceiveConfirm(t)
    PROVE  LockInv' /\ StreamInv' /\ ExecInv' /\ OwnResponse'
  <1>a CASE ReceiveFails(t)
    BY <1>a, ReceiveFailsStep DEF ReceiveConfirm
  <1>b CASE ~ReceiveFails(t)
    <2> USE DEF IInv
    <2>1 /\ pc[t] = "confirm"
         /\ Received(ReplyKinds \ {"BAD_LENGTH"})
         /\ eError' = [eError EXCEPT ![t] = RegistrationError]
         /\ bRegistered' = [bRegistered EXCEPT ![t] = (RegistrationError = "OK")]
         /\ pc' = [pc EXCEPT ![t] = IF RegistrationError = "OK" THEN "request"
                                                                ELSE "unlock"]
         /\ UNCHANGED <<mutex, budget, socket, call, streaming, response, toDaemon,
                        serving, registered, leftover, late, executed, daemonUp>>
      BY <1>b DEF ReceiveConfirm
    <2>2 /\ StreamAt(t) /\ socket = "open" /\ mutex = t /\ pc[t] \notin Outside
         /\ pc \in [Threads -> Locations] /\ eError \in [Threads -> Errors]
         /\ bRegistered \in [Threads -> BOOLEAN]
      BY <2>1 DEF StreamInv, StreamAt, Forgotten, Received, WaitFails, TypeOK, LockInv, Outside
    <2>3 Exchanging(t, "REGISTER", {"CONFIRM", "EVENT_UNKNOWN", "BAD_LENGTH"})
      BY <2>1, <2>2 DEF StreamAt, Forgotten
    <2>4 Quiet'
      BY <2>1, <2>3, ExchangeAnswer DEF Quiet
    <2>5 PICK k \in {"CONFIRM", "EVENT_UNKNOWN"} :
            toClient = <<Pkt(k, call[t])>> /\ Head(toClient).kind = k
      BY <2>1, <2>3, ExchangeAnswer
    <2>6 RegistrationError = IF k = "CONFIRM" THEN "OK" ELSE "NOT_SUPPORTED"
      BY <2>5 DEF RegistrationError
    <2>7 LockInv'
      BY <2>1, <2>2, <2>6 DEF LockInv, Outside
    <2>8 StreamInv'
      <3>1 ASSUME NEW u \in Threads, u # t PROVE StreamAt(u)'
        BY <2>1, <2>2, <3>1, OthersOutside DEF StreamAt, Forgotten, Outside
      <3>2 k = "EVENT_UNKNOWN" => Forgotten
        BY <2>1, <2>2, <2>5 DEF StreamAt, Forgotten
      <3>3 StreamAt(t)'
        BY <2>1, <2>2, <2>4, <2>5, <2>6, <3>2 DEF StreamAt, Forgotten
      <3> QED BY <2>1, <2>2, <3>1, <3>3, ClientConstants DEF StreamInv
    <2>9 ExecInv'
      <3>1 ASSUME NEW u \in Threads PROVE ExecAt(u)'
        BY <2>1, <2>2, <2>6 DEF ExecInv, ExecAt, NotSent, Settled
      <3> QED BY <2>1, <3>1 DEF ExecInv
    <2>10 OwnResponse'
      BY <2>1 DEF OwnResponse
    <2> QED BY <2>7, <2>8, <2>9, <2>10
  <1> QED BY <1>a, <1>b

\* Reading the answer to an unregistration keeps the invariant.
LEMMA UnconfirmStep ==
    ASSUME IInv, NEW t \in Threads, ReceiveUnconfirm(t)
    PROVE  LockInv' /\ StreamInv' /\ ExecInv' /\ OwnResponse'
  <1>a CASE ReceiveFails(t)
    BY <1>a, ReceiveFailsStep DEF ReceiveUnconfirm
  <1>b CASE ~ReceiveFails(t)
    <2> USE DEF IInv
    <2>1 /\ pc[t] = "unconfirm"
         /\ Received(ReplyKinds \ {"BAD_LENGTH"})
         /\ eError' = [eError EXCEPT ![t] = Report(@, RegistrationError)]
         /\ pc' = [pc EXCEPT ![t] = "unlock"]
         /\ UNCHANGED <<mutex, budget, socket, call, streaming, bRegistered, response,
                        toDaemon, serving, registered, leftover, late, executed, daemonUp>>
      BY <1>b DEF ReceiveUnconfirm
    <2>2 /\ StreamAt(t) /\ socket = "open" /\ mutex = t /\ pc[t] \notin Outside
         /\ pc \in [Threads -> Locations] /\ eError \in [Threads -> Errors]
      BY <2>1 DEF StreamInv, StreamAt, Forgotten, Received, WaitFails, TypeOK, LockInv, Outside
    <2>3 Exchanging(t, "UNREGISTER", {"CONFIRM", "BAD_LENGTH"})
      BY <2>1, <2>2 DEF StreamAt, Forgotten
    <2>4 Quiet' /\ toDaemon = <<>>
      BY <2>1, <2>3, ExchangeAnswer DEF Quiet
    <2>5 Head(toClient).kind = "CONFIRM"
      BY <2>1, <2>3, ExchangeAnswer
    <2>6 RegistrationError = "OK"
      BY <2>5 DEF RegistrationError
    <2>7 LockInv'
      BY <2>1, <2>2 DEF LockInv, Outside
    <2>8 StreamInv'
      <3>1 ASSUME NEW u \in Threads, u # t PROVE StreamAt(u)'
        BY <2>1, <2>2, <3>1, OthersOutside DEF StreamAt, Forgotten, Outside
      <3>2 StreamAt(t)'
        BY <2>1, <2>2, <2>4 DEF StreamAt, Forgotten
      <3> QED BY <2>1, <2>2, <3>1, <3>2, ClientConstants DEF StreamInv
    <2>9 ExecInv'
      <3>1 ASSUME NEW u \in Threads PROVE ExecAt(u)'
        BY <2>1, <2>2, <2>6 DEF Report, ExecInv, ExecAt, NotSent, Settled
      <3> QED BY <2>1, <3>1 DEF ExecInv
    <2>10 OwnResponse'
      BY <2>1 DEF OwnResponse
    <2> QED BY <2>7, <2>8, <2>9, <2>10
  <1> QED BY <1>a, <1>b

\* Releasing the command mutex keeps the invariant: the connection is quiet.
LEMMA UnlockStep ==
    ASSUME IInv, NEW t \in Threads, Unlock(t)
    PROVE  LockInv' /\ StreamInv' /\ ExecInv' /\ OwnResponse'
  <1> USE DEF IInv, Unlock, channelVars
  <1>0 pc \in [Threads -> Locations] /\ mutex = t
    BY DEF TypeOK, LockInv, Outside
  <1>1 LockInv'
    BY <1>0, ClientConstants DEF LockInv, Outside
  <1>2 StreamInv'
    <2>1 Quiet' /\ Forgotten'
      BY DEF StreamInv, StreamAt, Forgotten, Quiet
    <2>2 ASSUME NEW u \in Threads PROVE StreamAt(u)'
      BY <1>0, <2>2, OthersOutside DEF StreamAt, Forgotten, Outside
    <2> QED BY <2>1, <2>2 DEF StreamInv
  <1>3 ExecInv'
    <2>1 ASSUME NEW u \in Threads PROVE ExecAt(u)'
      BY <1>0 DEF ExecAt, ExecInv, NotSent, Settled
    <2> QED BY <2>1 DEF ExecInv
  <1>4 OwnResponse'
    BY DEF OwnResponse
  <1> QED BY <1>1, <1>2, <1>3, <1>4

\* Removing the first packet of a stream shifts the others down.
LEMMA TailShift ==
    ASSUME NEW S, NEW q \in Seq(S), q # <<>>
    PROVE  /\ Len(Tail(q)) = Len(q) - 1
           /\ \A i \in 1 .. Len(Tail(q)) : Tail(q)[i] = q[i + 1]
           /\ Len(q) = 1 => Tail(q) = <<>>
           /\ Len(q) # 1 => Tail(q) # <<>>
  <1>1 /\ Tail(q) \in Seq(S) /\ Len(Tail(q)) = Len(q) - 1
       /\ \A i \in 1 .. Len(Tail(q)) : Tail(q)[i] = q[i + 1]
       /\ Len(q) \in Nat \ {0}
    BY HeadTailProperties, EmptySeq
  <1>2 Len(q) = 1 => Tail(q) = <<>>
    <2> SUFFICES ASSUME Len(q) = 1, Tail(q) # <<>> PROVE FALSE
      OBVIOUS
    <2>1 Len(Tail(q)) \in Nat \ {0}
      BY <1>1, EmptySeq
    <2> QED BY <1>1, <2>1
  <1>3 Len(q) # 1 => Tail(q) # <<>>
    BY <1>1, EmptySeq
  <1> QED BY <1>1, <1>2, <1>3

\* Reading one packet of the answer stream keeps the invariant.
LEMMA StreamStep ==
    ASSUME IInv, NEW t \in Threads, ReceiveViciCommandStream(t)
    PROVE  LockInv' /\ StreamInv' /\ ExecInv' /\ OwnResponse'
  <1> USE DEF IInv
  <1>a CASE ReceiveFails(t)
    BY <1>a, ReceiveFailsStep DEF ReceiveViciCommandStream
  <1>1 CASE ~ReceiveFails(t)
    <2>1 /\ pc[t] = "stream"
         /\ StreamEvent(t) \/ StreamEnd(t)
         /\ UNCHANGED <<mutex, budget, socket, call, streaming, bRegistered,
                        toDaemon, serving, registered, leftover, late, executed, daemonUp>>
      BY <1>1 DEF ReceiveViciCommandStream
    <2>2 ~WaitFails /\ toClient # <<>> /\ toClient' = Tail(toClient)
      BY <2>1 DEF StreamEvent, StreamEnd, Received
    <2>3 /\ StreamAt(t) /\ socket = "open" /\ mutex = t /\ pc[t] \notin Outside
         /\ pc \in [Threads -> Locations] /\ eError \in [Threads -> Errors]
         /\ bRegistered \in [Threads -> BOOLEAN]
         /\ response \in [Threads -> Calls \cup {NoCall}]
      BY <2>1, <2>2 DEF StreamInv, StreamAt, Forgotten, WaitFails, TypeOK, LockInv, Outside
    <2>4 toClient \in Seq(Packets(ReplyKinds)) /\ toClient[1] = Head(toClient)
         /\ Len(toClient) \in Nat \ {0}
      BY <2>2, HeadTailType DEF TypeOK
    <2>5 Answering(t) \/ Answered(t)
      BY <2>1, <2>2, <2>3 DEF StreamAt, Forgotten, InProgress, Unread, Quiet
    <2>6 /\ Len(toClient') = Len(toClient) - 1
         /\ \A i \in 1 .. Len(toClient') : toClient'[i] = toClient[i + 1]
         /\ Len(toClient) = 1 => toClient' = <<>>
         /\ Len(toClient) # 1 => toClient' # <<>>
      BY <2>2, <2>4, TailShift
    <2>7 ASSUME NEW u \in Threads, u # t, pc'[u] = pc[u] PROVE StreamAt(u)'
      BY <2>3, <2>7, OthersOutside DEF StreamAt, Forgotten, Outside
    <2>8 CASE StreamEvent(t)
      <3>1 UNCHANGED <<pc, eError, response>> /\ Head(toClient).kind \in {"EVENT", "BAD_EVENT"}
        BY <2>8 DEF StreamEvent, Received
      <3>2 InProgress(t)'
        <4>1 CASE Answering(t)
          <5>1 Answering(t)'
            BY <2>1, <2>4, <2>6, <4>1 DEF Answering
          <5> QED BY <5>1 DEF InProgress
        <4>2 CASE Answered(t)
          <5>1 Len(toClient) # 1
            BY <2>4, <3>1, <4>2 DEF Answered, Final
          <5>2 Answered(t)'
            <6>1 ASSUME NEW i \in 1 .. Len(toClient')
                 PROVE  /\ i + 1 \in 1 .. Len(toClient) /\ toClient'[i] = toClient[i + 1]
                        /\ i < Len(toClient') <=> i + 1 < Len(toClient)
                        /\ i = Len(toClient') <=> i + 1 = Len(toClient)
              BY <2>4, <2>6
            <6> QED BY <2>1, <2>6, <4>2, <5>1, <6>1 DEF Answered
          <5> QED BY <5>2 DEF InProgress
        <4> QED BY <2>5, <4>1, <4>2
      <3>3 StreamAt(t)'
        BY <2>1, <2>3, <3>1, <3>2 DEF StreamAt, Forgotten
      <3>4 StreamInv'
        BY <2>1, <2>3, <2>7, <3>1, <3>3, ClientConstants DEF StreamInv
      <3>5 LockInv'
        BY <2>1, <3>1 DEF LockInv
      <3>6 ASSUME NEW u \in Threads PROVE ExecAt(u)'
        BY <2>1, <3>1 DEF ExecInv, ExecAt
      <3> QED BY <2>1, <3>1, <3>4, <3>5, <3>6 DEF ExecInv, OwnResponse
    <2>9 CASE StreamEnd(t)
      <3>1 Answered(t) /\ Len(toClient) = 1 /\ Head(toClient).kind \in Final \ {"BAD_LENGTH"}
        <4>1 Head(toClient).kind \notin Interim
          BY <2>9 DEF StreamEnd, Received, Interim
        <4>2 1 \in 1 .. Len(toClient)
          BY <2>4
        <4>3 Answered(t)
          BY <2>4, <2>5, <4>1, <4>2 DEF Answering
        <4>4 Len(toClient) = 1 /\ Head(toClient).kind \in Final
          <5>1 /\ 1 < Len(toClient) => toClient[1].kind \in Interim
               /\ 1 = Len(toClient) => toClient[1].kind \in Final
            BY <4>2, <4>3 DEF Answered
          <5>2 toClient[1].kind = Head(toClient).kind
            BY <2>4
          <5>3 Len(toClient) = 1
            BY <2>4, <4>1, <5>1, <5>2
          <5> QED BY <5>1, <5>2, <5>3
        <4> QED BY <4>1, <4>3, <4>4 DEF Interim
      <3>2 Quiet'
        BY <2>1, <2>6, <3>1 DEF Answered, Quiet
      <3>3 /\ Head(toClient).call = call[t]
           /\ Head(toClient).kind \in {"RESPONSE", "FAILURE"} => executed[call[t]] = 1
        BY <2>4, <3>1 DEF Answered
      <3>4 pc' = [pc EXCEPT ![t] = IF bRegistered[t] THEN "unregister" ELSE "unlock"]
        BY <2>9 DEF StreamEnd, AfterCommand
      <3>5 /\ eError'[t] \in {"OK", "COMMAND", "NOT_SUPPORTED", "CALLBACK"}
           /\ eError'[t] = "OK" => executed[call[t]] = 1
           /\ response'[t] \in {NoCall, call[t]}
           /\ \A u \in Threads \ {t} : eError'[u] = eError[u] /\ response'[u] = response[u]
        <4>1 eError'[t] = CASE Head(toClient).kind = "RESPONSE"     -> "OK"
                            [] Head(toClient).kind = "FAILURE"      -> "COMMAND"
                            [] Head(toClient).kind = "CMD_UNKNOWN"  -> "NOT_SUPPORTED"
                            [] Head(toClient).kind \in {"BAD_EVENT", "BAD_RESPONSE"} -> "CALLBACK"
                            [] OTHER                 -> "PROTOCOL"
          BY <2>3, <2>9 DEF StreamEnd
        <4>2 response'[t] \in {NoCall, call[t]}
          BY <2>1, <2>3, <2>9, <3>3 DEF StreamEnd, OwnResponse
        <4>3 \A u \in Threads \ {t} : eError'[u] = eError[u] /\ response'[u] = response[u]
          BY <2>3, <2>9 DEF StreamEnd
        <4> QED BY <3>1, <3>3, <4>1, <4>2, <4>3 DEF Final
      <3>6 LockInv'
        BY <2>1, <2>3, <3>4 DEF LockInv, Outside
      <3>7 StreamAt(t)'
        BY <2>1, <2>3, <3>2, <3>4 DEF StreamAt, Forgotten
      <3>8 StreamInv'
        BY <2>1, <2>3, <2>7, <3>4, <3>7, ClientConstants DEF StreamInv
      <3>9 ASSUME NEW u \in Threads PROVE ExecAt(u)'
        <4>1 CASE u = t
          BY <2>1, <2>3, <3>4, <3>5, <4>1 DEF ExecInv, ExecAt, NotSent, Settled
        <4>2 CASE u # t
          BY <2>1, <2>3, <3>4, <3>5, <4>2, OthersExec
        <4> QED BY <4>1, <4>2
      <3>10 OwnResponse'
        BY <2>1, <3>5 DEF OwnResponse
      <3> QED BY <2>1, <3>6, <3>8, <3>9, <3>10 DEF ExecInv
    <2> QED BY <2>1, <2>8, <2>9
  <1> QED BY <1>a, <1>1

\* The clock changes nothing the invariant speaks of.
LEMMA TickStep ==
    ASSUME IInv, Tick \/ UNCHANGED vars
    PROVE  LockInv' /\ StreamInv' /\ ExecInv' /\ OwnResponse'
  <1>1 UNCHANGED <<mutex, clientVars, channelVars, executed>>
    BY DEF Tick, vars
  <1> USE <1>1 DEF IInv, clientVars, channelVars
  <1>2 LockInv'
    BY DEF LockInv
  <1>3 StreamInv'
    BY DEF StreamInv, StreamAt, Forgotten, Exchanging, InProgress, Unread, Answering,
       Answered, Quiet
  <1>4 ExecInv'
    BY DEF ExecInv, ExecAt
  <1>5 OwnResponse'
    BY DEF OwnResponse
  <1> QED BY <1>2, <1>3, <1>4, <1>5

\* The daemon can only find a packet of the thread that waits for its answer.
LEMMA ReadsHolder ==
    ASSUME IInv, NEW kind, DaemonReads(kind)
    PROVE  \E t \in Threads :
              /\ mutex = t /\ pc[t] \notin Outside /\ socket = "open"
              /\ toDaemon = <<Pkt(kind, call[t])>> /\ toDaemon' = <<>>
              /\ Head(toDaemon).call = call[t] /\ call[t] \in Calls
              /\ toClient = <<>> /\ serving = NoCall
              /\ \/ kind = "REGISTER" /\ pc[t] = "confirm"
                 \/ kind = "REQUEST" /\ pc[t] = "stream" /\ Unread(t)
                 \/ kind = "UNREGISTER" /\ pc[t] = "unconfirm"
  <1> USE DEF IInv, DaemonReads
  <1>1 socket = "open" /\ mutex \in Threads
    BY DEF StreamInv, Quiet, TypeOK
  <1> DEFINE t == mutex
  <1>2 pc[t] \notin Outside /\ StreamAt(t) /\ pc[t] \in Locations /\ call[t] \in Calls
    BY <1>1 DEF LockInv, StreamInv, TypeOK, CallInv, Outside
  <1>3 ASSUME NEW k, toDaemon = <<Pkt(k, call[t])>>
       PROVE  k = kind /\ Head(toDaemon).call = call[t] /\ toDaemon' = <<>>
    BY <1>3 DEF Pkt
  <1>4 CASE pc[t] = "confirm"
    BY <1>1, <1>2, <1>3, <1>4 DEF StreamAt, Forgotten, Exchanging, Quiet
  <1>5 CASE pc[t] = "unconfirm"
    BY <1>1, <1>2, <1>3, <1>5 DEF StreamAt, Forgotten, Exchanging, Quiet
  <1>6 CASE pc[t] = "stream"
    BY <1>1, <1>2, <1>3, <1>6
       DEF StreamAt, Forgotten, InProgress, Unread, Answering, Answered, Quiet
  <1> QED BY <1>2, <1>4, <1>5, <1>6 DEF StreamAt, Forgotten, Quiet, Locations, Outside

\* Likewise it serves only the command of the thread that reads the stream.
LEMMA ServesHolder ==
    ASSUME IInv, serving # NoCall
    PROVE  \E t \in Threads :
              /\ mutex = t /\ pc[t] = "stream" /\ socket = "open"
              /\ serving = call[t] /\ call[t] \in Calls /\ Answering(t)
  <1> USE DEF IInv
  <1>1 socket = "open" /\ mutex \in Threads
    BY DEF StreamInv, Quiet, TypeOK
  <1> DEFINE t == mutex
  <1>2 pc[t] \notin Outside /\ StreamAt(t) /\ pc[t] \in Locations /\ call[t] \in Calls
    BY <1>1 DEF LockInv, StreamInv, TypeOK, CallInv, Outside
  <1>3 pc[t] = "stream"
    BY <1>2 DEF StreamAt, Forgotten, Exchanging, Quiet, Locations, Outside
  <1>4 Answering(t)
    BY <1>2, <1>3 DEF StreamAt, Forgotten, InProgress, Unread, Answered, Quiet
  <1> QED BY <1>1, <1>2, <1>3, <1>4 DEF Answering

\* Appending one packet to the stream.
LEMMA AppendShape ==
    ASSUME TypeOK, NEW k \in ReplyKinds, NEW c \in Calls,
           toClient' = Append(toClient, Pkt(k, c))
    PROVE  /\ Len(toClient) \in Nat /\ Len(toClient') = Len(toClient) + 1
           /\ toClient' # <<>>
           /\ \A i \in 1 .. Len(toClient) : toClient'[i] = toClient[i]
           /\ toClient'[Len(toClient')].kind = k /\ toClient'[Len(toClient')].call = c
           /\ toClient = <<>> => toClient' = <<Pkt(k, c)>>
  <1>1 Pkt(k, c) \in Packets(ReplyKinds) /\ toClient \in Seq(Packets(ReplyKinds))
    BY PktType DEF TypeOK
  <1>2 /\ toClient' # <<>> /\ Len(toClient') = Len(toClient) + 1
       /\ \A i \in 1 .. Len(toClient) : toClient'[i] = toClient[i]
       /\ toClient'[Len(toClient) + 1] = Pkt(k, c)
       /\ Len(toClient) \in Nat
    BY <1>1, AppendProperties, LenProperties
  <1>3 toClient = <<>> => toClient' = <<Pkt(k, c)>>
    OBVIOUS
  <1> QED BY <1>2, <1>3 DEF Pkt

\* What a daemon step that touches only the connection owes the invariant.
LEMMA DaemonKeeps ==
    ASSUME IInv, NEW t \in Threads, mutex = t, socket = "open",
           UNCHANGED <<mutex, clientVars, socket, late>>,
           StreamAt(t)',
           \A c \in Calls : executed'[c] <= 1,
           \A c \in Calls \ {call[t]} : executed'[c] = executed[c],
           call[t] \notin late,
           pc[t] = "stream" \/ executed' = executed
    PROVE  LockInv' /\ StreamInv' /\ ExecInv' /\ OwnResponse'
  <1> USE DEF IInv, clientVars
  <1>1 LockInv'
    BY DEF LockInv
  <1>2 StreamInv'
    <2>1 ASSUME NEW u \in Threads, u # t PROVE StreamAt(u)'
      BY <2>1, OthersOutside DEF LockInv, StreamAt, Forgotten, Outside
    <2> QED BY <2>1, ClientConstants DEF StreamInv
  <1>3 ExecInv'
    <2>1 ASSUME NEW u \in Threads PROVE ExecAt(u)'
      <3>1 CASE u = t
        BY <3>1 DEF ExecInv, ExecAt, NotSent, Settled
      <3>2 CASE u # t
        BY <3>2, OthersExec DEF CallInv
      <3> QED BY <3>1, <3>2
    <2>2 \A c \in late' : executed'[c] = 0
      BY DEF ExecInv, TypeOK
    <2> QED BY <2>1, <2>2 DEF ExecInv
  <1>4 OwnResponse'
    BY DEF OwnResponse
  <1> QED BY <1>1, <1>2, <1>3, <1>4

\* Without mid-stream faults the daemon's only garbled packet is a bad length.
LEMMA GarbledInSync ==
    ASSUME InSync
    PROVE  /\ Garbled \subseteq {"BAD_LENGTH"}
           /\ Faults \cap {"BAD_EVENT"} = {}
  BY DEF InSync, MidStreamFaults, Garbled

\* charon's answer to a registration or unregistration keeps the invariant.
LEMMA DaemonExchangeStep ==
    ASSUME IInv, InSync, DaemonRegister \/ DaemonUnregister
    PROVE  LockInv' /\ StreamInv' /\ ExecInv' /\ OwnResponse'
  <1> USE DEF IInv
  <1>1 CASE DaemonRegister
    <2>1 PICK kind \in {"CONFIRM", "EVENT_UNKNOWN", "BAD_LENGTH"} :
           /\ DaemonReads("REGISTER")
           /\ DaemonWrites(kind, Head(toDaemon).call)
           /\ registered' = (registered \/ kind # "EVENT_UNKNOWN")
           /\ UNCHANGED <<mutex, budget, clientVars, socket, serving, leftover, late, executed,
                          daemonUp>>
      BY <1>1, GarbledInSync DEF DaemonRegister
    <2>2 PICK t \in Threads :
           /\ mutex = t /\ pc[t] \notin Outside /\ socket = "open"
           /\ toDaemon' = <<>> /\ Head(toDaemon).call = call[t] /\ call[t] \in Calls
           /\ toClient = <<>> /\ serving = NoCall /\ pc[t] = "confirm"
      BY <2>1, ReadsHolder
    <2>3 toClient' = <<Pkt(kind, call[t])>>
      BY <2>1, <2>2 DEF DaemonWrites
    <2>4 toClient' = <<Pkt("EVENT_UNKNOWN", call[t])>> => kind = "EVENT_UNKNOWN"
      BY <2>3 DEF Pkt
    <2>5 Exchanging(t, "REGISTER", {"CONFIRM", "EVENT_UNKNOWN", "BAD_LENGTH"})'
      BY <2>1, <2>2, <2>3 DEF Exchanging, clientVars
    <2>a kind = "EVENT_UNKNOWN" => Forgotten'
      <3>1 toDaemon # <<>> /\ StreamAt(t)
        BY <2>1 DEF DaemonReads, StreamInv
      <3>2 Forgotten
        BY <2>2, <3>1 DEF StreamAt
      <3> QED BY <2>1, <3>2 DEF Forgotten, TypeOK
    <2>6 StreamAt(t)'
      BY <2>1, <2>2, <2>4, <2>5, <2>a DEF StreamAt, StreamInv, clientVars
    <2>7 call[t] \notin late /\ \A c \in Calls : executed[c] <= 1
      BY <2>2 DEF ExecInv, ExecAt
    <2> QED BY <2>1, <2>2, <2>6, <2>7, DaemonKeeps
  <1>2 CASE DaemonUnregister
    <2>1 PICK kind \in {"CONFIRM", "BAD_LENGTH"} :
           /\ DaemonReads("UNREGISTER")
           /\ DaemonWrites(kind, Head(toDaemon).call)
           /\ registered' \in {FALSE, leftover}
           /\ UNCHANGED <<mutex, budget, clientVars, socket, serving, leftover, late, executed,
                          daemonUp>>
      BY <1>2, GarbledInSync DEF DaemonUnregister
    <2>2 PICK t \in Threads :
           /\ mutex = t /\ pc[t] \notin Outside /\ socket = "open"
           /\ toDaemon' = <<>> /\ Head(toDaemon).call = call[t] /\ call[t] \in Calls
           /\ toClient = <<>> /\ serving = NoCall /\ pc[t] = "unconfirm"
      BY <2>1, ReadsHolder
    <2>3 toClient' = <<Pkt(kind, call[t])>>
      BY <2>1, <2>2 DEF DaemonWrites
    <2>5 Exchanging(t, "UNREGISTER", {"CONFIRM", "BAD_LENGTH"})'
      BY <2>1, <2>2, <2>3 DEF Exchanging, clientVars
    <2>a Forgotten'
      BY <2>1 DEF Forgotten, TypeOK
    <2>6 StreamAt(t)'
      BY <2>1, <2>2, <2>5, <2>a DEF StreamAt, StreamInv, clientVars
    <2>7 call[t] \notin late /\ \A c \in Calls : executed[c] <= 1
      BY <2>2 DEF ExecInv, ExecAt
    <2> QED BY <2>1, <2>2, <2>6, <2>7, DaemonKeeps
  <1> QED BY <1>1, <1>2

\* charon's reading of a request keeps the invariant.
LEMMA DaemonRequestStep ==
    ASSUME IInv, DaemonExecute \/ DaemonUnknown
    PROVE  LockInv' /\ StreamInv' /\ ExecInv' /\ OwnResponse'
  <1> USE DEF IInv
  <1>1 DaemonReads("REQUEST")
    BY DEF DaemonExecute, DaemonUnknown
  <1>2 PICK t \in Threads :
         /\ mutex = t /\ pc[t] \notin Outside /\ socket = "open"
         /\ toDaemon' = <<>> /\ Head(toDaemon).call = call[t] /\ call[t] \in Calls
         /\ toClient = <<>> /\ serving = NoCall /\ pc[t] = "stream" /\ Unread(t)
    BY <1>1, ReadsHolder
  <1>3 /\ call[t] \notin late /\ executed \in [Calls -> Nat]
       /\ executed[call[t]] = 0 /\ \A c \in Calls : executed[c] <= 1
    BY <1>2 DEF ExecInv, ExecAt, Unread, TypeOK
  <1>4 CASE DaemonExecute
    <2>1 /\ serving' = call[t]
         /\ executed' = [executed EXCEPT ![call[t]] = @ + 1]
         /\ UNCHANGED <<mutex, clientVars, socket, toClient, registered, leftover, late>>
      BY <1>2, <1>4 DEF DaemonExecute
    <2>2 Answering(t)'
      BY <1>2, <1>3, <2>1 DEF Answering, clientVars
    <2>3 StreamAt(t)'
      BY <1>2, <2>1, <2>2 DEF StreamAt, Forgotten, StreamInv, InProgress, clientVars
    <2>4 \A c \in Calls : executed'[c] <= 1
      BY <1>3, <2>1
    <2>5 \A c \in Calls \ {call[t]} : executed'[c] = executed[c]
      BY <1>3, <2>1
    <2> QED BY <1>2, <1>3, <2>1, <2>3, <2>4, <2>5, DaemonKeeps
  <1>5 CASE DaemonUnknown
    <2>1 /\ toClient' = <<Pkt("CMD_UNKNOWN", call[t])>>
         /\ UNCHANGED <<mutex, clientVars, socket, serving, registered, leftover, late, executed>>
      BY <1>2, <1>5 DEF DaemonUnknown, DaemonWrites
    <2>2 /\ Len(toClient') = 1 /\ toClient' # <<>>
         /\ toClient'[1].kind = "CMD_UNKNOWN" /\ toClient'[1].call = call[t]
      BY <2>1 DEF Pkt
    <2>3 Answered(t)'
      BY <1>2, <1>3, <2>1, <2>2 DEF Answered, Final, clientVars
    <2>4 StreamAt(t)'
      BY <1>2, <2>1, <2>3 DEF StreamAt, Forgotten, StreamInv, InProgress, clientVars
    <2> QED BY <1>2, <1>3, <2>1, <2>4, DaemonKeeps
  <1> QED BY <1>4, <1>5

\* charon's events and answers keep the invariant.
LEMMA DaemonAnswerStep ==
    ASSUME IInv, InSync, DaemonEvent \/ DaemonRespond
    PROVE  LockInv' /\ StreamInv' /\ ExecInv' /\ OwnResponse'
  <1> USE DEF IInv
  <1>1 serving # NoCall
    BY DEF DaemonEvent, DaemonRespond
  <1>2 PICK t \in Threads :
         /\ mutex = t /\ pc[t] = "stream" /\ socket = "open"
         /\ serving = call[t] /\ call[t] \in Calls /\ Answering(t)
    BY <1>1, ServesHolder
  <1>3 /\ call[t] \notin late /\ executed[call[t]] = 1
       /\ \A c \in Calls : executed[c] <= 1
    BY <1>2 DEF ExecInv, ExecAt, Answering
  <1>4 CASE DaemonEvent
    <2>1 PICK kind \in {"EVENT", "BAD_LENGTH"} :
           /\ DaemonWrites(kind, call[t])
           /\ UNCHANGED <<mutex, clientVars, socket, toDaemon, serving, registered, leftover, late,
                          executed>>
      BY <1>2, <1>4, GarbledInSync DEF DaemonEvent
    <2>2 toClient' = Append(toClient, Pkt(kind, call[t])) /\ kind \in ReplyKinds
      BY <2>1 DEF DaemonWrites, ReplyKinds, AllFaults
    <2>3 Answering(t)'
      <3>1 ASSUME NEW i \in 1 .. Len(toClient')
           PROVE  toClient'[i].call = call[t] /\ toClient'[i].kind \in Interim
        <4>1 CASE i \in 1 .. Len(toClient)
          BY <1>2, <2>2, <4>1, AppendShape DEF Answering
        <4>2 CASE i = Len(toClient')
          BY <1>2, <2>2, <4>2, AppendShape DEF Interim
        <4> QED BY <1>2, <2>2, <4>1, <4>2, AppendShape
      <3> QED BY <1>2, <2>1, <3>1 DEF Answering, clientVars
    <2>4 StreamAt(t)'
      BY <1>2, <2>1, <2>3 DEF StreamAt, Forgotten, StreamInv, InProgress, clientVars
    <2> QED BY <1>2, <1>3, <2>1, <2>4, DaemonKeeps
  <1>5 CASE DaemonRespond
    <2>1 PICK kind \in {"RESPONSE", "FAILURE", "BAD_RESPONSE", "BAD_LENGTH"} :
           /\ DaemonWrites(kind, call[t])
           /\ serving' = NoCall
           /\ UNCHANGED <<mutex, clientVars, socket, toDaemon, registered, leftover, late,
                          executed>>
      BY <1>2, <1>5, GarbledInSync DEF DaemonRespond
    <2>2 toClient' = Append(toClient, Pkt(kind, call[t])) /\ kind \in ReplyKinds
      BY <2>1 DEF DaemonWrites, ReplyKinds, AllFaults
    <2>3 Answered(t)'
      <3>1 ASSUME NEW i \in 1 .. Len(toClient')
           PROVE  /\ toClient'[i].call = call[t]
                  /\ i < Len(toClient') => toClient'[i].kind \in Interim
                  /\ i = Len(toClient') => toClient'[i].kind \in Final
        <4>1 CASE i \in 1 .. Len(toClient)
          BY <1>2, <2>2, <4>1, AppendShape DEF Answering
        <4>2 CASE i = Len(toClient')
          <5>1 toClient'[i].kind = kind /\ toClient'[i].call = call[t]
            BY <1>2, <2>2, <4>2, AppendShape
          <5>2 kind \in Final /\ ~(i < Len(toClient'))
            BY <1>2, <2>2, <4>2, AppendShape DEF Final
          <5> QED BY <5>1, <5>2
        <4> QED BY <1>2, <2>2, <4>1, <4>2, AppendShape
      <3>2 toClient' # <<>>
        BY <1>2, <2>2, AppendShape
      <3> QED BY <1>2, <1>3, <2>1, <3>1, <3>2 DEF Answered, Answering, clientVars
    <2>4 StreamAt(t)'
      BY <1>2, <2>1, <2>3 DEF StreamAt, Forgotten, StreamInv, InProgress, clientVars
    <2> QED BY <1>2, <1>3, <2>1, <2>4, DaemonKeeps
  <1> QED BY <1>4, <1>5

\* A request left in a closed connection is of no thread that is still inside.
LEMMA DaemonLateStep ==
    ASSUME IInv, DaemonExecuteLate
    PROVE  LockInv' /\ StreamInv' /\ ExecInv' /\ OwnResponse'
  <1> USE DEF IInv, clientVars
  <1>1 PICK c \in late :
         /\ late' = late \ {c}
         /\ executed' = [executed EXCEPT ![c] = @ + 1]
         /\ UNCHANGED <<mutex, budget, clientVars, socket, toDaemon, toClient, serving,
                        registered, leftover, daemonUp>>
    BY DEF DaemonExecuteLate
  <1>2 c \in Calls /\ executed \in [Calls -> Nat] /\ executed[c] = 0
    BY DEF TypeOK, ExecInv
  <1>3 /\ executed'[c] = 1
       /\ \A d \in Calls \ {c} : executed'[d] = executed[d]
    BY <1>1, <1>2
  <1>4 LockInv'
    BY <1>1 DEF LockInv
  <1>5 StreamInv'
    <2>1 ASSUME NEW u \in Threads PROVE StreamAt(u)'
      <3>1 StreamAt(u) /\ (pc[u] = "stream" => call[u] \in Calls \ {c})
        BY DEF StreamInv, ExecInv, ExecAt, CallInv
      <3>2 pc[u] = "stream" => executed'[call[u]] = executed[call[u]]
        BY <1>3, <3>1
      <3> QED BY <1>1, <3>1, <3>2
          DEF StreamAt, Forgotten, Exchanging, InProgress, Unread, Answering, Answered, Quiet
    <2> QED BY <1>1, <2>1 DEF StreamInv, Quiet, Forgotten
  <1>6 ExecInv'
    <2>1 ASSUME NEW u \in Threads PROVE ExecAt(u)'
      <3>1 ExecAt(u) /\ (pc[u] # "idle" => call[u] \in Calls)
        BY DEF ExecInv, CallInv
      <3>2 call[u] \in Calls /\ call[u] # c => executed'[call[u]] = executed[call[u]]
        BY <1>3
      <3> QED BY <1>1, <1>2, <1>3, <3>1, <3>2 DEF ExecAt, NotSent, Settled
    <2>2 \A d \in Calls : executed'[d] <= 1
      BY <1>3 DEF ExecInv
    <2>3 \A d \in late' : executed'[d] = 0
      BY <1>1, <1>3 DEF ExecInv, TypeOK
    <2> QED BY <2>1, <2>2, <2>3 DEF ExecInv
  <1>7 OwnResponse'
    BY <1>1 DEF OwnResponse
  <1> QED BY <1>4, <1>5, <1>6, <1>7

\* A crash or a start of charon keeps the invariant.
LEMMA DaemonCrashStep ==
    ASSUME IInv, DaemonCrash \/ DaemonStart
    PROVE  LockInv' /\ StreamInv' /\ ExecInv' /\ OwnResponse'
  <1> USE DEF IInv, clientVars, channelVars
  <1>1 UNCHANGED <<mutex, clientVars, executed>> /\ late' \subseteq late
    BY DEF DaemonCrash, DaemonStart
  <1>2 LockInv'
    BY <1>1 DEF LockInv
  <1>3 StreamInv'
    <2>1 CASE DaemonStart
      BY <2>1 DEF DaemonStart, StreamInv, StreamAt, Forgotten, Exchanging, InProgress, Unread,
         Answering, Answered, Quiet
    <2>2 CASE DaemonCrash
      <3>1 Quiet' /\ Forgotten' /\ toClient' = <<>> /\ toDaemon' = <<>> /\ socket' # "open"
        BY <2>2 DEF DaemonCrash, Quiet, TypeOK, Forgotten
      <3>2 ASSUME NEW u \in Threads PROVE StreamAt(u)'
        <4>1 StreamAt(u)
          BY DEF StreamInv
        <4>2 socket # "closed" => socket' = "hungup"
          BY <2>2 DEF DaemonCrash, TypeOK
        <4>3 pc[u] = "stream" => executed[call[u]] <= 1
          BY DEF CallInv, ExecInv
        <4>4 ~(toClient' = <<Pkt("EVENT_UNKNOWN", call[u])>>)
          BY <3>1
        <4>5 serving' = NoCall
          BY <3>1 DEF Quiet
        <4> QED BY <1>1, <3>1, <4>1, <4>2, <4>3, <4>4, <4>5
            DEF StreamAt, Forgotten, Exchanging, InProgress
      <3> QED BY <3>1, <3>2 DEF StreamInv
    <2> QED BY <2>1, <2>2
  <1>4 ExecInv'
    BY <1>1 DEF ExecInv, ExecAt
  <1>5 OwnResponse'
    BY <1>1 DEF OwnResponse
  <1> QED BY <1>2, <1>3, <1>4, <1>5

\* Every step of the system keeps the invariant.
LEMMA InvariantStep ==
    ASSUME IInv, InSync, [Next]_vars
    PROVE  IInv'
  <1>1 TypeOK /\ CallInv
    BY DEF IInv
  <1>2 CallInv'
    BY <1>1, CallInvStep
  <1>3 CASE Tick \/ UNCHANGED vars
    <2>1 TypeOK'
      <3>1 CASE UNCHANGED vars
        BY <1>1, <3>1 DEF TypeOK, vars, clientVars, channelVars
      <3> QED BY <1>1, <1>3, <3>1, EnvironmentType
    <2> QED BY <1>2, <1>3, <2>1, TickStep DEF IInv
  <1>4 CASE Daemon
    <2>1 TypeOK'
      BY <1>1, <1>4, EnvironmentType
    <2> QED BY <1>2, <1>4, <2>1, DaemonExchangeStep, DaemonRequestStep, DaemonAnswerStep,
               DaemonLateStep, DaemonCrashStep DEF Daemon, IInv
  <1>5 ASSUME NEW t \in Threads, NEW c \in Calls, NEW stream \in BOOLEAN,
              Call(t, c, stream)
       PROVE  IInv'
    BY <1>1, <1>2, <1>5, CallType, CallStep DEF IInv
  <1>6 ASSUME NEW t \in Threads, Step(t)
       PROVE  IInv'
    <2>1 TypeOK'
      BY <1>1, <1>6, StepType
    <2>2 Register(t) \/ Request(t) \/ Unregister(t)
            => LockInv' /\ StreamInv' /\ ExecInv' /\ OwnResponse'
      BY SendStep, BuildFailsStep DEF Register, Request, Unregister
    <2> QED BY <1>2, <1>6, <2>1, <2>2, LockStep, ConnectStep, ConfirmStep, StreamStep,
               UnconfirmStep, UnlockStep DEF Step, IInv
  <1> QED BY <1>3, <1>4, <1>5, <1>6 DEF Next

\* The invariant holds initially.
LEMMA InvariantInit == Init => IInv
  <1> SUFFICES ASSUME Init PROVE IInv
    OBVIOUS
  <1> USE DEF Init
  <1>1 TypeOK
    BY EmptyType DEF TypeOK, Locations, Errors
  <1>2 LockInv /\ CallInv /\ OwnResponse
    BY ClientConstants DEF LockInv, CallInv, OwnResponse, Outside
  <1>3 StreamInv
    BY DEF StreamInv, StreamAt, Forgotten, Quiet
  <1>4 ExecInv
    BY ClientConstants DEF ExecInv, ExecAt, NotSent, Settled
  <1> QED BY <1>1, <1>2, <1>3, <1>4 DEF IInv

\* The inductive invariant holds of every behaviour in which no packet makes
\* ReceiveViciCommandStream stop before it has read the answer.
THEOREM Invariant == InSync => (Spec => []IInv)
  <1> SUFFICES ASSUME InSync PROVE Spec => []IInv
    OBVIOUS
  <1>1 IInv /\ [Next]_vars => IInv'
    BY InvariantStep
  <1> QED BY <1>1, InvariantInit, PTL DEF Spec

\* Whatever is lost, late or abandoned, ExecuteViciCommand attributes to a call
\* the answer of that call and of no other.
THEOREM ResponsesAreOwn == InSync => (Spec => []OwnResponse)
  <1>1 IInv => OwnResponse
    BY DEF IInv
  <1> QED BY <1>1, Invariant, PTL

\* A call that returned success was performed by the daemon, exactly once.
THEOREM SuccessIsReal == InSync => (Spec => []OkMeansExecuted)
  <1>1 IInv => OkMeansExecuted
    BY DEF IInv, OkMeansExecuted, ExecInv, ExecAt, Settled, TypeOK
  <1> QED BY <1>1, Invariant, PTL

\* No command is performed twice: the client never sends a request again, and
\* one read late from a closed connection was not performed before.
THEOREM PerformedAtMostOnce == InSync => (Spec => []AtMostOnce)
  <1>1 IInv => AtMostOnce
    BY DEF IInv, AtMostOnce, ExecInv
  <1> QED BY <1>1, Invariant, PTL

\* A call that could not connect leaves nothing the daemon may still perform.
THEOREM ConnectErrorIsFinal == InSync => (Spec => []ConnectErrorMeansNotExecuted)
  <1>1 IInv => ConnectErrorMeansNotExecuted
    BY DEF IInv, ConnectErrorMeansNotExecuted, ExecInv, ExecAt
  <1> QED BY <1>1, Invariant, PTL

\* The next call on an open connection meets no packet, no command in progress
\* and no registration of an earlier one, unless that call had no memory for the
\* packet that undoes it.
THEOREM ConnectionIsClean == InSync => (Spec => []CleanBetweenCalls)
  <1>1 IInv => CleanBetweenCalls
    BY DEF IInv, CleanBetweenCalls, StreamInv, Quiet, Forgotten
  <1> QED BY <1>1, Invariant, PTL

-----------------------------------------------------------------------------
(* The client implements ViciService.                                      *)

Pending == Requests(toDaemon) \cup late

\* The outcome a caller sees depends on three variables of its thread only.
LEMMA OutcomeKept ==
    ASSUME NEW u \in Threads, UNCHANGED call,
           \/ pc[u] # "idle" /\ pc'[u] # "idle"
           \/ pc'[u] = pc[u] /\ eError'[u] = eError[u]
    PROVE  Outcome(u)' = Outcome(u)
  BY DEF Outcome

\* A step that no caller can see: nobody enters, returns, takes or releases the
\* mutex, and charon performs nothing and loses nothing.
LEMMA Unseen ==
    ASSUME UNCHANGED <<mutex, call, executed>>, Pending' = Pending,
           \A u \in Threads : Outcome(u)' = Outcome(u)
    PROVE  UNCHANGED Service!vars
  <1>1 [t \in Threads |-> Outcome(t)]' = [t \in Threads |-> Outcome(t)]
    OBVIOUS
  <1> QED BY <1>1 DEF Service!vars, Pending

\* A failed transport operation moves the unread requests to the closed
\* connection, from where charon may still perform them.
LEMMA FailurePending ==
    ASSUME DisconnectViciTransport
    PROVE  Pending' = Pending
  BY EmptyRequests DEF DisconnectViciTransport, Pending

\* A failed transport operation is unseen until the call returns.
LEMMA FailureUnseen ==
    ASSUME IInv, NEW t \in Threads, pc[t] # "idle", NEW err, TransportFails(t, err)
    PROVE  UNCHANGED Service!vars
  <1>1 Pending' = Pending
    BY FailurePending DEF TransportFails
  <1>2 ASSUME NEW u \in Threads PROVE Outcome(u)' = Outcome(u)
    <2>1 CASE u = t
      BY <2>1, OutcomeKept DEF TransportFails, IInv, TypeOK
    <2>2 CASE u # t
      BY <2>2, OutcomeKept DEF TransportFails, IInv, TypeOK
    <2> QED BY <2>1, <2>2
  <1> QED BY <1>1, <1>2, Unseen DEF TransportFails

\* A step of thread t inside its call that changes no stream to the daemon.
LEMMA InsideUnseen ==
    ASSUME IInv, NEW t \in Threads, pc[t] # "idle", pc'[t] # "idle",
           \A u \in Threads \ {t} : pc'[u] = pc[u] /\ eError'[u] = eError[u],
           UNCHANGED <<mutex, call, executed, toDaemon, late>>
    PROVE  UNCHANGED Service!vars
  <1>1 Pending' = Pending
    BY DEF Pending, Requests
  <1>2 ASSUME NEW u \in Threads PROVE Outcome(u)' = Outcome(u)
    BY OutcomeKept
  <1> QED BY <1>1, <1>2, Unseen

\* Entering ExecuteViciCommand begins the call.
LEMMA CallRefines ==
    ASSUME IInv, NEW t \in Threads, NEW c \in Calls, NEW stream \in BOOLEAN,
           Call(t, c, stream)
    PROVE  Service!Begin(t, c)
  <1> USE DEF IInv, TypeOK
  <1>1 c \notin Requests(toDaemon)
    BY DEF Call, Fresh, Requests
  <1>2 c \notin Pending
    BY <1>1 DEF Call, Fresh, Pending
  <1>3 Pending' = Pending
    BY DEF Call, channelVars, Pending, Requests
  <1>4 Outcome(t) # "running" /\ Outcome(t)' = "running"
    BY DEF Call, Outcome
  <1>5 ASSUME NEW u \in Threads, u # t PROVE Outcome(u)' = Outcome(u)
    BY <1>5 DEF Call, Outcome
  <1>6 [u \in Threads |-> Outcome(u)]'
          = [[u \in Threads |-> Outcome(u)] EXCEPT ![t] = "running"]
    BY <1>4, <1>5
  <1> QED BY <1>2, <1>3, <1>4, <1>6 DEF Service!Begin, Call, Fresh, Pending

\* Taking the mutex makes the thread the owner of the service.
LEMMA LockRefines ==
    ASSUME IInv, NEW t \in Threads, Lock(t)
    PROVE  Service!Acquire(t)
  <1> USE DEF IInv, TypeOK, Lock
  <1>1 Pending' = Pending
    BY DEF channelVars, Pending, Requests
  <1>2 ASSUME NEW u \in Threads PROVE Outcome(u)' = Outcome(u)
    BY OutcomeKept
  <1>3 [u \in Threads |-> Outcome(u)]' = [u \in Threads |-> Outcome(u)]
    BY <1>2
  <1>4 Outcome(t) = "running"
    BY DEF Outcome
  <1> QED BY <1>1, <1>3, <1>4 DEF Service!Acquire, Pending, channelVars

\* Writing the request submits the command; the other packets are unseen.
LEMMA SendRefines ==
    ASSUME IInv, NEW t \in Threads, Register(t) \/ Request(t) \/ Unregister(t)
    PROVE  Service!Submit(t) \/ UNCHANGED Service!vars
  <1> USE DEF IInv, TypeOK
  <1>1 PICK kind, to :
         /\ \/ pc[t] = "register" /\ kind = "REGISTER" /\ to = "confirm"
            \/ pc[t] = "request" /\ kind = "REQUEST" /\ to = "stream"
            \/ pc[t] = "unregister" /\ kind = "UNREGISTER" /\ to = "unconfirm"
         /\ \/ SendViciTransportPacket(t, kind, to)
            \/ \E after \in Locations \ {"idle"} : BuildFails(t, after)
    BY DEF Register, Request, Unregister, AfterCommand, Locations
  <1>2 CASE TransportFails(t, WaitError)
    BY <1>1, <1>2, FailureUnseen
  <1>b CASE \E after \in Locations \ {"idle"} : BuildFails(t, after)
    BY <1>1, <1>b, InsideUnseen DEF BuildFails
  <1>3 CASE SendViciTransportPacket(t, kind, to) /\ ~TransportFails(t, WaitError)
    <2>1 /\ toDaemon' = Append(toDaemon, Pkt(kind, call[t]))
         /\ pc' = [pc EXCEPT ![t] = to]
         /\ UNCHANGED <<mutex, call, eError, late, executed>>
      BY <1>1, <1>3 DEF SendViciTransportPacket
    <2>2 toDaemon = <<>>
      BY <1>1 DEF StreamInv, StreamAt, Forgotten, Quiet
    <2>3 Requests(toDaemon') = IF kind = "REQUEST" THEN {call[t]} ELSE {}
      <3>1 toDaemon' = <<Pkt(kind, call[t])>>
        BY <2>1, <2>2
      <3>2 Requests(<<Pkt(kind, call[t])>>) = IF kind = "REQUEST" THEN {call[t]} ELSE {}
        BY OneRequest
      <3>3 Requests(toDaemon') = Requests(<<Pkt(kind, call[t])>>)
        BY <3>1
      <3> QED BY <3>2, <3>3
    <2>4 Pending' = IF kind = "REQUEST" THEN Pending \cup {call[t]} ELSE Pending
      BY <2>1, <2>2, <2>3, EmptyRequests DEF Pending
    <2>5 ASSUME NEW u \in Threads PROVE Outcome(u)' = Outcome(u)
      BY <1>1, <2>1, OutcomeKept
    <2>6 CASE kind # "REQUEST"
      BY <2>1, <2>4, <2>5, <2>6, Unseen
    <2>7 CASE kind = "REQUEST"
      <3>1 mutex = t /\ executed[call[t]] = 0
        BY <1>1, <2>7 DEF LockInv, Outside, ExecInv, ExecAt, NotSent
      <3>2 [u \in Threads |-> Outcome(u)]' = [u \in Threads |-> Outcome(u)]
        BY <2>5
      <3> QED BY <2>1, <2>4, <2>7, <3>1, <3>2 DEF Service!Submit, Pending
    <2> QED BY <2>6, <2>7
  <1> QED BY <1>1, <1>2, <1>3, <1>b

\* Connecting and reading answers are unseen.
LEMMA ReceiveRefines ==
    ASSUME IInv, NEW t \in Threads,
           \/ ConnectViciTransport(t)
           \/ ReceiveConfirm(t)
           \/ ReceiveViciCommandStream(t)
           \/ ReceiveUnconfirm(t)
    PROVE  UNCHANGED Service!vars
  <1> USE DEF IInv, TypeOK
  <1>0 pc[t] # "idle"
    BY DEF ConnectViciTransport, ReceiveConfirm, ReceiveViciCommandStream, ReceiveUnconfirm
  <1>1 CASE ReceiveFails(t)
    BY <1>0, <1>1, FailureUnseen DEF ReceiveFails
  <1>2 CASE ~ReceiveFails(t)
    <2>1 /\ pc'[t] # "idle"
         /\ \A u \in Threads \ {t} : pc'[u] = pc[u] /\ eError'[u] = eError[u]
         /\ UNCHANGED <<mutex, call, executed, toDaemon, late>>
      BY <1>0, <1>2 DEF ConnectViciTransport, ReceiveConfirm, ReceiveViciCommandStream,
         ReceiveUnconfirm, StreamEvent, StreamEnd, AfterCommand
    <2> QED BY <1>0, <2>1, InsideUnseen
  <1> QED BY <1>1, <1>2

\* Releasing the mutex returns the outcome of the call, success only for a
\* command that was performed.
LEMMA UnlockRefines ==
    ASSUME IInv, NEW t \in Threads, Unlock(t)
    PROVE  Service!ReturnOk(t) \/ Service!ReturnError(t)
  <1> USE DEF IInv, TypeOK, Unlock
  <1>1 /\ mutex = t /\ call[t] \in Calls
       /\ eError[t] = "OK" => executed[call[t]] = 1
    BY DEF LockInv, Outside, CallInv, ExecInv, ExecAt, Settled
  <1>2 Pending' = Pending
    BY DEF channelVars, Pending, Requests
  <1>3 Outcome(t)' = IF eError[t] = "OK" THEN "ok" ELSE "error"
    BY <1>1, ClientConstants DEF Outcome
  <1>4 ASSUME NEW u \in Threads, u # t PROVE Outcome(u)' = Outcome(u)
    BY <1>4, OutcomeKept
  <1>5 [u \in Threads |-> Outcome(u)]'
          = [[u \in Threads |-> Outcome(u)]
                EXCEPT ![t] = IF eError[t] = "OK" THEN "ok" ELSE "error"]
    BY <1>3, <1>4
  <1> QED BY <1>1, <1>2, <1>5 DEF Service!ReturnOk, Service!ReturnError, Pending, channelVars

\* What charon does is performing a pending command, losing some, or unseen.
LEMMA DaemonRefines ==
    ASSUME IInv, Daemon
    PROVE  (\E c \in Calls : Service!Perform(c)) \/ Service!Lose \/ UNCHANGED Service!vars
  <1> USE DEF IInv, TypeOK, clientVars, channelVars
  <1>0 /\ UNCHANGED <<mutex, call, pc, eError>>
       /\ DaemonExecute \/ DaemonExecuteLate \/ executed' = executed
    BY DEF Daemon, DaemonRegister, DaemonUnregister, DaemonExecute, DaemonUnknown,
       DaemonEvent, DaemonRespond, DaemonExecuteLate, DaemonCrash, DaemonStart
  <1>a ASSUME NEW u \in Threads PROVE Outcome(u)' = Outcome(u)
    BY <1>0 DEF Outcome
  <1>b [u \in Threads |-> Outcome(u)]' = [u \in Threads |-> Outcome(u)]
    BY <1>a
  <1>1 CASE DaemonRegister \/ DaemonUnregister
    <2>1 PICK kind \in {"REGISTER", "UNREGISTER"} : DaemonReads(kind)
      BY <1>1 DEF DaemonRegister, DaemonUnregister
    <2>2 PICK t \in Threads : toDaemon = <<Pkt(kind, call[t])>> /\ toDaemon' = <<>>
      BY <2>1, ReadsHolder
    <2>3 Requests(toDaemon) = {} /\ Requests(toDaemon') = {}
      BY <2>1, <2>2, OneRequest, EmptyRequests
    <2>4 Pending' = Pending /\ executed' = executed
      BY <1>1, <2>3 DEF Pending, DaemonRegister, DaemonUnregister
    <2> QED BY <1>0, <1>a, <2>4, Unseen
  <1>2 CASE DaemonExecute \/ DaemonUnknown
    <2>1 PICK t \in Threads :
           /\ pc[t] = "stream" /\ Unread(t) /\ call[t] \in Calls
           /\ toDaemon = <<Pkt("REQUEST", call[t])>> /\ toDaemon' = <<>>
           /\ Head(toDaemon).call = call[t]
      BY <1>2, ReadsHolder DEF DaemonExecute, DaemonUnknown
    <2>2 /\ Requests(toDaemon) = {call[t]} /\ Requests(toDaemon') = {}
         /\ late' = late /\ call[t] \notin late /\ executed[call[t]] = 0
      BY <1>2, <2>1, OneRequest, EmptyRequests
         DEF DaemonExecute, DaemonUnknown, ExecInv, ExecAt, Unread
    <2>3 /\ call[t] \in Pending /\ Pending' = Pending \ {call[t]}
      BY <2>2 DEF Pending
    <2>4 CASE DaemonExecute
      <3>0 executed' = [executed EXCEPT ![call[t]] = executed[call[t]] + 1]
        BY <2>1, <2>4 DEF DaemonExecute
      <3>1 executed' = [executed EXCEPT ![call[t]] = 1]
        BY <2>2, <3>0
      <3>2 Service!Perform(call[t])
        BY <1>0, <1>b, <2>2, <2>3, <3>1 DEF Service!Perform, Pending
      <3> QED BY <2>1, <3>2
    <2>5 CASE DaemonUnknown
      <3>1 executed' = executed
        BY <2>5 DEF DaemonUnknown
      <3>2 Service!Lose
        BY <1>0, <1>b, <2>3, <3>1 DEF Service!Lose, Pending
      <3> QED BY <3>2
    <2> QED BY <1>2, <2>4, <2>5
  <1>3 CASE DaemonEvent \/ DaemonRespond \/ DaemonStart
    <2>1 Pending' = Pending /\ executed' = executed
      BY <1>3 DEF Pending, Requests, DaemonEvent, DaemonRespond, DaemonStart
    <2> QED BY <1>0, <1>a, <2>1, Unseen
  <1>4 CASE DaemonExecuteLate
    <2>1 PICK c \in late :
           /\ late' = late \ {c}
           /\ executed' = [executed EXCEPT ![c] = @ + 1]
           /\ toDaemon' = toDaemon
      BY <1>4 DEF DaemonExecuteLate
    <2>2 c \in Calls /\ executed[c] = 0
      BY DEF ExecInv
    <2>3 c \notin Requests(toDaemon)
      <3> SUFFICES ASSUME c \in Requests(toDaemon) PROVE FALSE
        OBVIOUS
      <3>1 mutex \in Threads /\ pc[mutex] \notin Outside
        BY EmptyRequests DEF StreamInv, Quiet, LockInv
      <3>2 c = call[mutex] /\ pc[mutex] = "stream"
        BY <3>1, UnreadRequest
      <3> QED BY <3>1, <3>2 DEF ExecInv, ExecAt
    <2>4 Requests(toDaemon') = Requests(toDaemon)
      BY <2>1 DEF Requests
    <2>5 c \in Pending /\ Pending' = Pending \ {c}
      BY <2>1, <2>3, <2>4 DEF Pending
    <2>6 executed' = [executed EXCEPT ![c] = 1]
      BY <2>1, <2>2
    <2>7 Service!Perform(c)
      BY <1>0, <1>b, <2>2, <2>5, <2>6 DEF Service!Perform, Pending
    <2> QED BY <2>2, <2>7
  <1>5 CASE DaemonCrash
    <2>1 Pending' = {} /\ executed' = executed
      BY <1>5, EmptyRequests DEF DaemonCrash, Pending
    <2>2 Service!Lose
      BY <1>0, <1>b, <2>1 DEF Service!Lose, Pending
    <2> QED BY <2>2
  <1> QED BY <1>1, <1>2, <1>3, <1>4, <1>5 DEF Daemon

\* Every step of the client, the clock and the daemon is a step of the service
\* or one that its callers cannot see.
LEMMA StepRefines ==
    ASSUME IInv, [Next]_vars
    PROVE  [Service!Next]_Service!vars
  <1>1 ASSUME NEW t \in Threads, NEW c \in Calls, NEW stream \in BOOLEAN,
              Call(t, c, stream)
       PROVE  Service!Next
    BY <1>1, CallRefines DEF Service!Next
  <1>2 ASSUME NEW t \in Threads, Step(t)
       PROVE  Service!Next \/ UNCHANGED Service!vars
    <2>1 \/ Service!Acquire(t) \/ Service!Submit(t)
         \/ Service!ReturnOk(t) \/ Service!ReturnError(t)
         \/ UNCHANGED Service!vars
      BY <1>2, LockRefines, SendRefines, ReceiveRefines, UnlockRefines DEF Step
    <2> QED BY <2>1 DEF Service!Next
  <1>3 CASE Tick \/ UNCHANGED vars
    <2>1 UNCHANGED <<mutex, call, executed, pc, eError, toDaemon, late>>
      BY <1>3 DEF Tick, vars, clientVars, channelVars
    <2>2 Pending' = Pending
      BY <2>1 DEF Pending, Requests
    <2>3 \A u \in Threads : Outcome(u)' = Outcome(u)
      BY <2>1 DEF Outcome
    <2> QED BY <2>1, <2>2, <2>3, Unseen
  <1>4 CASE Daemon
    BY <1>4, DaemonRefines DEF Service!Next
  <1> QED BY <1>1, <1>2, <1>3, <1>4 DEF Next

\* Seen from its callers, ExecuteViciCommand over a socket behaves as the atomic
\* service: for any number of threads and calls, any deadline and any buffer,
\* whatever the daemon delays, loses or abandons.
THEOREM Implementation == InSync => (Spec => ImplementsService)
  <1> SUFFICES ASSUME InSync PROVE Spec => ImplementsService
    OBVIOUS
  <1>1 Init => Service!Init
    <2> SUFFICES ASSUME Init PROVE Service!Init
      OBVIOUS
    <2>1 [t \in Threads |-> Outcome(t)] = [t \in Threads |-> "none"]
      BY DEF Init, Outcome
    <2>2 Requests(toDaemon) \cup late = {}
      BY EmptyRequests DEF Init
    <2> QED BY <2>1, <2>2 DEF Init, Service!Init
  <1>2 IInv /\ [Next]_vars => [Service!Next]_Service!vars
    BY StepRefines
  <1>3 Spec => []IInv
    BY Invariant
  <1> QED BY <1>1, <1>2, <1>3, PTL DEF Spec, ImplementsService, Service!Spec

=============================================================================
