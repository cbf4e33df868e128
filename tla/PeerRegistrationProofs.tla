------------------------ MODULE PeerRegistrationProofs -----------------------
(***************************************************************************)
(* Theorems about PeerRegistration: for any number of responders, any      *)
(* capacity, logon limit and backlog, any number of registrations and of   *)
(* restarts.                                                               *)
(***************************************************************************)
EXTENDS PeerRegistration, FiniteSetTheorems, SequenceTheorems, TLAPS

-----------------------------------------------------------------------------
(* The inductive invariant.                                                *)

\* The listener thread has a connection exactly while it serves one, and runs
\* only while bRunning says so.  Ids that were allocated are still the next
\* ones: nobody else extends the table.
ServingInv ==
    /\ peer # <<>> <=> listener \in {"receive", "assign", "append"}
    /\ ~bRunning => listener \in {"none", "exited"}
    /\ main = "join" => bRunning
    /\ listener \in {"assign", "append"} =>
          Len(table) < Capacity /\ ids = GetNativeAppPeerSequence(Len(table))

\* Ids are given out in the order of the table.
TableInv == \A k \in 1 .. Len(table) : table[k].id = GetNativeAppPeerSequence(k - 1)

\* The table has what profile p of responder r says, or is about to get it.
Entered(r, p) ==
    \E k \in 1 .. Len(table) :
        table[k].id = p.id /\ table[k].address = r /\ table[k].policy = p.policy

Promised(r, p) ==
    listener = "append" /\ peer[1].from = r /\ ids = p.id /\ config = p.policy

Known(r, p) ==
    /\ p.epoch <= epoch
    /\ p.epoch = epoch => Entered(r, p) \/ Promised(r, p)

\* Every profile a responder has, or is about to receive, is known.
ProfileInv ==
    \A r \in Responders :
        /\ \A i \in 1 .. Len(rtable[r]) : Known(r, rtable[r][i])
        /\ reply[r] # <<>> => Known(r, reply[r][1])

Same(p, q) == p.epoch = q.epoch /\ p.id = q.id

\* No two profiles of one initiator process share an id, those on their way
\* included.
UniqueInv ==
    /\ \A r, s \in Responders : \A i \in 1 .. Len(rtable[r]), j \in 1 .. Len(rtable[s]) :
          Same(rtable[r][i], rtable[s][j]) => r = s /\ i = j
    /\ \A r, s \in Responders : \A i \in 1 .. Len(rtable[r]) :
          reply[s] # <<>> => ~Same(rtable[r][i], reply[s][1])
    /\ \A r, s \in Responders :
          reply[r] # <<>> /\ reply[s] # <<>> /\ Same(reply[r][1], reply[s][1]) => r = s

From(q, r) == {i \in 1 .. Len(q) : q[i].from = r}
EntriesOf(t, r) == {i \in 1 .. Len(t) : t[i].address = r}

\* Entries and connections that can still become one, together, are no more than
\* the registrations a responder began.
CountInv ==
    \A r \in Responders :
        Cardinality(EntriesOf(table, r)) + Cardinality(From(queue, r))
            + Cardinality(From(peer, r)) <= attempts[r]

IInv == TypeOK /\ ServingInv /\ TableInv /\ ProfileInv /\ UniqueInv /\ CountInv

-----------------------------------------------------------------------------
(* Lemmas about the ids.                                                   *)

\* Division with a positive divisor.
LEMMA Division ==
    ASSUME NEW n \in Nat
    PROVE  /\ n \div LogonLimit \in 0 .. n
           /\ n % LogonLimit \in 0 .. LogonLimit - 1
           /\ n = LogonLimit * (n \div LogonLimit) + (n % LogonLimit)
  <1>1 LogonLimit \in Nat \ {0}
    BY PeerConstants
  <1> QED BY <1>1

\* Two ordinals have two ids: a logon id wraps only when the group id moves on.
LEMMA SequenceInjective ==
    ASSUME NEW m \in Nat, NEW n \in Nat,
           GetNativeAppPeerSequence(m) = GetNativeAppPeerSequence(n)
    PROVE  m = n
  <1>1 m \div LogonLimit = n \div LogonLimit /\ m % LogonLimit = n % LogonLimit
    BY Division DEF GetNativeAppPeerSequence
  <1> QED BY <1>1, Division

\* The ids of a table that has room are ids.
LEMMA SequenceType ==
    ASSUME NEW n \in Nat, n < Capacity
    PROVE  GetNativeAppPeerSequence(n) \in Ids
  BY Division, PeerConstants DEF GetNativeAppPeerSequence, Ids

\* AppendNativeAppPeer's check of the ids accepts the next ones.
LEMMA NextIdsAllowed ==
    ASSUME Len(table) < Capacity
    PROVE  AppendAllowed(GetNativeAppPeerSequence(Len(table)))
  BY DEF AppendAllowed, GetNativeAppPeerSequence

\* A step on a responder's connection changes neither its kind nor its origin.
LEMMA OnConnectionType ==
    ASSUME NEW c \in Connections, NEW r, NEW field \in {"sent", "live"},
           NEW value \in BOOLEAN
    PROVE  /\ OnConnection(c, r, field, value) \in Connections
           /\ OnConnection(c, r, field, value).from = c.from
  <1>1 CASE field = "sent"
    BY <1>1 DEF OnConnection, Connections
  <1>2 CASE field = "live"
    BY <1>2 DEF OnConnection, Connections
  <1> QED BY <1>1, <1>2

-----------------------------------------------------------------------------
(* Lemmas about counting.                                                  *)

\* Counts are natural numbers, and nothing comes from an empty queue.
LEMMA CountType ==
    ASSUME NEW S, NEW q \in Seq(S), NEW r
    PROVE  /\ IsFiniteSet(From(q, r)) /\ Cardinality(From(q, r)) \in Nat
           /\ IsFiniteSet(EntriesOf(q, r)) /\ Cardinality(EntriesOf(q, r)) \in Nat
           /\ From(<<>>, r) = {} /\ EntriesOf(<<>>, r) = {} /\ Cardinality({}) = 0
  <1>1 Len(q) \in Nat
    OBVIOUS
  <1>2 IsFiniteSet(1 .. Len(q))
    BY <1>1, FS_Interval
  <1>3 From(q, r) \subseteq 1 .. Len(q) /\ EntriesOf(q, r) \subseteq 1 .. Len(q)
    BY DEF From, EntriesOf
  <1>4 IsFiniteSet(From(q, r)) /\ IsFiniteSet(EntriesOf(q, r))
    BY <1>2, <1>3, FS_Subset
  <1>5 From(<<>>, r) = {} /\ EntriesOf(<<>>, r) = {}
    BY DEF From, EntriesOf
  <1> QED BY <1>4, <1>5, FS_CardinalityType, FS_EmptySet

\* The first element of a sequence that has one.
LEMMA FirstElement ==
    ASSUME NEW S, NEW q \in Seq(S), q # <<>>
    PROVE  q[1] \in S /\ Len(q) \in Nat \ {0} /\ (Len(q) <= 1 => Len(q) = 1)
  <1>1 q[1] \in S /\ Len(q) \in Nat \ {0}
    OBVIOUS
  <1>2 \A n \in Nat \ {0} : n <= 1 => n = 1
    OBVIOUS
  <1> QED BY <1>1, <1>2

\* What appending does to a sequence.
LEMMA AppendShape ==
    ASSUME NEW S, NEW q \in Seq(S), NEW e \in S
    PROVE  /\ Append(q, e) \in Seq(S) /\ Len(q) \in Nat /\ Len(Append(q, e)) = Len(q) + 1
           /\ Append(q, e)[Len(q) + 1] = e
           /\ \A i \in 1 .. Len(q) : Append(q, e)[i] = q[i]
  OBVIOUS

\* A new connection counts once, for its own responder.
LEMMA FromAppend ==
    ASSUME NEW S, NEW q \in Seq(S), NEW c \in S, NEW r
    PROVE  Cardinality(From(Append(q, c), r))
              = Cardinality(From(q, r)) + (IF c.from = r THEN 1 ELSE 0)
  <1>1 /\ Len(q) \in Nat /\ Len(Append(q, c)) = Len(q) + 1
       /\ Append(q, c)[Len(q) + 1] = c
       /\ \A i \in 1 .. Len(q) : Append(q, c)[i] = q[i]
    OBVIOUS
  <1>2 From(Append(q, c), r) = From(q, r) \cup (IF c.from = r THEN {Len(q) + 1} ELSE {})
    BY <1>1 DEF From
  <1>3 Len(q) + 1 \notin From(q, r)
    BY <1>1 DEF From
  <1>4 IsFiniteSet(From(q, r)) /\ Cardinality(From(q, r)) \in Nat
    BY CountType
  <1>5 CASE c.from = r
    <2>1 From(Append(q, c), r) = From(q, r) \cup {Len(q) + 1}
      BY <1>2, <1>5
    <2>2 Cardinality(From(q, r) \cup {Len(q) + 1}) = Cardinality(From(q, r)) + 1
      BY <1>3, <1>4, FS_AddElement
    <2> QED BY <1>5, <2>1, <2>2
  <1>6 CASE c.from # r
    <2>1 From(Append(q, c), r) = From(q, r)
      BY <1>2, <1>6
    <2> QED BY <1>4, <1>6, <2>1
  <1> QED BY <1>5, <1>6

\* So does a new entry of the table.
LEMMA EntriesAppend ==
    ASSUME NEW S, NEW t \in Seq(S), NEW e \in S, NEW r
    PROVE  Cardinality(EntriesOf(Append(t, e), r))
              = Cardinality(EntriesOf(t, r)) + (IF e.address = r THEN 1 ELSE 0)
  <1>1 /\ Len(t) \in Nat /\ Len(Append(t, e)) = Len(t) + 1
       /\ Append(t, e)[Len(t) + 1] = e
       /\ \A i \in 1 .. Len(t) : Append(t, e)[i] = t[i]
    OBVIOUS
  <1>2 EntriesOf(Append(t, e), r)
          = EntriesOf(t, r) \cup (IF e.address = r THEN {Len(t) + 1} ELSE {})
    BY <1>1 DEF EntriesOf
  <1>3 Len(t) + 1 \notin EntriesOf(t, r)
    BY <1>1 DEF EntriesOf
  <1>4 IsFiniteSet(EntriesOf(t, r)) /\ Cardinality(EntriesOf(t, r)) \in Nat
    BY CountType
  <1>5 CASE e.address = r
    <2>1 EntriesOf(Append(t, e), r) = EntriesOf(t, r) \cup {Len(t) + 1}
      BY <1>2, <1>5
    <2>2 Cardinality(EntriesOf(t, r) \cup {Len(t) + 1}) = Cardinality(EntriesOf(t, r)) + 1
      BY <1>3, <1>4, FS_AddElement
    <2> QED BY <1>5, <2>1, <2>2
  <1>6 CASE e.address # r
    <2>1 EntriesOf(Append(t, e), r) = EntriesOf(t, r)
      BY <1>2, <1>6
    <2> QED BY <1>4, <1>6, <2>1
  <1> QED BY <1>5, <1>6

\* The accepted connection moves its count from the queue to the listener.
LEMMA FromTail ==
    ASSUME NEW S, NEW q \in Seq(S), q # <<>>, NEW r
    PROVE  Cardinality(From(Tail(q), r)) + Cardinality(From(<<Head(q)>>, r))
              = Cardinality(From(q, r))
  <1>1 /\ Len(q) \in Nat \ {0} /\ Tail(q) \in Seq(S) /\ Len(Tail(q)) = Len(q) - 1
       /\ \A i \in 1 .. Len(Tail(q)) : Tail(q)[i] = q[i + 1]
       /\ Head(q) = q[1]
    OBVIOUS
  <1> DEFINE A == From(Tail(q), r)
             B == From(q, r) \ {1}
             f == [i \in A |-> i + 1]
  <1>2 f \in Bijection(A, B)
    <2>1 \A i \in A : i + 1 \in B
      BY <1>1 DEF From
    <2>2 f \in [A -> B]
      BY <2>1
    <2>3 \A i, j \in A : f[i] = f[j] => i = j
      BY DEF From
    <2>4 \A k \in B : \E i \in A : f[i] = k
      <3> SUFFICES ASSUME NEW k \in B PROVE \E i \in A : f[i] = k
        OBVIOUS
      <3>1 k - 1 \in A
        BY <1>1 DEF From
      <3>2 f[k - 1] = k
        BY <3>1, <1>1 DEF From
      <3> QED BY <3>1, <3>2
    <2>5 f \in Injection(A, B)
      BY <2>2, <2>3 DEF Injection, IsInjective
    <2>6 f \in Surjection(A, B)
      BY <2>2, <2>4 DEF Surjection
    <2> QED BY <2>5, <2>6 DEF Bijection
  <1>3 IsFiniteSet(A) /\ IsFiniteSet(From(q, r)) /\ Cardinality(From(q, r)) \in Nat
    BY <1>1, CountType
  <1>4 ExistsBijection(A, B)
    BY <1>2 DEF ExistsBijection
  <1>5 Cardinality(B) = Cardinality(A)
    BY <1>3, <1>4, FS_Bijection
  <1>6 Cardinality(B) = IF 1 \in From(q, r) THEN Cardinality(From(q, r)) - 1
                                             ELSE Cardinality(From(q, r))
    BY <1>3, FS_RemoveElement
  <1>7 From(<<Head(q)>>, r) = IF 1 \in From(q, r) THEN {1} ELSE {}
    BY <1>1 DEF From
  <1>8 Cardinality({1}) = 1 /\ Cardinality({}) = 0
    BY FS_Singleton, FS_EmptySet
  <1> HIDE DEF A, B, f
  <1>9 Cardinality(A) + Cardinality(From(<<Head(q)>>, r)) = Cardinality(From(q, r))
    <2>1 CASE 1 \in From(q, r)
      <3>1 Cardinality(From(<<Head(q)>>, r)) = 1
        BY <2>1, <1>7, <1>8
      <3> QED BY <2>1, <3>1, <1>3, <1>5, <1>6
    <2>2 CASE 1 \notin From(q, r)
      <3>1 Cardinality(From(<<Head(q)>>, r)) = 0
        BY <2>2, <1>7, <1>8
      <3> QED BY <2>2, <3>1, <1>3, <1>5, <1>6
    <2> QED BY <2>1, <2>2
  <1> QED BY <1>9 DEF A

-----------------------------------------------------------------------------
(* What the parts of the invariant depend on.                              *)

\* A step on a responder's connection keeps the order and the origin of the
\* connections.
LEMMA UpdateKeeps ==
    ASSUME queue \in Seq(Connections), peer \in Seq(Connections),
           NEW r, NEW field \in {"sent", "live"}, NEW value \in BOOLEAN,
           UpdateConnection(r, field, value)
    PROVE  /\ queue' \in Seq(Connections) /\ Len(queue') = Len(queue)
           /\ peer' \in Seq(Connections) /\ Len(peer') = Len(peer)
           /\ peer' # <<>> <=> peer # <<>>
           /\ peer # <<>> => peer'[1].from = peer[1].from
           /\ \A s : From(queue', s) = From(queue, s) /\ From(peer', s) = From(peer, s)
  <1>1 ASSUME NEW q \in Seq(Connections), NEW p,
              p = [i \in DOMAIN q |-> OnConnection(q[i], r, field, value)]
       PROVE  /\ p \in Seq(Connections) /\ Len(p) = Len(q)
              /\ p # <<>> <=> q # <<>>
              /\ q # <<>> => p[1].from = q[1].from
              /\ \A s : From(p, s) = From(q, s)
    <2>1 DOMAIN q = 1 .. Len(q) /\ Len(q) \in Nat
      OBVIOUS
    <2>2 \A i \in 1 .. Len(q) : q[i] \in Connections
      BY <2>1
    <2>3 \A i \in 1 .. Len(q) : p[i] \in Connections /\ p[i].from = q[i].from
      BY <1>1, <2>1, <2>2, OnConnectionType
    <2>4 p = [i \in 1 .. Len(q) |-> OnConnection(q[i], r, field, value)]
      BY <1>1, <2>1
    <2>5 p \in Seq(Connections) /\ Len(p) = Len(q)
      BY <2>1, <2>3, <2>4
    <2>6 \A s : From(p, s) = From(q, s)
      BY <2>1, <2>3, <2>5 DEF From
    <2> QED BY <2>1, <2>3, <2>5, <2>6
  <1> QED BY <1>1 DEF UpdateConnection

\* As long as the table and a pending promise stand, what was known stays so.
LEMMA KnownKept ==
    ASSUME UNCHANGED <<epoch, table>>,
           listener = "append" =>
              /\ listener' = "append" /\ UNCHANGED <<ids, config>>
              /\ peer'[1].from = peer[1].from
    PROVE  \A r, p : Known(r, p) => Known(r, p)'
  BY DEF Known, Entered, Promised

\* Profiles that stay, move from the answer to the table of their responder, or
\* go, keep their invariants.
LEMMA ProfilesKept ==
    ASSUME TypeOK, ProfileInv, UniqueInv, NEW r \in Responders,
           \A s, p : Known(s, p) => Known(s, p)',
           \/ UNCHANGED <<reply, rtable>>
           \/ reply' = [reply EXCEPT ![r] = <<>>] /\ rtable' = rtable
           \/ reply' = [reply EXCEPT ![r] = <<>>] /\ rtable' = [rtable EXCEPT ![r] = <<>>]
           \/ /\ reply[r] # <<>>
              /\ reply' = [reply EXCEPT ![r] = <<>>]
              /\ rtable' = [rtable EXCEPT ![r] = Append(@, reply[r][1])]
    PROVE  ProfileInv' /\ UniqueInv'
  <1>0 /\ reply \in [Responders -> Seq(Profiles)] /\ rtable \in [Responders -> Seq(Profiles)]
    BY DEF TypeOK
  <1>1 CASE UNCHANGED <<reply, rtable>>
    BY <1>1 DEF ProfileInv, UniqueInv
  <1>2 CASE reply' = [reply EXCEPT ![r] = <<>>] /\ rtable' = rtable
    BY <1>0, <1>2 DEF ProfileInv, UniqueInv
  <1>3 CASE reply' = [reply EXCEPT ![r] = <<>>] /\ rtable' = [rtable EXCEPT ![r] = <<>>]
    BY <1>0, <1>3 DEF ProfileInv, UniqueInv
  <1>4 CASE /\ reply[r] # <<>>
            /\ reply' = [reply EXCEPT ![r] = <<>>]
            /\ rtable' = [rtable EXCEPT ![r] = Append(@, reply[r][1])]
    <2>1 reply[r][1] \in Profiles
      BY <1>0, <1>4
    <2>2 \A s \in Responders :
            /\ reply'[s] = IF s = r THEN <<>> ELSE reply[s]
            /\ rtable'[s] = IF s = r THEN Append(rtable[s], reply[r][1]) ELSE rtable[s]
            /\ Len(rtable[s]) \in Nat
      BY <1>0, <1>4
    <2>3 /\ Len(rtable'[r]) = Len(rtable[r]) + 1
         /\ rtable'[r][Len(rtable[r]) + 1] = reply[r][1]
         /\ \A i \in 1 .. Len(rtable[r]) : rtable'[r][i] = rtable[r][i]
      <3>1 rtable[r] \in Seq(Profiles) /\ rtable'[r] = Append(rtable[r], reply[r][1])
        BY <1>0, <2>2
      <3> QED BY <2>1, <3>1, AppendShape
    <2>4 ProfileInv'
      BY <1>4, <2>2, <2>3 DEF ProfileInv
    <2>5 \A s \in Responders : \A i \in 1 .. Len(rtable'[s]) :
            \/ i \in 1 .. Len(rtable[s]) /\ rtable'[s][i] = rtable[s][i]
            \/ s = r /\ i = Len(rtable[s]) + 1 /\ rtable'[s][i] = reply[r][1]
      BY <2>2, <2>3
    <2>6 \A p, q : Same(p, q) => Same(q, p)
      BY DEF Same
    <2>7 ASSUME NEW s \in Responders, NEW u \in Responders,
                NEW i \in 1 .. Len(rtable'[s]), NEW j \in 1 .. Len(rtable'[u]),
                Same(rtable'[s][i], rtable'[u][j])
         PROVE  s = u /\ i = j
      BY <1>4, <2>5, <2>6, <2>7 DEF UniqueInv
    <2>8 ASSUME NEW s \in Responders, NEW u \in Responders, NEW i \in 1 .. Len(rtable'[s]),
                reply'[u] # <<>>
         PROVE  ~Same(rtable'[s][i], reply'[u][1])
      BY <1>4, <2>2, <2>5, <2>8 DEF UniqueInv
    <2>9 ASSUME NEW s \in Responders, NEW u \in Responders,
                reply'[s] # <<>>, reply'[u] # <<>>, Same(reply'[s][1], reply'[u][1])
         PROVE  s = u
      BY <2>2, <2>9 DEF UniqueInv
    <2>10 UniqueInv'
      BY <2>7, <2>8, <2>9 DEF UniqueInv, Same
    <2> QED BY <2>4, <2>10
  <1> QED BY <1>1, <1>2, <1>3, <1>4

\* Counts that do not grow stay within the registrations that were begun.
LEMMA CountKept ==
    ASSUME CountInv, UNCHANGED <<table, attempts>>,
           \A r \in Responders :
              From(queue', r) = From(queue, r) /\ From(peer', r) = From(peer, r)
    PROVE  CountInv'
  BY DEF CountInv

-----------------------------------------------------------------------------
(* The responder's steps.                                                  *)

\* A connection is made.
LEMMA OpenStep ==
    ASSUME IInv, NEW r \in Responders, OpenNativeAppClientSocket(r)
    PROVE  IInv'
  <1> USE DEF IInv
  <1> DEFINE c == [from |-> r, sent |-> FALSE, live |-> TRUE]
  <1>1 /\ queue' = Append(queue, c) /\ Len(queue) < Backlog
       /\ rpc' = [rpc EXCEPT ![r] = "send"]
       /\ attempts' = [attempts EXCEPT ![r] = @ + 1] /\ attempts[r] < MaxAttempts
       /\ UNCHANGED <<epoch, listenerVars, peer, ids, table, reply, rtable>>
    BY DEF OpenNativeAppClientSocket
  <1>2 c \in Connections /\ c.from = r
    BY DEF Connections
  <1> HIDE DEF c
  <1>3 /\ queue \in Seq(Connections) /\ table \in Seq(Entries) /\ peer \in Seq(Connections)
       /\ attempts \in [Responders -> 0 .. MaxAttempts]
    BY DEF TypeOK
  <1>4 queue' \in Seq(Connections) /\ Len(queue') <= Backlog
    BY <1>1, <1>2, <1>3, PeerConstants
  <1>5 attempts' \in [Responders -> 0 .. MaxAttempts]
    BY <1>1, <1>3, PeerConstants
  <1>6 TypeOK'
    BY <1>1, <1>4, <1>5 DEF TypeOK, listenerVars
  <1>7 ServingInv' /\ TableInv'
    BY <1>1 DEF ServingInv, TableInv, listenerVars
  <1>8 ProfileInv' /\ UniqueInv'
    BY <1>1, KnownKept, ProfilesKept DEF listenerVars
  <1>9 CountInv'
    <2> SUFFICES ASSUME NEW s \in Responders
                 PROVE  Cardinality(EntriesOf(table', s)) + Cardinality(From(queue', s))
                           + Cardinality(From(peer', s)) <= attempts'[s]
      BY DEF CountInv
    <2>1 Cardinality(From(queue', s)) = Cardinality(From(queue, s)) + (IF r = s THEN 1 ELSE 0)
      BY <1>1, <1>2, <1>3, FromAppend
    <2>2 /\ Cardinality(EntriesOf(table, s)) \in Nat /\ Cardinality(From(queue, s)) \in Nat
         /\ Cardinality(From(peer, s)) \in Nat
      BY <1>3, CountType
    <2>3 /\ Cardinality(EntriesOf(table, s)) + Cardinality(From(queue, s))
              + Cardinality(From(peer, s)) <= attempts[s]
         /\ attempts[s] \in Nat
         /\ attempts'[s] = attempts[s] + (IF r = s THEN 1 ELSE 0)
      BY <1>1, <1>3, PeerConstants DEF CountInv
    <2>4 table' = table /\ peer' = peer
      BY <1>1
    <2> QED BY <2>1, <2>2, <2>3, <2>4
  <1> QED BY <1>6, <1>7, <1>8, <1>9

\* REGISTER, the answer, the end of the wait and the restart of a responder.
LEMMA ResponderStep ==
    ASSUME IInv, NEW r \in Responders, RegisterNativeAppPeer(r) \/ RestartResponder(r)
    PROVE  IInv'
  <1> USE DEF IInv
  <1>0 /\ queue \in Seq(Connections) /\ peer \in Seq(Connections)
       /\ reply \in [Responders -> Seq(Profiles)] /\ rtable \in [Responders -> Seq(Profiles)]
       /\ rpc \in [Responders -> {"idle", "send", "wait"}]
       /\ \A s \in Responders : Len(rtable[s]) \in Nat /\ Len(rtable[s]) <= Capacity
       /\ \A s \in Responders : Len(reply[s]) <= 1
    BY DEF TypeOK
  <1>1 PICK field \in {"sent", "live"}, value \in BOOLEAN : UpdateConnection(r, field, value)
    BY DEF RegisterNativeAppPeer, SendRegister, ReceiveAssign, GiveUp, RestartResponder
  <1>2 /\ UNCHANGED <<epoch, listenerVars, ids, table, attempts>>
       /\ rpc' \in [Responders -> {"idle", "send", "wait"}]
    BY <1>0 DEF RegisterNativeAppPeer, SendRegister, ReceiveAssign, GiveUp, RestartResponder
  <1>3 \/ UNCHANGED <<reply, rtable>>
       \/ reply' = [reply EXCEPT ![r] = <<>>] /\ rtable' = rtable
       \/ reply' = [reply EXCEPT ![r] = <<>>] /\ rtable' = [rtable EXCEPT ![r] = <<>>]
       \/ /\ reply[r] # <<>> /\ Len(rtable[r]) < Capacity
          /\ reply' = [reply EXCEPT ![r] = <<>>]
          /\ rtable' = [rtable EXCEPT ![r] = Append(@, reply[r][1])]
    <2>1 CASE SendRegister(r) \/ GiveUp(r) \/ RestartResponder(r)
      BY <2>1 DEF SendRegister, GiveUp, RestartResponder
    <2>2 CASE ReceiveAssign(r)
      <3>1 CASE Len(rtable[r]) < Capacity
        BY <2>2, <3>1 DEF ReceiveAssign
      <3>2 CASE ~(Len(rtable[r]) < Capacity)
        <4>1 rtable' = [rtable EXCEPT ![r] = rtable[r]] /\ reply' = [reply EXCEPT ![r] = <<>>]
          BY <2>2, <3>2 DEF ReceiveAssign
        <4> QED BY <1>0, <4>1
      <3> QED BY <3>1, <3>2
    <2> QED BY <2>1, <2>2 DEF RegisterNativeAppPeer
  <1>4 /\ queue' \in Seq(Connections) /\ Len(queue') = Len(queue)
       /\ peer' \in Seq(Connections) /\ Len(peer') = Len(peer)
       /\ peer' # <<>> <=> peer # <<>>
       /\ peer # <<>> => peer'[1].from = peer[1].from
       /\ \A s : From(queue', s) = From(queue, s) /\ From(peer', s) = From(peer, s)
    BY <1>0, <1>1, UpdateKeeps
  <1>5 /\ reply' \in [Responders -> Seq(Profiles)] /\ rtable' \in [Responders -> Seq(Profiles)]
       /\ \A s \in Responders : Len(reply'[s]) <= 1 /\ Len(rtable'[s]) <= Capacity
    <2>1 CASE UNCHANGED <<reply, rtable>>
      BY <1>0, <2>1
    <2>2 CASE reply' = [reply EXCEPT ![r] = <<>>] /\ rtable' = rtable
      BY <1>0, <2>2
    <2>3 CASE reply' = [reply EXCEPT ![r] = <<>>] /\ rtable' = [rtable EXCEPT ![r] = <<>>]
      BY <1>0, <2>3, PeerConstants
    <2>4 CASE /\ reply[r] # <<>> /\ Len(rtable[r]) < Capacity
              /\ reply' = [reply EXCEPT ![r] = <<>>]
              /\ rtable' = [rtable EXCEPT ![r] = Append(@, reply[r][1])]
      <3>1 reply[r][1] \in Profiles
        BY <1>0, <2>4
      <3>2 /\ Append(rtable[r], reply[r][1]) \in Seq(Profiles)
           /\ Len(Append(rtable[r], reply[r][1])) = Len(rtable[r]) + 1
        BY <1>0, <3>1
      <3> QED BY <1>0, <2>4, <3>2, PeerConstants
    <2> QED BY <1>3, <2>1, <2>2, <2>3, <2>4
  <1>6 TypeOK'
    BY <1>2, <1>4, <1>5 DEF TypeOK, listenerVars
  <1>7 ServingInv' /\ TableInv'
    BY <1>2, <1>4 DEF ServingInv, TableInv, listenerVars
  <1>8 \A s, p : Known(s, p) => Known(s, p)'
    BY <1>2, <1>4, KnownKept DEF ServingInv, listenerVars
  <1>9 ProfileInv' /\ UniqueInv'
    BY <1>3, <1>8, ProfilesKept
  <1>10 CountInv'
    BY <1>2, <1>4, CountKept
  <1> QED BY <1>6, <1>7, <1>9, <1>10

-----------------------------------------------------------------------------
(* The initiator's steps.                                                  *)

\* The end of the listener thread drops the connections that wait.
LEMMA ListenerEndStep ==
    ASSUME IInv, ListenerStops \/ ListenerFails
    PROVE  IInv'
  <1> USE DEF IInv
  <1>1 /\ listener = "poll" /\ listener' = "exited" /\ queue' = <<>>
       /\ UNCHANGED <<epoch, main, bRunning, bStopRequested, config, peer, ids, table,
                      responderVars>>
    BY DEF ListenerStops, ListenerFails
  <1>2 TypeOK'
    BY <1>1, PeerConstants DEF TypeOK, responderVars
  <1>3 ServingInv' /\ TableInv'
    BY <1>1 DEF ServingInv, TableInv
  <1>4 ProfileInv' /\ UniqueInv'
    BY <1>1, KnownKept DEF responderVars, ProfileInv, UniqueInv
  <1>5 CountInv'
    <2> SUFFICES ASSUME NEW s \in Responders
                 PROVE  Cardinality(EntriesOf(table', s)) + Cardinality(From(queue', s))
                           + Cardinality(From(peer', s)) <= attempts'[s]
      BY DEF CountInv
    <2>1 /\ queue \in Seq(Connections) /\ table \in Seq(Entries) /\ peer \in Seq(Connections)
         /\ attempts[s] \in Nat
      BY PeerConstants DEF TypeOK
    <2>2 /\ Cardinality(EntriesOf(table, s)) \in Nat /\ Cardinality(From(queue, s)) \in Nat
         /\ Cardinality(From(peer, s)) \in Nat
      BY <2>1, CountType
    <2>3 Cardinality(From(queue', s)) = 0
      BY <1>1, <2>1, CountType
    <2>4 UNCHANGED <<table, peer, attempts>>
      BY <1>1 DEF responderVars
    <2>5 Cardinality(EntriesOf(table, s)) + Cardinality(From(queue, s))
           + Cardinality(From(peer, s)) <= attempts[s]
      BY DEF CountInv
    <2> QED BY <2>1, <2>2, <2>3, <2>4, <2>5
  <1> QED BY <1>2, <1>3, <1>4, <1>5

\* Accepting moves the first connection to the listener.
LEMMA AcceptStep ==
    ASSUME IInv, Accept
    PROVE  IInv'
  <1> USE DEF IInv
  <1>1 /\ listener = "poll" /\ listener' = "receive" /\ queue # <<>>
       /\ peer' = <<Head(queue)>> /\ queue' = Tail(queue)
       /\ UNCHANGED <<epoch, main, bRunning, bStopRequested, config, ids, table,
                      responderVars>>
    BY DEF Accept
  <1>2 /\ queue \in Seq(Connections) /\ Len(queue) <= Backlog /\ peer = <<>>
       /\ table \in Seq(Entries)
    BY <1>1 DEF TypeOK, ServingInv
  <1>3 /\ Head(queue) \in Connections /\ Tail(queue) \in Seq(Connections)
       /\ Len(Tail(queue)) = Len(queue) - 1 /\ Len(queue) \in Nat
    BY <1>1, <1>2
  <1>4 peer' \in Seq(Connections) /\ Len(peer') = 1 /\ peer' # <<>>
    BY <1>1, <1>3
  <1>5 TypeOK'
    BY <1>1, <1>2, <1>3, <1>4, PeerConstants DEF TypeOK, responderVars
  <1>6 ServingInv' /\ TableInv'
    BY <1>1, <1>4 DEF ServingInv, TableInv
  <1>7 ProfileInv' /\ UniqueInv'
    BY <1>1, KnownKept DEF responderVars, ProfileInv, UniqueInv
  <1>8 CountInv'
    <2> SUFFICES ASSUME NEW s \in Responders
                 PROVE  Cardinality(EntriesOf(table', s)) + Cardinality(From(queue', s))
                           + Cardinality(From(peer', s)) <= attempts'[s]
      BY DEF CountInv
    <2>1 Cardinality(From(Tail(queue), s)) + Cardinality(From(<<Head(queue)>>, s))
            = Cardinality(From(queue, s))
      BY <1>1, <1>2, FromTail
    <2>2 /\ Cardinality(From(Tail(queue), s)) \in Nat
         /\ Cardinality(From(<<Head(queue)>>, s)) \in Nat
         /\ Cardinality(From(queue, s)) \in Nat
         /\ Cardinality(EntriesOf(table, s)) \in Nat
      BY <1>1, <1>2, <1>3, <1>4, CountType
    <2>3 Cardinality(From(peer, s)) = 0
      BY <1>2, CountType
    <2>4 Cardinality(EntriesOf(table, s)) + Cardinality(From(queue, s))
           + Cardinality(From(peer, s)) <= attempts[s]
      BY DEF CountInv
    <2>5 UNCHANGED <<table, attempts>>
      BY <1>1 DEF responderVars
    <2>6 attempts[s] \in Nat
      BY PeerConstants DEF TypeOK
    <2> QED BY <1>1, <2>1, <2>2, <2>3, <2>4, <2>5, <2>6
  <1> QED BY <1>5, <1>6, <1>7, <1>8

\* A connection that is closed without an entry gives its count back.
LEMMA CloseCount ==
    ASSUME IInv, peer' = <<>>, UNCHANGED <<queue, table, attempts>>
    PROVE  CountInv'
  <1> USE DEF IInv
  <1> SUFFICES ASSUME NEW s \in Responders
               PROVE  Cardinality(EntriesOf(table', s)) + Cardinality(From(queue', s))
                         + Cardinality(From(peer', s)) <= attempts'[s]
    BY DEF CountInv
  <1>1 /\ queue \in Seq(Connections) /\ table \in Seq(Entries) /\ peer \in Seq(Connections)
       /\ attempts[s] \in Nat
    BY PeerConstants DEF TypeOK
  <1>2 /\ Cardinality(EntriesOf(table, s)) \in Nat /\ Cardinality(From(queue, s)) \in Nat
       /\ Cardinality(From(peer, s)) \in Nat
    BY <1>1, CountType
  <1>3 Cardinality(From(peer', s)) = 0
    BY <1>1, CountType
  <1>5 Cardinality(EntriesOf(table, s)) + Cardinality(From(queue, s))
         + Cardinality(From(peer, s)) <= attempts[s]
    BY DEF CountInv
  <1> QED BY <1>1, <1>2, <1>3, <1>5

\* REGISTER is read, refused or does not come.
LEMMA ReceiveRegisterStep ==
    ASSUME IInv, ReceiveRegister
    PROVE  IInv'
  <1> USE DEF IInv
  <1>1 /\ listener = "receive"
       /\ UNCHANGED <<epoch, main, bRunning, bStopRequested, config, queue, table,
                      responderVars>>
    BY DEF ReceiveRegister
  <1>2 table \in Seq(Entries) /\ Len(table) \in Nat
    BY DEF TypeOK
  <1>3 \/ AllocateNativeAppPeerIds /\ listener' = "assign" /\ peer' = peer
       \/ CloseConnection /\ ids' = ids
    BY DEF ReceiveRegister
  <1>4 ProfileInv' /\ UniqueInv'
    BY <1>1, KnownKept DEF responderVars, ProfileInv, UniqueInv
  <1>5 TableInv'
    BY <1>1 DEF TableInv
  <1>6 CASE AllocateNativeAppPeerIds /\ listener' = "assign" /\ peer' = peer
    <2>1 Len(table) < Capacity /\ ids' = GetNativeAppPeerSequence(Len(table)) /\ ids' \in Ids
      BY <1>2, <1>6, SequenceType DEF AllocateNativeAppPeerIds
    <2>2 TypeOK'
      BY <1>1, <1>6, <2>1 DEF TypeOK, responderVars
    <2>3 ServingInv'
      BY <1>1, <1>6, <2>1 DEF ServingInv
    <2>4 CountInv'
      BY <1>1, <1>6, CountKept DEF responderVars
    <2> QED BY <1>4, <1>5, <2>2, <2>3, <2>4
  <1>7 CASE CloseConnection /\ ids' = ids
    <2>1 peer' = <<>> /\ listener' = "poll"
      BY <1>7 DEF CloseConnection
    <2>2 TypeOK'
      BY <1>1, <1>7, <2>1 DEF TypeOK, responderVars
    <2>3 ServingInv'
      BY <1>1, <2>1 DEF ServingInv
    <2>4 CountInv'
      BY <1>1, <2>1, CloseCount DEF responderVars
    <2> QED BY <1>4, <1>5, <2>2, <2>3, <2>4
  <1> QED BY <1>3, <1>6, <1>7

\* An id whose ordinal is the table's length is in no entry.
LEMMA NextIdFresh ==
    ASSUME TableInv, table \in Seq(Entries), NEW k \in 1 .. Len(table)
    PROVE  table[k].id # GetNativeAppPeerSequence(Len(table))
  <1>1 Len(table) \in Nat /\ k - 1 \in Nat /\ k - 1 # Len(table)
    OBVIOUS
  <1>2 table[k].id = GetNativeAppPeerSequence(k - 1)
    BY DEF TableInv
  <1> QED BY <1>1, <1>2, SequenceInjective

\* ASSIGN is sent, to a responder that still listens or not, or cannot be sent.
LEMMA SendAssignStep ==
    ASSUME IInv, SendAssign
    PROVE  IInv'
  <1> USE DEF IInv
  <1>1 /\ listener = "assign"
       /\ UNCHANGED <<epoch, main, bRunning, bStopRequested, config, queue, ids, table,
                      rpc, rtable, attempts>>
    BY DEF SendAssign
  <1>2 /\ table \in Seq(Entries) /\ peer \in Seq(Connections) /\ peer # <<>>
       /\ reply \in [Responders -> Seq(Profiles)] /\ rtable \in [Responders -> Seq(Profiles)]
       /\ ids \in Ids /\ epoch \in 1 .. MaxEpoch /\ config \in Policies
       /\ ids = GetNativeAppPeerSequence(Len(table))
    BY <1>1 DEF TypeOK, ServingInv
  <1>3 peer[1] \in Connections /\ peer[1].from \in Responders
    <2>1 peer[1] \in Connections
      BY <1>2, FirstElement
    <2> QED BY <2>1 DEF Connections
  <1>4 TableInv'
    BY <1>1 DEF TableInv
  <1>5 \A s, p : Known(s, p) => Known(s, p)'
    BY <1>1, KnownKept
  <1> DEFINE a == [id |-> ids, policy |-> config, epoch |-> epoch]
             r == peer[1].from
  <1>6 a \in Profiles /\ a.id = ids /\ a.policy = config /\ a.epoch = epoch
    BY <1>2 DEF Profiles
  <1> HIDE DEF a
  <1>7 CASE UNCHANGED reply /\ CloseConnection
    <2>1 peer' = <<>> /\ listener' = "poll"
      BY <1>7 DEF CloseConnection
    <2>2 TypeOK'
      BY <1>1, <1>7, <2>1 DEF TypeOK
    <2>3 ServingInv'
      BY <1>1, <2>1 DEF ServingInv
    <2>4 ProfileInv' /\ UniqueInv'
      BY <1>1, <1>3, <1>5, <1>7, ProfilesKept
    <2>5 CountInv'
      BY <1>1, <2>1, CloseCount
    <2> QED BY <1>4, <2>2, <2>3, <2>4, <2>5
  <1>8 CASE /\ reply' = [reply EXCEPT ![r] = IF peer[1].live THEN <<a>> ELSE reply[r]]
            /\ listener' = "append" /\ UNCHANGED peer
    <2>1 /\ reply' \in [Responders -> Seq(Profiles)]
         /\ \A s \in Responders : Len(reply'[s]) <= 1
      <3>1 <<a>> \in Seq(Profiles) /\ Len(<<a>>) = 1
        BY <1>6
      <3>2 \A s \in Responders : Len(reply[s]) <= 1
        BY DEF TypeOK
      <3> QED BY <1>2, <1>3, <1>8, <3>1, <3>2
    <2>2 TypeOK'
      BY <1>1, <1>8, <2>1 DEF TypeOK
    <2>3 ServingInv'
      BY <1>1, <1>8 DEF ServingInv
    <2>4 CountInv'
      BY <1>1, <1>8, CountKept
    <2>5 \A s \in Responders :
            \/ reply'[s] = reply[s]
            \/ s = r /\ reply'[s] # <<>> /\ reply'[s][1] = a
      BY <1>2, <1>3, <1>8
    <2>6 \A s, p : s = r /\ p = a => Known(s, p)'
      <3>1 epoch' = epoch /\ ids' = ids /\ config' = config /\ peer' = peer
        BY <1>1, <1>8
      <3>2 epoch <= epoch
        BY <1>2, PeerConstants
      <3> QED BY <1>6, <1>8, <3>1, <3>2 DEF Known, Promised
    <2>7 ProfileInv'
      BY <1>1, <1>5, <2>5, <2>6 DEF ProfileInv
    <2>8 \A s, p : Known(s, p) /\ p.epoch = epoch => p.id # ids
      <3> SUFFICES ASSUME NEW s, NEW p, Known(s, p), p.epoch = epoch PROVE p.id # ids
        OBVIOUS
      <3>1 PICK k \in 1 .. Len(table) : table[k].id = p.id
        BY <1>1 DEF Known, Entered, Promised
      <3> QED BY <1>2, <3>1, NextIdFresh
    <2>9 /\ \A s \in Responders : \A i \in 1 .. Len(rtable[s]) : ~Same(rtable[s][i], a)
         /\ \A s \in Responders : reply[s] # <<>> => ~Same(reply[s][1], a) /\ ~Same(a, reply[s][1])
      BY <1>6, <2>8 DEF ProfileInv, Same
    <2>10 ASSUME NEW s \in Responders, NEW u \in Responders,
                 NEW i \in 1 .. Len(rtable[s]), reply'[u] # <<>>
          PROVE  ~Same(rtable[s][i], reply'[u][1])
      BY <2>5, <2>9, <2>10 DEF UniqueInv
    <2>11 ASSUME NEW s \in Responders, NEW u \in Responders,
                 reply'[s] # <<>>, reply'[u] # <<>>, Same(reply'[s][1], reply'[u][1])
          PROVE  s = u
      BY <2>5, <2>9, <2>11 DEF UniqueInv
    <2>12 UniqueInv'
      BY <1>1, <2>10, <2>11 DEF UniqueInv, Same
    <2> QED BY <1>4, <2>2, <2>3, <2>4, <2>7, <2>12
  <1> QED BY <1>7, <1>8 DEF SendAssign, a

\* The entry is appended: the ids that were allocated are still the next ones.
LEMMA AppendStep ==
    ASSUME IInv, AppendNativeAppPeer
    PROVE  IInv'
  <1> USE DEF IInv
  <1> DEFINE e == [id |-> ids, address |-> peer[1].from, policy |-> config]
  <1>1 /\ listener = "append" /\ peer' = <<>> /\ listener' = "poll"
       /\ UNCHANGED <<epoch, main, bRunning, bStopRequested, config, queue, ids,
                      responderVars>>
    BY DEF AppendNativeAppPeer, CloseConnection
  <1>2 /\ table \in Seq(Entries) /\ peer \in Seq(Connections) /\ peer # <<>>
       /\ ids \in Ids /\ config \in Policies /\ Len(peer) <= 1
       /\ Len(table) < Capacity /\ ids = GetNativeAppPeerSequence(Len(table))
       /\ queue \in Seq(Connections)
    BY <1>1 DEF TypeOK, ServingInv
  <1>3 table' = Append(table, e)
    BY <1>2, NextIdsAllowed DEF AppendNativeAppPeer
  <1>4 peer[1] \in Connections /\ peer[1].from \in Responders
    <2>1 peer[1] \in Connections
      BY <1>2, FirstElement
    <2> QED BY <2>1 DEF Connections
  <1>5 /\ e \in Entries /\ e.id = ids /\ e.address = peer[1].from /\ e.policy = config
    BY <1>2, <1>4 DEF Entries
  <1> HIDE DEF e
  <1>6 /\ table' \in Seq(Entries) /\ Len(table) \in Nat /\ Len(table') = Len(table) + 1
       /\ table'[Len(table) + 1] = e
       /\ \A k \in 1 .. Len(table) : table'[k] = table[k]
    BY <1>2, <1>3, <1>5, AppendShape
  <1>7 TypeOK'
    BY <1>1, <1>2, <1>6, PeerConstants DEF TypeOK, responderVars
  <1>8 ServingInv'
    BY <1>1 DEF ServingInv
  <1>9 TableInv'
    <2> SUFFICES ASSUME NEW k \in 1 .. Len(table')
                 PROVE  table'[k].id = GetNativeAppPeerSequence(k - 1)
      BY DEF TableInv, GetNativeAppPeerSequence
    <2>1 CASE k \in 1 .. Len(table)
      BY <1>6, <2>1 DEF TableInv
    <2>2 CASE k = Len(table) + 1
      <3>1 k - 1 = Len(table)
        BY <1>6, <2>2
      <3> QED BY <1>2, <1>5, <1>6, <2>2, <3>1
    <2> QED BY <1>6, <2>1, <2>2
  <1>10 \A s, p : Known(s, p) => Known(s, p)'
    <2> SUFFICES ASSUME NEW s, NEW p, Known(s, p) PROVE Known(s, p)'
      OBVIOUS
    <2>1 CASE Entered(s, p)
      BY <1>1, <1>6, <2>1 DEF Known, Entered
    <2>2 CASE Promised(s, p)
      <3>1 Entered(s, p)'
        BY <1>5, <1>6, <2>2 DEF Entered, Promised
      <3> QED BY <1>1, <3>1 DEF Known
    <2>3 CASE p.epoch # epoch
      BY <1>1, <2>3 DEF Known
    <2> QED BY <2>1, <2>2, <2>3 DEF Known
  <1>11 ProfileInv' /\ UniqueInv'
    BY <1>1, <1>10 DEF responderVars, ProfileInv, UniqueInv
  <1>12 CountInv'
    <2> SUFFICES ASSUME NEW s \in Responders
                 PROVE  Cardinality(EntriesOf(table', s)) + Cardinality(From(queue', s))
                           + Cardinality(From(peer', s)) <= attempts'[s]
      BY DEF CountInv
    <2>1 Cardinality(EntriesOf(table', s))
            = Cardinality(EntriesOf(table, s)) + (IF peer[1].from = s THEN 1 ELSE 0)
      BY <1>2, <1>3, <1>5, EntriesAppend
    <2>2 /\ Cardinality(EntriesOf(table, s)) \in Nat /\ Cardinality(From(queue, s)) \in Nat
         /\ Cardinality(From(peer, s)) \in Nat /\ Cardinality(From(peer', s)) = 0
      BY <1>1, <1>2, CountType
    <2>3 peer[1].from = s => Cardinality(From(peer, s)) = 1
      <3> SUFFICES ASSUME peer[1].from = s PROVE Cardinality(From(peer, s)) = 1
        OBVIOUS
      <3>1 Len(peer) = 1
        BY <1>2, FirstElement
      <3>2 From(peer, s) = {1}
        BY <3>1 DEF From
      <3> QED BY <3>2, FS_Singleton
    <2>4 Cardinality(EntriesOf(table, s)) + Cardinality(From(queue, s))
           + Cardinality(From(peer, s)) <= attempts[s]
      BY DEF CountInv
    <2>5 UNCHANGED <<queue, attempts>> /\ attempts[s] \in Nat
      BY <1>1, PeerConstants DEF responderVars, TypeOK
    <2> QED BY <2>1, <2>2, <2>3, <2>4, <2>5
  <1> QED BY <1>7, <1>8, <1>9, <1>11, <1>12

\* Starting and stopping the listener.
LEMMA MainStep ==
    ASSUME IInv,
           \/ \E policy \in Policies : StartNativeAppPeerListener(policy)
           \/ StopNativeAppPeerListener
           \/ JoinListener
    PROVE  IInv'
  <1> USE DEF IInv
  <1>1 UNCHANGED <<epoch, servingVars, responderVars>>
    BY DEF StartNativeAppPeerListener, StopNativeAppPeerListener, JoinListener
  <1>2 TypeOK'
    BY <1>1 DEF TypeOK, StartNativeAppPeerListener, StopNativeAppPeerListener,
       JoinListener, servingVars, responderVars
  <1>3 ServingInv' /\ TableInv'
    BY DEF ServingInv, TableInv, StartNativeAppPeerListener,
       StopNativeAppPeerListener, JoinListener, servingVars
  <1>4 listener = "append" => listener' = "append" /\ config' = config
    BY DEF ServingInv, StartNativeAppPeerListener, StopNativeAppPeerListener, JoinListener
  <1>5 ProfileInv' /\ UniqueInv'
    BY <1>1, <1>4, KnownKept DEF responderVars, servingVars, ProfileInv, UniqueInv
  <1>6 CountInv'
    BY <1>1, CountKept DEF servingVars, responderVars
  <1> QED BY <1>2, <1>3, <1>5, <1>6

\* A new initiator process starts the ids over: what responders have, or will
\* still receive, of the old one is of an earlier epoch.
LEMMA RestartStep ==
    ASSUME IInv, RestartInitiator
    PROVE  IInv'
  <1> USE DEF IInv
  <1>1 /\ epoch < MaxEpoch /\ epoch' = epoch + 1
       /\ main' = "idle" /\ bRunning' = FALSE /\ bStopRequested' = FALSE
       /\ listener' = "none" /\ queue' = <<>> /\ peer' = <<>> /\ table' = <<>>
       /\ UNCHANGED <<config, ids, responderVars>>
    BY DEF RestartInitiator
  <1>2 epoch \in Nat /\ epoch \in 1 .. MaxEpoch
    BY PeerConstants DEF TypeOK
  <1>3 TypeOK'
    <2>1 /\ epoch' \in 1 .. MaxEpoch
         /\ queue' \in Seq(Connections) /\ Len(queue') <= Backlog
         /\ peer' \in Seq(Connections) /\ Len(peer') <= 1
         /\ table' \in Seq(Entries) /\ Len(table') <= Capacity
      <3>1 epoch' \in 1 .. MaxEpoch
        BY <1>1, <1>2, PeerConstants
      <3> QED BY <1>1, <3>1, PeerConstants
    <2> QED BY <1>1, <2>1 DEF TypeOK, responderVars
  <1>4 ServingInv' /\ TableInv'
    BY <1>1 DEF ServingInv, TableInv
  <1>5 \A s, p : p \in Profiles /\ Known(s, p) => Known(s, p)'
    BY <1>1, <1>2 DEF Known, Profiles
  <1>6 /\ reply \in [Responders -> Seq(Profiles)] /\ rtable \in [Responders -> Seq(Profiles)]
    BY DEF TypeOK
  <1>7 \A r \in Responders :
          /\ \A i \in 1 .. Len(rtable[r]) : rtable[r][i] \in Profiles
          /\ reply[r] # <<>> => reply[r][1] \in Profiles
    BY <1>6
  <1>8 ProfileInv' /\ UniqueInv'
    BY <1>1, <1>5, <1>7 DEF responderVars, ProfileInv, UniqueInv
  <1>9 CountInv'
    <2> SUFFICES ASSUME NEW s \in Responders
                 PROVE  Cardinality(EntriesOf(table', s)) + Cardinality(From(queue', s))
                           + Cardinality(From(peer', s)) <= attempts'[s]
      BY DEF CountInv
    <2>1 /\ Cardinality(EntriesOf(table', s)) = 0 /\ Cardinality(From(queue', s)) = 0
         /\ Cardinality(From(peer', s)) = 0
      BY <1>1, <1>6, CountType
    <2>2 attempts'[s] \in Nat
      BY <1>1, PeerConstants DEF TypeOK, responderVars
    <2> QED BY <2>1, <2>2
  <1> QED BY <1>3, <1>4, <1>8, <1>9

-----------------------------------------------------------------------------
(* The theorems.                                                           *)

\* Every step keeps the invariant.
LEMMA InvariantStep == IInv /\ [Next]_vars => IInv'
  <1> SUFFICES ASSUME IInv, [Next]_vars PROVE IInv'
    OBVIOUS
  <1>1 CASE UNCHANGED vars
    <2> USE <1>1 DEF IInv, vars, listenerVars, servingVars, responderVars
    <2>1 TypeOK' /\ ServingInv' /\ TableInv'
      BY DEF TypeOK, ServingInv, TableInv
    <2>2 ProfileInv' /\ UniqueInv'
      BY KnownKept DEF ProfileInv, UniqueInv
    <2>3 CountInv'
      BY CountKept
    <2> QED BY <2>1, <2>2, <2>3
  <1>2 CASE Next
    BY <1>2, OpenStep, ResponderStep, ListenerEndStep, AcceptStep, ReceiveRegisterStep,
       SendAssignStep, AppendStep, MainStep, RestartStep DEF Next, RunNativeAppPeerListener
  <1> QED BY <1>1, <1>2

\* The invariant holds before anybody registered.
LEMMA InvariantInit == Init => IInv
  <1> SUFFICES ASSUME Init PROVE IInv
    OBVIOUS
  <1> USE DEF Init
  <1>1 TypeOK
    <2>1 epoch \in 1 .. MaxEpoch /\ ids \in Ids
      BY PeerConstants DEF Ids
    <2>2 /\ queue \in Seq(Connections) /\ Len(queue) <= Backlog
         /\ peer \in Seq(Connections) /\ Len(peer) <= 1
         /\ table \in Seq(Entries) /\ Len(table) <= Capacity
      BY PeerConstants
    <2>3 /\ reply \in [Responders -> Seq(Profiles)]
         /\ rtable \in [Responders -> Seq(Profiles)]
         /\ \A r \in Responders : Len(reply[r]) <= 1 /\ Len(rtable[r]) <= Capacity
         /\ attempts \in [Responders -> 0 .. MaxAttempts]
      BY PeerConstants
    <2> QED BY <2>1, <2>2, <2>3 DEF TypeOK
  <1>2 ServingInv /\ TableInv /\ ProfileInv /\ UniqueInv
    BY DEF ServingInv, TableInv, ProfileInv, UniqueInv
  <1>3 CountInv
    <2> SUFFICES ASSUME NEW s \in Responders
                 PROVE  Cardinality(EntriesOf(table, s)) + Cardinality(From(queue, s))
                           + Cardinality(From(peer, s)) <= attempts[s]
      BY DEF CountInv
    <2>1 <<>> \in Seq(Connections)
      OBVIOUS
    <2>2 /\ Cardinality(EntriesOf(table, s)) = 0 /\ Cardinality(From(queue, s)) = 0
         /\ Cardinality(From(peer, s)) = 0
      BY <2>1, CountType
    <2> QED BY <2>2
  <1> QED BY <1>1, <1>2, <1>3 DEF IInv

\* The inductive invariant holds throughout.
LEMMA Invariant == Spec => []IInv
  BY InvariantInit, InvariantStep, PTL DEF Spec

\* Both tables keep their capacity, the queue its backlog and every id its range.
THEOREM PeerTypes == Spec => []TypeOK
  BY Invariant, PTL DEF IInv

\* What a responder was told, the initiator has entered under the same id, or is
\* about to: the address check, the lost answers and the restarts of responders
\* included.
THEOREM AssignmentsAreEntered == Spec => []AssignedIsRegistered
  <1>1 IInv => AssignedIsRegistered
    <2> SUFFICES ASSUME IInv, NEW r \in Responders, NEW i \in DOMAIN rtable[r],
                        rtable[r][i].epoch = epoch
                 PROVE  LET p == rtable[r][i]
                            k == FindNativeAppPeer(table, p.id)
                        IN  \/ k # 0 /\ table[k].address = r /\ table[k].policy = p.policy
                            \/ listener = "append" /\ peer[1].from = r /\ ids = p.id
      BY DEF AssignedIsRegistered
    <2> USE DEF IInv
    <2> DEFINE p == rtable[r][i]
    <2>0 rtable[r] \in Seq(Profiles) /\ table \in Seq(Entries)
      BY DEF TypeOK
    <2>1 Known(r, p) /\ table \in Seq(Entries)
      <3>1 i \in 1 .. Len(rtable[r])
        BY <2>0
      <3> QED BY <2>0, <3>1 DEF ProfileInv
    <2>2 CASE Promised(r, p)
      BY <2>2 DEF Promised
    <2>3 CASE Entered(r, p)
      <3>1 PICK k \in 1 .. Len(table) :
             table[k].id = p.id /\ table[k].address = r /\ table[k].policy = p.policy
        BY <2>3 DEF Entered
      <3>2 ASSUME NEW j \in 1 .. Len(table), table[j].id = p.id PROVE j = k
        <4>1 j - 1 \in Nat /\ k - 1 \in Nat
          OBVIOUS
        <4>2 GetNativeAppPeerSequence(j - 1) = GetNativeAppPeerSequence(k - 1)
          BY <3>1, <3>2 DEF TableInv
        <4>3 j - 1 = k - 1
          BY <4>1, <4>2, SequenceInjective
        <4> QED BY <4>3
      <3>3 {j \in DOMAIN table : table[j].id = p.id} = {k}
        BY <2>1, <3>1, <3>2
      <3>4 FindNativeAppPeer(table, p.id) = k
        BY <3>3 DEF FindNativeAppPeer
      <3> QED BY <3>1, <3>4
    <2> QED BY <2>1, <2>2, <2>3 DEF Known
  <1> QED BY <1>1, Invariant, PTL

\* No two profiles of one initiator process share an id, although an id is not
\* reserved while its answer is on the way.
THEOREM IdsAreUnique == Spec => []IdsNotShared
  <1>1 IInv => IdsNotShared
    <2> SUFFICES ASSUME IInv PROVE IdsNotShared
      OBVIOUS
    <2>1 \A r \in Responders : rtable[r] \in Seq(Profiles)
      BY DEF IInv, TypeOK
    <2>2 \A r \in Responders : DOMAIN rtable[r] = 1 .. Len(rtable[r])
      BY <2>1
    <2> QED BY <2>2 DEF IInv, IdsNotShared, UniqueInv, Same
  <1> QED BY <1>1, Invariant, PTL

\* No connection is ever entered twice, and abandoned ones at most once.
THEOREM EntriesAreRegistrations == Spec => []OneEntryPerRegistration
  <1>1 IInv => OneEntryPerRegistration
    <2> SUFFICES ASSUME IInv, NEW r \in Responders
                 PROVE  Cardinality({i \in DOMAIN table : table[i].address = r}) <= attempts[r]
      BY DEF OneEntryPerRegistration
    <2> USE DEF IInv
    <2>1 /\ queue \in Seq(Connections) /\ table \in Seq(Entries) /\ peer \in Seq(Connections)
         /\ attempts[r] \in Nat
      BY PeerConstants DEF TypeOK
    <2>2 /\ Cardinality(EntriesOf(table, r)) \in Nat /\ Cardinality(From(queue, r)) \in Nat
         /\ Cardinality(From(peer, r)) \in Nat
      BY <2>1, CountType
    <2>3 {i \in DOMAIN table : table[i].address = r} = EntriesOf(table, r)
      BY <2>1 DEF EntriesOf
    <2>4 Cardinality(EntriesOf(table, r)) + Cardinality(From(queue, r))
           + Cardinality(From(peer, r)) <= attempts[r]
      BY DEF CountInv
    <2>5 Cardinality(EntriesOf(table, r)) <= attempts[r]
      BY <2>1, <2>2, <2>4
    <2> QED BY <2>3, <2>5
  <1> QED BY <1>1, Invariant, PTL

=============================================================================
