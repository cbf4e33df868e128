-------------------------- MODULE NetlinkDumpProofs --------------------------
(***************************************************************************)
(* The lists that the queries of kernel tables return, proved for every    *)
(* table, datagram size, number of changes and set of faults.              *)
(*                                                                         *)
(* The properties speak of the list at the end; the invariant follows an   *)
(* entry from the table through the datagram in the socket and the buffer  *)
(* into the list.  The kernel's dump has sent every lasting entry before   *)
(* the point it has reached (Reached), NLMSG_DONE is the last message and  *)
(* nothing follows it (Shape), and entries stay in the order of the walk   *)
(* (Order).  For the table with a generation, either a flagged message is    *)
(* still to be read, which will refuse the list, or all that was sent is   *)
(* the table as it was at first (Same).                                    *)
(***************************************************************************)
EXTENDS NetlinkDump, TLAPS

-----------------------------------------------------------------------------
(* The inductive invariant.                                                *)

Holds(ms, e) == \E i \in 1 .. Len(ms) : ms[i].type = "entry" /\ ms[i].entry = e
Ends(ms) == \E i \in 1 .. Len(ms) : ms[i].type = "done"
Flagged(ms) == \E i \in 1 .. Len(ms) : ms[i].intr

DoneLast(ms) == \A i \in 1 .. Len(ms) : ms[i].type = "done" => i = Len(ms)
Ascending(ms) ==
    \A i, j \in 1 .. Len(ms) :
        i < j /\ ms[i].type = "entry" /\ ms[j].type = "entry" => ms[i].entry < ms[j].entry

InList(e) == \E i \in 1 .. Len(list) : list[i] = e
Lasting(e) == \A t \in tables : e \in Wanted(t)
Sent(e) == InList(e) \/ Holds(buffer, e) \/ Holds(pending, e)

\* The kernel has sent all it had, and said so.
AllSent == (Ends(buffer) \/ Ends(pending)) /\ ~aborted

Active == pc \in {"wait", "parse"}

Shape ==
    /\ DoneLast(buffer) /\ DoneLast(pending)
    /\ Ends(buffer) => pending = <<>>
    /\ Ends(buffer) \/ Ends(pending) => ~dumping
    /\ pc # "parse" => buffer = <<>>
    /\ pc = "call" => /\ list = <<>> /\ pending = <<>> /\ ~dumping /\ walk = 0
                      /\ table = base /\ ~stale
    /\ table \in tables

Order ==
    /\ Increasing(list) /\ Ascending(buffer) /\ Ascending(pending)
    /\ \A e, f \in Entries : InList(e) /\ Holds(buffer, f) => e < f
    /\ \A e, f \in Entries : InList(e) /\ Holds(pending, f) => e < f
    /\ \A e, f \in Entries : Holds(buffer, e) /\ Holds(pending, f) => e < f
    /\ pc # "done" => \A e \in Entries : Sent(e) => e < walk

Genuine ==
    /\ \A e \in Entries : InList(e) => \E t \in tables : e \in Wanted(t)
    /\ \A e \in Entries : Holds(buffer, e) \/ Holds(pending, e) => \E t \in tables : e \in t

Reached ==
    Active => \A e \in Entries : Lasting(e) /\ (e < walk \/ AllSent) => Sent(e)

Same ==
    Active /\ HasGeneration =>
        \/ Flagged(buffer) \/ Flagged(pending)
        \/ /\ stale \/ table = base
           /\ \A e \in Entries : Sent(e) => e \in base
           /\ \A e \in Entries : e \in Wanted(base) /\ (e < walk \/ AllSent) => Sent(e)

Inv == TypeOK /\ Shape /\ Order /\ Genuine /\ Reached /\ Same
       /\ OkIsComplete /\ OkIsSnapshot

-----------------------------------------------------------------------------
(* Facts about sequences.                                                  *)

\* The messages after the first one, by their indices.
LEMMA TailOf ==
    ASSUME NEW S, NEW q \in Seq(S), q # <<>>
    PROVE  /\ Tail(q) \in Seq(S) /\ Head(q) = q[1] /\ 1 \in 1 .. Len(q)
           /\ Len(Tail(q)) = Len(q) - 1
           /\ \A i \in 1 .. Len(Tail(q)) : i + 1 \in 1 .. Len(q) /\ Tail(q)[i] = q[i + 1]
           /\ \A i \in 1 .. Len(q) : i = 1 \/ (i - 1 \in 1 .. Len(Tail(q)) /\ Tail(q)[i - 1] = q[i])
  OBVIOUS

\* What an unread datagram holds is its first message and what is left after it.
LEMMA HoldsTail ==
    ASSUME NEW ms \in Seq(Message), ms # <<>>, NEW e
    PROVE  Holds(ms, e) <=> Holds(Tail(ms), e) \/ (Head(ms).type = "entry" /\ Head(ms).entry = e)
  <1>1. /\ Tail(ms) \in Seq(Message) /\ Head(ms) = ms[1] /\ 1 \in 1 .. Len(ms)
        /\ Len(Tail(ms)) = Len(ms) - 1
        /\ \A i \in 1 .. Len(Tail(ms)) : i + 1 \in 1 .. Len(ms) /\ Tail(ms)[i] = ms[i + 1]
        /\ \A i \in 1 .. Len(ms) :
              i = 1 \/ (i - 1 \in 1 .. Len(Tail(ms)) /\ Tail(ms)[i - 1] = ms[i])
    BY TailOf
  <1>2. ASSUME Holds(ms, e)
        PROVE  Holds(Tail(ms), e) \/ (Head(ms).type = "entry" /\ Head(ms).entry = e)
    BY <1>1, <1>2 DEF Holds
  <1>3. ASSUME Holds(Tail(ms), e) PROVE Holds(ms, e)
    <2>1. PICK i \in 1 .. Len(Tail(ms)) : Tail(ms)[i].type = "entry" /\ Tail(ms)[i].entry = e
      BY <1>3 DEF Holds
    <2>2. ms[i + 1].type = "entry" /\ ms[i + 1].entry = e /\ i + 1 \in 1 .. Len(ms)
      BY <1>1, <2>1
    <2> QED BY <2>2 DEF Holds
  <1>4. ASSUME Head(ms).type = "entry" /\ Head(ms).entry = e PROVE Holds(ms, e)
    BY <1>1, <1>4 DEF Holds
  <1> QED BY <1>2, <1>3, <1>4

\* The tail of a datagram keeps its order, its end and its flag.
LEMMA TailKeeps ==
    ASSUME NEW ms \in Seq(Message), ms # <<>>
    PROVE  /\ DoneLast(ms) => DoneLast(Tail(ms))
           /\ Ascending(ms) => Ascending(Tail(ms))
           /\ Head(ms).type # "done" => (Ends(ms) <=> Ends(Tail(ms)))
           /\ ~Head(ms).intr => (Flagged(ms) <=> Flagged(Tail(ms)))
           /\ Ascending(ms) /\ Head(ms).type = "entry"
                 => \A e \in Entries : Holds(Tail(ms), e) => Head(ms).entry < e
           /\ DoneLast(ms) /\ Head(ms).type = "done" => \A e : ~Holds(ms, e)
  <1>1. /\ Tail(ms) \in Seq(Message) /\ Head(ms) = ms[1] /\ 1 \in 1 .. Len(ms)
        /\ Len(ms) \in Nat /\ Len(Tail(ms)) = Len(ms) - 1
        /\ \A i \in 1 .. Len(Tail(ms)) : i + 1 \in 1 .. Len(ms) /\ Tail(ms)[i] = ms[i + 1]
        /\ \A i \in 1 .. Len(ms) :
              i = 1 \/ (i - 1 \in 1 .. Len(Tail(ms)) /\ Tail(ms)[i - 1] = ms[i])
    BY TailOf
  <1>2. DoneLast(ms) => DoneLast(Tail(ms))
    <2> SUFFICES ASSUME DoneLast(ms), NEW i \in 1 .. Len(Tail(ms)), Tail(ms)[i].type = "done"
                 PROVE  i = Len(Tail(ms))
      BY DEF DoneLast
    <2>1. i + 1 \in 1 .. Len(ms) /\ ms[i + 1].type = "done"
      BY <1>1
    <2>2. i + 1 = Len(ms)
      BY <2>1 DEF DoneLast
    <2>3. i \in Int /\ Len(ms) \in Nat /\ Len(Tail(ms)) = Len(ms) - 1
      BY <1>1
    <2> QED BY <2>2, <2>3
  <1>3. Ascending(ms) => Ascending(Tail(ms))
    BY <1>1 DEF Ascending
  <1>4. Head(ms).type # "done" => (Ends(ms) <=> Ends(Tail(ms)))
    BY <1>1 DEF Ends
  <1>5. ~Head(ms).intr => (Flagged(ms) <=> Flagged(Tail(ms)))
    BY <1>1 DEF Flagged
  <1>6. ASSUME Ascending(ms), Head(ms).type = "entry", NEW e \in Entries, Holds(Tail(ms), e)
        PROVE  Head(ms).entry < e
    <2>1. PICK i \in 1 .. Len(Tail(ms)) : Tail(ms)[i].type = "entry" /\ Tail(ms)[i].entry = e
      BY <1>6 DEF Holds
    <2>2. /\ i + 1 \in 1 .. Len(ms) /\ 1 < i + 1
          /\ ms[i + 1].type = "entry" /\ ms[i + 1].entry = e
      BY <1>1, <2>1
    <2> QED BY <1>1, <1>6, <2>2 DEF Ascending
  <1>7. ASSUME DoneLast(ms), Head(ms).type = "done", NEW e PROVE ~Holds(ms, e)
    <2>0. 1 \in 1 .. Len(ms) /\ ms[1].type = "done"
      BY <1>1, <1>7
    <2>1. Len(ms) = 1
      BY <1>7, <2>0, Zenon DEF DoneLast
    <2> QED BY <1>1, <1>7, <2>1 DEF Holds
  <1> QED BY <1>2, <1>3, <1>4, <1>5, <1>6, <1>7

\* An empty datagram holds nothing.
LEMMA EmptyHolds ==
    /\ \A e : ~Holds(<<>>, e)
    /\ ~Ends(<<>>) /\ ~Flagged(<<>>) /\ DoneLast(<<>>) /\ Ascending(<<>>)
    /\ <<>> \in Seq(Message)
  BY DEF Holds, Ends, Flagged, DoneLast, Ascending

-----------------------------------------------------------------------------
(* What the kernel puts into a datagram.                                   *)

\* The next datagram holds the next entries of the table, all of them when it ends a
\* dump that was not aborted, and is flagged when it has to be.
LEMMA FillFacts ==
    ASSUME TypeOK, NEW flag \in BOOLEAN, Fill(flag)
    PROVE  /\ pending' \in Seq(Message) /\ walk' \in Nat /\ walk <= walk'
           /\ dumping' \in BOOLEAN /\ aborted' \in BOOLEAN /\ stale' \in BOOLEAN
           /\ DoneLast(pending') /\ Ascending(pending')
           /\ Ends(pending') => ~dumping'
           /\ aborted => aborted'
           /\ \A e \in Entries : Holds(pending', e) => e \in table /\ walk <= e /\ e < walk'
           /\ \A e \in table : walk <= e /\ (e < walk' \/ (Ends(pending') /\ ~aborted'))
                                => Holds(pending', e)
           /\ flag /\ pending' # <<>> => Flagged(pending')
           /\ pending' = <<>> => stale' = stale /\ walk' = walk
           /\ pending' # <<>> => stale' = FALSE
  <1> DEFINE left == {e \in table : walk <= e}
  <1>1. CASE /\ "silent" \in Faults /\ pending' = <<>>
             /\ UNCHANGED <<walk, dumping, aborted, stale>>
    <2>1. \A e \in table : e \in Nat
      BY DumpConstants DEF TypeOK
    <2> QED BY <1>1, <2>1, EmptyHolds DEF TypeOK
  <1>2. ASSUME NEW s \in Segments(left), NEW last \in BOOLEAN,
               NEW form \in {"good"} \cup (Forms \cap Faults),
               s = <<>> => last,
               last => (\A e \in left : \E i \in 1 .. Len(s) : e = s[i]) \/ "aborted" \in Faults,
               pending' = Datagram(s, last, flag, form),
               walk' = IF s = <<>> THEN walk ELSE s[Len(s)] + 1,
               dumping' = ~last,
               aborted' = (aborted \/ (last /\ ~\A e \in left : \E i \in 1 .. Len(s) : e = s[i])),
               stale' = FALSE
        PROVE  /\ pending' \in Seq(Message) /\ walk' \in Nat /\ walk <= walk'
               /\ dumping' \in BOOLEAN /\ aborted' \in BOOLEAN /\ stale' \in BOOLEAN
               /\ DoneLast(pending') /\ Ascending(pending')
               /\ Ends(pending') => ~dumping'
               /\ aborted => aborted'
               /\ \A e \in Entries : Holds(pending', e) => e \in table /\ walk <= e /\ e < walk'
               /\ \A e \in table : walk <= e /\ (e < walk' \/ (Ends(pending') /\ ~aborted'))
                                    => Holds(pending', e)
               /\ flag /\ pending' # <<>> => Flagged(pending')
               /\ pending' # <<>> /\ stale' = FALSE
    <2> DEFINE n == Len(s) + (IF last THEN 1 ELSE 0)
               d == Datagram(s, last, flag, form)
    <2>1. /\ s \in Seq(left) /\ Len(s) \in Nat /\ Increasing(s)
          /\ \A e \in left : (\E i \in 1 .. Len(s) : e <= s[i])
                              => \E i \in 1 .. Len(s) : e = s[i]
      BY <1>2, DumpConstants DEF Segments
    <2>2. \A i \in 1 .. Len(s) : s[i] \in Entries /\ s[i] \in Nat /\ s[i] \in table /\ walk <= s[i]
      <3>1. \A i \in 1 .. Len(s) : s[i] \in left
        BY <2>1
      <3>2. \A e \in left : e \in Entries /\ e \in Nat /\ e \in table /\ walk <= e
        BY DumpConstants DEF TypeOK
      <3> QED BY <3>1, <3>2
    <2>3. /\ n \in Nat /\ d \in Seq(Message) /\ Len(d) = n
          /\ \A i \in 1 .. n : d[i] = [type |-> IF i <= Len(s) THEN "entry" ELSE "done",
                                       entry |-> IF i <= Len(s) THEN s[i] ELSE 0,
                                       intr |-> flag /\ i = 1,
                                       form |-> IF i = 1 THEN form ELSE "good"]
      <3>1. n \in Nat
        BY <2>1
      <3>2. \A i \in 1 .. n : [type |-> IF i <= Len(s) THEN "entry" ELSE "done",
                                entry |-> IF i <= Len(s) THEN s[i] ELSE 0,
                                intr |-> flag /\ i = 1,
                                form |-> IF i = 1 THEN form ELSE "good"] \in Message
        <4> TAKE i \in 1 .. n
        <4>1. (IF i <= Len(s) THEN s[i] ELSE 0) \in Entries \cup {0}
          BY <2>1, <2>2, <3>1
        <4>2. (IF i = 1 THEN form ELSE "good") \in Forms
          BY DEF Forms
        <4>3. (IF i <= Len(s) THEN "entry" ELSE "done") \in {"entry", "done", "error", "ack"}
          OBVIOUS
        <4>4. (flag /\ i = 1) \in BOOLEAN
          OBVIOUS
        <4>5. i <= Len(s) => s[i] \in Entries
          BY <2>1, <2>2, <3>1
        <4> HIDE DEF n
        <4>6. [type |-> IF i <= Len(s) THEN "entry" ELSE "done",
               entry |-> IF i <= Len(s) THEN s[i] ELSE 0,
               intr |-> flag /\ i = 1,
               form |-> IF i = 1 THEN form ELSE "good"]
                 \in [type : {"entry", "done", "error", "ack"}, entry : Entries \cup {0},
                      intr : BOOLEAN, form : Forms]
          BY <4>1, <4>2, <4>3, <4>4
        <4> QED BY <4>5, <4>6 DEF Message
      <3>3. d = [i \in 1 .. n |-> [type |-> IF i <= Len(s) THEN "entry" ELSE "done",
                                  entry |-> IF i <= Len(s) THEN s[i] ELSE 0,
                                  intr |-> flag /\ i = 1,
                                  form |-> IF i = 1 THEN form ELSE "good"]]
        BY DEF Datagram
      <3> HIDE DEF n, d
      <3>4. d \in [1 .. n -> Message]
        BY <3>2, <3>3
      <3>5. d \in Seq(Message) /\ Len(d) = n
        BY <3>1, <3>4
      <3>6. \A i \in 1 .. n : d[i] = [type |-> IF i <= Len(s) THEN "entry" ELSE "done",
                                      entry |-> IF i <= Len(s) THEN s[i] ELSE 0,
                                      intr |-> flag /\ i = 1,
                                      form |-> IF i = 1 THEN form ELSE "good"]
        BY <3>3, Zenon
      <3> QED BY <3>1, <3>5, <3>6, Zenon
    <2>4. \A i \in 1 .. n : /\ d[i].type = (IF i <= Len(s) THEN "entry" ELSE "done")
                           /\ d[i].entry = (IF i <= Len(s) THEN s[i] ELSE 0)
                           /\ flag /\ i = 1 => d[i].intr
      <3> HIDE DEF n, d
      <3> TAKE i \in 1 .. n
      <3>1. d[i] = [type |-> IF i <= Len(s) THEN "entry" ELSE "done",
                    entry |-> IF i <= Len(s) THEN s[i] ELSE 0,
                    intr |-> flag /\ i = 1,
                    form |-> IF i = 1 THEN form ELSE "good"]
        BY <2>3
      <3>2. d[i].type = IF i <= Len(s) THEN "entry" ELSE "done"
        BY <3>1
      <3>3. d[i].entry = IF i <= Len(s) THEN s[i] ELSE 0
        BY <3>1
      <3>4. flag /\ i = 1 => d[i].intr
        <4> SUFFICES ASSUME flag, i = 1 PROVE d[i].intr
          OBVIOUS
        <4>1. (flag /\ i = 1) = TRUE
          OBVIOUS
        <4>2. PICK a, b, c : d[i] = [type |-> a, entry |-> b, intr |-> TRUE, form |-> c]
          BY <3>1, <4>1, Zenon
        <4> QED BY <4>2
      <3> QED BY <3>2, <3>3, <3>4
    <2>5. n # 0 /\ 1 \in 1 .. n /\ d # <<>>
      BY <1>2, <2>1, <2>3
    <2>6. Len(s) <= n /\ n <= Len(s) + 1 /\ (n = Len(s) + 1 <=> last)
      BY <2>1
    <2> HIDE DEF n, d
    <2>7. walk' \in Nat /\ walk <= walk' /\ \A i \in 1 .. Len(s) : s[i] < walk'
      <3>1. CASE s = <<>>
        BY <1>2, <2>1, <3>1 DEF TypeOK
      <3>2. CASE s # <<>>
        <4>1. Len(s) \in 1 .. Len(s)
          BY <2>1, <3>2
        <4>2. \A i \in 1 .. Len(s) : s[i] <= s[Len(s)]
          BY <2>1, <2>2, <4>1 DEF Increasing
        <4>3. s[Len(s)] \in Nat /\ walk <= s[Len(s)]
          BY <2>2, <4>1
        <4>4. walk' = s[Len(s)] + 1
          BY <1>2, <3>2
        <4>5. walk \in Nat
          BY DEF TypeOK
        <4>6. walk' \in Nat /\ walk <= walk'
          BY <4>3, <4>4, <4>5
        <4>7. ASSUME NEW i \in 1 .. Len(s) PROVE s[i] < walk'
          <5>1. s[i] \in Nat /\ s[i] <= s[Len(s)]
            BY <2>2, <4>2
          <5> QED BY <4>3, <4>4, <5>1
        <4> QED BY <4>6, <4>7
      <3> QED BY <3>1, <3>2
    <2>8. DoneLast(d)
      BY <2>1, <2>3, <2>4, <2>6 DEF DoneLast
    <2>9. Ascending(d)
      BY <2>1, <2>3, <2>4, <2>6 DEF Ascending, Increasing
    <2>10. Ends(d) => last
      BY <2>1, <2>3, <2>4, <2>6 DEF Ends
    <2>11. ASSUME NEW e \in Entries, Holds(d, e)
           PROVE  e \in table /\ walk <= e /\ e < walk'
      <3>1. PICK i \in 1 .. n : d[i].type = "entry" /\ d[i].entry = e
        BY <2>3, <2>11 DEF Holds
      <3>2. i \in 1 .. Len(s) /\ s[i] = e
        BY <2>1, <2>3, <2>4, <3>1
      <3> QED BY <2>2, <2>7, <3>2
    <2>12. ASSUME NEW e \in table, walk <= e, e < walk' \/ (Ends(d) /\ ~aborted')
           PROVE  Holds(d, e)
      <3>1. e \in left /\ e \in Nat
        BY <2>12, DumpConstants DEF TypeOK
      <3>2. \E i \in 1 .. Len(s) : e = s[i]
        <4>1. CASE Ends(d) /\ ~aborted'
          BY <1>2, <2>10, <3>1, <4>1
        <4>2. CASE e < walk'
          <5>1. s # <<>>
            BY <1>2, <2>12, <3>1, <4>2 DEF TypeOK
          <5>2. Len(s) \in 1 .. Len(s) /\ e <= s[Len(s)]
            BY <1>2, <2>1, <2>2, <3>1, <4>2, <5>1
          <5> QED BY <2>1, <3>1, <5>2
        <4> QED BY <2>12, <4>1, <4>2
      <3>3. PICK i \in 1 .. Len(s) : e = s[i]
        BY <3>2
      <3>4. i \in 1 .. n /\ d[i].type = "entry" /\ d[i].entry = e
        BY <2>1, <2>3, <2>4, <2>6, <3>3
      <3> QED BY <2>3, <3>4 DEF Holds
    <2>13. flag => Flagged(d)
      BY <2>3, <2>4, <2>5 DEF Flagged
    <2>14. pending' = d
      BY <1>2 DEF d
    <2>15. dumping' \in BOOLEAN /\ aborted' \in BOOLEAN /\ (aborted => aborted')
      BY <1>2, Zenon DEF TypeOK
    <2> QED BY <1>2, <2>3, <2>5, <2>7, <2>8, <2>9, <2>10, <2>11, <2>12, <2>13, <2>14, <2>15
  <1>3. CASE \E s \in Segments(left), last \in BOOLEAN,
               form \in {"good"} \cup (Forms \cap Faults) :
               /\ s = <<>> => last
               /\ last => (\A e \in left : \E i \in 1 .. Len(s) : e = s[i]) \/ "aborted" \in Faults
               /\ pending' = Datagram(s, last, flag, form)
               /\ walk' = IF s = <<>> THEN walk ELSE s[Len(s)] + 1
               /\ dumping' = ~last
               /\ aborted' = (aborted \/ (last /\ ~\A e \in left : \E i \in 1 .. Len(s) : e = s[i]))
               /\ stale' = FALSE
    <2>1. PICK s \in Segments(left), last \in BOOLEAN,
               form \in {"good"} \cup (Forms \cap Faults) :
               /\ s = <<>> => last
               /\ last => (\A e \in left : \E i \in 1 .. Len(s) : e = s[i]) \/ "aborted" \in Faults
               /\ pending' = Datagram(s, last, flag, form)
               /\ walk' = IF s = <<>> THEN walk ELSE s[Len(s)] + 1
               /\ dumping' = ~last
               /\ aborted' = (aborted \/ (last /\ ~\A e \in left : \E i \in 1 .. Len(s) : e = s[i]))
               /\ stale' = FALSE
      BY <1>3, Zenon
    <2> HIDE DEF left
    <2> QED BY <1>2, <2>1, Zenon
  <1>4. CASE /\ pending' = <<[type |-> "ack", entry |-> 0, intr |-> flag, form |-> "good"]>>
             /\ dumping' = TRUE /\ stale' = FALSE /\ UNCHANGED <<walk, aborted>>
    <2> DEFINE m == [type |-> "ack", entry |-> 0, intr |-> flag, form |-> "good"]
    <2>1. m \in Message /\ m.type = "ack" /\ m.intr = flag
      BY DEF Message, Forms
    <2>2. pending' = <<m>>
      BY <1>4
    <2> HIDE DEF m
    <2>3. /\ pending' \in Seq(Message) /\ Len(pending') = 1 /\ pending'[1] = m
          /\ pending' # <<>>
      BY <2>1, <2>2
    <2>4. /\ \A e : ~Holds(pending', e)
          /\ ~Ends(pending') /\ DoneLast(pending') /\ Ascending(pending')
      BY <2>1, <2>3 DEF Holds, Ends, DoneLast, Ascending
    <2>5. flag => Flagged(pending')
      <3>1. flag => m.intr
        BY <2>1, Zenon
      <3>2. 1 \in 1 .. Len(pending')
        BY <2>3
      <3> QED BY <2>3, <3>1, <3>2, Zenon DEF Flagged
    <2>6. walk' \in Nat /\ walk <= walk' /\ \A e \in table : e \in Nat
      BY <1>4, DumpConstants DEF TypeOK
    <2>7. \A e \in table : ~(walk <= e /\ e < walk')
      BY <1>4, <2>6 DEF TypeOK
    <2> QED BY <1>4, <2>3, <2>4, <2>5, <2>6, <2>7 DEF TypeOK
  <1> QED
    BY <1>1, <1>3, <1>4, Zenon DEF Fill

-----------------------------------------------------------------------------
(* Every step keeps the invariant.                                         *)

\* Before the call nothing was sent.
LEMMA InitHolds ==
    ASSUME Init PROVE Inv
  <1>1. TypeOK
    <2>1. list \in Seq(Entries) /\ buffer \in Seq(Message) /\ pending \in Seq(Message)
      BY EmptyHolds DEF Init
    <2>2. table \in SUBSET Entries /\ base \in tables /\ tables \subseteq SUBSET Entries
      BY DEF Init
    <2>3. dumping \in BOOLEAN /\ stale \in BOOLEAN /\ aborted \in BOOLEAN
      BY DEF Init
    <2>4. /\ uiDatagramCount \in 0 .. MaxDatagrams /\ changes \in 0 .. MaxChanges
          /\ walk \in Nat
      BY DumpConstants DEF Init
    <2> QED BY <2>1, <2>2, <2>3, <2>4 DEF Init, TypeOK
  <1>2. \A e : ~InList(e)
    BY DEF Init, InList
  <1>3. Shape /\ Order /\ Genuine /\ Reached /\ Same
    BY <1>2, EmptyHolds DEF Init, Shape, Order, Genuine, Reached, Same, Active, Sent, Increasing
  <1>4. OkIsComplete /\ OkIsSnapshot
    BY DEF Init, OkIsComplete, OkIsSnapshot, Succeeded
  <1> QED BY <1>1, <1>3, <1>4 DEF Inv

\* A query that fails returns an empty list and leaves nothing unread.
LEMMA FailureKeeps ==
    ASSUME Inv, Return("failed", list) PROVE Inv'
  <1>1. /\ pc' = "done" /\ eError' = "failed" /\ list' = <<>> /\ buffer' = <<>>
        /\ pending' = <<>> /\ dumping' = FALSE
        /\ UNCHANGED <<query, uiDatagramCount, walk, stale, base, aborted, table, changes, tables>>
    BY DEF Return
  <1>2. TypeOK'
    <2>1. <<>> \in Seq(Entries) /\ <<>> \in Seq(Message)
      BY EmptyHolds
    <2> QED BY <1>1, <2>1 DEF Inv, TypeOK
  <1>3. \A e : ~InList(e)'
    BY <1>1 DEF InList
  <1>4. Shape' /\ Order' /\ Genuine' /\ Reached' /\ Same'
    BY <1>1, <1>3, EmptyHolds
       DEF Inv, Shape, Order, Genuine, Reached, Same, Active, Sent, Increasing
  <1>5. OkIsComplete' /\ OkIsSnapshot'
    BY <1>1 DEF OkIsComplete, OkIsSnapshot, Succeeded
  <1> QED BY <1>2, <1>4, <1>5 DEF Inv

\* What may be in the list when NLMSG_DONE is read: all that was sent is in it.
LEMMA SuccessKeeps ==
    ASSUME Inv, pc = "parse", buffer # <<>>, Head(buffer).type = "done",
           ~Head(buffer).intr, Return("ok", list)
    PROVE  Inv'
  <1>1. /\ pc' = "done" /\ eError' = "ok" /\ list' = list /\ buffer' = <<>>
        /\ pending' = <<>> /\ dumping' = FALSE
        /\ UNCHANGED <<query, uiDatagramCount, walk, stale, base, aborted, table, changes, tables>>
    BY DEF Return
  <1>2. TypeOK'
    BY <1>1, EmptyHolds DEF Inv, TypeOK
  <1>3. (\A e : ~Holds(buffer, e)) /\ Ends(buffer) /\ pending = <<>>
    <2>1. buffer \in Seq(Message) /\ DoneLast(buffer)
      BY DEF Inv, TypeOK, Shape
    <2>2. \A e : ~Holds(buffer, e)
      BY <2>1, TailKeeps
    <2>3. Ends(buffer)
      BY <2>1, TailOf DEF Ends
    <2> QED BY <2>2, <2>3 DEF Inv, Shape
  <1>4. \A e : (InList(e)' <=> InList(e)) /\ (Sent(e) <=> InList(e))
    BY <1>1, <1>3, EmptyHolds DEF InList, Sent
  <1>5. Shape' /\ Order' /\ Genuine' /\ Reached' /\ Same'
    BY <1>1, <1>4, EmptyHolds
       DEF Inv, Shape, Order, Genuine, Reached, Same, Active, Sent, Increasing, Wanted
  <1>6. \A e : InList(e) <=> e \in Listed
    BY DEF InList, Listed
  <1>7. Listed' = Listed /\ (\A t : Wanted(t)' = Wanted(t)) /\ (HasGeneration' <=> HasGeneration)
    BY <1>1 DEF Listed, Wanted, HasGeneration
  <1>8. \A e \in Listed : e \in Entries
    BY DEF Listed, Inv, TypeOK
  <1>9. OkIsComplete'
    <2> SUFFICES ASSUME ~aborted
                 PROVE  /\ \A e \in Entries : (\A t \in tables : e \in Wanted(t)) => e \in Listed
                        /\ \A e \in Listed : \E t \in tables : e \in Wanted(t)
                        /\ \A i, j \in 1 .. Len(list) : list[i] = list[j] => i = j
      BY <1>1, <1>7 DEF OkIsComplete, Succeeded
    <2>1. \A e \in Entries : (\A t \in tables : e \in Wanted(t)) => e \in Listed
      BY <1>3, <1>4, <1>6 DEF Inv, Reached, Active, AllSent, Lasting
    <2>2. \A e \in Listed : \E t \in tables : e \in Wanted(t)
      BY <1>6, <1>8 DEF Inv, Genuine
    <2>3. \A i, j \in 1 .. Len(list) : list[i] = list[j] => i = j
      <3>1. list \in Seq(Entries) /\ Increasing(list) /\ Entries \subseteq Nat
        BY DumpConstants DEF Inv, TypeOK, Order
      <3>2. \A i \in 1 .. Len(list) : list[i] \in Entries
        BY <3>1
      <3>3. \A i \in 1 .. Len(list) : list[i] \in Nat
        BY <3>1, <3>2
      <3>4. SUFFICES ASSUME NEW i \in 1 .. Len(list), NEW j \in 1 .. Len(list),
                            list[i] = list[j]
                     PROVE  ~(i < j) /\ ~(j < i)
        OBVIOUS
      <3> QED BY <3>1, <3>3, <3>4 DEF Increasing
    <2> QED BY <2>1, <2>2, <2>3
  <1>10. OkIsSnapshot'
    <2> SUFFICES ASSUME ~aborted, HasGeneration PROVE Listed = Wanted(base)
      BY <1>1, <1>7 DEF OkIsSnapshot, Succeeded
    <2>1. ~Flagged(buffer) /\ ~Flagged(pending)
      <3>1. buffer \in Seq(Message) /\ DoneLast(buffer)
        BY DEF Inv, TypeOK, Shape
      <3>2. Len(buffer) = 1 /\ Head(buffer) = buffer[1]
        BY <3>1, TailOf DEF DoneLast
      <3> QED BY <1>3, <3>2, EmptyHolds DEF Flagged
    <2>2. /\ \A e \in Entries : InList(e) => e \in base
          /\ \A e \in Entries : e \in Wanted(base) => InList(e)
      BY <1>3, <1>4, <2>1 DEF Inv, Same, Active, AllSent
    <2>3. \A e \in Entries : InList(e) => e \in Wanted(base)
      BY <2>2 DEF Inv, Genuine, Wanted
    <2>4. Wanted(base) \subseteq Entries
      BY DEF Inv, TypeOK, Wanted
    <2> QED BY <1>6, <1>8, <2>2, <2>3, <2>4
  <1> QED BY <1>2, <1>5, <1>9, <1>10 DEF Inv

\* The request starts the walk of a table that nobody has changed yet.
LEMMA SendKeeps ==
    ASSUME Inv, SendNetlinkRequest PROVE Inv'
  <1>1. /\ pc = "call" /\ pc' = "wait" /\ buffer' = buffer
        /\ UNCHANGED <<query, eError, list, uiDatagramCount, base, table, changes, tables>>
    BY DEF SendNetlinkRequest
  <1>2. /\ list = <<>> /\ buffer = <<>> /\ walk = 0 /\ table = base /\ ~stale /\ ~dumping
        /\ table \in tables
    BY <1>1 DEF Inv, Shape
  <1>3. \A e : ~InList(e) /\ ~InList(e)' /\ ~Holds(buffer, e)
    BY <1>1, <1>2, EmptyHolds DEF InList
  <1>4. (\A t : Wanted(t)' = Wanted(t)) /\ (\A e : Lasting(e)' <=> Lasting(e))
    BY <1>1 DEF Wanted, Lasting
  <1>5. \A e \in Entries : e \in Nat
    BY DumpConstants
  <1>6. (OkIsComplete /\ OkIsSnapshot)'
    BY <1>1 DEF OkIsComplete, OkIsSnapshot, Succeeded
  <1>7. table \in SUBSET Entries /\ base \in SUBSET Entries /\ Increasing(list)
    BY <1>2 DEF Inv, TypeOK, Order
  <1>8. CASE Fill(FALSE)
    <2>1. /\ pending' \in Seq(Message) /\ walk' \in Nat /\ walk <= walk'
          /\ dumping' \in BOOLEAN /\ aborted' \in BOOLEAN /\ stale' \in BOOLEAN
          /\ DoneLast(pending') /\ Ascending(pending')
          /\ Ends(pending') => ~dumping'
          /\ \A e \in Entries : Holds(pending', e) => e \in table /\ walk <= e /\ e < walk'
          /\ \A e \in table : walk <= e /\ (e < walk' \/ (Ends(pending') /\ ~aborted'))
                               => Holds(pending', e)
      BY <1>8, FillFacts DEF Inv
    <2>2. TypeOK'
      BY <1>1, <2>1 DEF Inv, TypeOK
    <2>3. Shape'
      BY <1>1, <1>2, <2>1, EmptyHolds DEF Shape
    <2>4. Order'
      BY <1>1, <1>2, <1>3, <1>7, <2>1, EmptyHolds DEF Order, Sent
    <2>5. Genuine'
      BY <1>1, <1>2, <1>3, <2>1 DEF Genuine
    <2>6. \A e \in table : (e < walk' \/ AllSent') => Holds(pending', e)
      BY <1>1, <1>2, <1>5, <1>7, <2>1, EmptyHolds DEF AllSent
    <2>7. \A e : Lasting(e) => e \in table
      BY <1>2 DEF Lasting, Wanted
    <2>8. Reached'
      BY <1>4, <2>6, <2>7 DEF Reached, Sent
    <2>9. Same'
      <3>1. \A e \in Entries : Sent(e)' => e \in base'
        BY <1>1, <1>2, <1>3, <2>1, EmptyHolds DEF Sent
      <3>2. \A e \in Entries : e \in Wanted(base)' => e \in table
        BY <1>1, <1>2 DEF Wanted
      <3>3. \A e \in Entries : e \in Wanted(base)' /\ (e < walk' \/ AllSent') => Sent(e)'
        BY <2>6, <3>2 DEF Sent
      <3> QED BY <1>1, <1>2, <3>1, <3>3 DEF Same
    <2> QED BY <1>6, <2>2, <2>3, <2>4, <2>5, <2>8, <2>9 DEF Inv
  <1>9. ASSUME NEW type \in {"error", "ack"},
               pending' = <<[type |-> type, entry |-> 0, intr |-> FALSE, form |-> "good"]>>,
               UNCHANGED <<walk, dumping, aborted, stale>>
        PROVE  Inv'
    <2>1. /\ pending' \in Seq(Message) /\ Len(pending') = 1
          /\ pending'[1].type \notin {"entry", "done"}
      <3>1. [type |-> type, entry |-> 0, intr |-> FALSE, form |-> "good"] \in Message
        BY DEF Message, Forms
      <3> QED BY <1>9, <3>1
    <2>2. /\ \A e : ~Holds(pending', e)
          /\ ~Ends(pending') /\ DoneLast(pending') /\ Ascending(pending')
      BY <2>1 DEF Holds, Ends, DoneLast, Ascending
    <2>3. TypeOK'
      BY <1>1, <1>9, <2>1 DEF Inv, TypeOK
    <2>4. Shape'
      BY <1>1, <1>2, <1>9, <2>2, EmptyHolds DEF Shape
    <2>5. Order' /\ Genuine'
      BY <1>1, <1>2, <1>3, <1>7, <1>9, <2>2, EmptyHolds DEF Order, Genuine, Sent
    <2>6. ~AllSent' /\ \A e \in Entries : ~(e < walk')
      BY <1>1, <1>2, <1>5, <1>9, <2>2, EmptyHolds DEF AllSent
    <2>7. \A e : ~Sent(e)'
      BY <1>1, <1>2, <1>3, <2>2, EmptyHolds DEF Sent
    <2>8. Reached' /\ Same'
      BY <1>1, <1>2, <2>6, <2>7 DEF Reached, Same
    <2> QED BY <1>6, <2>3, <2>4, <2>5, <2>8 DEF Inv
  <1> QED BY <1>8, <1>9 DEF SendNetlinkRequest

\* Receiving a datagram lets the kernel fill the next one from the table as it is now.
LEMMA ReceiveKeeps ==
    ASSUME Inv, ReceiveDatagram PROVE Inv'
  <1>1. /\ pc = "wait" /\ pc' = "parse" /\ buffer' = pending
        /\ UNCHANGED <<query, eError, list, uiDatagramCount, base, table, changes, tables>>
    BY DEF ReceiveDatagram
  <1>2. /\ buffer = <<>> /\ table \in tables
        /\ \A e : ~Holds(buffer, e)
        /\ ~Ends(buffer) /\ ~Flagged(buffer)
    BY <1>1, EmptyHolds DEF Inv, Shape
  <1>3. /\ \A e : InList(e)' <=> InList(e)
        /\ \A t : Wanted(t)' = Wanted(t)
        /\ \A e : Lasting(e)' <=> Lasting(e)
        /\ HasGeneration' <=> HasGeneration
    BY <1>1 DEF InList, Wanted, Lasting, HasGeneration
  <1>4. \A e \in Entries : e \in Nat
    BY DumpConstants
  <1>5. (OkIsComplete /\ OkIsSnapshot)'
    BY <1>1 DEF OkIsComplete, OkIsSnapshot, Succeeded
  <1>6. /\ table \in SUBSET Entries /\ base \in SUBSET Entries /\ walk \in Nat
        /\ stale \in BOOLEAN
    BY DEF Inv, TypeOK
  <1>7. CASE dumping /\ \E flag \in Flags : Fill(flag)
    <2>0. PICK flag \in Flags : Fill(flag)
      BY <1>7
    <2>1. flag \in BOOLEAN /\ (HasGeneration /\ stale => flag)
      BY <2>0 DEF Flags
    <2>2. /\ pending' \in Seq(Message) /\ walk' \in Nat /\ walk <= walk'
          /\ dumping' \in BOOLEAN /\ aborted' \in BOOLEAN /\ stale' \in BOOLEAN
          /\ DoneLast(pending') /\ Ascending(pending')
          /\ Ends(pending') => ~dumping'
          /\ aborted => aborted'
          /\ \A e \in Entries : Holds(pending', e) => e \in table /\ walk <= e /\ e < walk'
          /\ \A e \in table : walk <= e /\ (e < walk' \/ (Ends(pending') /\ ~aborted'))
                               => Holds(pending', e)
          /\ (HasGeneration /\ stale) /\ pending' # <<>> => Flagged(pending')
          /\ pending' = <<>> => stale' = stale /\ walk' = walk
          /\ pending' # <<>> => stale' = FALSE
      BY <2>0, <2>1, FillFacts DEF Inv
    <2>3. ~Ends(pending)
      BY <1>7 DEF Inv, Shape
    <2>4. TypeOK'
      BY <1>1, <2>2 DEF Inv, TypeOK
    <2>5. Shape'
      BY <1>1, <1>2, <2>2, <2>3 DEF Inv, Shape
    <2>6. \A e \in Entries : Sent(e)' <=> Sent(e) \/ Holds(pending', e)
      BY <1>1, <1>2, <1>3 DEF Sent
    <2>7. \A e \in Entries : Sent(e) => e < walk
      BY <1>1 DEF Inv, Order
    <2>8. Order'
      <3>1. Increasing(list)' /\ Ascending(buffer)' /\ Ascending(pending)'
        BY <1>1, <2>2 DEF Inv, Order, Increasing
      <3>2. \A e, f \in Entries : InList(e)' /\ Holds(buffer, f)' => e < f
        BY <1>1, <1>3 DEF Inv, Order
      <3>3. \A e, f \in Entries : (InList(e)' \/ Holds(buffer, e)') /\ Holds(pending, f)' => e < f
        BY <1>1, <1>3, <1>4, <1>6, <2>2, <2>7 DEF Sent
      <3>4. \A e \in Entries : Sent(e)' => e < walk'
        BY <1>4, <1>6, <2>2, <2>6, <2>7
      <3> QED BY <3>1, <3>2, <3>3, <3>4 DEF Order
    <2>9. Genuine'
      BY <1>1, <1>2, <1>3, <2>2 DEF Inv, Genuine
    <2>10. AllSent' => Ends(pending') /\ ~aborted'
      BY <1>1, <2>3 DEF AllSent
    <2>11. Reached'
      <3> SUFFICES ASSUME NEW e \in Entries, Lasting(e), e < walk' \/ AllSent', ~(e < walk)
                   PROVE  Holds(pending', e)
        BY <1>1, <1>3, <2>6 DEF Inv, Reached, Active
      <3>1. e \in table
        BY <1>2 DEF Lasting, Wanted
      <3> QED BY <1>4, <1>6, <2>2, <2>10, <3>1
    <2>12. Same'
      <3> SUFFICES ASSUME HasGeneration, ~Flagged(pending), ~Flagged(pending')
                   PROVE  /\ stale' \/ table = base
                          /\ \A e \in Entries : Sent(e)' => e \in base
                          /\ \A e \in Entries :
                                e \in Wanted(base) /\ (e < walk' \/ AllSent') => Sent(e)'
        BY <1>1, <1>3 DEF Same
      <3>1. /\ stale \/ table = base
            /\ \A e \in Entries : Sent(e) => e \in base
            /\ \A e \in Entries : e \in Wanted(base) /\ e < walk => Sent(e)
        BY <1>1, <1>2 DEF Inv, Same, Active
      <3>2. CASE pending' = <<>>
        <4>1. /\ stale' = stale /\ walk' = walk /\ ~AllSent'
              /\ \A e : ~Holds(pending', e)
          BY <2>2, <2>10, <3>2, EmptyHolds
        <4> QED BY <2>6, <3>1, <4>1
      <3>3. CASE pending' # <<>>
        <4>1. ~stale /\ table = base
          BY <2>2, <3>1, <3>3
        <4>2. \A e \in Entries : Sent(e)' => e \in base
          BY <2>2, <2>6, <3>1, <4>1
        <4>3. ASSUME NEW e \in Entries, e \in Wanted(base), e < walk' \/ AllSent'
              PROVE  Sent(e)'
          <5>1. e \in table
            BY <4>1, <4>3 DEF Wanted
          <5> QED BY <1>4, <1>6, <2>2, <2>6, <2>10, <3>1, <4>3, <5>1
        <4> QED BY <4>1, <4>2, <4>3
      <3> QED BY <3>2, <3>3
    <2> QED BY <1>5, <2>4, <2>5, <2>8, <2>9, <2>11, <2>12 DEF Inv
  <1>8. CASE ~dumping /\ pending' = <<>> /\ UNCHANGED <<walk, dumping, aborted, stale>>
    <2>1. TypeOK'
      BY <1>1, <1>8, EmptyHolds DEF Inv, TypeOK
    <2>2. Shape'
      BY <1>1, <1>2, <1>8, EmptyHolds DEF Inv, Shape
    <2>3. \A e \in Entries : Sent(e)' <=> Sent(e)
      BY <1>1, <1>2, <1>3, <1>8, EmptyHolds DEF Sent
    <2>4. AllSent' <=> AllSent
      BY <1>1, <1>2, <1>8, EmptyHolds DEF AllSent
    <2>5. Increasing(list)'
      BY <1>1 DEF Inv, Order, Increasing
    <2>6. Order' /\ Genuine'
      BY <1>1, <1>2, <1>3, <1>8, <2>3, <2>5, EmptyHolds DEF Inv, Order, Genuine
    <2>7. Reached' /\ Same'
      BY <1>1, <1>2, <1>3, <1>8, <2>3, <2>4 DEF Inv, Reached, Same, Active
    <2> QED BY <1>5, <2>1, <2>2, <2>6, <2>7 DEF Inv
  <1> QED BY <1>7, <1>8 DEF ReceiveDatagram

\* What a callback returns when it does not fail: the list with the entry, or the same
\* list for an entry that is not wanted.
LEMMA CallbackFacts ==
    ASSUME TypeOK, NEW m \in Message, NEW r \in Callback(list, m), r.error # "failed"
    PROVE  \/ /\ r.list = Append(list, m.entry)
              /\ query \in {"addresses", "routes"} => m.entry \notin OtherFamily
           \/ r.list = list /\ query \in {"addresses", "routes"} /\ m.entry \in OtherFamily
  <1>1. query \in Query
    BY DumpConstants DEF TypeOK
  <1>2. Failed.error = "failed" /\ \A l : Kept(l).list = l
    BY DEF Failed, Kept
  <1>3. ASSUME r \in AppendItem(list, m) PROVE r.list = Append(list, m.entry)
    BY <1>2, <1>3 DEF AppendItem
  <1>4. CASE query = "states"
    BY <1>2, <1>3, <1>4 DEF Callback, ParseXfrmStateMessage
  <1>5. CASE query = "policies"
    BY <1>2, <1>3, <1>5 DEF Callback, ParseXfrmPolicyMessage
  <1>6. CASE query = "interfaces"
    BY <1>2, <1>3, <1>6 DEF Callback, ParseInterfaceMessage
  <1>7. CASE query = "addresses"
    BY <1>2, <1>3, <1>7 DEF Callback, ParseAddressMessage
  <1>8. CASE query = "routes"
    BY <1>2, <1>3, <1>8 DEF Callback, ParseRouteMessage
  <1> QED BY <1>1, <1>4, <1>5, <1>6, <1>7, <1>8 DEF Query

\* A message that is neither flagged nor the last one moves its entry into the list, or
\* drops it when it is not wanted.
LEMMA MoveKeeps ==
    ASSUME Inv, pc = "parse", buffer # <<>>, Head(buffer).type # "done", ~Head(buffer).intr,
           \/ /\ Head(buffer).type = "entry" /\ Head(buffer).entry \in Entries
              /\ list' = Append(list, Head(buffer).entry)
              /\ query \in {"addresses", "routes"} => Head(buffer).entry \notin OtherFamily
           \/ /\ list' = list
              /\ Head(buffer).type = "entry" =>
                    query \in {"addresses", "routes"} /\ Head(buffer).entry \in OtherFamily,
           buffer' = Tail(buffer),
           UNCHANGED <<query, pc, eError, uiDatagramCount, kernelVars, table, changes, tables>>
    PROVE  Inv'
  <1> DEFINE m == Head(buffer)
             moved == m.type = "entry" /\ list' = Append(list, m.entry)
  <1>1. UNCHANGED <<query, pc, eError, uiDatagramCount, walk, dumping, pending, stale, base,
                    aborted, table, changes, tables>>
    BY DEF kernelVars
  <1>2. buffer \in Seq(Message) /\ list \in Seq(Entries) /\ m \in Message
    BY TailOf DEF Inv, TypeOK
  <1>3. Tail(buffer) \in Seq(Message)
    BY <1>2, TailOf
  <1>4. \A e : Holds(buffer, e) <=> Holds(Tail(buffer), e) \/ (m.type = "entry" /\ m.entry = e)
    BY <1>2, HoldsTail
  <1>5. /\ DoneLast(Tail(buffer)) /\ Ascending(Tail(buffer))
        /\ Ends(buffer) <=> Ends(Tail(buffer))
        /\ Flagged(buffer) <=> Flagged(Tail(buffer))
        /\ m.type = "entry" => \A e \in Entries : Holds(Tail(buffer), e) => m.entry < e
    BY <1>2, TailKeeps DEF Inv, Shape, Order
  <1>6. list' \in Seq(Entries)
    <2>1. \A x \in Entries : Append(list, x) \in Seq(Entries)
      BY <1>2
    <2> QED BY <1>2, <2>1
  <1>7. \A e : InList(e)' <=> InList(e) \/ (moved /\ e = m.entry)
    <2>1. CASE list' = list /\ ~moved
      BY <2>1 DEF InList
    <2>2. CASE moved
      <3>1. /\ Len(list') = Len(list) + 1 /\ list'[Len(list) + 1] = m.entry
            /\ \A i \in 1 .. Len(list) : list'[i] = list[i]
            /\ Len(list) \in Nat
        BY <1>2, <2>2
      <3> HIDE DEF m, moved
      <3>2. ASSUME NEW e, InList(e)' PROVE InList(e) \/ e = m.entry
        <4>1. PICK i \in 1 .. Len(list') : list'[i] = e
          BY <3>2 DEF InList
        <4>2. i \in 1 .. Len(list) \/ i = Len(list) + 1
          BY <3>1
        <4> QED BY <3>1, <4>1, <4>2 DEF InList
      <3>3. ASSUME NEW e, InList(e) PROVE InList(e)'
        BY <3>1, <3>3 DEF InList
      <3>4. ASSUME NEW e, e = m.entry PROVE InList(e)'
        BY <3>1, <3>4 DEF InList
      <3> QED BY <2>2, <3>2, <3>3, <3>4
    <2> QED BY <1>2, <2>1, <2>2
  <1>8. /\ \A t : Wanted(t)' = Wanted(t)
        /\ \A e : Lasting(e)' <=> Lasting(e)
        /\ HasGeneration' <=> HasGeneration
        /\ AllSent' <=> AllSent
    BY <1>1, <1>5 DEF Wanted, Lasting, HasGeneration, AllSent
  <1>9. \A e \in Entries : Sent(e)' => Sent(e)
    BY <1>1, <1>4, <1>7 DEF Sent
  <1>10. \A e \in Entries :
            Sent(e) => Sent(e)' \/ (query \in {"addresses", "routes"} /\ e \in OtherFamily)
    <2>1. m.type = "entry" =>
             moved \/ (query \in {"addresses", "routes"} /\ m.entry \in OtherFamily)
      OBVIOUS
    <2> HIDE DEF m, moved
    <2> QED BY <1>1, <1>4, <1>7, <2>1 DEF Sent
  <1>11. TypeOK'
    BY <1>1, <1>3, <1>6 DEF Inv, TypeOK
  <1>12. Shape'
    BY <1>1, <1>5 DEF Inv, Shape
  <1>13. Order'
    <2>1. Increasing(list)'
      <3>1. CASE list' = list
        BY <3>1 DEF Inv, Order, Increasing
      <3>2. CASE moved
        <4>1. /\ Len(list') = Len(list) + 1 /\ list'[Len(list) + 1] = m.entry
              /\ \A i \in 1 .. Len(list) : list'[i] = list[i] /\ list[i] \in Entries
              /\ Len(list) \in Nat
          BY <1>2, <3>2
        <4>2. Holds(buffer, m.entry) /\ m.entry \in Entries
          BY <1>2, <1>4, <3>2
        <4> HIDE DEF m, moved
        <4>3. \A i \in 1 .. Len(list) : InList(list[i])
          BY DEF InList
        <4>4. \A i \in 1 .. Len(list) : list[i] < m.entry
          BY <4>1, <4>2, <4>3 DEF Inv, Order
        <4>5. SUFFICES ASSUME NEW i \in 1 .. Len(list'), NEW j \in 1 .. Len(list'), i < j
                       PROVE  list'[i] < list'[j]
          BY DEF Increasing
        <4>6. i \in 1 .. Len(list) /\ (j \in 1 .. Len(list) \/ j = Len(list) + 1)
          BY <4>1, <4>5
        <4>7. CASE j \in 1 .. Len(list)
          BY <4>1, <4>5, <4>6, <4>7 DEF Inv, Order, Increasing
        <4>8. CASE j = Len(list) + 1
          BY <4>1, <4>4, <4>6, <4>8
        <4> QED BY <4>6, <4>7, <4>8
      <3> QED BY <1>2, <3>1, <3>2
    <2>2. \A e, f \in Entries : InList(e)' /\ Holds(buffer, f)' => e < f
      BY <1>4, <1>5, <1>7 DEF Inv, Order
    <2>3. \A e, f \in Entries : (InList(e)' \/ Holds(buffer, e)') /\ Holds(pending, f)' => e < f
      BY <1>1, <1>4, <1>7 DEF Inv, Order
    <2>4. \A e \in Entries : Sent(e)' => e < walk'
      BY <1>1, <1>9 DEF Inv, Order
    <2> QED BY <1>1, <1>5, <2>1, <2>2, <2>3, <2>4 DEF Inv, Order
  <1>14. Genuine'
    <2>1. \A e \in Entries : InList(e)' => \E t \in tables : e \in Wanted(t)
      <3> SUFFICES ASSUME NEW e \in Entries, moved, e = m.entry
                   PROVE  \E t \in tables : e \in Wanted(t)
        BY <1>7 DEF Inv, Genuine
      <3>1. PICK t \in tables : e \in t
        BY <1>4 DEF Inv, Genuine
      <3>2. query \in {"addresses", "routes"} => e \notin OtherFamily
        <4>1. list' # list
          <5>1. Len(Append(list, m.entry)) = Len(list) + 1 /\ Len(list) \in Nat
            BY <1>2
          <5> QED BY <5>1
        <4> QED BY <4>1
      <3> QED BY <3>1, <3>2 DEF Wanted
    <2>2. \A e \in Entries : Holds(buffer, e)' \/ Holds(pending, e)' => \E t \in tables : e \in t
      BY <1>1, <1>4 DEF Inv, Genuine
    <2> QED BY <1>1, <1>8, <2>1, <2>2 DEF Genuine
  <1>15. Reached'
    <2>1. tables # {}
      BY DEF Inv, Shape
    <2>2. \A e : Lasting(e) => ~(query \in {"addresses", "routes"} /\ e \in OtherFamily)
      BY <2>1 DEF Lasting, Wanted
    <2> QED BY <1>1, <1>8, <1>10, <2>2 DEF Inv, Reached, Active
  <1>16. Same'
    <2>1. \A e : e \in Wanted(base) => ~(query \in {"addresses", "routes"} /\ e \in OtherFamily)
      BY DEF Wanted
    <2> QED BY <1>1, <1>5, <1>8, <1>9, <1>10, <2>1 DEF Inv, Same, Active
  <1>17. (OkIsComplete /\ OkIsSnapshot)'
    BY <1>1 DEF OkIsComplete, OkIsSnapshot, Succeeded
  <1> QED BY <1>11, <1>12, <1>13, <1>14, <1>15, <1>16, <1>17 DEF Inv

\* ParseMessage fails, ends the query, or moves on.
LEMMA ParseKeeps ==
    ASSUME Inv, ParseMessage PROVE Inv'
  <1> DEFINE m == Head(buffer)
  <1>1. pc = "parse" /\ buffer # <<>>
    BY DEF ParseMessage
  <1>2. m \in Message
    BY <1>1, TailOf DEF Inv, TypeOK
  <1>3. /\ Outcome(m) = "complete" => m.type = "done" /\ ~m.intr
        /\ Outcome(m) = "next" => m.type = "ack" /\ ~m.intr
        /\ Outcome(m) = "callback" => m.type = "entry" /\ ~m.intr
    <2>1. m.type \in {"entry", "done", "error", "ack"}
      BY <1>2 DEF Message
    <2> HIDE DEF m
    <2> QED BY <2>1 DEF Outcome
  <1>4. CASE Outcome(m) = "failed" /\ Return("failed", list)
    BY <1>4, FailureKeeps
  <1>5. CASE Outcome(m) = "complete" /\ Return("ok", list)
    BY <1>1, <1>3, <1>5, SuccessKeeps
  <1>6. ASSUME Outcome(m) \in {"next", "callback"},
               NEW r \in IF Outcome(m) = "next" THEN {Kept(list)} ELSE Callback(list, m),
               IF r.error = "failed" THEN Return("failed", list)
               ELSE /\ list' = r.list /\ buffer' = Tail(buffer)
                    /\ UNCHANGED <<query, pc, eError, uiDatagramCount, kernelVars,
                                   table, changes, tables>>
        PROVE  Inv'
    <2>1. CASE r.error = "failed"
      BY <1>6, <2>1, FailureKeeps
    <2>2. CASE r.error # "failed" /\ Outcome(m) = "next"
      <3>1. r.list = list
        BY <1>6, <2>2 DEF Kept
      <3> QED BY <1>1, <1>3, <1>6, <2>2, <3>1, MoveKeeps
    <2>3. CASE r.error # "failed" /\ Outcome(m) = "callback"
      <3>1. r \in Callback(list, m)
        BY <1>6, <2>3
      <3>2. \/ /\ r.list = Append(list, m.entry)
               /\ query \in {"addresses", "routes"} => m.entry \notin OtherFamily
            \/ r.list = list /\ query \in {"addresses", "routes"} /\ m.entry \in OtherFamily
        BY <1>2, <2>3, <3>1, CallbackFacts DEF Inv
      <3>3. m.entry \in Entries
        BY <1>2, <1>3, <2>3 DEF Message
      <3> QED BY <1>1, <1>3, <1>6, <2>3, <3>2, <3>3, MoveKeeps
    <2> QED BY <1>6, <2>1, <2>2, <2>3
  <1> QED BY <1>4, <1>5, <1>6 DEF ParseMessage

\* Nothing is unread at the end of a datagram.
LEMMA EndDatagramKeeps ==
    ASSUME Inv, EndDatagram PROVE Inv'
  <1>1. CASE TooMany(uiDatagramCount + 1)
    BY <1>1, FailureKeeps DEF EndDatagram
  <1>2. CASE ~TooMany(uiDatagramCount + 1)
    <2>1. /\ pc = "parse" /\ pc' = "wait" /\ buffer = <<>>
          /\ uiDatagramCount' = uiDatagramCount + 1
          /\ UNCHANGED <<query, eError, list, buffer, walk, dumping, pending, stale, base,
                         aborted, table, changes, tables>>
      BY <1>2 DEF EndDatagram, kernelVars
    <2>2. TypeOK'
      BY <1>2, <2>1, DumpConstants DEF Inv, TypeOK, TooMany
    <2>3. /\ \A e : InList(e)' <=> InList(e)
          /\ \A e : Sent(e)' <=> Sent(e)
          /\ \A t : Wanted(t)' = Wanted(t)
          /\ \A e : Lasting(e)' <=> Lasting(e)
          /\ HasGeneration' <=> HasGeneration
          /\ AllSent' <=> AllSent
          /\ Increasing(list)' <=> Increasing(list)
      BY <2>1 DEF InList, Sent, Wanted, Lasting, HasGeneration, AllSent, Increasing
    <2>4. Shape' /\ Order' /\ Genuine'
      BY <2>1, <2>3 DEF Inv, Shape, Order, Genuine
    <2>5. Reached' /\ Same'
      BY <2>1, <2>3 DEF Inv, Reached, Same, Active
    <2>6. (OkIsComplete /\ OkIsSnapshot)'
      BY <2>1 DEF OkIsComplete, OkIsSnapshot, Succeeded
    <2> QED BY <2>2, <2>4, <2>5, <2>6 DEF Inv
  <1> QED BY <1>1, <1>2

\* A change of the table adds to what the table was, and is remembered as stale.
LEMMA ChangeKeeps ==
    ASSUME Inv, ChangeTable PROVE Inv'
  <1>1. PICK e \in Entries :
             /\ table' = IF e \in table THEN table \ {e} ELSE table \cup {e}
             /\ tables' = tables \cup {table'}
    BY DEF ChangeTable
  <1>2. /\ pc \in {"wait", "parse"} /\ changes < MaxChanges
        /\ stale' = TRUE /\ changes' = changes + 1
        /\ UNCHANGED <<query, pc, eError, list, buffer, uiDatagramCount, walk, dumping, pending,
                       base, aborted>>
    BY DEF ChangeTable, clientVars
  <1>3. TypeOK'
    <2>1. table' \in SUBSET Entries
      BY <1>1 DEF Inv, TypeOK
    <2>2. base' \in tables' /\ tables' \subseteq SUBSET Entries
      BY <1>1, <1>2, <2>1 DEF Inv, TypeOK
    <2> QED BY <1>2, <2>1, <2>2, DumpConstants DEF Inv, TypeOK
  <1>4. /\ \A f : InList(f)' <=> InList(f)
        /\ \A f : Sent(f)' <=> Sent(f)
        /\ \A t : Wanted(t)' = Wanted(t)
        /\ \A f : Lasting(f)' => Lasting(f)
        /\ HasGeneration' <=> HasGeneration
        /\ AllSent' <=> AllSent
        /\ Increasing(list)' <=> Increasing(list)
    BY <1>1, <1>2 DEF InList, Sent, Wanted, Lasting, HasGeneration, AllSent, Increasing
  <1>5. tables \subseteq tables' /\ table' \in tables'
    BY <1>1
  <1>6. Shape' /\ Order' /\ Genuine'
    BY <1>2, <1>4, <1>5 DEF Inv, Shape, Order, Genuine
  <1>7. Reached' /\ Same'
    BY <1>2, <1>4 DEF Inv, Reached, Same, Active
  <1>8. (OkIsComplete /\ OkIsSnapshot)'
    BY <1>2 DEF OkIsComplete, OkIsSnapshot, Succeeded
  <1> QED BY <1>3, <1>6, <1>7, <1>8 DEF Inv

\* No step breaks the invariant.
LEMMA NextKeeps ==
    ASSUME Inv, [Next]_vars PROVE Inv'
  <1>1. CASE CallFails \/ WaitNetlinkData \/ ReceiveFails
    BY <1>1, FailureKeeps DEF CallFails, WaitNetlinkData, ReceiveFails
  <1>2. CASE SendNetlinkRequest
    BY <1>2, SendKeeps
  <1>3. CASE ReceiveDatagram
    BY <1>3, ReceiveKeeps
  <1>4. CASE ParseMessage
    BY <1>4, ParseKeeps
  <1>5. CASE EndDatagram
    BY <1>5, EndDatagramKeeps
  <1>6. CASE ChangeTable
    BY <1>6, ChangeKeeps
  <1>7. CASE UNCHANGED vars
    <2>1. UNCHANGED <<query, pc, eError, list, buffer, uiDatagramCount, walk, dumping, pending,
                      stale, base, aborted, table, changes, tables>>
      BY <1>7 DEF vars, clientVars, kernelVars
    <2> QED
      BY <2>1 DEF Inv, TypeOK, Shape, Order, Genuine, Reached, Same, OkIsComplete, OkIsSnapshot,
                  Succeeded, Listed, Wanted, HasGeneration, Active, AllSent, Sent, InList,
                  Lasting, Increasing
  <1> QED BY <1>1, <1>2, <1>3, <1>4, <1>5, <1>6, <1>7 DEF Next, Client

\* The invariant holds throughout every query.
LEMMA Invariance == Spec => []Inv
  <1>1. Init => Inv
    BY InitHolds
  <1>2. Inv /\ [Next]_vars => Inv'
    BY NextKeeps
  <1> QED BY <1>1, <1>2, PTL DEF Spec

-----------------------------------------------------------------------------
(* The theorems.                                                           *)

\* The variables of a query keep their types and bounds (ReceiveNetlinkDump).
THEOREM DumpTypes == Spec => []TypeOK
  <1>1. Inv => TypeOK
    BY DEF Inv
  <1> QED BY <1>1, Invariance, PTL

\* A list of links that GetIpsecInterfaces returns is the kernel's table at one moment
\* of the call.
THEOREM ListsAreSnapshots == Spec => []OkIsSnapshot
  <1>1. Inv => OkIsSnapshot
    BY DEF Inv
  <1> QED BY <1>1, Invariance, PTL

\* A list that any of the five queries returns has every lasting entry once, and no
\* entry that the table never had, when the kernel goes on after the last entry sent.
THEOREM ListsAreComplete == Spec => []OkIsComplete
  <1>1. Inv => OkIsComplete
    BY DEF Inv
  <1> QED BY <1>1, Invariance, PTL

=============================================================================
