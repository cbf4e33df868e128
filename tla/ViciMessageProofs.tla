-------------------------- MODULE ViciMessageProofs --------------------------
(***************************************************************************)
(* The parser stays inside the message, and the collectors turn what it    *)
(* reads into the lists that were sent, for every packet length, every     *)
(* length byte, every depth limit and any number of events.                *)
(*                                                                         *)
(* The parser's bounds are not inductive alone.  Each guard of the code    *)
(* compares a length with an unsigned difference, which means what it      *)
(* should only while the offset has not passed the end; so the offset's    *)
(* bound is needed to show the guards right and the guards to show the     *)
(* bound.  A new message needs the offset to be 0 while its packet is      *)
(* decoded.  This is Inv.                                                  *)
(*                                                                         *)
(* The lists are right because the collector always knows where it is: the *)
(* names it has noted are those of the open sections (PlaceInv), and its   *)
(* current record is the record of the open section that has one           *)
(* (CurrentInv).  With that, each element adds to the record that should   *)
(* get it, and to no other, as names in a list increase and so are         *)
(* different (RecordsInv).                                                 *)
(***************************************************************************)
EXTENDS ViciMessage, SequenceTheorems, FiniteSetTheorems, TLAPS

Inv ==
    /\ ParserTypes
    /\ phase = "packet" => uiOffset = 0
    /\ ReadsInside

\* What is left of a message, behind an offset inside it, is the plain difference:
\* the unsigned subtraction does not wrap.
LEMMA LeftInside ==
    ASSUME length \in 0 .. UintRange - 1, NEW from \in Nat, from <= length
    PROVE  Left(from) = length - from
BY MessageConstants DEF Left

\* ReadViciName returns an offset inside the message.
LEMMA NameEndInside ==
    ASSUME length \in 0 .. UintRange - 1, NEW from \in Nat, NEW n \in Nat,
           NameEnd(from, n) # 0
    PROVE  /\ NameEnd(from, n) \in Nat
           /\ NameEnd(from, n) <= length
<1>1. from < length /\ n <= Left(from + 1)
  <2>1. Left(from + 1) \in Nat
    BY MessageConstants DEF Left
  <2> QED BY <2>1 DEF NameEnd
<1>2. Left(from + 1) = length - (from + 1)
  BY <1>1, LeftInside
<1> QED BY <1>1, <1>2 DEF NameEnd

\* ReadViciValue does too, if it began inside.
LEMMA ValueEndInside ==
    ASSUME length \in 0 .. UintRange - 1, NEW from \in Nat, from <= length,
           NEW n \in Nat, ValueEnd(from, n) # 0
    PROVE  /\ ValueEnd(from, n) \in Nat
           /\ ValueEnd(from, n) <= length
<1>1. Left(from) = length - from
  BY LeftInside
<1>2. 2 <= length - from
  BY <1>1 DEF ValueEnd
<1>3. Left(from + 2) = length - (from + 2)
  BY <1>2, LeftInside
<1> QED BY <1>1, <1>2, <1>3 DEF ValueEnd

LEMMA InitInv == Init => Inv
<1> SUFFICES ASSUME Init PROVE Inv
  OBVIOUS
<1>1. packets \in Seq(0 .. UintRange - 1)
  BY MessageConstants, Zenon DEF Init
<1>2. 0 \in 0 .. UintRange - 1 /\ 0 \in 0 .. MaxDepth
  BY MessageConstants
<1>3. ParserTypes
  BY <1>1, <1>2, MessageConstants DEF Init, ParserTypes
<1> QED BY <1>3 DEF Init, Inv, ReadsInside

\* A failed query reads no more.
LEMMA FailInv ==
    ASSUME Inv, Fail
    PROVE  Inv'
BY DEF Inv, ParserTypes, ReadsInside, Fail

\* An element that ends inside the message and changes the depth within its limits.
LEMMA DeliverInv ==
    ASSUME Inv, phase = "message",
           NEW e, NEW end \in Nat, NEW depth \in 0 .. MaxDepth, NEW open \in BOOLEAN,
           end <= length, Deliver(e, end, depth, open)
    PROVE  Inv'
BY DEF Inv, ParserTypes, ReadsInside, Deliver

LEMMA DecodeInv ==
    ASSUME Inv, NEW named \in BOOLEAN, NEW n \in Nat, DecodeViciPacket(named, n)
    PROVE  Inv'
<1> DEFINE offset == IF named THEN NameEnd(1, n) ELSE 1
<1>1. CASE length < 1 \/ offset = 0
  BY <1>1, FailInv DEF DecodeViciPacket
<1>2. CASE ~(length < 1 \/ offset = 0)
  <2>1. length \in 0 .. UintRange - 1 /\ length \in Nat
    BY MessageConstants DEF Inv, ParserTypes
  <2>2. offset \in Nat /\ offset <= length
    <3>1. CASE named
      BY <1>2, <2>1, <3>1, NameEndInside
    <3>2. CASE ~named
      BY <1>2, <2>1, <3>2
    <3> QED BY <3>1, <3>2
  <2>3. length' = length - offset /\ phase' = "message" /\ uiOffset' = 0
        /\ UNCHANGED <<query, packets, eError, uiDepth, bListOpen>>
    BY <1>2 DEF DecodeViciPacket, Inv
  <2>4. length' \in 0 .. UintRange - 1
    BY <2>1, <2>2, <2>3, MessageConstants
  <2> HIDE DEF offset
  <2> QED BY <2>3, <2>4 DEF Inv, ParserTypes, ReadsInside
<1> QED BY <1>1, <1>2

LEMMA SectionStartInv ==
    ASSUME Inv, NEW kind, NEW n \in Nat, SectionStart(kind, n)
    PROVE  Inv'
<1> DEFINE end == NameEnd(uiOffset + 1, n)
           e == [type |-> "section", depth |-> uiDepth + 1, name |-> kind,
                 section |-> Len(tree) + 1]
<1>1. phase = "message" /\ length \in 0 .. UintRange - 1 /\ uiOffset \in Nat
      /\ uiDepth \in 0 .. MaxDepth /\ bListOpen \in BOOLEAN
  BY DEF Inv, ParserTypes, SectionStart, ReadType
<1>2. CASE bListOpen \/ MaxDepth <= uiDepth \/ end = 0
  BY <1>2, FailInv DEF SectionStart
<1>3. CASE ~(bListOpen \/ MaxDepth <= uiDepth \/ end = 0)
  <2>1. end \in Nat /\ end <= length
    BY <1>1, <1>3, NameEndInside
  <2>2. uiDepth + 1 \in 0 .. MaxDepth
    BY <1>1, <1>3, MessageConstants
  <2>3. Deliver(e, end, uiDepth + 1, bListOpen)
    BY <1>3 DEF SectionStart
  <2> HIDE DEF end, e
  <2> QED BY <1>1, <2>1, <2>2, <2>3, DeliverInv
<1> QED BY <1>2, <1>3

LEMMA SectionEndInv ==
    ASSUME Inv, SectionEnd
    PROVE  Inv'
<1> DEFINE e == [type |-> "section_end", depth |-> uiDepth, name |-> NoName,
                 section |-> Inner]
<1>1. phase = "message" /\ length \in 0 .. UintRange - 1 /\ uiOffset \in Nat
      /\ uiDepth \in 0 .. MaxDepth /\ bListOpen \in BOOLEAN /\ uiOffset < length
  BY DEF Inv, ParserTypes, SectionEnd, ReadType
<1>2. CASE bListOpen \/ uiDepth = 0
  BY <1>2, FailInv DEF SectionEnd
<1>3. CASE ~(bListOpen \/ uiDepth = 0)
  <2>1. uiOffset + 1 \in Nat /\ uiOffset + 1 <= length
    BY <1>1
  <2>2. uiDepth - 1 \in 0 .. MaxDepth
    BY <1>1, <1>3, MessageConstants
  <2>3. Deliver(e, uiOffset + 1, uiDepth - 1, bListOpen)
    BY <1>3 DEF SectionEnd
  <2> HIDE DEF e
  <2> QED BY <1>1, <2>1, <2>2, <2>3, DeliverInv
<1> QED BY <1>2, <1>3

LEMMA KeyValueInv ==
    ASSUME Inv, NEW key, NEW n \in Nat, NEW v \in Nat, KeyValue(key, n, v)
    PROVE  Inv'
<1> DEFINE nameEnd == NameEnd(uiOffset + 1, n)
           end == ValueEnd(nameEnd, v)
           e == [type |-> "value", depth |-> uiDepth, name |-> key, section |-> Inner]
<1>1. phase = "message" /\ length \in 0 .. UintRange - 1 /\ uiOffset \in Nat
      /\ uiDepth \in 0 .. MaxDepth /\ bListOpen \in BOOLEAN
  BY DEF Inv, ParserTypes, KeyValue, ReadType
<1>2. CASE bListOpen \/ nameEnd = 0 \/ end = 0
  BY <1>2, FailInv DEF KeyValue
<1>3. CASE ~(bListOpen \/ nameEnd = 0 \/ end = 0)
  <2>1. nameEnd \in Nat /\ nameEnd <= length
    BY <1>1, <1>3, NameEndInside
  <2>2. end \in Nat /\ end <= length
    <3> HIDE DEF nameEnd
    <3> QED BY <1>1, <1>3, <2>1, ValueEndInside
  <2>3. Deliver(e, end, uiDepth, bListOpen)
    BY <1>3 DEF KeyValue
  <2> HIDE DEF end, e
  <2> QED BY <1>1, <2>2, <2>3, DeliverInv
<1> QED BY <1>2, <1>3

LEMMA ListStartInv ==
    ASSUME Inv, NEW name, NEW n \in Nat, ListStart(name, n)
    PROVE  Inv'
<1> DEFINE end == NameEnd(uiOffset + 1, n)
           e == [type |-> "list", depth |-> uiDepth, name |-> name, section |-> Inner]
<1>1. phase = "message" /\ length \in 0 .. UintRange - 1 /\ uiOffset \in Nat
      /\ uiDepth \in 0 .. MaxDepth
  BY DEF Inv, ParserTypes, ListStart, ReadType
<1>2. CASE bListOpen \/ end = 0
  BY <1>2, FailInv DEF ListStart
<1>3. CASE ~(bListOpen \/ end = 0)
  <2>1. end \in Nat /\ end <= length
    BY <1>1, <1>3, NameEndInside
  <2>2. Deliver(e, end, uiDepth, TRUE)
    BY <1>3 DEF ListStart
  <2> HIDE DEF end, e
  <2> QED BY <1>1, <2>1, <2>2, DeliverInv
<1> QED BY <1>2, <1>3

LEMMA ListItemInv ==
    ASSUME Inv, NEW v \in Nat, ListItem(v)
    PROVE  Inv'
<1> DEFINE end == ValueEnd(uiOffset + 1, v)
           e == [type |-> "item", depth |-> uiDepth, name |-> NoName, section |-> Inner]
<1>1. phase = "message" /\ length \in 0 .. UintRange - 1 /\ uiOffset \in Nat
      /\ uiDepth \in 0 .. MaxDepth /\ bListOpen \in BOOLEAN /\ uiOffset < length
  BY DEF Inv, ParserTypes, ListItem, ReadType
<1>2. CASE ~bListOpen \/ end = 0
  BY <1>2, FailInv DEF ListItem
<1>3. CASE ~(~bListOpen \/ end = 0)
  <2>1. uiOffset + 1 \in Nat /\ uiOffset + 1 <= length
    BY <1>1
  <2>2. end \in Nat /\ end <= length
    BY <1>1, <1>3, <2>1, ValueEndInside
  <2>3. Deliver(e, end, uiDepth, bListOpen)
    BY <1>3 DEF ListItem
  <2> HIDE DEF end, e
  <2> QED BY <1>1, <2>2, <2>3, DeliverInv
<1> QED BY <1>2, <1>3

LEMMA ListEndInv ==
    ASSUME Inv, ListEnd
    PROVE  Inv'
<1> DEFINE e == [type |-> "list_end", depth |-> uiDepth, name |-> NoName,
                 section |-> Inner]
<1>1. phase = "message" /\ length \in 0 .. UintRange - 1 /\ uiOffset \in Nat
      /\ uiDepth \in 0 .. MaxDepth /\ uiOffset < length
  BY DEF Inv, ParserTypes, ListEnd, ReadType
<1>2. CASE ~bListOpen
  BY <1>2, FailInv DEF ListEnd
<1>3. CASE bListOpen
  <2>1. uiOffset + 1 \in Nat /\ uiOffset + 1 <= length
    BY <1>1
  <2>2. Deliver(e, uiOffset + 1, uiDepth, FALSE)
    BY <1>3 DEF ListEnd
  <2> HIDE DEF e
  <2> QED BY <1>1, <2>1, <2>2, DeliverInv
<1> QED BY <1>2, <1>3

LEMMA MessageEndInv ==
    ASSUME Inv, MessageEnd
    PROVE  Inv'
<1>1. CASE Fail
  BY <1>1, FailInv
<1>2. CASE phase' = "next" /\ UNCHANGED <<query, packets, eError, length, uiOffset,
                                          uiDepth, bListOpen>>
  BY <1>2 DEF Inv, ParserTypes, ReadsInside
<1> QED BY <1>1, <1>2 DEF MessageEnd

LEMMA NextPacketInv ==
    ASSUME Inv, NextPacket
    PROVE  Inv'
<1>1. CASE packets # <<>>
  <2>1. Head(packets) \in 0 .. UintRange - 1 /\ Tail(packets) \in Seq(0 .. UintRange - 1)
    BY <1>1, HeadTailProperties, Zenon DEF Inv, ParserTypes
  <2>2. /\ phase' = "packet" /\ length' = Head(packets) /\ packets' = Tail(packets)
        /\ uiOffset' = 0 /\ uiDepth' = 0 /\ bListOpen' = FALSE
        /\ UNCHANGED <<query, eError>>
    BY <1>1 DEF NextPacket
  <2>3. packets' \in Seq(0 .. UintRange - 1)
    BY <2>1, <2>2, Zenon
  <2>4. 0 \in 0 .. MaxDepth
    BY MessageConstants
  <2>5. ParserTypes'
    BY <2>1, <2>2, <2>3, <2>4 DEF Inv, ParserTypes
  <2> QED BY <2>2, <2>5 DEF Inv, ReadsInside
<1>2. CASE packets = <<>>
  BY <1>2 DEF NextPacket, Inv, ParserTypes, ReadsInside
<1> QED BY <1>1, <1>2

LEMMA StutterInv ==
    ASSUME Inv, UNCHANGED vars
    PROVE  Inv'
BY DEF Inv, ParserTypes, ReadsInside, vars, parserVars

LEMMA NextInv == Inv /\ [Next]_vars => Inv'
<1> SUFFICES ASSUME Inv, [Next]_vars PROVE Inv'
  OBVIOUS
<1> USE MessageConstants
<1>1. CASE \E named \in BOOLEAN, n \in NameLengths : DecodeViciPacket(named, n)
  BY <1>1, DecodeInv
<1>2. CASE \E kind \in SectionKinds, n \in NameLengths : SectionStart(kind, n)
  BY <1>2, SectionStartInv
<1>3. CASE SectionEnd
  BY <1>3, SectionEndInv
<1>4. CASE \E key \in Keys, n \in NameLengths, v \in ValueLengths : KeyValue(key, n, v)
  BY <1>4, KeyValueInv
<1>5. CASE \E name \in ListNames, n \in NameLengths : ListStart(name, n)
  BY <1>5, ListStartInv
<1>6. CASE \E v \in ValueLengths : ListItem(v)
  BY <1>6, ListItemInv
<1>7. CASE ListEnd
  BY <1>7, ListEndInv
<1>8. CASE ElementRefused
  BY <1>8, FailInv DEF ElementRefused
<1>9. CASE MessageEnd
  BY <1>9, MessageEndInv
<1>10. CASE NextPacket
  BY <1>10, NextPacketInv
<1>11. CASE UNCHANGED vars
  BY <1>11, StutterInv
<1> QED BY <1>1, <1>2, <1>3, <1>4, <1>5, <1>6, <1>7, <1>8, <1>9, <1>10, <1>11 DEF Next

\* No read of ParseViciMessage passes the end of the message, for any packet.
THEOREM ParserReadsInside == Spec => []ReadsInside
<1>1. Inv => ReadsInside
  BY DEF Inv
<1> QED BY InitInv, NextInv, <1>1, PTL DEF Spec

-----------------------------------------------------------------------------
(* The collectors.                                                         *)

\* A section is in one that was started before it, and a value in one that was.
TreeInv ==
    /\ \A s \in 1 .. Len(tree) : tree[s].in \in 0 .. s - 1
    /\ \A v \in sent : v.in \in 0 .. Len(tree)

\* The section names and the list name that the collector has noted are those of
\* the sections and the list that are open, and an event starts outside of all.
PlaceInv ==
    /\ Len(path) = uiDepth
    /\ \A d \in 1 .. uiDepth :
          /\ path[d] \in 1 .. Len(tree)
          /\ tree[path[d]].in = IF d = 1 THEN 0 ELSE path[d - 1]
          /\ c.sections[d] = tree[path[d]].kind
    /\ \A d \in 1 .. MaxDepth : d > uiDepth => c.sections[d] = NoName
    /\ c.listName = list
    /\ ~bListOpen => list = NoName
    /\ phase \in {"next", "packet"} => uiDepth = 0 /\ ~bListOpen

\* The open section that has a record, or 0.
Owner ==
    IF query = "children"
    THEN IF uiDepth >= 3 /\ tree[path[2]].kind = "child-sas" THEN path[3] ELSE 0
    ELSE IF uiDepth >= 1 THEN path[1] ELSE 0

\* The current record is that of the open section that has one.
CurrentInv ==
    /\ c.ikeName = IF query = "conns" \/ uiDepth = 0 THEN 0 ELSE path[1]
    /\ Owner # 0 => c.current # 0 /\ c.items[c.current].name = Owner
    /\ Owner = 0 /\ query # "conns" => c.current = 0

\* The records are those of the sections so far, as CollectedAsSent says.
RecordsInv ==
    /\ Len(c.items) = Cardinality(Owners)
    /\ \A i \in 1 .. Len(c.items) : c.items[i].name \in Owners
    /\ \A i \in 1 .. Len(c.items), s \in Owners :
          c.items[i].name = s => c.items[i] = RecordOf(s)
    /\ \A i, j \in 1 .. Len(c.items) : i < j => c.items[i].name < c.items[j].name

CollectInv ==
    /\ phase # "done" => eError = "ok"
    /\ eError = "ok" => TreeInv /\ PlaceInv /\ CurrentInv /\ RecordsInv

\* A sequence with one element replaced.
LEMMA Replaced ==
    ASSUME NEW S, NEW q \in Seq(S), NEW k \in 1 .. Len(q), NEW v \in S,
           NEW r, r = [q EXCEPT ![k] = v]
    PROVE  /\ r \in Seq(S) /\ Len(r) = Len(q)
           /\ \A i \in 1 .. Len(q) : r[i] = IF i = k THEN v ELSE q[i]
<1>1. Len(q) \in Nat /\ q \in [1 .. Len(q) -> S]
  OBVIOUS
<1>2. r \in [1 .. Len(q) -> S]
  BY <1>1
<1>3. r \in Seq(S)
  BY <1>1, <1>2, SeqDef, Zenon
<1>4. Len(r) = Len(q)
  BY <1>1, <1>2, <1>3
<1> QED BY <1>1, <1>2, <1>3, <1>4

\* Sections that have a record are sections, finitely many.
LEMMA OwnersAreSections ==
    ASSUME CollectorTypes
    PROVE  Owners \subseteq 1 .. Len(tree) /\ IsFiniteSet(Owners)
<1>1. Len(tree) \in Nat
  BY DEF CollectorTypes
<1>2. Owners \subseteq 1 .. Len(tree)
  BY DEF Owners, ChildSections
<1>3. IsFiniteSet(1 .. Len(tree))
  BY <1>1, FS_Interval
<1> QED BY <1>2, <1>3, FS_Subset

\* A step that changes neither the records nor what they should be.
LEMMA RecordsKept ==
    ASSUME CollectorTypes, RecordsInv, c'.items = c.items, Owners' = Owners,
           \A s \in Owners : RecordOf(s)' = RecordOf(s)
    PROVE  RecordsInv'
BY DEF RecordsInv

\* A step that adds to the current record what the record should get.
LEMMA RecordStored ==
    ASSUME CollectorTypes, RecordsInv, NEW k \in Owners, NEW x \in Fields, NEW new,
           c.current # 0, c.items[c.current].name = k,
           new = [c.items[c.current] EXCEPT !.fields = @ \cup {x}],
           c'.items = [c.items EXCEPT ![c.current] = new],
           Owners' = Owners,
           RecordOf(k)' = [RecordOf(k) EXCEPT !.fields = @ \cup {x}],
           \A s \in Owners \ {k} : RecordOf(s)' = RecordOf(s)
    PROVE  RecordsInv'
<1> DEFINE items == c.items
           cur == c.current
<1>1. /\ items \in Seq(Records) /\ cur \in 1 .. Len(items)
      /\ \A i \in 1 .. Len(items) : items[i] \in Records
  BY DEF CollectorTypes, Collectors
<1>2. items[cur] = RecordOf(k)
  BY <1>1 DEF RecordsInv
<1>3. new = RecordOf(k)' /\ new.name = k /\ new \in Records
  <2>1. new = RecordOf(k)'
    BY <1>2
  <2>2. items[cur] \in Records
    BY <1>1
  <2>3. new.name = items[cur].name /\ new \in Records
    BY <2>2 DEF Records
  <2> QED BY <2>1, <2>3
<1>4. c'.items = [items EXCEPT ![cur] = new]
  OBVIOUS
<1>5. /\ Len(c'.items) = Len(items)
      /\ \A i \in 1 .. Len(items) : c'.items[i] = IF i = cur THEN new ELSE items[i]
  <2> DEFINE after == c'.items
  <2>1. after = [items EXCEPT ![cur] = new]
    BY <1>4
  <2> HIDE DEF items, cur, after
  <2>2. /\ Len(after) = Len(items)
        /\ \A i \in 1 .. Len(items) : after[i] = IF i = cur THEN new ELSE items[i]
    BY ONLY <1>1, <1>3, <2>1, Replaced
  <2> QED BY <2>2 DEF after
<1>6. \A i \in 1 .. Len(items) : c'.items[i].name = items[i].name
  BY <1>3, <1>5
<1>7. \A i \in 1 .. Len(items) : items[i].name = k => i = cur
  <2> SUFFICES ASSUME NEW i \in 1 .. Len(items), items[i].name = k, i # cur PROVE FALSE
    OBVIOUS
  <2>1. k \in Nat
    BY <1>1 DEF Records
  <2>2. i < cur \/ cur < i
    BY <1>1
  <2> QED BY <1>1, <2>1, <2>2 DEF RecordsInv
<1>8. \A i \in 1 .. Len(items), s \in Owners :
         c'.items[i].name = s => c'.items[i] = RecordOf(s)'
  <2> SUFFICES ASSUME NEW i \in 1 .. Len(items), NEW s \in Owners, items[i].name = s
               PROVE  c'.items[i] = RecordOf(s)'
    BY <1>6
  <2>1. CASE i = cur
    BY <2>1, <1>3, <1>5
  <2>2. CASE i # cur
    <3>1. s # k
      BY <2>2, <1>7
    <3>2. items[i] = RecordOf(s)
      BY DEF RecordsInv
    <3> QED BY <2>2, <3>1, <3>2, <1>5
  <2> QED BY <2>1, <2>2
<1> QED BY <1>5, <1>6, <1>8 DEF RecordsInv

\* A step that starts section n, which has a record.
LEMMA RecordAppended ==
    ASSUME CollectorTypes, RecordsInv, NEW r, NEW n, n = Len(tree) + 1,
           r.name = n, c'.items = Append(c.items, r),
           Owners' = Owners \cup {n}, RecordOf(n)' = r,
           \A s \in Owners : RecordOf(s)' = RecordOf(s)
    PROVE  RecordsInv'
<1> DEFINE items == c.items
<1>1. /\ items \in Seq(Records) /\ Len(tree) \in Nat
      /\ \A i \in 1 .. Len(items) : items[i] \in Records
  BY DEF CollectorTypes, Collectors
<1>2. \A s \in Owners : s \in Nat /\ s < n
  BY <1>1, OwnersAreSections
<1>3. Len(c'.items) = Cardinality(Owners')
  <2>1. Cardinality(Owners \cup {n}) = Cardinality(Owners) + 1
    <3>1. n \notin Owners
      BY <1>1, <1>2
    <3> QED BY <3>1, OwnersAreSections, FS_AddElement
  <2>2. Len(Append(items, r)) = Len(items) + 1
    BY <1>1
  <2> QED BY <2>1, <2>2 DEF RecordsInv
<1>4. /\ Len(c'.items) = Len(items) + 1 /\ Len(items) \in Nat
      /\ \A i \in 1 .. Len(c'.items) :
            c'.items[i] = IF i = Len(items) + 1 THEN r ELSE items[i]
  <2> HIDE DEF items
  <2>1. c'.items = Append(items, r)
    BY DEF items
  <2> QED BY <1>1, <2>1
<1>5. \A i \in 1 .. Len(c'.items) : c'.items[i].name \in Owners'
  BY <1>1, <1>4 DEF RecordsInv
<1>6. \A i \in 1 .. Len(c'.items), s \in Owners' :
         c'.items[i].name = s => c'.items[i] = RecordOf(s)'
  <2> SUFFICES ASSUME NEW i \in 1 .. Len(c'.items), NEW s \in Owners', c'.items[i].name = s
               PROVE  c'.items[i] = RecordOf(s)'
    OBVIOUS
  <2>1. CASE i = Len(items) + 1
    BY <2>1, <1>4
  <2>2. CASE i # Len(items) + 1
    <3>1. i \in 1 .. Len(items) /\ c'.items[i] = items[i]
      BY <2>2, <1>4
    <3>2. s \in Owners
      BY <3>1 DEF RecordsInv
    <3> QED BY <3>1, <3>2 DEF RecordsInv
  <2> QED BY <2>1, <2>2
<1>7. \A i, j \in 1 .. Len(c'.items) : i < j => c'.items[i].name < c'.items[j].name
  <2> SUFFICES ASSUME NEW i \in 1 .. Len(c'.items), NEW j \in 1 .. Len(c'.items), i < j
               PROVE  c'.items[i].name < c'.items[j].name
    OBVIOUS
  <2>1. i \in 1 .. Len(items) /\ c'.items[i] = items[i] /\ items[i].name \in Owners
    BY <1>4 DEF RecordsInv
  <2>2. CASE j = Len(items) + 1
    BY <2>1, <2>2, <1>2, <1>4
  <2>3. CASE j # Len(items) + 1
    BY <2>1, <2>3, <1>4 DEF RecordsInv
  <2> QED BY <2>2, <2>3
<1> QED BY <1>3, <1>5, <1>6, <1>7 DEF RecordsInv

-----------------------------------------------------------------------------
(* What an element changes in the collector.                               *)

\* The section that starts at depth d gets a record.
Opens(d) ==
    IF query = "children" THEN d = 3 /\ c.sections[2] = "child-sas" ELSE d = 1

\* The section that starts at depth d is noted in the record of its connection.
Noted(d) == query = "conns" /\ d = 3 /\ c.sections[2] = "children"

Added(r, x) == [r EXCEPT !.fields = @ \cup {x}]

Put(q, i, r) == [q EXCEPT ![i] = r]

\* The current record gets x, if there is one.
Stores(x) ==
    /\ c'.current = c.current
    /\ c.current = 0 => c'.items = c.items
    /\ c.current # 0 =>
          c'.items = Put(c.items, c.current, Added(c.items[c.current], x))

LEMMA StoreEffect ==
    ASSUME NEW col \in Collectors, col.current <= Len(col.items), NEW name \in Names,
           NEW in \in Nat, NEW s, s = Store(col, name, in), NEW x,
           x = [name |-> name, in |-> in]
    PROVE  /\ s \in Collectors
           /\ s.sections = col.sections /\ s.ikeName = col.ikeName
           /\ s.listName = col.listName /\ s.current = col.current
           /\ Len(s.items) = Len(col.items)
           /\ col.current = 0 => s.items = col.items
           /\ col.current # 0 =>
                s.items = Put(col.items, col.current, Added(col.items[col.current], x))
<1>1. CASE col.current = 0
  BY <1>1 DEF Store
<1>2. CASE col.current # 0
  <2> DEFINE cur == col.current
             items == col.items
             old == items[cur]
             new == [old EXCEPT !.fields = @ \cup {x}]
             after == [items EXCEPT ![cur] = new]
  <2>1. items \in Seq(Records) /\ cur \in 1 .. Len(items) /\ old \in Records
    BY <1>2 DEF Collectors
  <2>2. x \in Fields
    BY DEF Fields
  <2>3. new \in Records
    <3> HIDE DEF old
    <3> QED BY <2>1, <2>2 DEF Records
  <2>4. s = [col EXCEPT !.items = after]
    BY <1>2 DEF Store
  <2>5. after \in Seq(Records) /\ Len(after) = Len(items)
    <3> HIDE DEF items, cur, new
    <3> QED BY <2>1, <2>3, Replaced
  <2>6. s.items = after
    <3> HIDE DEF after
    <3> QED BY <2>4 DEF Collectors
  <2>7. /\ s \in Collectors
        /\ s.sections = col.sections /\ s.ikeName = col.ikeName
        /\ s.listName = col.listName /\ s.current = col.current
    <3> HIDE DEF after
    <3> QED BY <2>4, <2>5 DEF Collectors
  <2> QED BY <1>2, <2>5, <2>6, <2>7 DEF Put, Added
<1> QED BY <1>1, <1>2

LEMMA AppendEffect ==
    ASSUME NEW col \in Collectors, NEW r \in Records, NEW s, s = Append_(col, r)
    PROVE  /\ s \in Collectors
           /\ s.sections = col.sections /\ s.ikeName = col.ikeName
           /\ s.listName = col.listName
           /\ s.current = Len(col.items) + 1 /\ s.items = Append(col.items, r)
           /\ Len(s.items) = Len(col.items) + 1
<1>1. Append(col.items, r) \in Seq(Records) /\ Len(col.items) \in Nat
      /\ Len(Append(col.items, r)) = Len(col.items) + 1
  BY DEF Collectors
<1> DEFINE after == Append(col.items, r)
<1>2. s = [col EXCEPT !.items = after, !.current = Len(col.items) + 1]
  BY DEF Append_
<1>3. after \in Seq(Records) /\ Len(col.items) + 1 \in Nat
  BY <1>1
<1> HIDE DEF after
<1>4. /\ s \in Collectors
      /\ s.sections = col.sections /\ s.ikeName = col.ikeName
      /\ s.listName = col.listName
      /\ s.current = Len(col.items) + 1 /\ s.items = after
  BY <1>2, <1>3 DEF Collectors
<1> QED BY <1>1, <1>4 DEF after

\* The start of section n at depth d.
LEMMA StartEffect ==
    ASSUME query \in {"ikes", "children", "conns"}, c \in Collectors,
           c.current <= Len(c.items),
           NEW d \in 1 .. MaxDepth, NEW kind \in Names, NEW n \in Nat,
           NEW e, e = [type |-> "section", depth |-> d, name |-> kind, section |-> n],
           NEW r, r = [name |-> n, ike |-> IF query = "children" THEN c.ikeName ELSE 0,
                       fields |-> {}],
           c' = Collect(e)
    PROVE  /\ c' \in Collectors /\ c'.current <= Len(c'.items)
           /\ c'.sections = [c.sections EXCEPT ![d] = kind]
           /\ c'.listName = c.listName
           /\ c'.ikeName = IF d = 1 /\ query # "conns" THEN n ELSE c.ikeName
           /\ Opens(d) => c'.items = Append(c.items, r) /\ c'.current = Len(c.items) + 1
           /\ Noted(d) => Stores([name |-> "child", in |-> n])
           /\ ~Opens(d) /\ ~Noted(d) => c'.items = c.items /\ c'.current = c.current
<1> DEFINE named == [c EXCEPT !.sections[e.depth] = e.name]
           x == [name |-> "child", in |-> n]
<1>1. e.depth = d /\ e.name = kind /\ e.section = n /\ e.type = "section"
  OBVIOUS
<1>2. /\ named \in Collectors
      /\ named.sections = [c.sections EXCEPT ![d] = kind]
      /\ named.ikeName = c.ikeName /\ named.listName = c.listName
      /\ named.current = c.current /\ named.items = c.items
  <2>1. named = [c EXCEPT !.sections[d] = kind]
    BY <1>1
  <2> HIDE DEF named
  <2> QED BY <2>1 DEF Collectors
<1>3. d = 3 => named.sections[2] = c.sections[2]
  BY <1>2 DEF Collectors
<1>4. r \in Records
  BY DEF Records, Collectors
<1>5. Len(c.items) \in Nat /\ c.current \in Nat
  BY DEF Collectors
<1>6. CASE query = "conns"
  <2>1. c' = ConnectionSectionStart(c, e)
    BY <1>1, <1>6 DEF Collect, CollectConnectionElement
  <2>2. CASE d = 1
    <3>1. r = [name |-> e.section, ike |-> 0, fields |-> {}]
      BY <1>1, <1>6
    <3>2. c' = Append_(named, r)
      <4>1. c' = Append_(named, [name |-> e.section, ike |-> 0, fields |-> {}])
        BY <1>1, <2>1, <2>2 DEF ConnectionSectionStart
      <4> QED BY <3>1, <4>1, Zenon
    <3> HIDE DEF named
    <3>3. /\ c' \in Collectors
          /\ c'.sections = named.sections /\ c'.ikeName = named.ikeName
          /\ c'.listName = named.listName
          /\ c'.current = Len(named.items) + 1 /\ c'.items = Append(named.items, r)
          /\ Len(c'.items) = Len(named.items) + 1
      BY ONLY <3>2, <1>2, <1>4, AppendEffect
    <3> QED BY <1>2, <1>5, <1>6, <2>2, <3>3 DEF Opens, Noted
  <2>3. CASE d = 3 /\ c.sections[2] = "children"
    <3>1. c' = Store(named, "child", n)
      BY <1>1, <1>3, <2>1, <2>3 DEF ConnectionSectionStart
    <3>2. x = [name |-> "child", in |-> n]
      OBVIOUS
    <3> HIDE DEF named, x
    <3>5. named.current <= Len(named.items)
      BY <1>2
    <3>6. "child" \in Names
      BY DEF Names
    <3>3. /\ c' \in Collectors
          /\ c'.sections = named.sections /\ c'.ikeName = named.ikeName
          /\ c'.listName = named.listName /\ c'.current = named.current
          /\ Len(c'.items) = Len(named.items)
          /\ named.current = 0 => c'.items = named.items
          /\ named.current # 0 =>
               c'.items = Put(named.items, named.current,
                              Added(named.items[named.current], x))
      BY ONLY n \in Nat, <1>2, <3>1, <3>2, <3>5, <3>6, StoreEffect
    <3>4. Stores(x)
      BY <1>2, <3>3 DEF Stores
    <3> QED BY <1>2, <1>5, <1>6, <2>3, <3>3, <3>4 DEF Opens, Noted, x
  <2>4. CASE d # 1 /\ ~(d = 3 /\ c.sections[2] = "children")
    <3>1. c' = named
      BY <1>1, <1>3, <2>1, <2>4 DEF ConnectionSectionStart
    <3> QED BY <1>2, <1>5, <1>6, <2>4, <3>1 DEF Opens, Noted
  <2> QED BY <2>2, <2>3, <2>4
<1>7. CASE query # "conns"
  <2>1. c' = CollectSaSectionStart(c, e)
    BY <1>1, <1>7 DEF Collect, CollectSaElement
  <2>2. CASE d = 1
    <3> DEFINE in == [named EXCEPT !.ikeName = e.section]
    <3>1. /\ in \in Collectors /\ in.sections = named.sections /\ in.ikeName = n
          /\ in.listName = named.listName /\ in.current = named.current
          /\ in.items = named.items
      <4> HIDE DEF named
      <4> QED BY <1>1, <1>2 DEF Collectors
    <3>2. c' = IF query = "ikes"
               THEN Append_(in, [name |-> e.section, ike |-> 0, fields |-> {}]) ELSE in
      BY <1>1, <2>1, <2>2 DEF CollectSaSectionStart
    <3> HIDE DEF in, named
    <3>3. CASE query = "ikes"
      <4>1. c' = Append_(in, r)
        BY <1>1, <3>2, <3>3
      <4>2. /\ c' \in Collectors
            /\ c'.sections = in.sections /\ c'.ikeName = in.ikeName
            /\ c'.listName = in.listName
            /\ c'.current = Len(in.items) + 1 /\ c'.items = Append(in.items, r)
            /\ Len(c'.items) = Len(in.items) + 1
        BY ONLY <4>1, <3>1, <1>4, AppendEffect
      <4> QED BY <1>2, <1>5, <1>7, <2>2, <3>1, <3>3, <4>2 DEF Opens, Noted
    <3>4. CASE query # "ikes"
      BY <1>2, <1>5, <1>7, <2>2, <3>1, <3>2, <3>4 DEF Opens, Noted
    <3> QED BY <3>3, <3>4
  <2>3. CASE d = 3 /\ c.sections[2] = "child-sas" /\ query = "children"
    <3>1. r = [name |-> e.section, ike |-> named.ikeName, fields |-> {}]
      BY <1>1, <1>2, <2>3
    <3>2. c' = Append_(named, r)
      BY <1>1, <1>3, <2>1, <2>3, <3>1 DEF CollectSaSectionStart
    <3> HIDE DEF named
    <3>3. /\ c' \in Collectors
          /\ c'.sections = named.sections /\ c'.ikeName = named.ikeName
          /\ c'.listName = named.listName
          /\ c'.current = Len(named.items) + 1 /\ c'.items = Append(named.items, r)
          /\ Len(c'.items) = Len(named.items) + 1
      BY ONLY <3>2, <1>2, <1>4, AppendEffect
    <3> QED BY <1>2, <1>5, <1>7, <2>3, <3>3 DEF Opens, Noted
  <2>4. CASE d # 1 /\ ~(d = 3 /\ c.sections[2] = "child-sas" /\ query = "children")
    <3>1. c' = named
      BY <1>1, <1>3, <2>1, <2>4 DEF CollectSaSectionStart
    <3> QED BY <1>2, <1>5, <1>7, <2>4, <3>1 DEF Opens, Noted
  <2> QED BY <2>2, <2>3, <2>4
<1> QED BY <1>6, <1>7

\* The end of a section at depth d.
LEMMA EndEffect ==
    ASSUME query \in {"ikes", "children", "conns"}, c \in Collectors,
           c.current <= Len(c.items), NEW d \in 1 .. MaxDepth, NEW k,
           NEW e, e = [type |-> "section_end", depth |-> d, name |-> NoName, section |-> k],
           c' = Collect(e)
    PROVE  /\ c' \in Collectors /\ c'.current <= Len(c'.items)
           /\ c'.sections = [c.sections EXCEPT ![d] = NoName]
           /\ c'.listName = c.listName /\ c'.items = c.items
           /\ c'.ikeName = IF d = 1 /\ query # "conns" THEN 0 ELSE c.ikeName
           /\ c'.current = IF \/ query = "children" /\ d = 3
                              \/ query = "ikes" /\ d = 1
                           THEN 0 ELSE c.current
<1>1. e.depth = d /\ e.type = "section_end" /\ NoName \in Names
  BY DEF Names
<1>2. Len(c.items) \in Nat
  BY DEF Collectors
<1>3. CASE query = "conns"
  <2>1. c' = [c EXCEPT !.sections[d] = NoName]
    BY <1>1, <1>3 DEF Collect, CollectConnectionElement
  <2> QED BY <1>1, <1>2, <1>3, <2>1 DEF Collectors
<1>4. CASE query # "conns"
  <2> DEFINE ike == IF e.depth = 1 THEN 0 ELSE c.ikeName
             cur == IF \/ query = "children" /\ e.depth = 3
                       \/ query = "ikes" /\ e.depth = 1
                    THEN 0 ELSE c.current
             sections == [c.sections EXCEPT ![e.depth] = NoName]
  <2>1. c' = [c EXCEPT !.sections = sections, !.ikeName = ike, !.current = cur]
    <3>1. c' = SaSectionEnd(c, e)
      BY <1>1, <1>4 DEF Collect, CollectSaElement
    <3> QED BY <3>1 DEF SaSectionEnd
  <2>2. /\ sections = [c.sections EXCEPT ![d] = NoName]
        /\ sections \in [1 .. MaxDepth -> Names]
    BY <1>1 DEF Collectors
  <2>3. /\ ike = IF d = 1 /\ query # "conns" THEN 0 ELSE c.ikeName
        /\ ike \in Nat
    BY <1>1, <1>4 DEF Collectors
  <2>4. /\ cur = IF (query = "children" /\ d = 3) \/ (query = "ikes" /\ d = 1)
                 THEN 0 ELSE c.current
        /\ cur \in Nat /\ cur <= Len(c.items)
    <3>1. c.current \in Nat
      BY DEF Collectors
    <3>2. CASE (query = "children" /\ d = 3) \/ (query = "ikes" /\ d = 1)
      BY <1>1, <1>2, <3>2
    <3>3. CASE ~((query = "children" /\ d = 3) \/ (query = "ikes" /\ d = 1))
      BY <1>1, <3>1, <3>3
    <3> QED BY <3>2, <3>3
  <2> HIDE DEF ike, cur, sections
  <2>5. /\ c' \in Collectors /\ c'.items = c.items /\ c'.current = cur
        /\ c'.sections = sections /\ c'.listName = c.listName /\ c'.ikeName = ike
    BY <2>1, <2>2, <2>3, <2>4 DEF Collectors
  <2>6. c'.current <= Len(c'.items)
    BY <2>4, <2>5
  <2> QED BY <2>2, <2>3, <2>4, <2>5, <2>6
<1> QED BY <1>3, <1>4

\* The name under which a value of that key is stored at depth d, or NoName.
ValueName(d, key) ==
    IF query = "conns"
    THEN CASE d = 1 /\ key = "rekey_time" -> key
           [] d = 2 /\ key = "id" /\ c.sections[2] \in {"local", "remote"} -> c.sections[2]
           [] OTHER -> NoName
    ELSE IF /\ key = "state"
            /\ \/ query = "ikes" /\ d = 1
               \/ query = "children" /\ d = 3 /\ c.sections[2] = "child-sas"
         THEN key ELSE NoName

\* The name under which a list item is stored at depth d, or NoName.
ItemName(d) ==
    IF /\ c.listName = "wanted"
       /\ \/ query = "children" /\ d = 3
          \/ query = "conns" /\ d = 1
    THEN "wanted" ELSE NoName

\* The collector stores a value of section k under that name, or skips it.
StoresAs(name, k) ==
    /\ c' \in Collectors /\ c'.current <= Len(c'.items)
    /\ c'.sections = c.sections /\ c'.ikeName = c.ikeName /\ c'.listName = c.listName
    /\ name = NoName => c'.items = c.items /\ c'.current = c.current
    /\ name # NoName => Stores([name |-> name, in |-> k])

LEMMA StoredAs ==
    ASSUME c \in Collectors, c.current <= Len(c.items), NEW name \in Names \ {NoName},
           NEW k \in Nat, c' = Store(c, name, k)
    PROVE  StoresAs(name, k)
<1> DEFINE x == [name |-> name, in |-> k]
<1>1. x = [name |-> name, in |-> k] /\ name \in Names /\ name # NoName
  OBVIOUS
<1>2. Len(c.items) \in Nat
  BY DEF Collectors
<1> HIDE DEF x
<1>3. /\ c' \in Collectors
      /\ c'.sections = c.sections /\ c'.ikeName = c.ikeName
      /\ c'.listName = c.listName /\ c'.current = c.current
      /\ Len(c'.items) = Len(c.items)
      /\ c.current = 0 => c'.items = c.items
      /\ c.current # 0 => c'.items = Put(c.items, c.current, Added(c.items[c.current], x))
  BY ONLY c \in Collectors, c.current <= Len(c.items), k \in Nat, c' = Store(c, name, k),
          <1>1, StoreEffect
<1>4. Stores(x)
  BY <1>3 DEF Stores
<1> QED BY <1>1, <1>3, <1>4 DEF StoresAs

LEMMA SkippedAs ==
    ASSUME c \in Collectors, c.current <= Len(c.items), NEW k, c' = c
    PROVE  StoresAs(NoName, k)
BY DEF StoresAs

\* A value of section k at depth d.
LEMMA ValueEffect ==
    ASSUME query \in {"ikes", "children", "conns"}, c \in Collectors,
           c.current <= Len(c.items), NEW d \in 0 .. MaxDepth, NEW key \in Names,
           NEW k \in Nat,
           NEW e, e = [type |-> "value", depth |-> d, name |-> key, section |-> k],
           c' = Collect(e)
    PROVE  StoresAs(ValueName(d, key), k)
<1> DEFINE name == ValueName(d, key)
<1>1. e.depth = d /\ e.type = "value" /\ e.name = key /\ e.section = k
  OBVIOUS
<1>2. name \in Names
  BY DEF ValueName, Names, Collectors
<1>3. c' = IF name = NoName THEN c ELSE Store(c, name, k)
  <2>1. CASE query = "conns"
    <3>1. c' = ConnectionValue(c, e)
      BY <1>1, <2>1 DEF Collect, CollectConnectionElement
    <3>2. CASE d = 1 /\ key = "rekey_time"
      <4>1. name = key /\ name # NoName
        BY <2>1, <3>2 DEF ValueName, NoName
      <4>2. c' = Store(c, e.name, e.section)
        BY <1>1, <3>1, <3>2 DEF ConnectionValue
      <4> QED BY <1>1, <4>1, <4>2
    <3>3. CASE d = 2 /\ key = "id" /\ c.sections[2] \in {"local", "remote"}
      <4>1. name = c.sections[2] /\ name # NoName
        BY <2>1, <3>3 DEF ValueName, NoName
      <4>2. c' = Store(c, c.sections[2], e.section)
        BY <1>1, <3>1, <3>3 DEF ConnectionValue
      <4> QED BY <1>1, <4>1, <4>2
    <3>4. CASE /\ ~(d = 1 /\ key = "rekey_time")
               /\ ~(d = 2 /\ key = "id" /\ c.sections[2] \in {"local", "remote"})
      BY <1>1, <2>1, <3>1, <3>4 DEF ConnectionValue, ValueName
    <3> QED BY <3>2, <3>3, <3>4
  <2>2. CASE query # "conns"
    <3>1. c' = CollectSaValue(c, e)
      BY <1>1, <2>2 DEF Collect, CollectSaElement
    <3> QED BY <1>1, <2>2, <3>1 DEF CollectSaValue, ValueName, NoName
  <2> QED BY <2>1, <2>2
<1> HIDE DEF name
<1>4. StoresAs(name, k)
  BY <1>2, <1>3, StoredAs, SkippedAs
<1> QED BY <1>4 DEF name

\* An item of a list in section k at depth d.
LEMMA ItemEffect ==
    ASSUME query \in {"ikes", "children", "conns"}, c \in Collectors,
           c.current <= Len(c.items), NEW d \in 0 .. MaxDepth, NEW k \in Nat,
           NEW e, e = [type |-> "item", depth |-> d, name |-> NoName, section |-> k],
           c' = Collect(e)
    PROVE  StoresAs(ItemName(d), k)
<1> DEFINE name == ItemName(d)
<1>1. e.depth = d /\ e.type = "item" /\ e.section = k
  OBVIOUS
<1>2. name \in Names
  BY DEF ItemName, Names
<1>3. c' = IF name = NoName THEN c ELSE Store(c, name, k)
  <2>1. CASE query = "conns"
    BY <1>1, <2>1 DEF Collect, CollectConnectionElement, ItemName, NoName
  <2>2. CASE query # "conns"
    <3>1. c' = IF e.depth = 3 /\ query = "children" /\ c.listName = "wanted"
               THEN Store(c, c.listName, e.section) ELSE c
      BY <1>1, <2>2 DEF Collect, CollectSaElement
    <3>2. CASE d = 3 /\ query = "children" /\ c.listName = "wanted"
      <4>1. name = "wanted" /\ name # NoName
        BY <3>2 DEF ItemName, NoName
      <4>2. c' = Store(c, "wanted", k)
        BY <1>1, <3>1, <3>2
      <4> QED BY <4>1, <4>2
    <3>3. CASE ~(d = 3 /\ query = "children" /\ c.listName = "wanted")
      BY <1>1, <2>2, <3>1, <3>3 DEF ItemName, NoName
    <3> QED BY <3>2, <3>3
  <2> QED BY <2>1, <2>2
<1> HIDE DEF name
<1>4. StoresAs(name, k)
  BY <1>2, <1>3, StoredAs, SkippedAs
<1> QED BY <1>4 DEF name

\* The start or the end of a list.
LEMMA ListEffect ==
    ASSUME query \in {"ikes", "children", "conns"}, c \in Collectors,
           c.current <= Len(c.items), NEW d, NEW name \in Names, NEW k, NEW type,
           \/ type = "list"
           \/ type = "list_end" /\ name = NoName,
           NEW e, e = [type |-> type, depth |-> d, name |-> name, section |-> k],
           c' = Collect(e)
    PROVE  /\ c' \in Collectors /\ c'.current <= Len(c'.items)
           /\ c'.sections = c.sections /\ c'.ikeName = c.ikeName /\ c'.listName = name
           /\ c'.items = c.items /\ c'.current = c.current
<1>1. e.type = type /\ e.name = name
  OBVIOUS
<1>2. c' = [c EXCEPT !.listName = name]
  <2>1. CASE query = "conns"
    BY <1>1, <2>1 DEF Collect, CollectConnectionElement
  <2>2. CASE query # "conns"
    BY <1>1, <2>2 DEF Collect, CollectSaElement
  <2> QED BY <2>1, <2>2
<1> QED BY <1>2 DEF Collectors

-----------------------------------------------------------------------------
(* The open sections and the records they belong to.                       *)

Collecting == ParserTypes /\ CollectorTypes /\ TreeInv /\ PlaceInv /\ CurrentInv /\ RecordsInv

\* The open sections are in one another, down to the one that elements are in now.
LEMMA PathFacts ==
    ASSUME ParserTypes, CollectorTypes, TreeInv, PlaceInv
    PROVE  /\ uiDepth \in Nat /\ Len(tree) \in Nat
           /\ Inner = IF uiDepth = 0 THEN 0 ELSE path[uiDepth]
           /\ Inner \in 0 .. Len(tree)
           /\ \A d \in 1 .. uiDepth : path[d] \in 1 .. Len(tree)
           /\ uiDepth >= 1 => tree[path[1]].in = 0
           /\ uiDepth >= 2 => tree[path[2]].in = path[1]
           /\ uiDepth >= 3 => tree[path[3]].in = path[2]
           /\ uiDepth >= 4 => tree[Inner].in = path[uiDepth - 1]
<1>1. uiDepth \in Nat /\ Len(tree) \in Nat /\ path \in Seq(Nat) /\ Len(path) = uiDepth
  BY MessageConstants DEF ParserTypes, CollectorTypes, PlaceInv
<1>2. \A d \in 1 .. uiDepth : /\ path[d] \in 1 .. Len(tree)
                              /\ tree[path[d]].in = IF d = 1 THEN 0 ELSE path[d - 1]
  BY DEF PlaceInv
<1>3. Inner = IF uiDepth = 0 THEN 0 ELSE path[uiDepth]
  <2>1. path = <<>> <=> Len(path) = 0
    BY <1>1
  <2> QED BY <1>1, <2>1 DEF Inner
<1>4. Inner \in 0 .. Len(tree)
  BY <1>1, <1>2, <1>3
<1>5. /\ uiDepth >= 1 => tree[path[1]].in = 0
      /\ uiDepth >= 2 => tree[path[2]].in = path[1]
      /\ uiDepth >= 3 => tree[path[3]].in = path[2]
      /\ uiDepth >= 4 => tree[path[uiDepth]].in = path[uiDepth - 1]
  BY <1>1, <1>2
<1> QED BY <1>1, <1>2, <1>3, <1>4, <1>5

\* An open section has a record if it is deep enough, in the right place.
LEMMA InnerOwner ==
    ASSUME ParserTypes, CollectorTypes, TreeInv, PlaceInv
    PROVE  /\ Owner # 0 => Owner \in Owners
           /\ Inner \in Owners <=> IF query = "children"
                                   THEN uiDepth = 3 /\ c.sections[2] = "child-sas"
                                   ELSE uiDepth = 1
           /\ Inner \in Owners => Owner = Inner
<1>1. /\ uiDepth \in Nat /\ Len(tree) \in Nat
      /\ Inner = IF uiDepth = 0 THEN 0 ELSE path[uiDepth]
      /\ \A d \in 1 .. uiDepth : path[d] \in 1 .. Len(tree)
      /\ uiDepth >= 1 => tree[path[1]].in = 0
      /\ uiDepth >= 2 => tree[path[2]].in = path[1]
      /\ uiDepth >= 3 => tree[path[3]].in = path[2]
      /\ uiDepth >= 4 => tree[Inner].in = path[uiDepth - 1]
  BY PathFacts
<1>2. uiDepth >= 2 => c.sections[2] = tree[path[2]].kind
  BY <1>1 DEF PlaceInv
<1>3. CASE query = "children"
  <2>1. ChildSection = "child-sas"
    BY <1>3 DEF ChildSection
  <2>2. CASE uiDepth = 0
    BY <1>1, <1>3, <2>2 DEF Owner, Owners, ChildSections
  <2>3. CASE uiDepth = 1
    BY <1>1, <1>3, <2>3 DEF Owner, Owners, ChildSections, Depth
  <2>4. CASE uiDepth = 2
    BY <1>1, <1>3, <2>4 DEF Owner, Owners, ChildSections, Depth
  <2>7. uiDepth >= 3 => path[3] \in 1 .. Len(tree) /\ Depth(path[3]) = 3
    <3> SUFFICES ASSUME uiDepth >= 3
                 PROVE  path[3] \in 1 .. Len(tree) /\ Depth(path[3]) = 3
      OBVIOUS
    <3>1. 1 \in 1 .. uiDepth /\ 2 \in 1 .. uiDepth /\ 3 \in 1 .. uiDepth
      BY <1>1
    <3>2. /\ path[1] \in 1 .. Len(tree) /\ path[2] \in 1 .. Len(tree)
          /\ path[3] \in 1 .. Len(tree)
      BY <1>1, <3>1
    <3>3. path[1] # 0 /\ path[2] # 0
      BY <3>2
    <3>4. tree[path[3]].in = path[2] /\ tree[path[2]].in = path[1] /\ tree[path[1]].in = 0
      <4>1. uiDepth >= 1 /\ uiDepth >= 2
        BY <1>1
      <4> QED BY <1>1, <4>1
    <3> QED BY ONLY <3>2, <3>3, <3>4 DEF Depth
  <2>5. CASE uiDepth = 3
    <3>1. /\ Inner = path[3] /\ uiDepth >= 3 /\ c.sections[2] = tree[path[2]].kind
          /\ tree[path[3]].in = path[2]
      BY <1>1, <1>2, <2>5
    <3>2. path[3] \in Owners <=> c.sections[2] = "child-sas"
      BY <1>3, <2>1, <2>7, <3>1 DEF Owners, ChildSections
    <3>3. Owner = IF c.sections[2] = "child-sas" THEN path[3] ELSE 0
      BY <1>3, <3>1 DEF Owner
    <3> QED BY <1>3, <2>5, <3>1, <3>2, <3>3
  <2>6. CASE uiDepth >= 4
    <3>2. /\ uiDepth - 1 \in 1 .. uiDepth /\ uiDepth - 2 \in 1 .. uiDepth
          /\ uiDepth - 3 \in 1 .. uiDepth /\ uiDepth \in 1 .. uiDepth
          /\ uiDepth - 1 # 1 /\ uiDepth - 2 # 1
          /\ (uiDepth - 1) - 1 = uiDepth - 2 /\ (uiDepth - 2) - 1 = uiDepth - 3
      <4> HIDE DEF ParserTypes
      <4>1. uiDepth \in Int
        BY <1>1
      <4> QED BY ONLY <4>1, <2>6
    <3>3. /\ tree[path[uiDepth - 1]].in = path[uiDepth - 2]
          /\ tree[path[uiDepth - 2]].in = path[uiDepth - 3]
      BY <3>2 DEF PlaceInv
    <3>4. /\ path[uiDepth - 1] # 0 /\ path[uiDepth - 2] # 0 /\ path[uiDepth - 3] # 0
      <4>1. /\ path[uiDepth - 1] \in 1 .. Len(tree)
            /\ path[uiDepth - 2] \in 1 .. Len(tree)
            /\ path[uiDepth - 3] \in 1 .. Len(tree)
        BY <1>1, <3>2
      <4> QED BY <4>1
    <3>5. Depth(Inner) = 4
      BY <1>1, <2>6, <3>3, <3>4 DEF Depth
    <3>6. Inner \notin Owners
      BY <1>3, <3>5 DEF Owners, ChildSections
    <3>7. Owner # 0 => Owner \in Owners
      <4>1. uiDepth >= 3
        BY <1>1, <2>6
      <4> QED BY <1>1, <1>3, <2>1, <2>7, <4>1 DEF Owner, Owners, ChildSections
    <3> QED BY <1>1, <1>3, <2>6, <3>6, <3>7
  <2> QED BY <1>1, <2>2, <2>3, <2>4, <2>5, <2>6
<1>4. CASE query # "children"
  <2>1. CASE uiDepth = 0
    BY <1>1, <1>4, <2>1 DEF Owner, Owners
  <2>2. CASE uiDepth = 1
    BY <1>1, <1>4, <2>2 DEF Owner, Owners
  <2>3. CASE uiDepth >= 2
    <3>1. tree[Inner].in # 0
      <4>1. uiDepth \in 1 .. uiDepth /\ uiDepth # 1 /\ uiDepth - 1 \in 1 .. uiDepth
        BY <1>1, <2>3
      <4>2. tree[path[uiDepth]].in = path[uiDepth - 1]
        BY <4>1 DEF PlaceInv
      <4>3. path[uiDepth - 1] \in 1 .. Len(tree)
        BY <1>1, <4>1
      <4>4. Inner = path[uiDepth]
        BY <1>1, <2>3
      <4> QED BY <4>2, <4>3, <4>4
    <3> QED BY <1>1, <1>4, <2>3, <3>1 DEF Owner, Owners
  <2> QED BY <1>1, <2>1, <2>2, <2>3
<1> QED BY <1>3, <1>4

-----------------------------------------------------------------------------
(* A value or a list item is stored in the record it belongs to.           *)

LEMMA SentGrows ==
    ASSUME NEW v, sent' = sent \cup {v}, NEW s, NEW N
    PROVE  SentIn(s, N)' = IF v.in = s /\ v.name \in N THEN SentIn(s, N) \cup {v}
                           ELSE SentIn(s, N)
BY DEF SentIn

LEMMA EndsGrow ==
    ASSUME NEW key, NEW k, sent' = sent \cup {[name |-> key, in |-> k]}, tree' = tree, NEW s
    PROVE  EndsOf(s)' = IF /\ key = "id" /\ k # 0 /\ tree[k].in = s
                           /\ tree[k].kind \in {"local", "remote"}
                        THEN EndsOf(s) \cup {[name |-> tree[k].kind, in |-> k]}
                        ELSE EndsOf(s)
<1> DEFINE Tells(v) == /\ v.name = "id" /\ v.in # 0 /\ tree[v.in].in = s
                       /\ tree[v.in].kind \in {"local", "remote"}
           End(v) == [name |-> tree[v.in].kind, in |-> v.in]
           w == [name |-> key, in |-> k]
<1>1. EndsOf(s) = {End(v) : v \in {v \in sent : Tells(v)}}
  BY DEF EndsOf
<1>2. EndsOf(s)' = {End(v) : v \in {v \in sent \cup {w} : Tells(v)}}
  BY DEF EndsOf
<1>3. Tells(w) <=> /\ key = "id" /\ k # 0 /\ tree[k].in = s
                   /\ tree[k].kind \in {"local", "remote"}
  OBVIOUS
<1>4. End(w) = [name |-> tree[k].kind, in |-> k]
  OBVIOUS
<1> HIDE DEF Tells, End, w
<1>5. {End(v) : v \in {v \in sent \cup {w} : Tells(v)}} =
         IF Tells(w) THEN {End(v) : v \in {v \in sent : Tells(v)}} \cup {End(w)}
         ELSE {End(v) : v \in {v \in sent : Tells(v)}}
  OBVIOUS
<1> QED BY <1>1, <1>2, <1>3, <1>4, <1>5

\* Without a new section, the same sections have records, with the same children.
LEMMA SameTree ==
    ASSUME query' = query, tree' = tree
    PROVE  Owners' = Owners /\ (\A s : ChildrenOf(s)' = ChildrenOf(s))
<1>1. ChildSections' = ChildSections
  BY DEF ChildSections, Depth, ChildSection
<1> QED BY <1>1 DEF Owners, ChildrenOf

\* The element that adds key to the section it is in is what the collector stores
\* under name, or it belongs to no record.
Belongs(key, name) ==
    \/ key \in Keys /\ name = ValueName(uiDepth, key)
    \/ key = list /\ name = ItemName(uiDepth)

LEMMA RecordsGrow ==
    ASSUME Collecting, query' = query, tree' = tree, NEW key \in Names, NEW name \in Names,
           sent' = sent \cup {[name |-> key, in |-> Inner]}, Belongs(key, name),
           NEW x, x = [name |-> name, in |-> Inner], NEW s \in Owners
    PROVE  RecordOf(s)' = IF name # NoName /\ s = Owner THEN Added(RecordOf(s), x)
                          ELSE RecordOf(s)
<1> DEFINE v == [name |-> key, in |-> Inner]
<1>1. \A N : SentIn(s, N)' = IF Inner = s /\ key \in N THEN SentIn(s, N) \cup {v}
                             ELSE SentIn(s, N)
  <2>1. v.in = Inner /\ v.name = key /\ sent' = sent \cup {v}
    OBVIOUS
  <2> HIDE DEF v
  <2> QED BY <2>1, SentGrows
<1>2. /\ Inner \in Owners <=> IF query = "children"
                              THEN uiDepth = 3 /\ c.sections[2] = "child-sas"
                              ELSE uiDepth = 1
      /\ Inner \in Owners => Owner = Inner
      /\ Owner # 0 => Owner \in Owners
  BY InnerOwner DEF Collecting
<1>3. list \in {"wanted", "other", NoName} /\ c.listName = list
  BY DEF Collecting, CollectorTypes, PlaceInv, ListNames
<1>4. query \in {"ikes", "children", "conns"}
  BY MessageConstants DEF Collecting, ParserTypes
<1>5. CASE query = "ikes"
  <2>1. name # NoName => key = "state" /\ name = key /\ uiDepth = 1
    BY <1>5 DEF Belongs, ValueName, ItemName
  <2>2. key = "state" /\ uiDepth = 1 => name # NoName
    BY <1>3, <1>5 DEF Belongs, ValueName, NoName
  <2>3. RecordOf(s) = [name |-> s, ike |-> 0, fields |-> SentIn(s, {"state"})]
    BY <1>5 DEF RecordOf
  <2>4. RecordOf(s)' = [name |-> s, ike |-> 0, fields |-> SentIn(s, {"state"})']
    BY <1>5 DEF RecordOf
  <2>5. CASE name # NoName /\ s = Owner
    <3>1. SentIn(s, {"state"})' = SentIn(s, {"state"}) \cup {x}
      BY <1>1, <1>2, <1>5, <2>1, <2>5
    <3> QED BY <2>3, <2>4, <2>5, <3>1 DEF Added
  <2>6. CASE ~(name # NoName /\ s = Owner)
    <3>1. SentIn(s, {"state"})' = SentIn(s, {"state"})
      BY <1>1, <1>2, <1>5, <2>2, <2>6
    <3> QED BY <2>3, <2>4, <2>6, <3>1
  <2> QED BY <2>5, <2>6
<1>6. CASE query = "children"
  <2> DEFINE N == {"state", "wanted"}
  <2>1. name # NoName => key \in N /\ name = key /\ uiDepth = 3
    BY <1>3, <1>6 DEF Belongs, ValueName, ItemName
  <2>2. key \in N /\ Inner \in Owners => name # NoName
    BY <1>2, <1>3, <1>6 DEF Belongs, ValueName, ItemName, NoName, Keys
  <2>3. RecordOf(s) = [name |-> s, ike |-> tree[tree[s].in].in, fields |-> SentIn(s, N)]
    BY <1>6 DEF RecordOf
  <2>4. RecordOf(s)' = [name |-> s, ike |-> tree[tree[s].in].in, fields |-> SentIn(s, N)']
    BY <1>6 DEF RecordOf
  <2> HIDE DEF N
  <2>5. CASE name # NoName /\ s = Owner
    <3>1. Owner = Inner
      <4>1. Owner # 0
        BY <2>5, OwnersAreSections DEF Collecting
      <4> QED BY <1>6, <2>1, <2>5, <4>1, PathFacts DEF Owner, Collecting
    <3>2. SentIn(s, N)' = SentIn(s, N) \cup {x}
      BY <1>1, <2>1, <2>5, <3>1
    <3> QED BY <2>3, <2>4, <2>5, <3>2 DEF Added
  <2>6. CASE ~(name # NoName /\ s = Owner)
    <3>1. SentIn(s, N)' = SentIn(s, N)
      BY <1>1, <1>2, <2>2, <2>6
    <3> QED BY <2>3, <2>4, <2>6, <3>1
  <2> QED BY <2>5, <2>6
<1>7. CASE query = "conns"
  <2> DEFINE N == {"rekey_time", "wanted"}
             End == /\ key = "id" /\ Inner # 0 /\ tree[Inner].in = s
                    /\ tree[Inner].kind \in {"local", "remote"}
  <2>1. ChildrenOf(s)' = ChildrenOf(s)
    BY SameTree
  <2>2. EndsOf(s)' = IF End THEN EndsOf(s) \cup {[name |-> tree[Inner].kind, in |-> Inner]}
                     ELSE EndsOf(s)
    BY EndsGrow
  <2>3. RecordOf(s) = [name |-> s, ike |-> 0,
                       fields |-> SentIn(s, N) \cup ChildrenOf(s) \cup EndsOf(s)]
    BY <1>7 DEF RecordOf
  <2>4. RecordOf(s)' = [name |-> s, ike |-> 0,
                        fields |-> SentIn(s, N)' \cup ChildrenOf(s) \cup EndsOf(s)']
    BY <1>7, <2>1 DEF RecordOf
  <2>5. /\ uiDepth \in Nat /\ s \in 1 .. Len(tree) /\ tree[s].in = 0
        /\ uiDepth = 1 => Inner = path[1] /\ Owner = path[1]
        /\ uiDepth = 2 => /\ Inner = path[2] /\ Owner = path[1] /\ Inner # 0
                          /\ c.sections[2] = tree[Inner].kind /\ tree[Inner].in = path[1]
    <3>1. 1 \in 1 .. uiDepth => path[1] # 0
      BY PathFacts DEF Collecting
    <3>2. 2 \in 1 .. uiDepth => path[2] # 0 /\ c.sections[2] = tree[path[2]].kind
      BY PathFacts DEF Collecting, PlaceInv
    <3> QED BY <1>7, <3>1, <3>2, PathFacts DEF Owner, Owners, Collecting
  <2>6. End => name # NoName /\ s = Owner /\ uiDepth = 2
    <3> SUFFICES ASSUME End PROVE name # NoName /\ s = Owner /\ uiDepth = 2
      OBVIOUS
    <3>1. uiDepth = 2
      <4>1. uiDepth # 0 /\ uiDepth # 1
        BY <2>5, PathFacts DEF Collecting
      <4>2. ASSUME uiDepth >= 3 PROVE FALSE
        <5>1. /\ uiDepth \in 1 .. uiDepth /\ uiDepth # 1
              /\ uiDepth - 1 \in 1 .. uiDepth /\ uiDepth - 1 # 1
              /\ (uiDepth - 1) - 1 \in 1 .. uiDepth
          BY <2>5, <4>2
        <5>2. /\ tree[path[uiDepth]].in = path[uiDepth - 1]
              /\ tree[path[uiDepth - 1]].in = path[(uiDepth - 1) - 1]
          BY <5>1 DEF Collecting, PlaceInv
        <5>3. path[(uiDepth - 1) - 1] \in 1 .. Len(tree) /\ Inner = path[uiDepth]
          BY <4>2, <5>1, PathFacts DEF Collecting
        <5> QED BY <2>5, <5>2, <5>3
      <4> QED BY <2>5, <4>1, <4>2
    <3> QED BY <1>3, <1>7, <2>5, <3>1 DEF Belongs, ValueName, NoName
  <2>7. Inner = s /\ key \in N => name # NoName /\ s = Owner /\ uiDepth = 1
    BY <1>2, <1>3, <1>7 DEF Belongs, ValueName, ItemName, NoName, Keys
  <2>8. name # NoName =>
           \/ uiDepth = 1 /\ key \in N /\ name = key
           \/ /\ uiDepth = 2 /\ key = "id" /\ name = c.sections[2]
              /\ name \in {"local", "remote"}
    BY <1>3, <1>7 DEF Belongs, ValueName, ItemName
  <2> HIDE DEF N, End
  <2>9. CASE name # NoName /\ s = Owner /\ uiDepth = 1
    <3>1. key \in N /\ name = key /\ Inner = s /\ ~End
      BY <2>5, <2>6, <2>8, <2>9
    <3>2. SentIn(s, N)' = SentIn(s, N) \cup {x} /\ EndsOf(s)' = EndsOf(s)
      BY <1>1, <2>2, <3>1
    <3>3. SentIn(s, N)' \cup ChildrenOf(s) \cup EndsOf(s)' =
             (SentIn(s, N) \cup ChildrenOf(s) \cup EndsOf(s)) \cup {x}
      BY <3>2
    <3> DEFINE F == SentIn(s, N) \cup ChildrenOf(s) \cup EndsOf(s)
               G == SentIn(s, N)' \cup ChildrenOf(s) \cup EndsOf(s)'
    <3>4. /\ RecordOf(s) = [name |-> s, ike |-> 0, fields |-> F] /\ G = F \cup {x}
          /\ RecordOf(s)' = [name |-> s, ike |-> 0, fields |-> G]
      BY <2>3, <2>4, <3>3
    <3> HIDE DEF F, G
    <3> QED BY <2>9, <3>4 DEF Added
  <2>10. CASE name # NoName /\ s = Owner /\ uiDepth = 2
    <3>1. End /\ name = tree[Inner].kind /\ ~(Inner = s /\ key \in N)
      BY <2>5, <2>7, <2>8, <2>10 DEF End
    <3>2. SentIn(s, N)' = SentIn(s, N) /\ EndsOf(s)' = EndsOf(s) \cup {x}
      BY <1>1, <2>2, <3>1
    <3>3. SentIn(s, N)' \cup ChildrenOf(s) \cup EndsOf(s)' =
             (SentIn(s, N) \cup ChildrenOf(s) \cup EndsOf(s)) \cup {x}
      BY <3>2
    <3> DEFINE F == SentIn(s, N) \cup ChildrenOf(s) \cup EndsOf(s)
               G == SentIn(s, N)' \cup ChildrenOf(s) \cup EndsOf(s)'
    <3>4. /\ RecordOf(s) = [name |-> s, ike |-> 0, fields |-> F] /\ G = F \cup {x}
          /\ RecordOf(s)' = [name |-> s, ike |-> 0, fields |-> G]
      BY <2>3, <2>4, <3>3
    <3> HIDE DEF F, G
    <3> QED BY <2>10, <3>4 DEF Added
  <2>11. CASE ~(name # NoName /\ s = Owner)
    <3>1. SentIn(s, N)' = SentIn(s, N) /\ EndsOf(s)' = EndsOf(s)
      BY <1>1, <2>2, <2>6, <2>7, <2>11
    <3> QED BY <2>3, <2>4, <2>11, <3>1
  <2> QED BY <2>8, <2>9, <2>10, <2>11
<1> QED BY <1>4, <1>5, <1>6, <1>7

\* What holds of the collector while no element is refused.
Collected == CollectorTypes /\ TreeInv /\ PlaceInv /\ CurrentInv /\ RecordsInv

\* The current record is kept, with its name.
LEMMA StoredCurrent ==
    ASSUME CollectorTypes, NEW x \in Fields, Stores(x), c.current # 0
    PROVE  /\ Len(c'.items) = Len(c.items)
           /\ c'.items[c.current].name = c.items[c.current].name
<1> DEFINE items == c.items
           cur == c.current
           old == items[cur]
           new == Added(old, x)
           after == c'.items
<1>1. items \in Seq(Records) /\ cur \in 1 .. Len(items) /\ old \in Records
  BY DEF CollectorTypes, Collectors
<1>2. new \in Records /\ new.name = old.name
  <2> HIDE DEF old
  <2> QED BY <1>1 DEF Added, Records
<1>3. after = [items EXCEPT ![cur] = new]
  BY DEF Stores, Put
<1> HIDE DEF items, cur, old, new, after
<1>4. Len(after) = Len(items) /\ after[cur] = new
  BY <1>1, <1>2, <1>3, Replaced
<1> QED BY <1>2, <1>4 DEF after, items, cur, old

LEMMA ValueStep ==
    ASSUME Collecting, NEW key \in Names, NEW name \in Names, Belongs(key, name),
           StoresAs(name, Inner), sent' = sent \cup {[name |-> key, in |-> Inner]},
           UNCHANGED <<query, phase, uiDepth, bListOpen, path, tree, list>>
    PROVE  Collected'
<1> DEFINE x == [name |-> name, in |-> Inner]
           v == [name |-> key, in |-> Inner]
<1>1. Inner \in 0 .. Len(tree) /\ Len(tree) \in Nat
  BY PathFacts DEF Collecting
<1>2. x \in Fields /\ v \in Fields /\ v.in = Inner
  BY <1>1 DEF Fields
<1>3. x = [name |-> name, in |-> Inner] /\ sent' = sent \cup {v}
  OBVIOUS
<1>4. name # NoName => Stores(x)
  BY DEF StoresAs
<1> HIDE DEF x, v
<1>5. CollectorTypes'
  BY <1>2, <1>3 DEF StoresAs, Collecting, CollectorTypes
<1>6. TreeInv'
  BY <1>1, <1>2, <1>3 DEF Collecting, TreeInv
<1>7. PlaceInv'
  BY DEF StoresAs, Collecting, PlaceInv
<1>8. Owner' = Owner
  BY DEF Owner
<1>9. c'.current = c.current /\ (c.current = 0 => c'.items = c.items)
  BY <1>4 DEF StoresAs, Stores
<1>10. c.current # 0 => c'.items[c.current].name = c.items[c.current].name
  <2>1. CASE name = NoName
    BY <2>1 DEF StoresAs
  <2>2. CASE name # NoName
    BY <1>2, <1>4, <2>2, StoredCurrent DEF Collecting
  <2> QED BY <2>1, <2>2
<1>11. CurrentInv'
  BY <1>8, <1>9, <1>10 DEF StoresAs, Collecting, CurrentInv
<1>12. Owners' = Owners
  BY SameTree
<1>13. \A s \in Owners : RecordOf(s)' = IF name # NoName /\ s = Owner
                                        THEN Added(RecordOf(s), x) ELSE RecordOf(s)
  BY <1>3, RecordsGrow
<1>14. RecordsInv'
  <2>1. CASE name = NoName
    <3>1. c'.items = c.items
      BY <2>1 DEF StoresAs
    <3> QED BY <1>12, <1>13, <2>1, <3>1, RecordsKept DEF Collecting
  <2>2. CASE name # NoName /\ Owner # 0
    <3>1. PICK k : k = Owner
      OBVIOUS
    <3>2. k \in Owners
      BY <2>2, <3>1, InnerOwner DEF Collecting
    <3>3. c.current # 0 /\ c.items[c.current].name = k
      BY <2>2, <3>1 DEF Collecting, CurrentInv
    <3> DEFINE new == Added(c.items[c.current], x)
    <3>4. /\ new = [c.items[c.current] EXCEPT !.fields = @ \cup {x}]
          /\ c'.items = [c.items EXCEPT ![c.current] = new]
      BY <1>4, <2>2, <3>3 DEF Stores, Put, Added
    <3>5. RecordOf(k)' = [RecordOf(k) EXCEPT !.fields = @ \cup {x}]
      BY <1>13, <2>2, <3>1, <3>2 DEF Added
    <3>6. \A s \in Owners \ {k} : RecordOf(s)' = RecordOf(s)
      BY <1>13, <3>1
    <3> HIDE DEF new
    <3> QED BY <1>2, <1>12, <3>2, <3>3, <3>4, <3>5, <3>6, RecordStored DEF Collecting
  <2>3. CASE name # NoName /\ Owner = 0
    <3>1. 0 \notin Owners
      BY OwnersAreSections DEF Collecting
    <3>2. query # "conns"
      <4> SUFFICES ASSUME query = "conns" PROVE FALSE
        OBVIOUS
      <4>1. uiDepth \in {1, 2}
        BY <2>3 DEF Belongs, ValueName, ItemName
      <4>2. 1 \in 1 .. uiDepth
        BY <4>1
      <4>3. path[1] # 0
        BY <4>2, PathFacts DEF Collecting
      <4> QED BY <2>3, <4>1, <4>3 DEF Owner
    <3>3. c'.items = c.items
      BY <1>9, <2>3, <3>2 DEF Collecting, CurrentInv
    <3> QED BY <1>12, <1>13, <2>3, <3>1, <3>3, RecordsKept DEF Collecting
  <2> QED BY <2>1, <2>2, <2>3
<1> QED BY <1>5, <1>6, <1>7, <1>11, <1>14 DEF Collected

LEMMA ListStep ==
    ASSUME Collecting, NEW name \in ListNames \cup {NoName}, phase = "message",
           c' \in Collectors, c'.current <= Len(c'.items),
           c'.sections = c.sections, c'.ikeName = c.ikeName, c'.listName = name,
           c'.items = c.items, c'.current = c.current,
           list' = name, ~bListOpen' => name = NoName,
           UNCHANGED <<query, phase, uiDepth, path, tree, sent>>
    PROVE  Collected'
<1>1. CollectorTypes'
  BY DEF Collecting, CollectorTypes, ListNames
<1>2. TreeInv' /\ PlaceInv'
  BY DEF Collecting, TreeInv, PlaceInv
<1>3. Owner' = Owner
  BY DEF Owner
<1>4. CurrentInv'
  BY <1>3 DEF Collecting, CurrentInv
<1>5. Owners' = Owners /\ \A s \in Owners : RecordOf(s)' = RecordOf(s)
  BY SameTree DEF RecordOf, SentIn, EndsOf
<1>6. RecordsInv'
  BY <1>5, RecordsKept DEF Collecting
<1> QED BY <1>1, <1>2, <1>4, <1>6 DEF Collected

\* The end of the innermost section.
LEMMA EndStep ==
    ASSUME Collecting, phase = "message", uiDepth # 0,
           c' \in Collectors, c'.current <= Len(c'.items),
           c'.sections = [c.sections EXCEPT ![uiDepth] = NoName],
           c'.listName = c.listName, c'.items = c.items,
           c'.ikeName = IF uiDepth = 1 /\ query # "conns" THEN 0 ELSE c.ikeName,
           c'.current = IF \/ query = "children" /\ uiDepth = 3
                           \/ query = "ikes" /\ uiDepth = 1
                        THEN 0 ELSE c.current,
           uiDepth' = uiDepth - 1, path' = SubSeq(path, 1, Len(path) - 1),
           UNCHANGED <<query, phase, bListOpen, tree, list, sent>>
    PROVE  Collected'
<1>1. /\ uiDepth \in Nat /\ Len(path) = uiDepth /\ path \in Seq(Nat)
      /\ uiDepth \in 1 .. MaxDepth /\ MaxDepth \in Nat
  BY MessageConstants DEF Collecting, ParserTypes, CollectorTypes, PlaceInv
<1>2. /\ path' \in Seq(Nat) /\ Len(path') = uiDepth'
      /\ \A d \in 1 .. uiDepth' : path'[d] = path[d]
  BY <1>1
<1>3. CollectorTypes'
  BY <1>2 DEF Collecting, CollectorTypes, ListNames
<1>4. TreeInv'
  BY DEF Collecting, TreeInv
<1>5. \A d \in 1 .. MaxDepth : c'.sections[d] = IF d = uiDepth THEN NoName ELSE c.sections[d]
  BY <1>1 DEF Collecting, CollectorTypes, Collectors
<1>6. PlaceInv'
  <2>1. \A d \in 1 .. uiDepth' :
           /\ path'[d] \in 1 .. Len(tree')
           /\ tree'[path'[d]].in = IF d = 1 THEN 0 ELSE path'[d - 1]
           /\ c'.sections[d] = tree'[path'[d]].kind
    <3> SUFFICES ASSUME NEW d \in 1 .. uiDepth'
                 PROVE  /\ path[d] \in 1 .. Len(tree)
                        /\ tree[path[d]].in = IF d = 1 THEN 0 ELSE path'[d - 1]
                        /\ c'.sections[d] = tree[path[d]].kind
      BY <1>2
    <3>1. d \in 1 .. uiDepth /\ d # uiDepth /\ d \in 1 .. MaxDepth
      BY <1>1
    <3>2. d # 1 => path'[d - 1] = path[d - 1]
      BY <1>1, <1>2
    <3> QED BY <1>5, <3>1, <3>2 DEF Collecting, PlaceInv
  <2>2. \A d \in 1 .. MaxDepth : d > uiDepth' => c'.sections[d] = NoName
    BY <1>1, <1>5 DEF Collecting, PlaceInv
  <2> QED BY <1>2, <2>1, <2>2 DEF Collecting, PlaceInv
<1>7. /\ uiDepth # 1 => path'[1] = path[1]
      /\ uiDepth > 2 => path'[2] = path[2]
      /\ uiDepth > 3 => path'[3] = path[3]
  BY <1>1, <1>2
<1>8. Owner' # 0 => Owner' = Owner /\ c'.current = c.current
  BY <1>1, <1>7 DEF Owner
<1>9. Owner' = 0 /\ query # "conns" => c'.current = 0
  <2> SUFFICES ASSUME Owner' = 0, query # "conns", c.current # 0 PROVE c'.current = 0
    BY <1>1
  <2>1. Owner # 0
    BY DEF Collecting, CurrentInv
  <2>2. CASE query = "children"
    <3>1. uiDepth >= 3 /\ tree[path[2]].kind = "child-sas" /\ path[3] # 0
      BY <2>1, <2>2 DEF Owner
    <3>2. uiDepth = 3
      BY <1>1, <1>7, <2>2, <3>1 DEF Owner
    <3> QED BY <2>2, <3>2
  <2>3. CASE query = "ikes"
    <3>1. uiDepth = 1
      <4>1. 1 \in 1 .. uiDepth
        BY <1>1
      <4>2. path[1] # 0
        BY <4>1, PathFacts DEF Collecting
      <4> QED BY <1>1, <1>7, <2>3, <4>2 DEF Owner
    <3> QED BY <2>3, <3>1
  <2> QED BY <2>2, <2>3, MessageConstants DEF Collecting, ParserTypes
<1>10. c'.ikeName = IF query' = "conns" \/ uiDepth' = 0 THEN 0 ELSE path'[1]
  BY <1>1, <1>7 DEF Collecting, CurrentInv
<1>11. CurrentInv'
  BY <1>8, <1>9, <1>10 DEF Collecting, CurrentInv
<1>12. Owners' = Owners /\ \A s \in Owners : RecordOf(s)' = RecordOf(s)
  BY SameTree DEF RecordOf, SentIn, EndsOf
<1>13. RecordsInv'
  BY <1>12, RecordsKept DEF Collecting
<1> QED BY <1>3, <1>4, <1>6, <1>11, <1>13 DEF Collected

-----------------------------------------------------------------------------
(* The start of a section.                                                 *)

\* The tree with section n, of that kind, in the innermost open section.
Grows(n, kind) ==
    /\ n = Len(tree) + 1
    /\ tree' = Append(tree, [kind |-> kind, in |-> Inner])
    /\ query' = query /\ sent' = sent

LEMMA TreeGrows ==
    ASSUME ParserTypes, CollectorTypes, TreeInv, PlaceInv, NEW n, NEW kind \in Names,
           Grows(n, kind)
    PROVE  /\ Len(tree) \in Nat /\ n \in Nat /\ n = Len(tree) + 1 /\ Len(tree') = n
           /\ tree' \in Seq([kind : Names, in : Nat])
           /\ \A s \in 1 .. Len(tree) : tree'[s] = tree[s] /\ tree[s].in \in 0 .. s - 1
           /\ tree'[n].in = Inner /\ tree'[n].kind = kind
           /\ Inner \in 0 .. Len(tree)
<1> DEFINE r == [kind |-> kind, in |-> Inner]
<1>1. Inner \in 0 .. Len(tree) /\ Len(tree) \in Nat
  BY PathFacts
<1>2. r \in [kind : Names, in : Nat] /\ r.kind = kind /\ r.in = Inner
  BY <1>1
<1>3. tree' = Append(tree, r) /\ n = Len(tree) + 1
  BY DEF Grows
<1> HIDE DEF r
<1>4. tree \in Seq([kind : Names, in : Nat])
  BY DEF CollectorTypes
<1>5. /\ tree' \in Seq([kind : Names, in : Nat]) /\ Len(tree') = n
      /\ \A s \in 1 .. Len(tree) : tree'[s] = tree[s]
      /\ tree'[n] = r
  BY <1>1, <1>2, <1>3, <1>4
<1> QED BY <1>1, <1>2, <1>3, <1>5 DEF TreeInv

LEMMA DepthGrows ==
    ASSUME ParserTypes, CollectorTypes, TreeInv, PlaceInv, NEW n, NEW kind \in Names,
           Grows(n, kind)
    PROVE  /\ \A s \in 1 .. Len(tree) : Depth(s)' = Depth(s)
           /\ Depth(n)' = 3 <=> uiDepth = 2
<1>1. /\ Len(tree) \in Nat /\ n = Len(tree) + 1
      /\ \A s \in 1 .. Len(tree) : tree'[s] = tree[s] /\ tree[s].in \in 0 .. s - 1
      /\ tree'[n].in = Inner
  BY TreeGrows
<1>2. /\ uiDepth \in Nat
      /\ Inner = IF uiDepth = 0 THEN 0 ELSE path[uiDepth]
      /\ \A d \in 1 .. uiDepth : path[d] \in 1 .. Len(tree)
      /\ uiDepth >= 1 => tree[path[1]].in = 0
      /\ uiDepth >= 2 => tree[path[2]].in = path[1]
      /\ uiDepth >= 3 => tree[path[3]].in = path[2]
  BY PathFacts
<1>3. ASSUME NEW s \in 1 .. Len(tree)
      PROVE  Depth(s)' = Depth(s)
  <2>1. tree'[s].in = tree[s].in /\ tree[s].in \in 0 .. s - 1
    BY <1>1
  <2>2. CASE tree[s].in = 0
    BY <2>1, <2>2 DEF Depth
  <2>3. CASE tree[s].in # 0
    <3> DEFINE p == tree[s].in
    <3>1. p \in 1 .. Len(tree)
      BY <1>1, <2>1, <2>3
    <3>2. tree'[p].in = tree[p].in /\ tree[p].in \in 0 .. p - 1
      BY <1>1, <3>1
    <3>3. tree[p].in = 0 \/ tree'[tree[p].in].in = tree[tree[p].in].in
      <4> SUFFICES ASSUME tree[p].in # 0
                   PROVE  tree'[tree[p].in].in = tree[tree[p].in].in
        OBVIOUS
      <4>1. tree[p].in \in 1 .. Len(tree)
        <5> HIDE DEF p
        <5> QED BY <1>1, <3>1, <3>2
      <4> QED BY <1>1, <4>1
    <3> QED BY <2>1, <2>3, <3>2, <3>3 DEF Depth
  <2> QED BY <2>2, <2>3
<1>4. Depth(n)' = 3 <=> uiDepth = 2
  <2>1. CASE uiDepth = 0
    BY <1>1, <1>2, <2>1 DEF Depth
  <2>2. CASE uiDepth = 1
    <3>1. Inner = path[1] /\ path[1] \in 1 .. Len(tree) /\ path[1] # 0
          /\ tree'[path[1]].in = 0
      BY <1>1, <1>2, <2>2
    <3> QED BY <1>1, <2>2, <3>1 DEF Depth
  <2>3. CASE uiDepth = 2
    <3>1. 1 \in 1 .. uiDepth /\ 2 \in 1 .. uiDepth
      BY <2>3
    <3>2. /\ Inner = path[2] /\ path[1] \in 1 .. Len(tree) /\ path[2] \in 1 .. Len(tree)
      BY <1>2, <2>3, <3>1
    <3>3. path[1] # 0 /\ path[2] # 0 /\ tree'[path[2]].in = path[1] /\ tree'[path[1]].in = 0
      BY <1>1, <1>2, <2>3, <3>2
    <3> QED BY <1>1, <2>3, <3>2, <3>3 DEF Depth
  <2>4. CASE uiDepth >= 3
    <3>1. /\ uiDepth \in 1 .. uiDepth /\ uiDepth # 1
          /\ uiDepth - 1 \in 1 .. uiDepth /\ uiDepth - 1 # 1
          /\ (uiDepth - 1) - 1 \in 1 .. uiDepth
      <4>1. uiDepth \in Nat
        BY <1>2
      <4> QED BY ONLY <2>4, <4>1
    <3>2. /\ tree[path[uiDepth]].in = path[uiDepth - 1]
          /\ tree[path[uiDepth - 1]].in = path[(uiDepth - 1) - 1]
      BY <3>1 DEF PlaceInv
    <3>3. /\ path[uiDepth] \in 1 .. Len(tree) /\ path[uiDepth - 1] \in 1 .. Len(tree)
          /\ path[(uiDepth - 1) - 1] \in 1 .. Len(tree)
      BY <1>2, <3>1
    <3>4. /\ Inner = path[uiDepth] /\ Inner # 0
          /\ tree'[Inner].in = path[uiDepth - 1] /\ path[uiDepth - 1] # 0
          /\ tree'[path[uiDepth - 1]].in = path[(uiDepth - 1) - 1]
          /\ path[(uiDepth - 1) - 1] # 0
      <4>1. Inner = path[uiDepth]
        BY <1>2, <2>4
      <4>2. tree'[path[uiDepth]] = tree[path[uiDepth]]
            /\ tree'[path[uiDepth - 1]] = tree[path[uiDepth - 1]]
        BY <1>1, <3>3
      <4>3. path[uiDepth] # 0 /\ path[uiDepth - 1] # 0 /\ path[(uiDepth - 1) - 1] # 0
        BY ONLY <3>3
      <4> QED BY <3>2, <4>1, <4>2, <4>3
    <3> QED BY <1>1, <2>4, <3>4 DEF Depth
  <2> QED BY <1>2, <2>1, <2>2, <2>3, <2>4
<1> QED BY <1>3, <1>4

\* The sections that have a record, before and after.
LEMMA OwnersGrow ==
    ASSUME ParserTypes, CollectorTypes, TreeInv, PlaceInv, NEW n, NEW kind \in Names,
           Grows(n, kind)
    PROVE  /\ ChildSections' = IF uiDepth = 2 /\ c.sections[2] = ChildSection
                               THEN ChildSections \cup {n} ELSE ChildSections
           /\ Owners' = IF Opens(uiDepth + 1) THEN Owners \cup {n} ELSE Owners
<1>1. /\ Len(tree) \in Nat /\ n = Len(tree) + 1 /\ Len(tree') = n
      /\ \A s \in 1 .. Len(tree) : tree'[s] = tree[s] /\ tree[s].in \in 0 .. s - 1
      /\ tree'[n].in = Inner
  BY TreeGrows
<1>2. /\ \A s \in 1 .. Len(tree) : Depth(s)' = Depth(s)
      /\ Depth(n)' = 3 <=> uiDepth = 2
  BY DepthGrows
<1>3. query' = query /\ ChildSection' = ChildSection
  BY DEF Grows, ChildSection
<1>4. 1 .. Len(tree') = (1 .. Len(tree)) \cup {n}
  BY <1>1
<1>5. \A s \in 1 .. Len(tree) : Depth(s) = 3 => tree'[tree[s].in].kind = tree[tree[s].in].kind
  <2> SUFFICES ASSUME NEW s \in 1 .. Len(tree), Depth(s) = 3
               PROVE  tree'[tree[s].in].kind = tree[tree[s].in].kind
    OBVIOUS
  <2>1. tree[s].in # 0 /\ tree[s].in \in 0 .. s - 1
    BY <1>1 DEF Depth
  <2>2. tree[s].in \in 1 .. Len(tree)
    BY <1>1, <2>1
  <2> QED BY <1>1, <2>2
<1>6. uiDepth = 2 => tree'[tree'[n].in].kind = c.sections[2]
  <2> SUFFICES ASSUME uiDepth = 2 PROVE tree'[tree'[n].in].kind = c.sections[2]
    OBVIOUS
  <2>1. 2 \in 1 .. uiDepth
    OBVIOUS
  <2>2. /\ Inner = path[2] /\ path[2] \in 1 .. Len(tree)
        /\ c.sections[2] = tree[path[2]].kind
    BY <2>1, PathFacts DEF PlaceInv
  <2> QED BY <1>1, <2>2
<1>7. ChildSections' = IF uiDepth = 2 /\ c.sections[2] = ChildSection
                       THEN ChildSections \cup {n} ELSE ChildSections
  <2>1. ChildSections' = {s \in 1 .. Len(tree') :
                             Depth(s)' = 3 /\ tree'[tree'[s].in].kind = ChildSection}
    BY <1>3 DEF ChildSections
  <2>2. \A s \in 1 .. Len(tree) :
           s \in ChildSections' <=> s \in ChildSections
    BY <1>1, <1>2, <1>4, <1>5, <2>1 DEF ChildSections
  <2>3. n \in ChildSections' <=> uiDepth = 2 /\ c.sections[2] = ChildSection
    BY <1>2, <1>4, <1>6, <2>1
  <2>4. /\ ChildSections' \subseteq (1 .. Len(tree)) \cup {n}
        /\ ChildSections \subseteq 1 .. Len(tree)
    BY <1>4, <2>1 DEF ChildSections
  <2>5. n \notin 1 .. Len(tree)
    BY <1>1
  <2> DEFINE C == ChildSections
             D == ChildSections'
             Child == uiDepth = 2 /\ c.sections[2] = ChildSection
  <2>6. /\ \A s \in 1 .. Len(tree) : s \in D <=> s \in C
        /\ n \in D <=> Child
        /\ D \subseteq (1 .. Len(tree)) \cup {n} /\ C \subseteq 1 .. Len(tree)
    BY <2>2, <2>3, <2>4
  <2> HIDE DEF C, D, Child
  <2>7. Child => D = C \cup {n}
    BY ONLY <2>6
  <2>8. ~Child => D = C
    BY ONLY <2>5, <2>6
  <2> QED BY <2>7, <2>8 DEF C, D, Child
<1>8. Owners' = IF Opens(uiDepth + 1) THEN Owners \cup {n} ELSE Owners
  <2>1. uiDepth \in Nat /\ (Inner = 0 <=> uiDepth = 0)
    <3>1. uiDepth # 0 => uiDepth \in 1 .. uiDepth
      BY PathFacts
    <3> QED BY <3>1, PathFacts
  <2>2. CASE query = "children"
    <3>1. ChildSection = "child-sas" /\ (uiDepth + 1 = 3 <=> uiDepth = 2)
      BY <2>1, <2>2 DEF ChildSection
    <3> QED BY <1>3, <1>7, <2>2, <3>1 DEF Owners, Opens
  <2>3. CASE query # "children"
    <3>1. Owners' = {s \in 1 .. Len(tree') : tree'[s].in = 0}
      BY <1>3, <2>3 DEF Owners
    <3>2. Owners = {s \in 1 .. Len(tree) : tree[s].in = 0}
      BY <2>3 DEF Owners
    <3>3. Opens(uiDepth + 1) <=> tree'[n].in = 0
      BY <1>1, <2>1, <2>3 DEF Opens
    <3> QED BY <1>1, <1>4, <3>1, <3>2, <3>3
  <2> QED BY <2>2, <2>3
<1> QED BY <1>7, <1>8

\* The values sent so far are in the sections so far.
LEMMA SentBefore ==
    ASSUME ParserTypes, CollectorTypes, TreeInv, PlaceInv, NEW n, NEW kind \in Names,
           Grows(n, kind), NEW s \in 1 .. n
    PROVE  /\ \A N : SentIn(s, N)' = SentIn(s, N)
           /\ \A N : s = n => SentIn(s, N) = {}
           /\ EndsOf(s)' = EndsOf(s)
           /\ s = n => EndsOf(s) = {}
<1>1. /\ Len(tree) \in Nat /\ n = Len(tree) + 1
      /\ \A t \in 1 .. Len(tree) : tree'[t] = tree[t] /\ tree[t].in \in 0 .. t - 1
      /\ sent' = sent
  BY TreeGrows DEF Grows
<1>2. \A v \in sent : v.in \in 0 .. Len(tree)
  BY DEF TreeInv
<1>3. \A N : SentIn(s, N)' = SentIn(s, N) /\ (s = n => SentIn(s, N) = {})
  BY <1>1, <1>2 DEF SentIn
<1>4. \A v \in sent : v.in # 0 =>
         tree'[v.in] = tree[v.in] /\ tree[v.in].in # n
  BY <1>1, <1>2
<1>5. EndsOf(s)' = EndsOf(s)
  BY <1>1, <1>4 DEF EndsOf
<1>6. s = n => EndsOf(s) = {}
  BY <1>4 DEF EndsOf
<1> QED BY <1>3, <1>5, <1>6

\* A new child of a connection is in the section that lists its children.
LEMMA ChildrenGrow ==
    ASSUME ParserTypes, CollectorTypes, TreeInv, PlaceInv, NEW n, NEW kind \in Names,
           Grows(n, kind), query = "conns", NEW s \in 1 .. n
    PROVE  /\ ChildrenOf(s)' = IF Noted(uiDepth + 1) /\ s = path[1]
                               THEN ChildrenOf(s) \cup {[name |-> "child", in |-> n]}
                               ELSE ChildrenOf(s)
           /\ s = n => ChildrenOf(s)' = {}
<1> DEFINE C == ChildSections
           D == ChildSections'
           Of(k) == [name |-> "child", in |-> k]
           Child == uiDepth = 2 /\ c.sections[2] = ChildSection
<1>1. /\ Len(tree) \in Nat /\ n = Len(tree) + 1
      /\ \A t \in 1 .. Len(tree) : tree'[t] = tree[t] /\ tree[t].in \in 0 .. t - 1
      /\ tree'[n].in = Inner
  BY TreeGrows
<1>2. D = IF Child THEN C \cup {n} ELSE C
  BY OwnersGrow
<1>3. Child <=> Noted(uiDepth + 1)
  <2>1. uiDepth \in Nat
    BY PathFacts
  <2> QED BY <2>1 DEF Noted, ChildSection
<1>4. ASSUME NEW k \in C
      PROVE  /\ tree'[tree'[k].in].in = tree[tree[k].in].in
             /\ tree[tree[k].in].in # n
  <2>1. k \in 1 .. Len(tree) /\ Depth(k) = 3
    BY DEF ChildSections
  <2>2. tree[k].in # 0 /\ tree[k].in \in 0 .. k - 1
    BY <1>1, <2>1 DEF Depth
  <2>3. tree[k].in \in 1 .. Len(tree)
    BY <1>1, <2>1, <2>2
  <2>4. PICK p : p = tree[k].in
    OBVIOUS
  <2>5. tree'[k] = tree[k] /\ tree'[p] = tree[p] /\ tree[p].in \in 0 .. p - 1
    BY <1>1, <2>1, <2>3, <2>4
  <2>6. tree[p].in # n
    BY <1>1, <2>3, <2>4, <2>5
  <2> QED BY <2>4, <2>5, <2>6
<1>5. Child => tree'[tree'[n].in].in = path[1] /\ path[1] # n
  <2> SUFFICES ASSUME Child PROVE tree'[Inner].in = path[1] /\ path[1] # n
    BY <1>1
  <2>1. 1 \in 1 .. uiDepth /\ 2 \in 1 .. uiDepth
    OBVIOUS
  <2>2. /\ Inner = path[2] /\ path[2] \in 1 .. Len(tree) /\ path[1] \in 1 .. Len(tree)
        /\ tree[path[2]].in = path[1]
    BY <2>1, PathFacts
  <2> QED BY <1>1, <2>2
<1>6. ChildrenOf(s) = {Of(k) : k \in {k \in C : tree[tree[k].in].in = s}}
  BY DEF ChildrenOf
<1>7. ChildrenOf(s)' = {Of(k) : k \in {k \in D : tree'[tree'[k].in].in = s}}
  BY DEF ChildrenOf
<1>8. Of(n) = [name |-> "child", in |-> n]
  OBVIOUS
<1> HIDE DEF C, D, Of, Child
<1>9. CASE Child
  <2>1. s = path[1] => ChildrenOf(s)' = ChildrenOf(s) \cup {Of(n)}
    BY <1>2, <1>4, <1>5, <1>6, <1>7, <1>9
  <2>2. s # path[1] => ChildrenOf(s)' = ChildrenOf(s)
    BY <1>2, <1>4, <1>5, <1>6, <1>7, <1>9
  <2>3. s = n => ChildrenOf(s)' = {}
    BY <1>2, <1>4, <1>5, <1>7, <1>9
  <2> QED BY <1>3, <1>8, <1>9, <2>1, <2>2, <2>3
<1>10. CASE ~Child
  <2>1. ChildrenOf(s)' = ChildrenOf(s)
    BY <1>2, <1>4, <1>6, <1>7, <1>10
  <2>2. s = n => ChildrenOf(s)' = {}
    BY <1>2, <1>4, <1>7, <1>10
  <2> QED BY <1>3, <1>10, <2>1, <2>2
<1> QED BY <1>9, <1>10

\* A new section changes one record at most: that of the connection it is a child of.
LEMMA RecordsAtStart ==
    ASSUME Collecting, NEW n, NEW kind \in Names, Grows(n, kind),
           NEW x, x = [name |-> "child", in |-> n], NEW s \in Owners
    PROVE  RecordOf(s)' = IF Noted(uiDepth + 1) /\ s = Owner THEN Added(RecordOf(s), x)
                          ELSE RecordOf(s)
<1>1. /\ Len(tree) \in Nat /\ n = Len(tree) + 1
      /\ \A t \in 1 .. Len(tree) : tree'[t] = tree[t] /\ tree[t].in \in 0 .. t - 1
      /\ query' = query
  BY TreeGrows DEF Grows, Collecting
<1>2. s \in 1 .. Len(tree) /\ s \in 1 .. n
  BY <1>1, OwnersAreSections DEF Collecting
<1>3. (\A N : SentIn(s, N)' = SentIn(s, N)) /\ EndsOf(s)' = EndsOf(s)
  BY <1>2, SentBefore DEF Collecting
<1>4. query \in {"ikes", "children", "conns"}
  BY MessageConstants DEF Collecting, ParserTypes
<1>5. CASE query = "ikes"
  BY <1>1, <1>3, <1>5 DEF RecordOf, Noted
<1>6. CASE query = "children"
  <2>1. tree'[tree'[s].in].in = tree[tree[s].in].in
    <3>1. tree[s].in # 0 /\ tree[s].in \in 0 .. s - 1
      BY <1>1, <1>2, <1>6 DEF Owners, ChildSections, Depth
    <3>2. tree[s].in \in 1 .. Len(tree)
      BY <1>1, <1>2, <3>1
    <3> QED BY <1>1, <1>2, <3>2
  <2> QED BY <1>1, <1>3, <1>6, <2>1 DEF RecordOf, Noted
<1>7. CASE query = "conns"
  <2> DEFINE N == {"rekey_time", "wanted"}
             F == SentIn(s, N) \cup ChildrenOf(s) \cup EndsOf(s)
             G == SentIn(s, N)' \cup ChildrenOf(s)' \cup EndsOf(s)'
  <2>1. /\ RecordOf(s) = [name |-> s, ike |-> 0, fields |-> F]
        /\ RecordOf(s)' = [name |-> s, ike |-> 0, fields |-> G]
    BY <1>1, <1>7 DEF RecordOf
  <2>2. ChildrenOf(s)' = IF Noted(uiDepth + 1) /\ s = path[1]
                         THEN ChildrenOf(s) \cup {x} ELSE ChildrenOf(s)
    BY <1>2, <1>7, ChildrenGrow DEF Collecting
  <2>3. Noted(uiDepth + 1) => Owner = path[1]
    <3>1. uiDepth \in Nat
      BY PathFacts DEF Collecting
    <3> QED BY <1>7, <3>1 DEF Noted, Owner
  <2>4. G = IF Noted(uiDepth + 1) /\ s = Owner THEN F \cup {x} ELSE F
    BY <1>3, <2>2, <2>3
  <2> HIDE DEF F, G
  <2> QED BY <2>1, <2>4 DEF Added
<1> QED BY <1>4, <1>5, <1>6, <1>7

\* The record of a new section: nothing was sent in it yet.
LEMMA RecordAtStart ==
    ASSUME Collecting, NEW n, NEW kind \in Names, Grows(n, kind), Opens(uiDepth + 1)
    PROVE  RecordOf(n)' = [name |-> n, ike |-> IF query = "children" THEN c.ikeName ELSE 0,
                           fields |-> {}]
<1>1. /\ Len(tree) \in Nat /\ n = Len(tree) + 1
      /\ \A t \in 1 .. Len(tree) : tree'[t] = tree[t] /\ tree[t].in \in 0 .. t - 1
      /\ tree'[n].in = Inner /\ query' = query
  BY TreeGrows DEF Grows, Collecting
<1>2. n \in 1 .. n
  BY <1>1
<1>3. (\A N : SentIn(n, N)' = {}) /\ EndsOf(n)' = {}
  BY <1>2, SentBefore DEF Collecting
<1>4. query \in {"ikes", "children", "conns"} /\ uiDepth \in Nat
  BY MessageConstants, PathFacts DEF Collecting, ParserTypes
<1>5. CASE query = "ikes"
  BY <1>1, <1>3, <1>5 DEF RecordOf
<1>6. CASE query = "children"
  <2>1. uiDepth = 2 /\ 1 \in 1 .. uiDepth /\ 2 \in 1 .. uiDepth
    BY <1>4, <1>6 DEF Opens
  <2>2. /\ Inner = path[2] /\ path[2] \in 1 .. Len(tree) /\ tree[path[2]].in = path[1]
    BY <2>1, PathFacts DEF Collecting
  <2>3. tree'[tree'[n].in].in = path[1]
    BY <1>1, <2>2
  <2>4. c.ikeName = path[1]
    BY <1>6, <2>1 DEF Collecting, CurrentInv
  <2> QED BY <1>1, <1>3, <1>6, <2>3, <2>4 DEF RecordOf
<1>7. CASE query = "conns"
  <2>1. ChildrenOf(n)' = {}
    BY <1>2, <1>7, ChildrenGrow DEF Collecting
  <2>2. SentIn(n, {"rekey_time", "wanted"})' \cup ChildrenOf(n)' \cup EndsOf(n)' = {}
    BY <1>3, <2>1
  <2> QED BY <1>1, <1>7, <2>2 DEF RecordOf
<1> QED BY <1>4, <1>5, <1>6, <1>7

\* The start of section n.
LEMMA StartStep ==
    ASSUME Collecting, phase = "message", MaxDepth > uiDepth,
           NEW n, NEW kind \in Names, Grows(n, kind),
           NEW r, r = [name |-> n, ike |-> IF query = "children" THEN c.ikeName ELSE 0,
                       fields |-> {}],
           c' \in Collectors, c'.current <= Len(c'.items),
           c'.sections = [c.sections EXCEPT ![uiDepth + 1] = kind],
           c'.listName = c.listName,
           c'.ikeName = IF uiDepth + 1 = 1 /\ query # "conns" THEN n ELSE c.ikeName,
           Opens(uiDepth + 1) =>
               c'.items = Append(c.items, r) /\ c'.current = Len(c.items) + 1,
           Noted(uiDepth + 1) => Stores([name |-> "child", in |-> n]),
           ~Opens(uiDepth + 1) /\ ~Noted(uiDepth + 1) =>
               c'.items = c.items /\ c'.current = c.current,
           uiDepth' = uiDepth + 1, path' = Append(path, n),
           UNCHANGED <<phase, bListOpen, list>>
    PROVE  Collected'
<1> DEFINE d == uiDepth + 1
           x == [name |-> "child", in |-> n]
<1>1. /\ Len(tree) \in Nat /\ n \in Nat /\ n = Len(tree) + 1 /\ Len(tree') = n
      /\ tree' \in Seq([kind : Names, in : Nat])
      /\ \A s \in 1 .. Len(tree) : tree'[s] = tree[s] /\ tree[s].in \in 0 .. s - 1
      /\ tree'[n].in = Inner /\ tree'[n].kind = kind /\ Inner \in 0 .. Len(tree)
      /\ query' = query /\ sent' = sent
  BY TreeGrows DEF Grows, Collecting
<1>2. /\ uiDepth \in Nat /\ Len(path) = uiDepth /\ path \in Seq(Nat)
      /\ d \in 1 .. MaxDepth /\ MaxDepth \in Nat
  BY MessageConstants DEF Collecting, ParserTypes, CollectorTypes, PlaceInv
<1>3. /\ path' \in Seq(Nat) /\ Len(path') = d /\ path'[d] = n
      /\ \A e \in 1 .. uiDepth : path'[e] = path[e]
  BY <1>1, <1>2
<1>4. CollectorTypes'
  BY <1>1, <1>3 DEF Collecting, CollectorTypes, ListNames
<1>5. TreeInv'
  <2>1. \A s \in 1 .. Len(tree') : tree'[s].in \in 0 .. s - 1
    <3> SUFFICES ASSUME NEW s \in 1 .. Len(tree') PROVE tree'[s].in \in 0 .. s - 1
      OBVIOUS
    <3>1. CASE s = n
      BY <1>1, <3>1
    <3>2. CASE s # n
      <4>1. s \in 1 .. Len(tree)
        BY <1>1, <3>2
      <4> QED BY <1>1, <4>1
    <3> QED BY <3>1, <3>2
  <2>2. \A v \in sent' : v.in \in 0 .. Len(tree')
    BY <1>1 DEF Collecting, TreeInv
  <2> QED BY <2>1, <2>2 DEF TreeInv
<1>6. \A e \in 1 .. MaxDepth : c'.sections[e] = IF e = d THEN kind ELSE c.sections[e]
  BY <1>2 DEF Collecting, CollectorTypes, Collectors
<1>7. PlaceInv'
  <2>1. ASSUME NEW e \in 1 .. d
        PROVE  /\ path'[e] \in 1 .. Len(tree')
               /\ tree'[path'[e]].in = IF e = 1 THEN 0 ELSE path'[e - 1]
               /\ c'.sections[e] = tree'[path'[e]].kind
    <3>1. CASE e = d
      <4>1. Inner = IF e = 1 THEN 0 ELSE path'[e - 1]
        <5>1. Inner = IF uiDepth = 0 THEN 0 ELSE path[uiDepth]
          BY PathFacts DEF Collecting
        <5>2. uiDepth # 0 => path'[uiDepth] = path[uiDepth]
          BY <1>2, <1>3
        <5> QED BY <1>2, <3>1, <5>1, <5>2
      <4>2. path'[e] = n /\ n \in 1 .. Len(tree')
        BY <1>1, <1>3, <3>1
      <4>3. c'.sections[e] = kind
        BY <1>2, <1>6, <3>1
      <4> QED BY <1>1, <4>1, <4>2, <4>3
    <3>2. CASE e # d
      <4>1. e \in 1 .. uiDepth /\ e \in 1 .. MaxDepth
        BY <1>2, <3>2
      <4>2. /\ path[e] \in 1 .. Len(tree) /\ c.sections[e] = tree[path[e]].kind
            /\ tree[path[e]].in = IF e = 1 THEN 0 ELSE path[e - 1]
        BY <4>1 DEF Collecting, PlaceInv
      <4>3. path'[e] = path[e] /\ (e # 1 => path'[e - 1] = path[e - 1])
        BY <1>2, <1>3, <4>1
      <4>4. path[e] \in 1 .. Len(tree') /\ tree'[path[e]] = tree[path[e]]
        BY <1>1, <4>2
      <4>5. c'.sections[e] = c.sections[e]
        BY <1>6, <3>2, <4>1
      <4> QED BY <4>2, <4>3, <4>4, <4>5
    <3> QED BY <3>1, <3>2
  <2>2. \A e \in 1 .. MaxDepth : e > d => c'.sections[e] = NoName
    BY <1>2, <1>6 DEF Collecting, PlaceInv
  <2> QED BY <1>3, <2>1, <2>2 DEF Collecting, PlaceInv
<1>8. x \in Fields /\ x = [name |-> "child", in |-> n]
  BY <1>1 DEF Fields, Names
<1>9. Noted(d) => Stores(x)
  OBVIOUS
<1>10. ~(Opens(d) /\ Noted(d))
  BY <1>2 DEF Opens, Noted
<1> HIDE DEF x
<1>11. Owner' = IF Opens(d) THEN n ELSE Owner
  <2>1. /\ uiDepth >= 1 => path'[1] = path[1]
        /\ uiDepth >= 2 => path'[2] = path[2]
        /\ uiDepth >= 3 => path'[3] = path[3]
    BY <1>2, <1>3
  <2>2. CASE query = "children"
    <3>1. uiDepth >= 2 => /\ c.sections[2] = tree[path[2]].kind
                          /\ tree'[path'[2]].kind = c.sections[2]
      <4> SUFFICES ASSUME uiDepth >= 2
                   PROVE  /\ c.sections[2] = tree[path[2]].kind
                          /\ tree'[path'[2]].kind = c.sections[2]
        OBVIOUS
      <4>1. 2 \in 1 .. uiDepth
        BY <1>2
      <4>2. path[2] \in 1 .. Len(tree) /\ c.sections[2] = tree[path[2]].kind
        BY <4>1 DEF Collecting, PlaceInv
      <4> QED BY <1>1, <2>1, <4>2
    <3>2. CASE uiDepth <= 1
      BY <1>1, <1>2, <2>2, <3>2 DEF Owner, Opens
    <3>3. CASE uiDepth = 2
      <4>1. path'[3] = n
        BY <1>3, <3>3
      <4>2. Opens(d) <=> c.sections[2] = "child-sas"
        BY <2>2, <3>3 DEF Opens
      <4>3. Owner = 0
        BY <2>2, <3>3 DEF Owner
      <4>4. Owner' = IF c.sections[2] = "child-sas" THEN n ELSE 0
        <5>1. query' = "children" /\ uiDepth' >= 3 /\ tree'[path'[2]].kind = c.sections[2]
          <6>1. uiDepth >= 2 /\ uiDepth' >= 3
            BY <3>3
          <6> QED BY <1>1, <2>2, <3>1, <6>1
        <5> QED BY <4>1, <5>1 DEF Owner
      <4> QED BY <4>2, <4>3, <4>4
    <3>4. CASE uiDepth >= 3
      <4>1. ~Opens(d) /\ uiDepth >= 2 /\ uiDepth' >= 3 /\ query' = "children"
        BY <1>1, <1>2, <2>2, <3>4 DEF Opens
      <4>2. tree'[path'[2]].kind = tree[path[2]].kind /\ path'[3] = path[3]
        BY <2>1, <3>1, <3>4, <4>1
      <4> QED BY <2>2, <3>4, <4>1, <4>2 DEF Owner
    <3> QED BY <1>2, <3>2, <3>3, <3>4
  <2>3. CASE query # "children"
    BY <1>1, <1>2, <1>3, <2>1, <2>3 DEF Owner, Opens
  <2> QED BY <2>2, <2>3
<1>12. CurrentInv'
  <2>1. c'.ikeName = IF query' = "conns" \/ uiDepth' = 0 THEN 0 ELSE path'[1]
    <3>1. uiDepth = 0 => path'[1] = n
      BY <1>3
    <3>2. uiDepth # 0 => path'[1] = path[1]
      BY <1>2, <1>3
    <3> QED BY <1>1, <1>2, <3>1, <3>2 DEF Collecting, CurrentInv
  <2>2. CASE Opens(d)
    <3>1. Owner' = n /\ n # 0
      BY <1>1, <1>11, <2>2
    <3>2. Len(c.items) \in Nat /\ c.items \in Seq(Records)
      BY DEF Collecting, CollectorTypes, Collectors
    <3>3. Append(c.items, r)[Len(c.items) + 1] = r
      BY <3>2
    <3>4. c'.current # 0 /\ c'.items[c'.current] = r
      BY <2>2, <3>2, <3>3
    <3> QED BY <2>1, <3>1, <3>4 DEF CurrentInv
  <2>3. CASE ~Opens(d)
    <3>1. c'.current = c.current
      BY <1>9, <2>3 DEF Stores
    <3>2. c.current # 0 => c'.items[c.current].name = c.items[c.current].name
      <4>1. CASE Noted(d)
        BY <1>8, <1>9, <4>1, StoredCurrent DEF Collecting
      <4>2. CASE ~Noted(d)
        BY <2>3, <4>2
      <4> QED BY <4>1, <4>2
    <3> QED BY <1>1, <1>11, <2>1, <2>3, <3>1, <3>2 DEF Collecting, CurrentInv
  <2> QED BY <2>2, <2>3
<1>13. RecordsInv'
  <2>1. \A s \in Owners : RecordOf(s)' = IF Noted(d) /\ s = Owner
                                         THEN Added(RecordOf(s), x) ELSE RecordOf(s)
    BY <1>8, RecordsAtStart
  <2>2. Owners' = IF Opens(d) THEN Owners \cup {n} ELSE Owners
    BY OwnersGrow DEF Collecting
  <2>3. CASE Opens(d)
    <3>1. RecordOf(n)' = r
      BY <2>3, RecordAtStart
    <3>2. \A s \in Owners : RecordOf(s)' = RecordOf(s)
      BY <1>10, <2>1, <2>3
    <3>3. r.name = n
      OBVIOUS
    <3> QED BY <1>1, <2>2, <2>3, <3>1, <3>2, <3>3, RecordAppended DEF Collecting
  <2>4. CASE Noted(d)
    <3>1. PICK k : k = Owner
      OBVIOUS
    <3>2. k # 0
      <4>1. 1 \in 1 .. uiDepth /\ query = "conns"
        BY <1>2, <2>4 DEF Noted
      <4>2. path[1] # 0
        BY <4>1, PathFacts DEF Collecting
      <4> QED BY <1>2, <3>1, <4>1, <4>2 DEF Owner
    <3>3. k \in Owners
      BY <3>1, <3>2, InnerOwner DEF Collecting
    <3>4. c.current # 0 /\ c.items[c.current].name = k
      BY <3>1, <3>2 DEF Collecting, CurrentInv
    <3> DEFINE new == Added(c.items[c.current], x)
    <3>5. /\ new = [c.items[c.current] EXCEPT !.fields = @ \cup {x}]
          /\ c'.items = [c.items EXCEPT ![c.current] = new]
      BY <1>9, <2>4, <3>4 DEF Stores, Put, Added
    <3>6. RecordOf(k)' = [RecordOf(k) EXCEPT !.fields = @ \cup {x}]
      BY <2>1, <2>4, <3>1, <3>3 DEF Added
    <3>7. \A s \in Owners \ {k} : RecordOf(s)' = RecordOf(s)
      BY <2>1, <3>1
    <3>8. Owners' = Owners
      BY <1>10, <2>2, <2>4
    <3>9. CollectorTypes /\ RecordsInv
      BY DEF Collecting
    <3> HIDE DEF new
    <3> QED BY ONLY <1>8, <3>3, <3>4, <3>5, <3>6, <3>7, <3>8, <3>9, RecordStored
  <2>5. CASE ~Opens(d) /\ ~Noted(d)
    <3>1. c'.items = c.items /\ Owners' = Owners
      BY <2>2, <2>5
    <3>2. \A s \in Owners : RecordOf(s)' = RecordOf(s)
      BY <2>1, <2>5
    <3> QED BY <3>1, <3>2, RecordsKept DEF Collecting
  <2> QED BY <2>3, <2>4, <2>5
<1> QED BY <1>4, <1>5, <1>7, <1>12, <1>13 DEF Collected

-----------------------------------------------------------------------------
(* All steps.                                                              *)

IInv == Inv /\ CollectorTypes /\ CollectInv

LEMMA Ready ==
    ASSUME IInv, phase # "done"
    PROVE  /\ Collecting /\ eError = "ok" /\ query \in {"ikes", "children", "conns"}
           /\ c \in Collectors /\ c.current <= Len(c.items)
           /\ Inner \in Nat /\ uiDepth \in 0 .. MaxDepth /\ uiDepth \in Nat
           /\ MaxDepth \in Nat
<1>1. Collecting /\ eError = "ok" /\ ParserTypes /\ CollectorTypes
  BY DEF IInv, Inv, CollectInv, Collecting
<1>2. Inner \in 0 .. Len(tree) /\ Len(tree) \in Nat /\ uiDepth \in Nat
  BY <1>1, PathFacts DEF Collecting
<1>3. Inner \in Nat
  BY <1>2
<1> QED BY <1>1, <1>2, <1>3, MessageConstants DEF ParserTypes, CollectorTypes

LEMMA CollectedStep ==
    ASSUME Inv', Collected', phase # "done" => eError = "ok",
           UNCHANGED eError, phase' # "done" => phase # "done"
    PROVE  IInv'
BY DEF IInv, Collected, CollectInv

LEMMA InitIInv == Init => IInv
<1> SUFFICES ASSUME Init PROVE IInv
  OBVIOUS
<1>1. Inv /\ MaxDepth \in Nat
  BY InitInv, MessageConstants
<1>2. /\ c \in Collectors /\ c.current = 0 /\ c.items = <<>> /\ c.ikeName = 0
      /\ c.listName = NoName /\ \A d \in 1 .. MaxDepth : c.sections[d] = NoName
  BY DEF Init, NewCollector, Collectors, Names
<1>3. /\ path = <<>> /\ tree = <<>> /\ list = NoName /\ sent = {} /\ uiDepth = 0
      /\ bListOpen = FALSE /\ phase = "next" /\ eError = "ok"
  BY DEF Init
<1>4. Len(<<>>) = 0 /\ \A S : <<>> \in Seq(S)
  OBVIOUS
<1>5. CollectorTypes
  BY <1>2, <1>3, <1>4 DEF CollectorTypes
<1>6. TreeInv /\ PlaceInv
  BY <1>2, <1>3, <1>4 DEF TreeInv, PlaceInv
<1>7. CurrentInv
  BY <1>2, <1>3 DEF CurrentInv, Owner
<1>8. Owners = {}
  BY <1>3, <1>4 DEF Owners, ChildSections
<1>9. RecordsInv
  BY <1>2, <1>4, <1>8, FS_EmptySet DEF RecordsInv
<1> QED BY <1>1, <1>3, <1>5, <1>6, <1>7, <1>9 DEF IInv, CollectInv

LEMMA FailIInv ==
    ASSUME IInv, Fail
    PROVE  IInv'
<1>1. Inv'
  BY FailInv DEF IInv
<1>2. c' \in Collectors /\ c'.current = 0 /\ c'.items = <<>>
  BY DEF Fail, NewCollector, Collectors, Names
<1>3. path' = <<>> /\ tree' = <<>> /\ list' = NoName /\ sent' = {}
  BY DEF Fail
<1>4. Len(<<>>) = 0 /\ \A S : <<>> \in Seq(S)
  OBVIOUS
<1>5. CollectorTypes'
  BY <1>2, <1>3, <1>4 DEF CollectorTypes
<1> QED BY <1>1, <1>5 DEF IInv, CollectInv, Fail

\* A step of the parser alone.
LEMMA SameCollector ==
    ASSUME Collecting, UNCHANGED <<query, uiDepth, c, historyVars>>,
           ~bListOpen' => ~bListOpen,
           phase' \in {"next", "packet"} => uiDepth = 0 /\ ~bListOpen'
    PROVE  Collected'
<1>1. CollectorTypes' /\ TreeInv' /\ PlaceInv'
  BY DEF Collecting, CollectorTypes, TreeInv, PlaceInv, historyVars
<1>2. CurrentInv'
  BY DEF Collecting, CurrentInv, Owner, historyVars
<1>3. Owners' = Owners /\ \A s \in Owners : RecordOf(s)' = RecordOf(s)
  BY SameTree DEF RecordOf, SentIn, EndsOf, historyVars
<1>4. RecordsInv'
  BY <1>3, RecordsKept DEF Collecting
<1> QED BY <1>1, <1>2, <1>4 DEF Collected

LEMMA DecodeIInv ==
    ASSUME IInv, NEW named \in BOOLEAN, NEW n \in Nat, DecodeViciPacket(named, n)
    PROVE  IInv'
<1>1. Inv'
  BY DecodeInv DEF IInv
<1>2. CASE Fail
  BY <1>2, FailIInv
<1>3. CASE ~Fail
  <2>1. /\ phase = "packet" /\ phase' = "message"
        /\ UNCHANGED <<query, eError, uiDepth, bListOpen, c, historyVars>>
    BY <1>3 DEF DecodeViciPacket
  <2> QED BY <1>1, <2>1, Ready, SameCollector, CollectedStep
<1> QED BY <1>2, <1>3

LEMMA SectionStartIInv ==
    ASSUME IInv, NEW kind \in SectionKinds, NEW n \in Nat, SectionStart(kind, n)
    PROVE  IInv'
<1> DEFINE number == Len(tree) + 1
           e == [type |-> "section", depth |-> uiDepth + 1, name |-> kind, section |-> number]
           r == [name |-> number, ike |-> IF query = "children" THEN c.ikeName ELSE 0,
                 fields |-> {}]
<1>1. Inv'
  BY SectionStartInv DEF IInv
<1>2. CASE Fail
  BY <1>2, FailIInv
<1>3. CASE ~Fail
  <2>1. /\ phase = "message" /\ MaxDepth > uiDepth /\ c' = Collect(e)
        /\ tree' = Append(tree, [kind |-> kind, in |-> Inner]) /\ path' = Append(path, number)
        /\ uiDepth' = uiDepth + 1
        /\ UNCHANGED <<query, phase, eError, bListOpen, list, sent>>
    <3>1. phase = "message"
      BY DEF SectionStart, ReadType
    <3>2. uiDepth \in Nat /\ MaxDepth \in Nat
      BY <3>1, Ready
    <3> QED BY <1>3, <3>1, <3>2 DEF SectionStart, Deliver
  <2>2. /\ Collecting /\ eError = "ok" /\ query \in {"ikes", "children", "conns"}
        /\ c \in Collectors /\ c.current <= Len(c.items)
        /\ uiDepth \in Nat /\ MaxDepth \in Nat /\ phase # "done"
    BY <2>1, Ready
  <2>3. Len(tree) \in Nat /\ number \in Nat /\ uiDepth + 1 \in 1 .. MaxDepth
    BY <2>1, <2>2 DEF Collecting, CollectorTypes
  <2>4. kind \in Names
    BY DEF SectionKinds, Names
  <2>5. Grows(number, kind)
    BY <2>1 DEF Grows
  <2>6. /\ e = [type |-> "section", depth |-> uiDepth + 1, name |-> kind, section |-> number]
        /\ r = [name |-> number, ike |-> IF query = "children" THEN c.ikeName ELSE 0,
                fields |-> {}]
    OBVIOUS
  <2> HIDE DEF e, r, number
  <2>7. /\ c' \in Collectors /\ c'.current <= Len(c'.items)
        /\ c'.sections = [c.sections EXCEPT ![uiDepth + 1] = kind]
        /\ c'.listName = c.listName
        /\ c'.ikeName = IF uiDepth + 1 = 1 /\ query # "conns" THEN number ELSE c.ikeName
        /\ Opens(uiDepth + 1) => c'.items = Append(c.items, r) /\ c'.current = Len(c.items) + 1
        /\ Noted(uiDepth + 1) => Stores([name |-> "child", in |-> number])
        /\ ~Opens(uiDepth + 1) /\ ~Noted(uiDepth + 1) =>
              c'.items = c.items /\ c'.current = c.current
    <3> DEFINE d == uiDepth + 1
    <3>1. /\ d \in 1 .. MaxDepth /\ c' = Collect(e)
          /\ e = [type |-> "section", depth |-> d, name |-> kind, section |-> number]
      BY <2>1, <2>3, <2>6
    <3> HIDE DEF d
    <3>2. /\ c' \in Collectors /\ c'.current <= Len(c'.items)
          /\ c'.sections = [c.sections EXCEPT ![d] = kind]
          /\ c'.listName = c.listName
          /\ c'.ikeName = IF d = 1 /\ query # "conns" THEN number ELSE c.ikeName
          /\ Opens(d) => c'.items = Append(c.items, r) /\ c'.current = Len(c.items) + 1
          /\ Noted(d) => Stores([name |-> "child", in |-> number])
          /\ ~Opens(d) /\ ~Noted(d) => c'.items = c.items /\ c'.current = c.current
      BY ONLY <2>2, <2>3, <2>4, <2>6, <3>1, StartEffect
    <3> QED BY <3>2 DEF d
  <2>8. Collected'
    BY <2>1, <2>2, <2>4, <2>5, <2>6, <2>7, StartStep
  <2> QED BY <1>1, <2>1, <2>2, <2>8, CollectedStep
<1> QED BY <1>2, <1>3

LEMMA SectionEndIInv ==
    ASSUME IInv, SectionEnd
    PROVE  IInv'
<1> DEFINE e == [type |-> "section_end", depth |-> uiDepth, name |-> NoName,
                 section |-> Inner]
<1>1. Inv'
  BY SectionEndInv DEF IInv
<1>2. CASE Fail
  BY <1>2, FailIInv
<1>3. CASE ~Fail
  <2>1. /\ phase = "message" /\ uiDepth # 0 /\ c' = Collect(e)
        /\ uiDepth' = uiDepth - 1 /\ path' = SubSeq(path, 1, Len(path) - 1)
        /\ UNCHANGED <<query, phase, eError, bListOpen, tree, list, sent>>
    BY <1>3 DEF SectionEnd, ReadType, Deliver
  <2>2. /\ Collecting /\ eError = "ok" /\ query \in {"ikes", "children", "conns"}
        /\ c \in Collectors /\ c.current <= Len(c.items)
        /\ uiDepth \in 0 .. MaxDepth /\ MaxDepth \in Nat /\ phase # "done"
    BY <2>1, Ready
  <2>3. uiDepth \in 1 .. MaxDepth
    BY <2>1, <2>2
  <2>4. e = [type |-> "section_end", depth |-> uiDepth, name |-> NoName, section |-> Inner]
    OBVIOUS
  <2> HIDE DEF e
  <2>5. /\ c' \in Collectors /\ c'.current <= Len(c'.items)
        /\ c'.sections = [c.sections EXCEPT ![uiDepth] = NoName]
        /\ c'.listName = c.listName /\ c'.items = c.items
        /\ c'.ikeName = IF uiDepth = 1 /\ query # "conns" THEN 0 ELSE c.ikeName
        /\ c'.current = IF \/ query = "children" /\ uiDepth = 3
                           \/ query = "ikes" /\ uiDepth = 1
                        THEN 0 ELSE c.current
    BY <2>1, <2>2, <2>3, <2>4, EndEffect
  <2>6. Collected'
    BY <2>1, <2>2, <2>5, EndStep
  <2> QED BY <1>1, <2>1, <2>2, <2>6, CollectedStep
<1> QED BY <1>2, <1>3

LEMMA KeyValueIInv ==
    ASSUME IInv, NEW key \in Keys, NEW n \in Nat, NEW v \in Nat, KeyValue(key, n, v)
    PROVE  IInv'
<1> DEFINE e == [type |-> "value", depth |-> uiDepth, name |-> key, section |-> Inner]
           name == ValueName(uiDepth, key)
<1>1. Inv'
  BY KeyValueInv DEF IInv
<1>2. CASE Fail
  BY <1>2, FailIInv
<1>3. CASE ~Fail
  <2>1. /\ phase = "message" /\ c' = Collect(e)
        /\ sent' = sent \cup {[name |-> key, in |-> Inner]}
        /\ UNCHANGED <<query, phase, eError, uiDepth, bListOpen, path, tree, list>>
    BY <1>3 DEF KeyValue, ReadType, Deliver
  <2>2. /\ Collecting /\ eError = "ok" /\ query \in {"ikes", "children", "conns"}
        /\ c \in Collectors /\ c.current <= Len(c.items)
        /\ Inner \in Nat /\ uiDepth \in 0 .. MaxDepth /\ phase # "done"
    BY <2>1, Ready
  <2>3. key \in Names /\ name \in Names
    BY <2>2 DEF Keys, Names, ValueName, Collectors
  <2>4. e = [type |-> "value", depth |-> uiDepth, name |-> key, section |-> Inner]
    OBVIOUS
  <2>5. Belongs(key, name)
    BY DEF Belongs
  <2> HIDE DEF e
  <2>6. StoresAs(name, Inner)
    BY <2>1, <2>2, <2>3, <2>4, ValueEffect
  <2> HIDE DEF name
  <2>7. Collected'
    BY <2>1, <2>2, <2>3, <2>5, <2>6, ValueStep
  <2> QED BY <1>1, <2>1, <2>2, <2>7, CollectedStep
<1> QED BY <1>2, <1>3

LEMMA ListItemIInv ==
    ASSUME IInv, NEW v \in Nat, ListItem(v)
    PROVE  IInv'
<1> DEFINE e == [type |-> "item", depth |-> uiDepth, name |-> NoName, section |-> Inner]
           name == ItemName(uiDepth)
<1>1. Inv'
  BY ListItemInv DEF IInv
<1>2. CASE Fail
  BY <1>2, FailIInv
<1>3. CASE ~Fail
  <2>1. /\ phase = "message" /\ c' = Collect(e)
        /\ sent' = sent \cup {[name |-> list, in |-> Inner]}
        /\ UNCHANGED <<query, phase, eError, uiDepth, bListOpen, path, tree, list>>
    BY <1>3 DEF ListItem, ReadType, Deliver
  <2>2. /\ Collecting /\ eError = "ok" /\ query \in {"ikes", "children", "conns"}
        /\ c \in Collectors /\ c.current <= Len(c.items)
        /\ Inner \in Nat /\ uiDepth \in 0 .. MaxDepth /\ phase # "done"
    BY <2>1, Ready
  <2>3. PICK key : key = list
    OBVIOUS
  <2>4. key \in Names /\ name \in Names
    BY <2>2, <2>3 DEF Names, ItemName, Collecting, CollectorTypes, ListNames
  <2>5. e = [type |-> "item", depth |-> uiDepth, name |-> NoName, section |-> Inner]
    OBVIOUS
  <2>6. Belongs(key, name) /\ sent' = sent \cup {[name |-> key, in |-> Inner]}
    BY <2>1, <2>3 DEF Belongs
  <2> HIDE DEF e
  <2>7. StoresAs(name, Inner)
    BY <2>1, <2>2, <2>5, ItemEffect
  <2> HIDE DEF name
  <2>8. Collected'
    BY <2>1, <2>2, <2>4, <2>6, <2>7, ValueStep
  <2> QED BY <1>1, <2>1, <2>2, <2>8, CollectedStep
<1> QED BY <1>2, <1>3

LEMMA ListStartIInv ==
    ASSUME IInv, NEW name \in ListNames, NEW n \in Nat, ListStart(name, n)
    PROVE  IInv'
<1> DEFINE e == [type |-> "list", depth |-> uiDepth, name |-> name, section |-> Inner]
<1>1. Inv'
  BY ListStartInv DEF IInv
<1>2. CASE Fail
  BY <1>2, FailIInv
<1>3. CASE ~Fail
  <2>1. /\ phase = "message" /\ c' = Collect(e) /\ list' = name /\ bListOpen' = TRUE
        /\ UNCHANGED <<query, phase, eError, uiDepth, path, tree, sent>>
    BY <1>3 DEF ListStart, ReadType, Deliver
  <2>2. /\ Collecting /\ eError = "ok" /\ query \in {"ikes", "children", "conns"}
        /\ c \in Collectors /\ c.current <= Len(c.items) /\ phase # "done"
    BY <2>1, Ready
  <2>3. name \in Names /\ name \in ListNames \cup {NoName}
    BY DEF Names, ListNames
  <2>4. e = [type |-> "list", depth |-> uiDepth, name |-> name, section |-> Inner]
    OBVIOUS
  <2> HIDE DEF e
  <2>5. /\ c' \in Collectors /\ c'.current <= Len(c'.items)
        /\ c'.sections = c.sections /\ c'.ikeName = c.ikeName /\ c'.listName = name
        /\ c'.items = c.items /\ c'.current = c.current
    BY <2>1, <2>2, <2>3, <2>4, ListEffect
  <2>6. Collected'
    BY <2>1, <2>2, <2>3, <2>5, ListStep
  <2> QED BY <1>1, <2>1, <2>2, <2>6, CollectedStep
<1> QED BY <1>2, <1>3

LEMMA ListEndIInv ==
    ASSUME IInv, ListEnd
    PROVE  IInv'
<1> DEFINE e == [type |-> "list_end", depth |-> uiDepth, name |-> NoName, section |-> Inner]
<1>1. Inv'
  BY ListEndInv DEF IInv
<1>2. CASE Fail
  BY <1>2, FailIInv
<1>3. CASE ~Fail
  <2>1. /\ phase = "message" /\ c' = Collect(e) /\ list' = NoName
        /\ UNCHANGED <<query, phase, eError, uiDepth, path, tree, sent>>
    BY <1>3 DEF ListEnd, ReadType, Deliver
  <2>2. /\ Collecting /\ eError = "ok" /\ query \in {"ikes", "children", "conns"}
        /\ c \in Collectors /\ c.current <= Len(c.items) /\ phase # "done"
    BY <2>1, Ready
  <2>3. NoName \in Names /\ NoName \in ListNames \cup {NoName}
    BY DEF Names
  <2>4. e = [type |-> "list_end", depth |-> uiDepth, name |-> NoName, section |-> Inner]
    OBVIOUS
  <2> HIDE DEF e, NoName
  <2>5. /\ c' \in Collectors /\ c'.current <= Len(c'.items)
        /\ c'.sections = c.sections /\ c'.ikeName = c.ikeName /\ c'.listName = NoName
        /\ c'.items = c.items /\ c'.current = c.current
    BY <2>1, <2>2, <2>3, <2>4, ListEffect
  <2>6. Collected'
    BY <2>1, <2>2, <2>3, <2>5, ListStep
  <2> QED BY <1>1, <2>1, <2>2, <2>6, CollectedStep
<1> QED BY <1>2, <1>3

LEMMA MessageEndIInv ==
    ASSUME IInv, MessageEnd
    PROVE  IInv'
<1>1. Inv'
  BY MessageEndInv DEF IInv
<1>2. CASE Fail
  BY <1>2, FailIInv
<1>3. CASE ~Fail
  <2>1. /\ phase = "message" /\ ~Unbalanced
        /\ UNCHANGED <<query, eError, uiDepth, bListOpen, c, historyVars>>
    BY <1>3 DEF MessageEnd
  <2>2. uiDepth = 0 /\ ~bListOpen
    BY <2>1 DEF Unbalanced
  <2> QED BY <1>1, <2>1, <2>2, Ready, SameCollector, CollectedStep
<1> QED BY <1>2, <1>3

LEMMA NextPacketIInv ==
    ASSUME IInv, NextPacket
    PROVE  IInv'
<1>1. Inv'
  BY NextPacketInv DEF IInv
<1>2. phase = "next" /\ UNCHANGED <<query, eError, c, historyVars>>
  BY DEF NextPacket
<1>3. uiDepth = 0 /\ ~bListOpen
  BY <1>2, Ready DEF Collecting, PlaceInv
<1>4. uiDepth' = uiDepth /\ ~bListOpen'
  BY <1>3 DEF NextPacket
<1> QED BY <1>1, <1>2, <1>3, <1>4, Ready, SameCollector, CollectedStep

LEMMA StutterIInv ==
    ASSUME IInv, UNCHANGED vars
    PROVE  IInv'
<1>1. Inv'
  BY StutterInv DEF IInv
<1>2. UNCHANGED <<query, eError, phase, uiDepth, bListOpen, c, historyVars>>
  BY DEF vars, parserVars
<1>3. CASE eError = "ok"
  <2>1. Collecting
    BY <1>3 DEF IInv, Inv, CollectInv, Collecting
  <2>2. phase \in {"next", "packet"} => uiDepth = 0 /\ ~bListOpen
    BY <2>1 DEF Collecting, PlaceInv
  <2>3. Collected'
    BY <1>2, <2>1, <2>2, SameCollector
  <2> QED BY <1>1, <1>2, <1>3, <2>3, CollectedStep
<1>4. CASE eError # "ok"
  BY <1>1, <1>2, <1>4 DEF IInv, CollectInv, CollectorTypes, historyVars
<1> QED BY <1>3, <1>4

LEMMA NextIInv == IInv /\ [Next]_vars => IInv'
<1> SUFFICES ASSUME IInv, [Next]_vars PROVE IInv'
  OBVIOUS
<1> USE MessageConstants
<1>1. CASE \E named \in BOOLEAN, n \in NameLengths : DecodeViciPacket(named, n)
  BY <1>1, DecodeIInv
<1>2. CASE \E kind \in SectionKinds, n \in NameLengths : SectionStart(kind, n)
  BY <1>2, SectionStartIInv
<1>3. CASE SectionEnd
  BY <1>3, SectionEndIInv
<1>4. CASE \E key \in Keys, n \in NameLengths, v \in ValueLengths : KeyValue(key, n, v)
  BY <1>4, KeyValueIInv
<1>5. CASE \E name \in ListNames, n \in NameLengths : ListStart(name, n)
  BY <1>5, ListStartIInv
<1>6. CASE \E v \in ValueLengths : ListItem(v)
  BY <1>6, ListItemIInv
<1>7. CASE ListEnd
  BY <1>7, ListEndIInv
<1>8. CASE ElementRefused
  BY <1>8, FailIInv DEF ElementRefused
<1>9. CASE MessageEnd
  BY <1>9, MessageEndIInv
<1>10. CASE NextPacket
  BY <1>10, NextPacketIInv
<1>11. CASE UNCHANGED vars
  BY <1>11, StutterIInv
<1> QED BY <1>1, <1>2, <1>3, <1>4, <1>5, <1>6, <1>7, <1>8, <1>9, <1>10, <1>11 DEF Next

\* The parser's depth stays within VICI_MAX_SECTION_DEPTH, which bounds every index
\* into the collectors' section names, what is left of a packet behind its name is
\* the length of a message and never a difference that wrapped, and the current
\* record of a collector is one of its list.
THEOREM MessageTypes == Spec => []TypeOK
<1>1. IInv => TypeOK
  BY DEF IInv, Inv, TypeOK
<1> QED BY InitIInv, NextIInv, <1>1, PTL DEF Spec

\* One collector serves all events of a query, and every event finds it as the
\* first one did, for any number of events with any elements in them.
THEOREM EventsFindNothing == Spec => []EventsStartClean
<1>1. ASSUME IInv PROVE EventsStartClean
  <2> SUFFICES ASSUME phase = "next"
               PROVE  /\ c.listName = NoName /\ c.ikeName = 0
                      /\ \A d \in 1 .. MaxDepth : c.sections[d] = NoName
                      /\ query # "conns" => c.current = 0
    BY DEF EventsStartClean
  <2>1. PlaceInv /\ CurrentInv /\ uiDepth = 0 /\ ~bListOpen
    BY <1>1 DEF IInv, CollectInv, PlaceInv
  <2>2. Owner = 0
    BY <2>1 DEF Owner
  <2> QED BY <2>1, <2>2 DEF PlaceInv, CurrentInv
<1> QED BY InitIInv, NextIInv, <1>1, PTL DEF Spec

\* CollectSaElement and CollectConnectionElement return exactly what charon sent: a
\* record for each SA or connection and nothing in it from another section, for any
\* nesting of sections up to the depth limit and any number of events.
THEOREM ListsAreAsSent == Spec => []CollectedAsSent
<1>1. ASSUME IInv PROVE CollectedAsSent
  <2> SUFFICES ASSUME eError = "ok"
               PROVE  /\ Len(c.items) = Cardinality(Owners)
                      /\ \A i \in 1 .. Len(c.items) :
                            /\ c.items[i].name \in Owners
                            /\ c.items[i] = RecordOf(c.items[i].name)
                            /\ i > 1 => c.items[i - 1].name < c.items[i].name
    BY DEF CollectedAsSent
  <2>1. RecordsInv
    BY <1>1 DEF IInv, CollectInv
  <2>2. Len(c.items) \in Nat
    BY <1>1 DEF IInv, CollectorTypes, Collectors
  <2>3. ASSUME NEW i \in 1 .. Len(c.items), i > 1
        PROVE  c.items[i - 1].name < c.items[i].name
    <3>1. i - 1 \in 1 .. Len(c.items) /\ i - 1 < i
      BY <2>2, <2>3
    <3> QED BY <2>1, <3>1 DEF RecordsInv
  <2> QED BY <2>1, <2>3 DEF RecordsInv
<1> QED BY InitIInv, NextIInv, <1>1, PTL DEF Spec

=============================================================================
