----------------------------- MODULE ViciMessage -----------------------------
(***************************************************************************)
(* What the library makes of the bytes charon sends: DecodeViciPacket,     *)
(* ParseViciMessage, and the collectors that turn the parsed elements of a *)
(* query into lists of IKE SAs, CHILD SAs or connections.                  *)
(*                                                                         *)
(* A byte is chosen when it is read.  Every byte is read once, so this is  *)
(* the same as an arbitrary packet chosen beforehand, and only the bytes   *)
(* that decide something are chosen: types, lengths and names.             *)
(*                                                                         *)
(* A section, a list or a value has a name of a few kinds, those that the  *)
(* collectors compare with and one other.  Each section gets a number when *)
(* it starts, which stands for its name where names are copied, so that    *)
(* what was sent in which section can be told apart from what was          *)
(* collected where.                                                        *)
(***************************************************************************)
EXTENDS Integers, Sequences, FiniteSets

CONSTANTS
    Packets,        \* the event packets of a query: sequences of their lengths
    NameLengths,    \* values of a name's length byte
    ValueLengths,   \* values of a value's two length bytes
    MaxDepth,       \* VICI_MAX_SECTION_DEPTH
    UintRange,      \* 2^32: lengths are subtracted as unsigned integers
    Queries         \* the queries to look at: "ikes", "children", "conns"

ASSUME MessageConstants ==
    /\ UintRange \in Nat \ {0} /\ MaxDepth \in Nat
    /\ NameLengths \subseteq Nat /\ ValueLengths \subseteq Nat
    /\ Packets \subseteq Seq(0 .. UintRange - 1)
    /\ Queries \subseteq {"ikes", "children", "conns"}

VARIABLES
    query,      \* which list is being collected
    packets,    \* the lengths of the packets to come
    phase,      \* "next" (packet), "packet", "message", or "done"
    eError,     \* "ok" or "failed"
    length,     \* of the packet, and then of its message
    uiOffset,   \* the next byte
    uiDepth,
    bListOpen,
    c,          \* the collector
    \* history
    path,       \* the numbers of the open sections
    tree,       \* all sections, by number: their kind and the section they are in
    list,       \* the name of the open list
    sent        \* the values and list items delivered: name and section

parserVars == <<phase, length, uiOffset, uiDepth, bListOpen>>
historyVars == <<path, tree, list, sent>>
vars == <<query, packets, eError, parserVars, c, historyVars>>

-----------------------------------------------------------------------------
(* The names.                                                              *)

\* The section that holds the CHILD SAs of an IKE SA, or a connection's children.
ChildSection == IF query = "conns" THEN "children" ELSE "child-sas"

SectionKinds ==
    IF query = "conns" THEN {"children", "local", "remote"} ELSE {"child-sas", "other"}

\* A field of an SA; and the fields that are read at different depths.
Keys == IF query = "conns" THEN {"rekey_time", "id"} ELSE {"state", "other"}

\* local-ts or remote-ts; local_addrs or remote_addrs.
ListNames == {"wanted", "other"}

NoName == "none"

-----------------------------------------------------------------------------
(* The collectors: SaCollector_t and ConnectionCollector_t.  current is the *)
(* index of pCurrentIke, pCurrentChild or pCurrent in the one list that is *)
(* requested, and 0 for NULL.                                              *)

NewCollector == [sections |-> [d \in 1 .. MaxDepth |-> NoName], ikeName |-> 0,
                 listName |-> NoName, current |-> 0, items |-> <<>>]

\* AppendIkeSa, AppendChildSa, AppendConnectionInfo.
Append_(col, item) ==
    [col EXCEPT !.items = Append(@, item), !.current = Len(col.items) + 1]

\* A value or an item is stored in the current record.
Store(col, name, in) ==
    IF col.current = 0 THEN col
    ELSE [col EXCEPT !.items[col.current].fields = @ \cup {[name |-> name, in |-> in]}]

\* An element: its type, its depth as the parser reports it, the kind of its name,
\* and the number of the section it starts or is in.
CollectSaSectionStart(col, e) ==
    LET named == [col EXCEPT !.sections[e.depth] = e.name] IN
    CASE e.depth = 1 ->
           LET in == [named EXCEPT !.ikeName = e.section] IN
           IF query = "ikes"
           THEN Append_(in, [name |-> e.section, ike |-> 0, fields |-> {}]) ELSE in
      [] e.depth = 3 /\ named.sections[2] = "child-sas" /\ query = "children" ->
           Append_(named, [name |-> e.section, ike |-> named.ikeName, fields |-> {}])
      [] OTHER -> named

\* Mutant: the current CHILD survives its section.
SaSectionEndKeepsChild(col, e) ==
    [col EXCEPT !.sections[e.depth] = NoName,
                !.ikeName = IF e.depth = 1 THEN 0 ELSE @,
                !.current = IF query = "ikes" /\ e.depth = 1 THEN 0 ELSE @]

SaSectionEnd(col, e) ==
    [col EXCEPT !.sections[e.depth] = NoName,
                !.ikeName = IF e.depth = 1 THEN 0 ELSE @,
                !.current = IF \/ query = "children" /\ e.depth = 3
                               \/ query = "ikes" /\ e.depth = 1
                            THEN 0 ELSE @]

\* CollectIkeValue and CollectChildValue: names they do not know are skipped.
CollectSaValue(col, e) ==
    IF \/ e.depth = 1 /\ query = "ikes"
       \/ e.depth = 3 /\ query = "children" /\ col.sections[2] = "child-sas"
    THEN IF e.name = "state" THEN Store(col, e.name, e.section) ELSE col
    ELSE col

CollectSaElement(col, e) ==
    CASE e.type = "section"     -> CollectSaSectionStart(col, e)
      [] e.type = "section_end" -> SaSectionEnd(col, e)
      [] e.type = "value"       -> CollectSaValue(col, e)
      [] e.type = "list"        -> [col EXCEPT !.listName = e.name]
      [] e.type = "list_end"    -> [col EXCEPT !.listName = NoName]
      [] e.type = "item"        ->
           IF e.depth = 3 /\ query = "children" /\ col.listName = "wanted"
           THEN Store(col, col.listName, e.section) ELSE col

ConnectionSectionStart(col, e) ==
    LET named == [col EXCEPT !.sections[e.depth] = e.name] IN
    CASE e.depth = 1 -> Append_(named, [name |-> e.section, ike |-> 0, fields |-> {}])
      [] e.depth = 3 /\ named.sections[2] = "children" ->
           Store(named, "child", e.section)
      [] OTHER -> named

ConnectionValue(col, e) ==
    CASE e.depth = 1 /\ e.name = "rekey_time" -> Store(col, e.name, e.section)
      [] e.depth = 2 /\ e.name = "id" /\ col.sections[2] \in {"local", "remote"} ->
           Store(col, col.sections[2], e.section)
      [] OTHER -> col

\* pCurrent stays set after its section; no value is stored outside a section.
CollectConnectionElement(col, e) ==
    CASE e.type = "section"     -> ConnectionSectionStart(col, e)
      [] e.type = "section_end" -> [col EXCEPT !.sections[e.depth] = NoName]
      [] e.type = "value"       -> ConnectionValue(col, e)
      [] e.type = "list"        -> [col EXCEPT !.listName = e.name]
      [] e.type = "list_end"    -> [col EXCEPT !.listName = NoName]
      [] e.type = "item"        ->
           IF e.depth = 1 /\ col.listName = "wanted"
           THEN Store(col, col.listName, e.section) ELSE col

Collect(e) ==
    IF query = "conns" THEN CollectConnectionElement(c, e) ELSE CollectSaElement(c, e)

-----------------------------------------------------------------------------
(* Reading.                                                                *)

Init ==
    /\ query \in Queries
    /\ phase = "next" /\ eError = "ok"
    /\ packets \in Packets /\ length = 0
    /\ uiOffset = 0 /\ uiDepth = 0 /\ bListOpen = FALSE
    /\ c = NewCollector
    /\ path = <<>> /\ tree = <<>> /\ list = NoName /\ sent = {}

\* uiMessageLength - *puiOffset.
Left(from) == (length - from) % UintRange

\* IPSEC_ERR_VICI_PROTOCOL, or an error of the callback: the query fails and frees
\* what it collected.
Fail ==
    /\ phase' = "done" /\ eError' = "failed"
    /\ c' = NewCollector
    /\ path' = <<>> /\ tree' = <<>> /\ list' = NoName /\ sent' = {}
    /\ UNCHANGED <<query, packets, length, uiOffset, uiDepth, bListOpen>>

\* Mutant: the length of a name is not compared with what is left.
NameEndUnchecked(from, n) ==
    IF from >= length \/ n = 0 THEN 0 ELSE from + 1 + n

\* ReadViciName from offset from, where the length byte is n: the offset behind the
\* name, or 0.
NameEnd(from, n) ==
    IF from >= length \/ n = 0 \/ n > Left(from + 1) THEN 0 ELSE from + 1 + n

\* Mutant: the length of a value is not compared with what is left.
ValueEndUnchecked(from, n) == IF 2 > Left(from) THEN 0 ELSE from + 2 + n

\* ReadViciValue in the same way.
ValueEnd(from, n) ==
    IF 2 > Left(from) \/ n > Left(from + 2) THEN 0 ELSE from + 2 + n

\* DecodeViciPacket: the type byte, and a name if the type has one; the rest is
\* the message.
DecodeViciPacket(named, n) ==
    /\ phase = "packet"
    /\ LET offset == IF named THEN NameEnd(1, n) ELSE 1 IN
       IF length < 1 \/ offset = 0 THEN Fail
       ELSE /\ length' = length - offset
            /\ phase' = "message"
            /\ UNCHANGED <<query, packets, eError, uiOffset, uiDepth, bListOpen, c,
                           historyVars>>

\* An element begins with its type byte.
ReadType == phase = "message" /\ uiOffset < length

\* Element e, which ends before offset, is in order and the callback takes it.
Deliver(e, offset, depth, open) ==
    /\ uiOffset' = offset /\ uiDepth' = depth /\ bListOpen' = open
    /\ c' = Collect(e)
    /\ UNCHANGED <<query, packets, phase, length, eError>>

Inner == IF path = <<>> THEN 0 ELSE path[Len(path)]

SectionStart(kind, n) ==
    /\ ReadType
    /\ LET end == NameEnd(uiOffset + 1, n)
           number == Len(tree) + 1 IN
       IF bListOpen \/ MaxDepth <= uiDepth \/ end = 0 THEN Fail
       ELSE /\ Deliver([type |-> "section", depth |-> uiDepth + 1, name |-> kind,
                        section |-> number], end, uiDepth + 1, bListOpen)
            /\ path' = Append(path, number)
            /\ tree' = Append(tree, [kind |-> kind, in |-> Inner])
            /\ UNCHANGED <<list, sent>>

SectionEnd ==
    /\ ReadType
    /\ IF bListOpen \/ uiDepth = 0 THEN Fail
       ELSE /\ Deliver([type |-> "section_end", depth |-> uiDepth, name |-> NoName,
                        section |-> Inner], uiOffset + 1, uiDepth - 1, bListOpen)
            /\ path' = SubSeq(path, 1, Len(path) - 1)
            /\ UNCHANGED <<tree, list, sent>>

KeyValue(key, n, v) ==
    /\ ReadType
    /\ LET nameEnd == NameEnd(uiOffset + 1, n)
           end == ValueEnd(nameEnd, v) IN
       IF bListOpen \/ nameEnd = 0 \/ end = 0 THEN Fail
       ELSE /\ Deliver([type |-> "value", depth |-> uiDepth, name |-> key,
                        section |-> Inner], end, uiDepth, bListOpen)
            /\ sent' = sent \cup {[name |-> key, in |-> Inner]}
            /\ UNCHANGED <<path, tree, list>>

ListStart(name, n) ==
    /\ ReadType
    /\ LET end == NameEnd(uiOffset + 1, n) IN
       IF bListOpen \/ end = 0 THEN Fail
       ELSE /\ Deliver([type |-> "list", depth |-> uiDepth, name |-> name,
                        section |-> Inner], end, uiDepth, TRUE)
            /\ list' = name
            /\ UNCHANGED <<path, tree, sent>>

ListItem(v) ==
    /\ ReadType
    /\ LET end == ValueEnd(uiOffset + 1, v) IN
       IF ~bListOpen \/ end = 0 THEN Fail
       ELSE /\ Deliver([type |-> "item", depth |-> uiDepth, name |-> NoName,
                        section |-> Inner], end, uiDepth, bListOpen)
            /\ sent' = sent \cup {[name |-> list, in |-> Inner]}
            /\ UNCHANGED <<path, tree, list>>

ListEnd ==
    /\ ReadType
    /\ IF ~bListOpen THEN Fail
       ELSE /\ Deliver([type |-> "list_end", depth |-> uiDepth, name |-> NoName,
                        section |-> Inner], uiOffset + 1, uiDepth, FALSE)
            /\ list' = NoName
            /\ UNCHANGED <<path, tree, sent>>

\* A type that does not exist, or a callback that fails: a name too long for its
\* field, a number that is none, no memory for another record.
ElementRefused == ReadType /\ Fail

\* Mutant: a message may end inside a section.
EndsUnbalanced == bListOpen

Unbalanced == bListOpen \/ uiDepth # 0

\* The loop is over.
MessageEnd ==
    /\ phase = "message" /\ uiOffset >= length
    /\ \/ Unbalanced /\ Fail
       \/ /\ ~Unbalanced
          /\ phase' = "next"
          /\ UNCHANGED <<query, packets, eError, length, uiOffset, uiDepth, bListOpen, c,
                         historyVars>>

\* The next packet: another event, with the same collector and a new parser, or the
\* command's response, which ends the query.
NextPacket ==
    /\ phase = "next"
    /\ \/ /\ packets # <<>>
          /\ phase' = "packet"
          /\ length' = Head(packets) /\ packets' = Tail(packets)
          /\ uiOffset' = 0 /\ uiDepth' = 0 /\ bListOpen' = FALSE
          /\ UNCHANGED <<query, eError, c, historyVars>>
       \/ /\ packets = <<>>
          /\ phase' = "done"
          /\ UNCHANGED <<query, packets, eError, length, uiOffset, uiDepth, bListOpen, c,
                         historyVars>>

Next ==
    \/ \E named \in BOOLEAN, n \in NameLengths : DecodeViciPacket(named, n)
    \/ \E kind \in SectionKinds, n \in NameLengths : SectionStart(kind, n)
    \/ SectionEnd
    \/ \E key \in Keys, n \in NameLengths, v \in ValueLengths : KeyValue(key, n, v)
    \/ \E name \in ListNames, n \in NameLengths : ListStart(name, n)
    \/ \E v \in ValueLengths : ListItem(v)
    \/ ListEnd
    \/ ElementRefused
    \/ MessageEnd
    \/ NextPacket

Spec == Init /\ [][Next]_vars

-----------------------------------------------------------------------------
(* Properties.                                                             *)

Names ==
    {"children", "child-sas", "local", "remote", "child", "rekey_time", "id", "state",
     "wanted", "other", NoName}

Fields == [name : Names, in : Nat]

Records == [name : Nat, ike : Nat, fields : SUBSET Fields]

ParserTypes ==
    /\ query \in Queries
    /\ packets \in Seq(0 .. UintRange - 1)
    /\ phase \in {"next", "packet", "message", "done"}
    /\ eError \in {"ok", "failed"}
    /\ length \in 0 .. UintRange - 1
    /\ uiOffset \in Nat
    /\ uiDepth \in 0 .. MaxDepth
    /\ bListOpen \in BOOLEAN

Collectors ==
    [sections : [1 .. MaxDepth -> Names], ikeName : Nat, listName : Names,
     current : Nat, items : Seq(Records)]

CollectorTypes ==
    /\ c \in Collectors
    /\ c.current <= Len(c.items)
    /\ path \in Seq(Nat)
    /\ tree \in Seq([kind : Names, in : Nat])
    /\ list \in ListNames \cup {NoName}
    /\ sent \subseteq Fields

TypeOK == ParserTypes /\ CollectorTypes

\* The parser never looks behind the end of a message, whatever the lengths in it
\* say.  Were the offset ever beyond the end, the unsigned difference that guards
\* every later read would be huge.
ReadsInside == phase = "message" => uiOffset <= length

\* A new event finds the collector as a new query does: no section, list or current
\* SA of the event before is left in it, although the collector resets itself only
\* when sections and lists end.
EventsStartClean ==
    phase = "next" =>
        /\ c.listName = NoName /\ c.ikeName = 0
        /\ \A d \in 1 .. MaxDepth : c.sections[d] = NoName
        /\ query # "conns" => c.current = 0

Depth(s) ==
    IF tree[s].in = 0 THEN 1 ELSE IF tree[tree[s].in].in = 0 THEN 2
    ELSE IF tree[tree[tree[s].in].in].in = 0 THEN 3 ELSE 4

\* The values sent in section s itself under one of the names.
SentIn(s, names) == {v \in sent : v.in = s /\ v.name \in names}

\* The sections that hold a CHILD SA, or a child of a connection.
ChildSections == {s \in 1 .. Len(tree) : Depth(s) = 3 /\ tree[tree[s].in].kind = ChildSection}

\* The sections that have a record.
Owners ==
    IF query = "children" THEN ChildSections ELSE {s \in 1 .. Len(tree) : tree[s].in = 0}

\* The children of connection s, and the ends of it that have told their identity.
ChildrenOf(s) ==
    {[name |-> "child", in |-> k] : k \in {k \in ChildSections : tree[tree[k].in].in = s}}

EndsOf(s) ==
    {[name |-> tree[v.in].kind, in |-> v.in] :
        v \in {v \in sent : /\ v.name = "id" /\ v.in # 0 /\ tree[v.in].in = s
                            /\ tree[v.in].kind \in {"local", "remote"}}}

\* The record of section s.
RecordOf(s) ==
    CASE query = "ikes"     -> [name |-> s, ike |-> 0, fields |-> SentIn(s, {"state"})]
      [] query = "children" -> [name |-> s, ike |-> tree[tree[s].in].in,
                                fields |-> SentIn(s, {"state", "wanted"})]
      [] query = "conns"    ->
           [name |-> s, ike |-> 0,
            fields |-> SentIn(s, {"rekey_time", "wanted"}) \cup ChildrenOf(s) \cup EndsOf(s)]

\* At every moment the list is exactly what the elements so far say: one record for
\* each SA's section, in their order, with the values of that section and of no
\* other, and each CHILD SA under the IKE SA whose section it is in.
CollectedAsSent ==
    eError = "ok" =>
        /\ Len(c.items) = Cardinality(Owners)
        /\ \A i \in 1 .. Len(c.items) :
              /\ c.items[i].name \in Owners
              /\ c.items[i] = RecordOf(c.items[i].name)
              /\ i > 1 => c.items[i - 1].name < c.items[i].name

=============================================================================
