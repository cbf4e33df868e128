----------------------------- MODULE NetlinkDump -----------------------------
(***************************************************************************)
(* A query of a kernel table: GetIpsecXfrmStates, GetIpsecXfrmPolicies,    *)
(* GetIpsecInterfaces, GetIpsecAddresses or GetIpsecRoutes, and the dump   *)
(* they share, ExecuteNetlinkDump.                                         *)
(*                                                                         *)
(* The kernel answers in datagrams.  It fills the first one when it gets   *)
(* the request and the next one whenever one is received, each time from   *)
(* the table as it is then: charon and the administrator change the table  *)
(* between two datagrams.  For links the kernel keeps a generation and     *)
(* flags the first message after a change with NLM_F_DUMP_INTR.  Addresses *)
(* are asked for with AF_UNSPEC and served family by family, each with a   *)
(* generation of its own, so that a change may or may not be flagged.      *)
(* States, policies and routes have no such flag.                          *)
(*                                                                         *)
(* An entry of a table is its position in the order in which the kernel    *)
(* walks the table, and a dump is assumed to go on after the last entry it *)
(* sent.  (The dump of an IPv6 routing table that changed goes on after as *)
(* many entries as it sent; it is not covered.)  What is copied from an    *)
(* entry is left out; whether the copy succeeds is kept.                   *)
(***************************************************************************)
EXTENDS Integers, Sequences, FiniteSets

CONSTANTS
    Entries,        \* positions of a kernel table
    OtherFamily,    \* the entries that are neither IPv4 nor IPv6
    Queries,        \* the queries to look at
    MaxPerDatagram, \* bound: messages with entries that fit one datagram
    MaxDatagrams,   \* 4096 in ReceiveNetlinkDump
    MaxChanges,     \* bound: changes of the table during a query
    Faults          \* what may go wrong: see Fault

Fault == {"socket", "receive", "silent", "refused", "aborted", "ack", "endless",
          "header", "sequence", "attribute", "memory"}

Query == {"states", "policies", "interfaces", "addresses", "routes"}

ASSUME DumpConstants ==
    /\ Entries \subseteq Nat \ {0} /\ OtherFamily \subseteq Entries
    /\ Queries \subseteq Query /\ Faults \subseteq Fault
    /\ MaxPerDatagram \in Nat \ {0} /\ MaxDatagrams \in Nat /\ MaxChanges \in Nat

VARIABLES
    query,              \* which list is asked for
    pc,                 \* "call", "wait", "parse" or "done"
    eError,             \* "ok" or "failed"
    list,               \* pList: the entries appended
    buffer,             \* the messages of the received datagram still to be read
    uiDatagramCount,
    table,              \* the kernel's table
    walk,               \* where the kernel's dump continues
    dumping,            \* the kernel has more to send
    pending,            \* the datagram in the socket, or <<>>
    stale,              \* the table changed since the last datagram was filled
    changes,
    \* history
    tables,             \* every content of the table since the request
    base,               \* its content when the first datagram was filled
    aborted             \* the kernel gave up and said so in NLMSG_DONE only

clientVars == <<query, pc, eError, list, buffer, uiDatagramCount>>
kernelVars == <<walk, dumping, pending, stale, base, aborted>>
vars == <<clientVars, kernelVars, table, changes, tables>>

-----------------------------------------------------------------------------
(* The kernel.                                                             *)

Forms == {"good", "header", "sequence", "attribute"}

Message ==
    {m \in [type : {"entry", "done", "error", "ack"}, entry : Entries \cup {0},
            intr : BOOLEAN, form : Forms] : m.type = "entry" => m.entry \in Entries}

\* The table whose dump has one generation from its first datagram to its last.
HasGeneration == query = "interfaces"

\* Whether the kernel flags the datagram it fills now.
Flags ==
    IF ~stale THEN {FALSE}
    ELSE IF HasGeneration THEN {TRUE}
    ELSE IF query = "addresses" THEN BOOLEAN
    ELSE {FALSE}

Increasing(s) == \A i, j \in 1 .. Len(s) : i < j => s[i] < s[j]

\* What fits one datagram: the first entries of those that are left.
Segments(left) ==
    {s \in UNION {[1 .. n -> left] : n \in 0 .. MaxPerDatagram} :
        /\ Increasing(s)
        /\ \A e \in left : (\E i \in 1 .. Len(s) : e <= s[i])
                             => \E i \in 1 .. Len(s) : e = s[i]}

\* The messages of a datagram: entries and, when the dump ends with it, NLMSG_DONE.
Datagram(s, last, flag, form) ==
    [i \in 1 .. Len(s) + (IF last THEN 1 ELSE 0) |->
        [type |-> IF i <= Len(s) THEN "entry" ELSE "done",
         entry |-> IF i <= Len(s) THEN s[i] ELSE 0,
         intr |-> flag /\ i = 1,
         form |-> IF i = 1 THEN form ELSE "good"]]

\* The dump goes on with the entries after the last one sent.  An aborted dump ends
\* early; a silent kernel had no memory for the datagram; an endless one sends
\* another datagram without an entry and without the end.
Fill(flag) ==
    LET left == {e \in table : walk <= e} IN
    \/ \E s \in Segments(left), last \in BOOLEAN, form \in {"good"} \cup (Forms \cap Faults) :
          LET all == \A e \in left : \E i \in 1 .. Len(s) : e = s[i] IN
          /\ s = <<>> => last
          /\ last => all \/ "aborted" \in Faults
          /\ pending' = Datagram(s, last, flag, form)
          /\ walk' = IF s = <<>> THEN walk ELSE s[Len(s)] + 1
          /\ dumping' = ~last
          /\ aborted' = (aborted \/ (last /\ ~all))
          /\ stale' = FALSE
    \/ /\ "silent" \in Faults
       /\ pending' = <<>>
       /\ UNCHANGED <<walk, dumping, aborted, stale>>
    \/ /\ "endless" \in Faults
       /\ pending' = <<[type |-> "ack", entry |-> 0, intr |-> flag, form |-> "good"]>>
       /\ dumping' = TRUE /\ stale' = FALSE
       /\ UNCHANGED <<walk, aborted>>

\* Another process adds or removes an entry.
ChangeTable ==
    /\ pc \in {"wait", "parse"} /\ changes < MaxChanges
    /\ \E e \in Entries :
          /\ table' = IF e \in table THEN table \ {e} ELSE table \cup {e}
          /\ tables' = tables \cup {table'}
    /\ stale' = TRUE /\ changes' = changes + 1
    /\ UNCHANGED <<clientVars, walk, dumping, pending, base, aborted>>

-----------------------------------------------------------------------------
(* The callbacks: what they make of a message with an entry.               *)

Failed == [error |-> "failed", list |-> <<>>]
Kept(l) == [error |-> "ok", list |-> l]

\* The entry is appended and filled in from its attributes; the list may not grow.
\* A malformed attribute refuses the message.
AppendItem(l, m) ==
    (IF m.form = "attribute" THEN {} ELSE {Kept(Append(l, m.entry))})
        \cup (IF m.form = "attribute" \/ "memory" \in Faults THEN {Failed} ELSE {})

\* An address of another family cannot be converted: NOT_SUPPORTED.
ParseXfrmStateMessage(l, m) ==
    IF m.entry \in OtherFamily THEN {Failed} ELSE AppendItem(l, m)

ParseXfrmPolicyMessage(l, m) ==
    IF m.entry \in OtherFamily THEN {Failed} ELSE AppendItem(l, m)

ParseInterfaceMessage(l, m) == AppendItem(l, m)

\* Entries of other families are skipped, before their attributes are looked at.
ParseAddressMessage(l, m) ==
    IF m.entry \in OtherFamily THEN {Kept(l)} ELSE AppendItem(l, m)

ParseRouteMessage(l, m) ==
    IF m.entry \in OtherFamily THEN {Kept(l)} ELSE AppendItem(l, m)

Callback(l, m) ==
    CASE query = "states"     -> ParseXfrmStateMessage(l, m)
      [] query = "policies"   -> ParseXfrmPolicyMessage(l, m)
      [] query = "interfaces" -> ParseInterfaceMessage(l, m)
      [] query = "addresses"  -> ParseAddressMessage(l, m)
      [] query = "routes"     -> ParseRouteMessage(l, m)

-----------------------------------------------------------------------------
(* The query.                                                              *)

Init ==
    /\ query \in Queries /\ pc = "call" /\ eError = "ok"
    /\ list = <<>> /\ buffer = <<>> /\ uiDatagramCount = 0
    /\ table \in SUBSET Entries /\ tables = {table} /\ base = table
    /\ walk = 0 /\ dumping = FALSE /\ pending = <<>> /\ stale = FALSE
    /\ changes = 0 /\ aborted = FALSE

\* The socket is closed, which ends the kernel's dump; a list that failed is freed.
Return(error, l) ==
    /\ pc' = "done" /\ eError' = error
    /\ list' = IF error = "ok" THEN l ELSE <<>>
    /\ buffer' = <<>> /\ dumping' = FALSE /\ pending' = <<>>
    /\ UNCHANGED <<query, uiDatagramCount, walk, stale, base, aborted, table, changes, tables>>

\* No socket, no address for it, or the request cannot be sent.
CallFails ==
    /\ pc = "call" /\ "socket" \in Faults
    /\ Return("failed", list)

\* The kernel starts its dump; or it answers with NLMSG_ERROR only, which carries an
\* error or, as an acknowledgement, none.
SendNetlinkRequest ==
    /\ pc = "call"
    /\ pc' = "wait"
    /\ \/ Fill(FALSE)
       \/ \E type \in {"error", "ack"} :
             /\ (IF type = "error" THEN "refused" ELSE "ack") \in Faults
             /\ pending' = <<[type |-> type, entry |-> 0, intr |-> FALSE, form |-> "good"]>>
             /\ UNCHANGED <<walk, dumping, aborted, stale>>
    /\ UNCHANGED <<query, eError, list, buffer, uiDatagramCount, base, table, changes, tables>>

\* Mutant: a timeout starts the wait again.
WaitAgain ==
    /\ pc = "wait" /\ pending = <<>>
    /\ UNCHANGED vars

\* Five seconds pass without a datagram.
WaitNetlinkData ==
    /\ pc = "wait" /\ pending = <<>>
    /\ Return("failed", list)

\* recvmsg fails, or the datagram is truncated or was sent by a process.
ReceiveFails ==
    /\ pc = "wait" /\ pending # <<>> /\ "receive" \in Faults
    /\ Return("failed", list)

ReceiveDatagram ==
    /\ pc = "wait" /\ pending # <<>>
    /\ pc' = "parse" /\ buffer' = pending
    /\ IF dumping THEN \E flag \in Flags : Fill(flag)
       ELSE pending' = <<>> /\ UNCHANGED <<walk, dumping, aborted, stale>>
    /\ UNCHANGED <<query, eError, list, uiDatagramCount, base, table, changes, tables>>

\* Mutant: the end of the dump is looked for before the flag.
OutcomeDoneFirst(m) ==
    IF m.form = "header" THEN "failed"
    ELSE IF m.type = "done" THEN "complete"
    ELSE IF m.intr \/ m.form = "sequence" THEN "failed"
    ELSE IF m.type = "error" THEN "failed"
    ELSE IF m.type = "ack" THEN "next"
    ELSE "callback"

\* Mutant: any error message ends the dump.
OutcomeErrorEnds(m) ==
    IF m.form = "header" \/ m.intr \/ m.form = "sequence" THEN "failed"
    ELSE IF m.type \in {"done", "error", "ack"} THEN "complete"
    ELSE "callback"

\* The checks of a message, in their order.  NLMSG_ERROR with code 0 is skipped; the
\* code in NLMSG_DONE is not read.
Outcome(m) ==
    IF m.form = "header" \/ m.intr \/ m.form = "sequence" THEN "failed"
    ELSE IF m.type = "done" THEN "complete"
    ELSE IF m.type = "error" THEN "failed"
    ELSE IF m.type = "ack" THEN "next"
    ELSE "callback"

ParseMessage ==
    /\ pc = "parse" /\ buffer # <<>>
    /\ LET m == Head(buffer) IN
       \/ Outcome(m) = "failed" /\ Return("failed", list)
       \/ Outcome(m) = "complete" /\ Return("ok", list)
       \/ /\ Outcome(m) \in {"next", "callback"}
          /\ \E r \in IF Outcome(m) = "next" THEN {Kept(list)} ELSE Callback(list, m) :
                IF r.error = "failed" THEN Return("failed", list)
                ELSE /\ list' = r.list /\ buffer' = Tail(buffer)
                     /\ UNCHANGED <<query, pc, eError, uiDatagramCount, kernelVars,
                                    table, changes, tables>>

\* Mutant: the limit is never reached.
TooManyUnlimited(count) == FALSE

TooMany(count) == MaxDatagrams < count

EndDatagram ==
    /\ pc = "parse" /\ buffer = <<>>
    /\ IF TooMany(uiDatagramCount + 1) THEN Return("failed", list)
       ELSE /\ pc' = "wait" /\ uiDatagramCount' = uiDatagramCount + 1
            /\ UNCHANGED <<query, eError, list, buffer, kernelVars, table, changes, tables>>

Client ==
    \/ CallFails \/ SendNetlinkRequest \/ WaitNetlinkData \/ ReceiveFails
    \/ ReceiveDatagram \/ ParseMessage \/ EndDatagram

Next == Client \/ ChangeTable

Spec == Init /\ [][Next]_vars

\* The querying thread runs, and poll returns after its timeout.
FairSpec == Spec /\ WF_vars(Client)

-----------------------------------------------------------------------------
(* Properties.                                                             *)

TypeOK ==
    /\ query \in Queries /\ pc \in {"call", "wait", "parse", "done"}
    /\ eError \in {"ok", "failed"}
    /\ list \in Seq(Entries) /\ buffer \in Seq(Message) /\ pending \in Seq(Message)
    /\ uiDatagramCount \in 0 .. MaxDatagrams
    /\ table \in SUBSET Entries /\ base \in tables /\ tables \subseteq SUBSET Entries
    /\ walk \in Nat /\ dumping \in BOOLEAN /\ stale \in BOOLEAN /\ aborted \in BOOLEAN
    /\ changes \in 0 .. MaxChanges

Listed == {list[i] : i \in 1 .. Len(list)}

\* The entries of a table that belong in the list: addresses and routes of other
\* families do not.
Wanted(t) == IF query \in {"addresses", "routes"} THEN t \ OtherFamily ELSE t

Succeeded == pc = "done" /\ eError = "ok" /\ ~aborted

\* A list of links that is returned with success is the table as it was at one moment
\* of the call, however the table changed between the datagrams (ReceiveNetlinkDump
\* refuses every message with NLM_F_DUMP_INTR).  A list of addresses need not be: a
\* change of one family while the other is walked is not flagged.
OkIsSnapshot == Succeeded /\ HasGeneration => Listed = Wanted(base)

\* Any list returned with success names every entry that was in the table throughout
\* the call, once, and none that was never in it: no datagram is lost, read twice or
\* taken for the last one (ReceiveNetlinkDump waits for NLMSG_DONE).  This is as far
\* as a kernel that goes on after the last entry it sent makes it: the dump of an IPv6
\* routing table that changes meanwhile may skip or repeat an entry by itself.
OkIsComplete ==
    Succeeded =>
        /\ \A e \in Entries : (\A t \in tables : e \in Wanted(t)) => e \in Listed
        /\ \A e \in Listed : \E t \in tables : e \in Wanted(t)
        /\ \A i, j \in 1 .. Len(list) : list[i] = list[j] => i = j

\* A query returns whatever the kernel sends or fails to send: WaitNetlinkData is
\* bounded against a kernel that falls silent, and the number of datagrams against
\* one that never ends its dump.
QueryReturns == <>(pc = "done")

=============================================================================
