------------------------ MODULE SessionContextProofs ------------------------
(***************************************************************************)
(* Theorems about SessionContext: for any number of allocations, any       *)
(* socket paths and timeouts, any number of rows and of changes.           *)
(***************************************************************************)
EXTENDS SessionContext, FiniteSetTheorems, SequenceTheorems, TLAPS

-----------------------------------------------------------------------------
(* The inductive invariant.                                                *)

Opens == {"open", "connect", "verify", "undo"}

\* An allocation is either the one being opened or the session's, never both.
\* The session has one from its start to its exit, the opening has one from
\* calloc to its undo or its hand-over; both carry an initialised mutex.
LifeInv ==
    /\ \A i \in Contexts : heap[i].allocated <=> i \in {new, session}
    /\ \A i \in Contexts : heap[i].mutex \/ heap[i].fd => heap[i].allocated
    /\ new # None <=> pc \in {"connect", "verify", "undo"}
    /\ new # None => new # session
    /\ session # None <=> pc = "prompt" \/ (pc \in Opens /\ why # "startup")
    /\ session # None => heap[session].mutex
    /\ pc \in {"connect", "verify"} => heap[new].mutex

\* The path p is one that a configuration c opens.
Names(c, p) ==
    /\ c.socket = Unset => p \in {"default1", "default2"}
    /\ c.socket # Unset => p = c.socket

\* The session's context is the one its configuration names, also while another
\* is being opened; the one being opened is named by the configuration it is
\* opened for, which at startup is the session's own.
NameInv ==
    /\ session # None /\ selected = 0 => Names(config, heap[session].path)
    /\ pc \in {"connect", "verify"} => Names(want, heap[new].path)
    /\ pc \in Opens /\ why = "startup" => want = config

IInv == TypeOK /\ LifeInv /\ NameInv

-----------------------------------------------------------------------------
(* Lemmas.                                                                 *)

Row == [config : Configs, loaded : BOOLEAN]
Context == [allocated : BOOLEAN, mutex : BOOLEAN, fd : BOOLEAN,
            path : Sockets \cup {Unset}, timeout : Timeouts \cup {0, DefaultTimeout}]

\* The configuration the program starts from is one.
LEMMA InitialConfigType == InitialConfig \in Configs
  BY ContextConstants DEF InitialConfig, Configs

\* A released context is one that was never used.
LEMMA UnusedType ==
    Unused \in Context /\ ~Unused.allocated /\ ~Unused.mutex /\ ~Unused.fd
  BY DEF Unused, Context

\* Releasing a context touches no other one.
LEMMA DeinitializeFrees ==
    ASSUME heap \in [Contexts -> Context], NEW i \in Contexts \cup {None}
    PROVE  /\ Deinitialize(heap, i) \in [Contexts -> Context]
           /\ \A j \in Contexts :
                 Deinitialize(heap, i)[j] = IF j = i THEN Unused ELSE heap[j]
  BY UnusedType, ContextConstants DEF Deinitialize

\* Saving the selected row keeps the table's length and type.
LEMMA SavedRowsType ==
    ASSUME rows \in Seq(Row), selected \in 0 .. Len(rows),
           NEW c \in Configs, NEW loaded \in BOOLEAN
    PROVE  SavedRows(c, loaded) \in Seq(Row) /\ Len(SavedRows(c, loaded)) = Len(rows)
  <1>1 [config |-> c, loaded |-> loaded] \in Row
    BY DEF Row
  <1>2 Row # {}
    BY <1>1
  <1> QED BY <1>1 DEF SavedRows

\* The table grows by one row, within its limit.
LEMMA AppendRow ==
    ASSUME NEW q \in Seq(Row), NEW r \in Row
    PROVE  Append(q, r) \in Seq(Row) /\ Len(Append(q, r)) = Len(q) + 1
           /\ Append(q, r)[Len(q) + 1] = r
           /\ \A i \in 1 .. Len(q) : Append(q, r)[i] = q[i]
  OBVIOUS

\* The listener's configuration is at most one.
LEMMA OneListener ==
    ASSUME NEW c
    PROVE  Cardinality({c}) <= 1 /\ Cardinality({}) <= 1
  BY FS_Singleton, FS_EmptySet

\* The parts of the type invariant, for the proofs of the steps.
LEMMA TypeParts ==
    TypeOK <=>
      /\ pc \in {"start", "open", "connect", "verify", "undo", "prompt", "exited"}
      /\ why \in {"startup", "set", "load"}
      /\ want \in Configs /\ config \in Configs /\ base \in Configs
      /\ new \in Contexts \cup {None} /\ session \in Contexts \cup {None}
      /\ heap \in [Contexts -> Context]
      /\ listener \subseteq Configs /\ Cardinality(listener) <= 1
      /\ rows \in Seq(Row)
      /\ Len(rows) <= MaxRows
      /\ selected \in 0 .. Len(rows)
      /\ bConnectionLoaded \in BOOLEAN
      /\ daemon \subseteq Sockets
      /\ changes \in 0 .. MaxChanges
  BY DEF TypeOK, Row, Context

\* The same of the next state.
LEMMA TypePartsNext ==
    TypeOK' <=>
      /\ pc' \in {"start", "open", "connect", "verify", "undo", "prompt", "exited"}
      /\ why' \in {"startup", "set", "load"}
      /\ want' \in Configs /\ config' \in Configs /\ base' \in Configs
      /\ new' \in Contexts \cup {None} /\ session' \in Contexts \cup {None}
      /\ heap' \in [Contexts -> Context]
      /\ listener' \subseteq Configs /\ Cardinality(listener') <= 1
      /\ rows' \in Seq(Row)
      /\ Len(rows') <= MaxRows
      /\ selected' \in 0 .. Len(rows')
      /\ bConnectionLoaded' \in BOOLEAN
      /\ daemon' \subseteq Sockets
      /\ changes' \in 0 .. MaxChanges
  BY DEF TypeOK, Row, Context

-----------------------------------------------------------------------------
(* The steps.                                                              *)

\* The command line and its files.
LEMMA RunStep ==
    ASSUME IInv, NEW c \in Configs, NEW valid \in BOOLEAN, RunNativeAppCli(c, valid)
    PROVE  IInv'
  <1> USE DEF IInv, RunNativeAppCli, Opening
  <1>1 TypeOK'
    BY TypeParts, TypePartsNext
  <1>2 LifeInv'
    BY DEF LifeInv, Opens
  <1>3 NameInv'
    BY DEF NameInv, LifeInv, Opens
  <1> QED BY <1>1, <1>2, <1>3

\* The allocation of InitializeIpsec.
LEMMA InitializeStep ==
    ASSUME IInv, NEW mutex \in BOOLEAN, NEW fits \in BOOLEAN,
           InitializeIpsecContext(mutex, fits)
    PROVE  IInv'
  <1> USE DEF IInv
  <1> DEFINE x == [allocated |-> TRUE, mutex |-> mutex, fd |-> FALSE,
                   path |-> IF want.socket = Unset THEN "default1" ELSE want.socket,
                   timeout |-> IF want.timeout = 0 THEN DefaultTimeout ELSE want.timeout]
  <1>1 PICK i \in Contexts :
         /\ ~heap[i].allocated
         /\ heap' = [heap EXCEPT ![i] = x]
         /\ new' = i
    BY DEF InitializeIpsecContext
  <1>p /\ pc = "open" /\ pc' \in {"connect", "undo"} /\ (pc' = "connect" => mutex)
       /\ UNCHANGED <<why, want, session, appVars, daemon>>
    BY DEF InitializeIpsecContext
  <1>2 want \in Configs
    BY TypeParts
  <1>3 x \in Context
    BY <1>2, ContextConstants DEF Context, Configs
  <1>4 heap' \in [Contexts -> Context] /\ heap'[i] = x
       /\ \A j \in Contexts \ {i} : heap'[j] = heap[j]
    BY <1>1, <1>3, TypeParts
  <1>h x.allocated /\ (mutex => x.mutex) /\ Names(want, x.path)
    BY DEF Names
  <1> HIDE DEF x
  <1>5 TypeOK'
    BY <1>1, <1>p, <1>4, TypeParts, TypePartsNext DEF appVars
  <1>6 new = None /\ i # session /\ i # None
    BY <1>1, <1>p, ContextConstants DEF LifeInv
  <1>7 LifeInv'
    <2>1 \A j \in Contexts : heap'[j].allocated <=> j \in {new', session'}
      BY <1>1, <1>p, <1>4, <1>6, <1>h, ContextConstants DEF LifeInv
    <2>2 \A j \in Contexts : heap'[j].mutex \/ heap'[j].fd => heap'[j].allocated
      BY <1>1, <1>p, <1>4, <1>6, <1>h DEF LifeInv
    <2>3 session # None => heap'[session] = heap[session]
      BY <1>4, <1>6, TypeParts
    <2> QED BY <1>1, <1>p, <1>4, <1>6, <1>h, <2>1, <2>2, <2>3 DEF LifeInv, Opens
  <1>8 NameInv'
    <2>1 session # None => heap'[session] = heap[session]
      BY <1>4, <1>6, TypeParts
    <2> QED BY <1>1, <1>p, <1>4, <1>h, <2>1 DEF NameInv, appVars, Opens
  <1> QED BY <1>5, <1>7, <1>8

\* The connection to a path, or to the default paths in turn.
LEMMA ConnectStep ==
    ASSUME IInv, NEW ok \in BOOLEAN, ConnectViciTransport(ok)
    PROVE  IInv'
  <1> USE DEF IInv
  <1>0 /\ new \in Contexts /\ new # session /\ heap \in [Contexts -> Context]
       /\ want \in Configs
    BY TypeParts DEF LifeInv, ConnectViciTransport
  <1>u pc = "connect" /\ UNCHANGED <<why, want, new, session, appVars, daemon>>
    BY DEF ConnectViciTransport
  <1>1 CASE ok
    <2>1 heap' = [heap EXCEPT ![new].fd = TRUE] /\ pc' = "verify"
      BY <1>1 DEF ConnectViciTransport
    <2>2 /\ heap' \in [Contexts -> Context]
         /\ heap'[new].mutex = heap[new].mutex /\ heap'[new].allocated = heap[new].allocated
         /\ heap'[new].path = heap[new].path
         /\ \A j \in Contexts \ {new} : heap'[j] = heap[j]
      BY <1>0, <1>u, <2>1 DEF Context
    <2>3 TypeOK'
      BY <1>u, <2>1, <2>2, TypeParts, TypePartsNext DEF appVars
    <2>4 LifeInv'
      BY <1>0, <1>u, <2>1, <2>2, TypeParts DEF LifeInv, Opens
    <2>5 NameInv'
      BY <1>0, <1>u, <2>1, <2>2, TypeParts DEF NameInv, Opens, appVars
    <2> QED BY <2>3, <2>4, <2>5
  <1>2 CASE ~ok /\ want.socket = Unset /\ heap[new].path = "default1"
    <2>1 heap' = [heap EXCEPT ![new].path = "default2"] /\ pc' = "connect"
      BY <1>2 DEF ConnectViciTransport
    <2>2 /\ heap' \in [Contexts -> Context]
         /\ heap'[new].mutex = heap[new].mutex /\ heap'[new].allocated = heap[new].allocated
         /\ heap'[new].fd = heap[new].fd
         /\ heap'[new].path = "default2"
         /\ \A j \in Contexts \ {new} : heap'[j] = heap[j]
      BY <1>0, <2>1, ContextConstants DEF Context
    <2>3 TypeOK'
      BY <1>u, <2>1, <2>2, TypeParts, TypePartsNext DEF appVars
    <2>4 LifeInv'
      BY <1>0, <1>u, <2>1, <2>2, TypeParts DEF LifeInv, Opens
    <2>5 NameInv'
      BY <1>0, <1>u, <1>2, <2>1, <2>2, TypeParts DEF NameInv, Names, Opens, appVars
    <2> QED BY <2>3, <2>4, <2>5
  <1>3 CASE ~ok /\ ~(want.socket = Unset /\ heap[new].path = "default1")
    <2>1 pc' = "undo" /\ heap' = heap
      BY <1>3 DEF ConnectViciTransport
    <2>3 TypeOK'
      BY <1>u, <2>1, TypeParts, TypePartsNext DEF appVars
    <2>4 LifeInv'
      BY <1>0, <1>u, <2>1 DEF LifeInv, Opens
    <2>5 NameInv'
      BY <1>0, <1>u, <2>1 DEF NameInv, Opens, appVars
    <2> QED BY <2>3, <2>4, <2>5
  <1> QED BY <1>1, <1>2, <1>3

\* A failed opening gives its context back and keeps the session's.
LEMMA FailedStep ==
    ASSUME IInv, OutOfMemory \/ Undo
    PROVE  IInv'
  <1> USE DEF IInv, OpeningFailed
  <1>1 /\ pc \in {"open", "undo"} /\ heap' = Deinitialize(heap, new)
       /\ OpeningFailed
    BY DEF OutOfMemory, Undo, LifeInv, Deinitialize
  <1>2 /\ heap' \in [Contexts -> Context]
       /\ \A j \in Contexts : heap'[j] = IF j = new THEN Unused ELSE heap[j]
    BY <1>1, DeinitializeFrees, TypeParts
  <1>3 TypeOK'
    BY <1>1, <1>2, TypeParts, TypePartsNext DEF appVars
  <1>4 session # None => session \in Contexts /\ heap'[session] = heap[session]
    BY <1>2, TypeParts DEF LifeInv
  <1>5 LifeInv'
    <2>1 \A j \in Contexts : heap'[j].allocated <=> j \in {new', session'}
      BY <1>1, <1>2, ContextConstants, UnusedType DEF LifeInv
    <2>2 \A j \in Contexts : heap'[j].mutex \/ heap'[j].fd => heap'[j].allocated
      BY <1>1, <1>2, UnusedType DEF LifeInv
    <2> QED BY <1>1, <1>4, <2>1, <2>2 DEF LifeInv, Opens
  <1>6 NameInv'
    BY <1>1, <1>4 DEF NameInv, Opens, appVars
  <1> QED BY <1>3, <1>5, <1>6

\* What a session gets from an opening that succeeded.
LEMMA StoreType ==
    ASSUME IInv, NEW reason, NEW c \in Configs, Store(reason, c)
    PROVE  /\ config' \in Configs /\ base' \in Configs
           /\ rows' \in Seq(Row) /\ Len(rows') = Len(rows)
  BY TypeParts, SavedRowsType DEF IInv, Store

\* The daemon's answer ends the opening: the session takes the context, or the
\* listener, the path of the file or the daemon makes it fail.
LEMMA VerifyStep ==
    ASSUME IInv, NEW ok \in BOOLEAN, NEW fits \in BOOLEAN, NEW listens \in BOOLEAN,
           VerifyIpsecDaemon(ok, fits, listens)
    PROVE  IInv'
  <1> USE DEF IInv
  <1>0 /\ new \in Contexts /\ new # session /\ heap \in [Contexts -> Context]
       /\ want \in Configs /\ session \in Contexts \cup {None} /\ new # None
       /\ pc = "verify" /\ daemon' = daemon
    BY TypeParts DEF LifeInv, VerifyIpsecDaemon
  <1>1 CASE ~ok
    <2>1 pc' = "undo" /\ UNCHANGED <<why, want, new, heap, session, appVars>>
      BY <1>1 DEF VerifyIpsecDaemon
    <2>2 TypeOK'
      BY <1>0, <2>1, TypeParts, TypePartsNext DEF appVars
    <2>3 LifeInv'
      BY <1>0, <2>1 DEF LifeInv, Opens
    <2>4 NameInv'
      BY <1>0, <2>1 DEF NameInv, Opens, appVars
    <2> QED BY <2>2, <2>3, <2>4
  <1>2 CASE ok /\ why = "startup"
    <2>1 /\ Started(fits, listens)
         /\ UNCHANGED <<why, want, config, base, rows, selected, bConnectionLoaded, changes>>
      BY <1>2 DEF VerifyIpsecDaemon
    <2>2 session = None
      BY <1>0, <1>2 DEF LifeInv
    <2>3 CASE fits \/ ~listens
      <3>1 /\ pc' = "prompt" /\ session' = new /\ new' = None
           /\ listener' = (IF listens THEN {base} ELSE {})
           /\ heap' = heap
        BY <2>1, <2>3 DEF Started
      <3>2 listener' \subseteq Configs /\ Cardinality(listener') <= 1
        BY <3>1, OneListener, TypeParts
      <3>3 TypeOK'
        BY <1>0, <2>1, <3>1, <3>2, TypeParts, TypePartsNext
      <3>4 LifeInv'
        BY <1>0, <2>1, <2>2, <3>1, ContextConstants DEF LifeInv, Opens
      <3>5 NameInv'
        BY <1>0, <1>2, <2>1, <3>1 DEF NameInv, Opens
      <3> QED BY <3>3, <3>4, <3>5
    <2>4 CASE ~fits /\ listens
      <3>1 /\ pc' = "exited" /\ heap' = Deinitialize(heap, new) /\ new' = None
           /\ UNCHANGED <<session, listener>>
        BY <2>1, <2>4 DEF Started
      <3>2 /\ heap' \in [Contexts -> Context]
           /\ \A j \in Contexts : heap'[j] = IF j = new THEN Unused ELSE heap[j]
        BY <1>0, <3>1, DeinitializeFrees
      <3>3 TypeOK'
        BY <1>0, <2>1, <3>1, <3>2, TypeParts, TypePartsNext
      <3>4 LifeInv'
        <4>1 \A j \in Contexts : heap'[j].allocated <=> j \in {new', session'}
          BY <1>0, <2>2, <3>1, <3>2, ContextConstants, UnusedType DEF LifeInv
        <4>2 \A j \in Contexts : heap'[j].mutex \/ heap'[j].fd => heap'[j].allocated
          BY <3>2, UnusedType DEF LifeInv
        <4> QED BY <2>2, <3>1, <4>1, <4>2 DEF LifeInv, Opens
      <3>5 NameInv'
        BY <2>2, <3>1 DEF NameInv, Opens
      <3> QED BY <3>3, <3>4, <3>5
    <2> QED BY <2>3, <2>4
  <1>3 CASE ok /\ why # "startup" /\ (why = "load" => fits)
    <2>1 /\ pc' = "prompt" /\ Replace /\ Store(why, want)
         /\ UNCHANGED <<why, want, listener, selected, bConnectionLoaded, changes>>
      BY <1>3 DEF VerifyIpsecDaemon
    <2>2 /\ heap' = Deinitialize(heap, session) /\ session' = new /\ new' = None
         /\ config' = want
      BY <2>1 DEF Replace, Store
    <2>3 /\ heap' \in [Contexts -> Context]
         /\ \A j \in Contexts : heap'[j] = IF j = session THEN Unused ELSE heap[j]
      BY <1>0, <2>2, DeinitializeFrees
    <2>4 TypeOK'
      BY <1>0, <2>1, <2>2, <2>3, StoreType, TypeParts, TypePartsNext
    <2>5 LifeInv'
      <3>1 \A j \in Contexts : heap'[j].allocated <=> j \in {new', session'}
        BY <1>0, <2>2, <2>3, ContextConstants, UnusedType DEF LifeInv
      <3>2 \A j \in Contexts : heap'[j].mutex \/ heap'[j].fd => heap'[j].allocated
        BY <2>3, UnusedType DEF LifeInv
      <3> QED BY <1>0, <2>1, <2>2, <2>3, <3>1, <3>2 DEF LifeInv, Opens
    <2>6 NameInv'
      BY <1>0, <2>1, <2>2, <2>3 DEF NameInv, Opens
    <2> QED BY <2>4, <2>5, <2>6
  <1>4 CASE ok /\ why = "load" /\ ~fits
    <2>1 /\ pc' = "prompt" /\ heap' = Deinitialize(heap, new) /\ new' = None
         /\ UNCHANGED <<why, want, session, appVars>>
      BY <1>4 DEF VerifyIpsecDaemon
    <2>2 /\ heap' \in [Contexts -> Context]
         /\ \A j \in Contexts : heap'[j] = IF j = new THEN Unused ELSE heap[j]
      BY <1>0, <2>1, DeinitializeFrees
    <2>3 session \in Contexts /\ session # None /\ heap'[session] = heap[session]
      BY <1>0, <1>4, <2>2 DEF LifeInv, Opens
    <2>4 TypeOK'
      BY <1>0, <2>1, <2>2, TypeParts, TypePartsNext DEF appVars
    <2>5 LifeInv'
      <3>1 \A j \in Contexts : heap'[j].allocated <=> j \in {new', session'}
        BY <1>0, <2>1, <2>2, ContextConstants, UnusedType DEF LifeInv
      <3>2 \A j \in Contexts : heap'[j].mutex \/ heap'[j].fd => heap'[j].allocated
        BY <2>2, UnusedType DEF LifeInv
      <3> QED BY <1>0, <2>1, <2>3, <3>1, <3>2 DEF LifeInv, Opens
    <2>6 NameInv'
      BY <2>1, <2>3 DEF NameInv, Opens, appVars
    <2> QED BY <2>4, <2>5, <2>6
  <1> QED BY <1>1, <1>2, <1>3, <1>4 DEF LifeInv

\* A change of the configuration, with or without a new context.
LEMMA ChangeStep ==
    ASSUME IInv, NEW reason \in {"set", "load"}, NEW c \in Configs, NEW fits \in BOOLEAN,
           ChangeConfig(reason, c, fits)
    PROVE  IInv'
  <1> USE DEF IInv
  <1>0 /\ pc = "prompt" /\ changes' \in 0 .. MaxChanges
       /\ UNCHANGED <<listener, selected, bConnectionLoaded, daemon>>
    BY TypeParts, ContextConstants DEF ChangeConfig, Change
  <1>1 CASE NeedsContext(c)
    <2>1 Opening(reason, c) /\ UNCHANGED <<config, base, rows>>
      BY <1>1 DEF ChangeConfig
    <2>2 TypeOK'
      BY <1>0, <2>1, TypeParts, TypePartsNext DEF Opening
    <2>3 LifeInv'
      BY <1>0, <2>1 DEF LifeInv, Opens, Opening
    <2>4 NameInv'
      BY <1>0, <2>1 DEF NameInv, Opens, Opening
    <2> QED BY <2>2, <2>3, <2>4
  <1>2 CASE ~NeedsContext(c)
    <2>1 /\ UNCHANGED <<config, base, rows>> \/ Store(reason, c)
         /\ UNCHANGED <<pc, why, want, new, heap, session>>
      BY <1>2 DEF ChangeConfig
    <2>2 config' \in Configs /\ base' \in Configs
         /\ rows' \in Seq(Row) /\ Len(rows') = Len(rows)
         /\ config'.socket = config.socket
      BY <1>2, <2>1, StoreType, TypeParts DEF NeedsContext, Store
    <2>3 TypeOK'
      BY <1>0, <2>1, <2>2, TypeParts, TypePartsNext
    <2>4 LifeInv'
      BY <2>1 DEF LifeInv, Opens
    <2>5 NameInv'
      BY <1>0, <2>1, <2>2 DEF NameInv, Names, Opens
    <2> QED BY <2>3, <2>4, <2>5
  <1> QED BY <1>1, <1>2

\* Commands on the peer table leave the context alone and select a peer.
LEMMA PeerStep ==
    ASSUME IInv,
           \/ \E i \in 1 .. Len(rows) : SelectNativeAppPeer(i)
           \/ RegisterNativeAppPeer
           \/ ConnectionCommand
           \/ PeerRegistered
    PROVE  IInv'
  <1> USE DEF IInv
  <1>0 UNCHANGED <<pc, why, want, new, heap, session, base, listener, changes, daemon>>
    BY DEF SelectNativeAppPeer, RegisterNativeAppPeer, ConnectionCommand, PeerRegistered
  <1>1 LifeInv'
    BY <1>0 DEF LifeInv, Opens
  <1>t rows \in Seq(Row) /\ Len(rows) \in Nat /\ selected \in 0 .. Len(rows)
       /\ config \in Configs /\ base \in Configs /\ Len(rows) <= MaxRows /\ MaxRows \in Nat
       /\ bConnectionLoaded \in BOOLEAN /\ listener \subseteq Configs
    BY TypeParts, ContextConstants
  <1>s /\ SavedRows(config, bConnectionLoaded) \in Seq(Row)
       /\ Len(SavedRows(config, bConnectionLoaded)) = Len(rows)
       /\ SavedRows(config, ~bConnectionLoaded) \in Seq(Row)
       /\ Len(SavedRows(config, ~bConnectionLoaded)) = Len(rows)
    BY <1>t, SavedRowsType
  <1> DEFINE Kept ==
        /\ rows' \in Seq(Row) /\ Len(rows') <= MaxRows /\ config' \in Configs
        /\ bConnectionLoaded' \in BOOLEAN /\ selected' \in 0 .. Len(rows')
        /\ selected' = 0 \/ pc \in Opens => selected = selected' /\ config' = config
  <1>2 ASSUME NEW i \in 1 .. Len(rows), SelectNativeAppPeer(i)
       PROVE  Kept
    <2>1 SavedRows(config, bConnectionLoaded)[i] \in Row
      BY <1>s
    <2> QED BY <1>2, <1>s, <1>t, <2>1 DEF SelectNativeAppPeer, Select, Row, Opens
  <1>3 ASSUME RegisterNativeAppPeer PROVE Kept
    <2> DEFINE r == [config |-> base, loaded |-> FALSE]
               q == SavedRows(config, bConnectionLoaded)
    <2>1 r \in Row
      BY <1>t DEF Row
    <2>2 /\ pc = "prompt" /\ rows' = Append(q, r) /\ Len(rows) < MaxRows
         /\ selected' = Len(rows) + 1
         /\ config' = rows'[Len(rows) + 1].config
         /\ bConnectionLoaded' = rows'[Len(rows) + 1].loaded
      BY <1>3 DEF RegisterNativeAppPeer, Select, TableHasRoom
    <2>3 rows' \in Seq(Row) /\ Len(rows') = Len(rows) + 1 /\ rows'[Len(rows) + 1] = r
      BY <1>s, <2>1, <2>2, AppendRow
    <2>4 config' \in Configs /\ bConnectionLoaded' \in BOOLEAN
      BY <2>1, <2>2, <2>3 DEF Row
    <2>5 /\ selected' \in 0 .. Len(rows') /\ selected' # 0 /\ Len(rows') <= MaxRows
         /\ pc \notin Opens
      BY <1>t, <2>2, <2>3 DEF Opens
    <2> QED BY <2>3, <2>4, <2>5
  <1>4 ASSUME ConnectionCommand PROVE Kept
    BY <1>4, <1>s, <1>t DEF ConnectionCommand
  <1>5 ASSUME PeerRegistered PROVE Kept
    <2>1 PICK c \in listener : rows' = Append(rows, [config |-> c, loaded |-> FALSE])
      BY <1>5 DEF PeerRegistered
    <2>2 [config |-> c, loaded |-> FALSE] \in Row
      BY <1>t DEF Row
    <2>3 rows' \in Seq(Row) /\ Len(rows') = Len(rows) + 1
      BY <1>t, <2>1, <2>2, AppendRow
    <2>4 Len(rows) < MaxRows /\ UNCHANGED <<config, selected, bConnectionLoaded>>
      BY <1>5 DEF PeerRegistered, TableHasRoom
    <2> QED BY <1>t, <2>3, <2>4
  <1>6 Kept
    BY <1>2, <1>3, <1>4, <1>5
  <1>7 TypeOK'
    BY <1>0, <1>6, TypeParts, TypePartsNext
  <1>8 NameInv'
    BY <1>0, <1>6 DEF NameInv, Opens
  <1> QED BY <1>1, <1>7, <1>8

\* A broken or renewed connection keeps the context's path; charon's coming and
\* going touches nothing here.
LEMMA TransportStep ==
    ASSUME IInv, Transport \/ \E s \in Sockets : DaemonChanges(s)
    PROVE  IInv'
  <1> USE DEF IInv
  <1>1 CASE Transport
    <2>1 /\ pc = "prompt" /\ heap' = [heap EXCEPT ![session].fd = ~@]
         /\ UNCHANGED <<pc, why, want, new, session, appVars, daemon>>
      BY <1>1 DEF Transport
    <2>2 session \in Contexts /\ heap \in [Contexts -> Context]
      BY <2>1, TypeParts DEF LifeInv
    <2>3 /\ heap' \in [Contexts -> Context]
         /\ heap'[session].mutex = heap[session].mutex
         /\ heap'[session].allocated = heap[session].allocated
         /\ heap'[session].path = heap[session].path
         /\ \A j \in Contexts \ {session} : heap'[j] = heap[j]
      BY <2>1, <2>2 DEF Context
    <2>4 TypeOK'
      BY <2>1, <2>3, TypeParts, TypePartsNext DEF appVars
    <2>5 LifeInv'
      BY <2>1, <2>2, <2>3 DEF LifeInv, Opens
    <2>6 NameInv'
      BY <2>1, <2>3 DEF NameInv, Opens, appVars
    <2> QED BY <2>4, <2>5, <2>6
  <1>2 ASSUME NEW s \in Sockets, DaemonChanges(s) PROVE IInv'
    <2>1 TypeOK'
      BY <1>2, TypeParts, TypePartsNext DEF DaemonChanges, appVars
    <2>2 LifeInv' /\ NameInv'
      BY <1>2 DEF DaemonChanges, LifeInv, NameInv, Opens, appVars
    <2> QED BY <2>1, <2>2
  <1> QED BY <1>1, <1>2

\* The end of the session gives its context back.
LEMMA ExitStep ==
    ASSUME IInv, Exit
    PROVE  IInv'
  <1> USE DEF IInv
  <1>1 /\ pc = "prompt" /\ pc' = "exited"
       /\ heap' = Deinitialize(heap, session) /\ session' = None
       /\ listener' = {}
       /\ UNCHANGED <<why, want, new, config, base, rows, selected, bConnectionLoaded,
                      changes, daemon>>
    BY DEF Exit
  <1>2 /\ heap' \in [Contexts -> Context]
       /\ \A j \in Contexts : heap'[j] = IF j = session THEN Unused ELSE heap[j]
    BY <1>1, DeinitializeFrees, TypeParts
  <1>3 TypeOK'
    BY <1>1, <1>2, OneListener, TypeParts, TypePartsNext
  <1>4 new = None
    BY <1>1 DEF LifeInv
  <1>5 LifeInv'
    <2>1 \A j \in Contexts : heap'[j].allocated <=> j \in {new', session'}
      BY <1>1, <1>2, <1>4, ContextConstants, UnusedType DEF LifeInv
    <2>2 \A j \in Contexts : heap'[j].mutex \/ heap'[j].fd => heap'[j].allocated
      BY <1>2, UnusedType DEF LifeInv
    <2> QED BY <1>1, <1>4, <2>1, <2>2 DEF LifeInv, Opens
  <1>6 NameInv'
    BY <1>1 DEF NameInv, Opens
  <1> QED BY <1>3, <1>5, <1>6

\* Every step keeps the invariant.
LEMMA InvariantStep == IInv /\ [Next]_vars => IInv'
  <1> SUFFICES ASSUME IInv, [Next]_vars PROVE IInv'
    OBVIOUS
  <1>1 CASE UNCHANGED vars
    <2>1 TypeOK'
      BY <1>1 DEF IInv, TypeOK, vars, appVars
    <2>2 LifeInv' /\ NameInv'
      BY <1>1 DEF IInv, LifeInv, NameInv, vars, appVars
    <2> QED BY <2>1, <2>2 DEF IInv
  <1>2 CASE Next
    BY <1>2, RunStep, InitializeStep, ConnectStep, VerifyStep, FailedStep, ChangeStep,
       PeerStep, TransportStep, ExitStep DEF Next
  <1> QED BY <1>1, <1>2

\* The program starts without a context.
LEMMA InvariantInit == Init => IInv
  <1> SUFFICES ASSUME Init PROVE IInv
    OBVIOUS
  <1> USE DEF Init
  <1>0 \A i \in Contexts : heap[i] = Unused
    OBVIOUS
  <1>1 heap \in [Contexts -> Context] /\ rows \in Seq(Row) /\ Len(rows) = 0
    BY UnusedType
  <1>2 Cardinality(listener) <= 1
    BY OneListener
  <1>3 TypeOK
    <2>1 selected \in 0 .. Len(rows) /\ Len(rows) <= MaxRows /\ changes \in 0 .. MaxChanges
      BY <1>1, ContextConstants
    <2> QED BY <1>1, <1>2, <2>1, InitialConfigType, TypeParts
  <1>4 LifeInv
    BY <1>0, UnusedType, ContextConstants DEF LifeInv, Opens
  <1>5 NameInv
    BY DEF NameInv, Opens
  <1> QED BY <1>3, <1>4, <1>5 DEF IInv

\* The inductive invariant holds throughout.
LEMMA Invariant == Spec => []IInv
  BY InvariantInit, InvariantStep, PTL DEF Spec

-----------------------------------------------------------------------------
(* The theorems.                                                           *)

\* Contexts, configurations, the listener's copy and the peer table keep their
\* types, the table its limit, whatever fails while a context is opened.
THEOREM ContextTypes == Spec => []TypeOK
  BY Invariant, PTL DEF IInv

\* InitializeIpsec, DeinitializeIpsec and the session's replacement of a context
\* lose none and free none that is in use: at the prompt exactly the session's
\* context is allocated, after the program none.
THEOREM ContextsAreReleased == Spec => []NoContextLost
  <1>1 IInv => NoContextLost
    <2> SUFFICES ASSUME IInv PROVE NoContextLost
      OBVIOUS
    <2> USE DEF IInv
    <2>1 ASSUME pc = "prompt"
         PROVE  session # None /\ Allocated = {session} /\ heap[session].mutex
      <3>1 session # None /\ new = None /\ session \in Contexts
        BY <2>1, TypeParts DEF LifeInv
      <3> QED BY <3>1, ContextConstants DEF LifeInv, Allocated
    <2>2 ASSUME pc = "exited" PROVE Allocated = {}
      BY <2>2, ContextConstants DEF LifeInv, Allocated, Opens
    <2> QED BY <2>1, <2>2 DEF LifeInv, NoContextLost
  <1> QED BY <1>1, Invariant, PTL

\* Until a peer is selected, the session's commands go to the daemon that its
\* configuration names, after any sequence of changes that worked or failed.
THEOREM SessionFollowsConfig == Spec => []ConnectedAsConfigured
  <1>1 IInv => ConnectedAsConfigured
    BY DEF IInv, ConnectedAsConfigured, LifeInv, NameInv, Names
  <1> QED BY <1>1, Invariant, PTL

=============================================================================
