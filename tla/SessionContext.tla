---------------------------- MODULE SessionContext ----------------------------
(***************************************************************************)
(* The library context of a session: InitializeIpsec and DeinitializeIpsec *)
(* (core/ipsec.c), and the places of the CLI that open, replace and close  *)
(* it (app/cli.c).  A context is an allocation with a mutex and, while it  *)
(* is connected, a descriptor; it remembers the socket path and the        *)
(* command timeout it was opened with.  The session's configuration has a  *)
(* path and a timeout too, and so has every row of the peer table, which   *)
(* another thread extends while the session opens, waits and reads         *)
(* commands.                                                               *)
(***************************************************************************)
EXTENDS Integers, Sequences, FiniteSets

CONSTANTS
    Contexts,        \* allocations
    Sockets,         \* socket paths; "default1" and "default2" are the library's own
    Timeouts,        \* values of command_timeout_sec
    DefaultTimeout,  \* IPSEC_DEFAULT_COMMAND_TIMEOUT_MS
    MaxRows,         \* NATIVE_APP_MAX_PEERS
    MaxChanges       \* bound: configuration changes

None == "none"

\* An empty string: no vici_socket is configured, no path was stored.
Unset == ""

ASSUME ContextConstants ==
    /\ None \notin Contexts /\ IsFiniteSet(Contexts)
    /\ {"default1", "default2"} \subseteq Sockets
    /\ Timeouts \subseteq Nat /\ DefaultTimeout \in Nat \ {0}
    /\ \E t \in Timeouts : t > 0
    /\ {MaxRows, MaxChanges} \subseteq Nat

VARIABLES
    pc,         \* "start", "open", "connect", "verify", "undo", "prompt" or "exited"
    why,        \* who opens: "startup", "set" or "load"
    want,       \* the configuration being opened
    new,        \* pContext of InitializeIpsec
    heap,       \* the contexts
    session,    \* pSession->pContext
    config,     \* pSession->Config
    base,       \* pSession->BaseConfig
    listener,   \* the listener's copy of the base configuration: one element, or none
    rows,       \* the peer table
    selected,   \* the selected row, 0 if none
    bConnectionLoaded,
    daemon,     \* which sockets a charon answers on
    changes

appVars == <<config, base, listener, rows, selected, bConnectionLoaded, changes>>
vars == <<pc, why, want, new, heap, session, appVars, daemon>>

\* An empty vici_socket lets the library look for its default paths.
Configs == [socket : Sockets \cup {Unset}, timeout : Timeouts]

Unused == [allocated |-> FALSE, mutex |-> FALSE, fd |-> FALSE, path |-> Unset, timeout |-> 0]

TypeOK ==
    /\ pc \in {"start", "open", "connect", "verify", "undo", "prompt", "exited"}
    /\ why \in {"startup", "set", "load"}
    /\ {want, config, base} \subseteq Configs
    /\ {new, session} \subseteq Contexts \cup {None}
    /\ heap \in [Contexts -> [allocated : BOOLEAN, mutex : BOOLEAN, fd : BOOLEAN,
                              path : Sockets \cup {Unset},
                              timeout : Timeouts \cup {0, DefaultTimeout}]]
    /\ listener \subseteq Configs /\ Cardinality(listener) <= 1
    /\ rows \in Seq([config : Configs, loaded : BOOLEAN])
    /\ Len(rows) <= MaxRows
    /\ selected \in 0 .. Len(rows)
    /\ bConnectionLoaded \in BOOLEAN
    /\ daemon \subseteq Sockets
    /\ changes \in 0 .. MaxChanges

\* InitializeNativeAppConfig.
InitialConfig == [socket |-> "default1", timeout |-> CHOOSE t \in Timeouts : t > 0]

Init ==
    /\ pc = "start" /\ why = "startup" /\ want = InitialConfig
    /\ new = None /\ session = None
    /\ heap = [i \in Contexts |-> Unused]
    /\ config = InitialConfig /\ base = InitialConfig
    /\ listener = {} /\ rows = <<>> /\ selected = 0
    /\ bConnectionLoaded = FALSE
    /\ daemon \in SUBSET Sockets
    /\ changes = 0

-----------------------------------------------------------------------------
(* InitializeIpsec, one call at a time.                                    *)

Opening(reason, c) ==
    /\ pc' = "open" /\ why' = reason /\ want' = c
    /\ UNCHANGED <<new, heap, session>>

\* calloc, pthread_mutex_init, and the path: too long is refused, and none means the
\* first of the default paths.
InitializeIpsecContext(mutex, fits) ==
    /\ pc = "open"
    /\ \E i \in Contexts :
          /\ ~heap[i].allocated
          /\ heap' = [heap EXCEPT ![i] =
                [allocated |-> TRUE, mutex |-> mutex, fd |-> FALSE,
                 path |-> IF want.socket = Unset THEN "default1" ELSE want.socket,
                 timeout |-> IF want.timeout = 0 THEN DefaultTimeout ELSE want.timeout]]
          /\ new' = i
    /\ pc' = IF mutex /\ fits THEN "connect" ELSE "undo"
    /\ UNCHANGED <<why, want, session, appVars, daemon>>

\* ConnectViciTransport, for the path of the configuration or, in
\* ConnectDefaultIpsecSocket, for the default paths in turn.
ConnectViciTransport(ok) ==
    /\ pc = "connect"
    /\ ok => heap[new].path \in daemon
    /\ \/ /\ ok
          /\ heap' = [heap EXCEPT ![new].fd = TRUE]
          /\ pc' = "verify"
       \/ /\ ~ok /\ want.socket = Unset /\ heap[new].path = "default1"
          /\ heap' = [heap EXCEPT ![new].path = "default2"]
          /\ pc' = "connect"
       \/ /\ ~ok /\ ~(want.socket = Unset /\ heap[new].path = "default1")
          /\ pc' = "undo"
          /\ UNCHANGED heap
    /\ UNCHANGED <<why, want, new, session, appVars, daemon>>

\* DeinitializeIpsec, and the undo of InitializeIpsec: disconnect, destroy the mutex
\* that was initialised, free.
Deinitialize(h, i) == IF i = None THEN h ELSE [h EXCEPT ![i] = Unused]

\* StartNativeAppPeerListener: an initiator that was given a configuration listens.
\* It may fail, which ends the program.
Started(ok, listens) ==
    IF ok \/ ~listens
    THEN /\ pc' = "prompt"
         /\ session' = new /\ new' = None
         /\ listener' = IF listens THEN {base} ELSE {}
         /\ UNCHANGED heap
    ELSE /\ pc' = "exited"
         /\ heap' = Deinitialize(heap, new) /\ new' = None
         /\ UNCHANGED <<session, listener>>

\* Mutant: the old context is only forgotten.
ReplaceLeaks ==
    /\ session' = new /\ new' = None
    /\ UNCHANGED heap

\* The session takes the new context and the configuration it was opened for.
Replace ==
    /\ heap' = Deinitialize(heap, session)
    /\ session' = new /\ new' = None

\* SaveNativeAppSelectedPeer ends every command: the selected row gets the session's
\* configuration and flags.
SavedRows(c, loaded) ==
    IF selected = 0 THEN rows
    ELSE [rows EXCEPT ![selected] = [config |-> c, loaded |-> loaded]]

\* SetNativeAppSessionConfig stores a base configuration only when no peer is
\* selected; LoadNativeAppSessionConfig always does.
Store(reason, c) ==
    /\ config' = c
    /\ base' = IF reason = "load" \/ selected = 0 THEN c ELSE base
    /\ rows' = SavedRows(c, bConnectionLoaded)

\* VerifyIpsecDaemon asks for the version.  ok is its answer; fits, whether the path
\* of a loaded file fits into acConfigPath.
VerifyIpsecDaemon(ok, fits, listens) ==
    /\ pc = "verify"
    /\ ok => heap[new].path \in daemon
    /\ \/ /\ ~ok
          /\ pc' = "undo"
          /\ UNCHANGED <<why, want, new, heap, session, appVars>>
       \/ /\ ok /\ why = "startup"
          /\ Started(fits, listens)
          /\ UNCHANGED <<why, want, config, base, rows, selected, bConnectionLoaded, changes>>
       \/ /\ ok /\ why # "startup" /\ (why = "load" => fits)
          /\ pc' = "prompt"
          /\ Replace
          /\ Store(why, want)
          /\ UNCHANGED <<why, want, listener, selected, bConnectionLoaded, changes>>
       \/ /\ ok /\ why = "load" /\ ~fits
          /\ pc' = "prompt"
          /\ heap' = Deinitialize(heap, new) /\ new' = None
          /\ UNCHANGED <<why, want, session, appVars>>
    /\ UNCHANGED daemon

\* A failed opening: at startup the program ends, later the session goes on with the
\* context and the configuration it had.
OpeningFailed ==
    /\ pc' = IF why = "startup" THEN "exited" ELSE "prompt"
    /\ new' = None
    /\ UNCHANGED <<why, want, session, appVars, daemon>>

OutOfMemory ==
    /\ pc = "open"
    /\ OpeningFailed
    /\ UNCHANGED heap

Undo ==
    /\ pc = "undo"
    /\ heap' = Deinitialize(heap, new)
    /\ OpeningFailed

-----------------------------------------------------------------------------
(* RunNativeAppCli and its commands.                                       *)

\* The files given on the command line are read first; a bad one ends the program.
RunNativeAppCli(c, valid) ==
    /\ pc = "start"
    /\ IF valid /\ c.timeout > 0
       THEN /\ config' = c /\ base' = c
            /\ Opening("startup", c)
       ELSE /\ pc' = "exited"
            /\ UNCHANGED <<why, want, new, heap, session, config, base>>
    /\ UNCHANGED <<listener, rows, selected, bConnectionLoaded, changes, daemon>>

Change == changes < MaxChanges /\ changes' = changes + 1

\* Mutant: a changed timeout opens a new context, a changed path does not.
NeedsContextTimeout(c) == c.timeout # config.timeout

\* bSocketChanged.
NeedsContext(c) == c.socket # config.socket

\* SetNativeAppSessionConfig with one key, or LoadNativeAppSessionConfig with a valid
\* file, whose path fits or not.
ChangeConfig(reason, c, fits) ==
    /\ pc = "prompt" /\ ~bConnectionLoaded
    /\ Change
    /\ reason = "set" => c.socket = config.socket \/ c.timeout = config.timeout
    /\ reason = "load" => c.timeout > 0
    /\ IF NeedsContext(c)
       THEN /\ Opening(reason, c)
            /\ UNCHANGED <<config, base, rows>>
       ELSE /\ IF reason = "load" /\ ~fits THEN UNCHANGED <<config, base, rows>>
               ELSE Store(reason, c)
            /\ UNCHANGED <<pc, why, want, new, heap, session>>
    /\ UNCHANGED <<listener, selected, bConnectionLoaded, daemon>>

\* SelectNativeAppPeer: the row's configuration and flags, the context as it is.
Select(table, i) ==
    /\ selected' = i
    /\ config' = table[i].config
    /\ bConnectionLoaded' = table[i].loaded

SelectNativeAppPeer(i) ==
    /\ pc = "prompt"
    /\ Select(SavedRows(config, bConnectionLoaded), i)
    /\ rows' = SavedRows(config, bConnectionLoaded)
    /\ UNCHANGED <<pc, why, want, new, heap, session, base, listener, changes, daemon>>

\* Mutant: the last index is taken for a free one.
TableHasRoomInclusive == Len(rows) <= MaxRows

\* AppendNativeAppPeer refuses a row beyond NATIVE_APP_MAX_PEERS.
TableHasRoom == Len(rows) < MaxRows

\* "peer register" of a responder: a row of the base configuration, selected at once.
\* The role is one more setting, which the session may have changed.
RegisterNativeAppPeer ==
    /\ pc = "prompt" /\ TableHasRoom
    /\ rows' = Append(SavedRows(config, bConnectionLoaded), [config |-> base, loaded |-> FALSE])
    /\ Select(rows', Len(rows) + 1)
    /\ UNCHANGED <<pc, why, want, new, heap, session, base, listener, changes, daemon>>

\* Commands that load or unload the connection.  Loading wants a valid configuration.
ConnectionCommand ==
    /\ pc = "prompt"
    /\ bConnectionLoaded \/ config.timeout > 0
    /\ heap[session].path \in daemon
    /\ bConnectionLoaded' = ~bConnectionLoaded
    /\ rows' = SavedRows(config, ~bConnectionLoaded)
    /\ UNCHANGED <<pc, why, want, new, heap, session, config, base, listener, selected,
                   changes, daemon>>

\* A command whose connection breaks closes the descriptor, the next one opens it
\* again, to the context's own path.
Transport ==
    /\ pc = "prompt"
    /\ heap[session].fd \/ heap[session].path \in daemon
    /\ heap' = [heap EXCEPT ![session].fd = ~@]
    /\ UNCHANGED <<pc, why, want, new, session, appVars, daemon>>

Exit ==
    /\ pc = "prompt"
    /\ pc' = "exited"
    /\ heap' = Deinitialize(heap, session) /\ session' = None
    /\ listener' = {}
    /\ UNCHANGED <<why, want, new, config, base, rows, selected, bConnectionLoaded, changes,
                   daemon>>

-----------------------------------------------------------------------------
(* The listener's thread, and charon.                                      *)

\* A row is built from the copy of the base configuration the listener was given.
PeerRegistered ==
    /\ TableHasRoom
    /\ \E c \in listener : rows' = Append(rows, [config |-> c, loaded |-> FALSE])
    /\ UNCHANGED <<pc, why, want, new, heap, session, config, base, listener, selected,
                   bConnectionLoaded, changes, daemon>>

DaemonChanges(s) ==
    /\ pc # "exited"
    /\ daemon' = IF s \in daemon THEN daemon \ {s} ELSE daemon \cup {s}
    /\ UNCHANGED <<pc, why, want, new, heap, session, appVars>>

Next ==
    \/ \E c \in Configs, valid \in BOOLEAN : RunNativeAppCli(c, valid)
    \/ \E mutex, fits \in BOOLEAN : InitializeIpsecContext(mutex, fits)
    \/ \E ok \in BOOLEAN : ConnectViciTransport(ok)
    \/ \E ok, fits, listens \in BOOLEAN : VerifyIpsecDaemon(ok, fits, listens)
    \/ OutOfMemory
    \/ Undo
    \/ \E reason \in {"set", "load"}, c \in Configs, fits \in BOOLEAN :
          ChangeConfig(reason, c, fits)
    \/ \E i \in 1 .. Len(rows) : SelectNativeAppPeer(i)
    \/ RegisterNativeAppPeer
    \/ ConnectionCommand
    \/ Transport
    \/ Exit
    \/ PeerRegistered
    \/ \E s \in Sockets : DaemonChanges(s)

Spec == Init /\ [][Next]_vars

-----------------------------------------------------------------------------
(* Properties.                                                             *)

Allocated == {i \in Contexts : heap[i].allocated}

\* At the prompt the session has its context and no other is left, after the program
\* none: every failed step of an opening and every replacement gives back what it
\* took, and never the context that the session still uses.  A mutex or a descriptor
\* without an allocation would be one that nobody can release.
NoContextLost ==
    /\ pc = "prompt" => session # None /\ Allocated = {session} /\ heap[session].mutex
    /\ pc = "exited" => Allocated = {}
    /\ \A i \in Contexts : heap[i].mutex \/ heap[i].fd => heap[i].allocated

\* As long as no peer was selected, the commands at the prompt go to the daemon that
\* the configuration names: a change that could not open its socket has not changed
\* the configuration, and one that could has not kept the old context.
ConnectedAsConfigured ==
    pc = "prompt" /\ selected = 0 =>
        IF config.socket = Unset THEN heap[session].path \in {"default1", "default2"}
        ELSE heap[session].path = config.socket

=============================================================================
