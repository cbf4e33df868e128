---------------------------- MODULE NativeSession ----------------------------
(***************************************************************************)
(* The session of the CLI application (app/cli.c, app/lifecycle.c): which  *)
(* connection definitions and credentials it believes to have loaded into  *)
(* charon, kept in two flags for the selected profile and in two flags per *)
(* row of the peer table, against what charon really holds.                *)
(*                                                                         *)
(* A profile (NativeAppConfig_t) is abstracted to its connection name,     *)
(* which also names its credential.  A command is refused before its first *)
(* daemon call when the profile is incomplete; that changes nothing and is *)
(* not a step.  A daemon call either succeeds, fails without effect, or    *)
(* fails with its effect (the answer came too late).                       *)
(***************************************************************************)
EXTENDS Integers, Sequences

CONSTANTS
    Names,      \* connection names
    Base,       \* the name in the configuration file
    MaxPeers    \* bound: rows of the peer table

ASSUME SessionConstants ==
    /\ Base \in Names
    /\ MaxPeers \in Nat

VARIABLES
    pc,                \* "prompt", or the daemon call the command is at
    config,            \* pSession->Config
    bConnectionLoaded,
    bCredentialLoaded,
    selected,          \* uiSelectedIndex + 1; 0 when no peer is selected
    table,             \* aPeers
    added,             \* bConnectionAdded of "up"
    clear,             \* bClearCredentials of "test loop"
    loaded,            \* the connections charon holds
    creds,             \* the credentials charon holds
    doubt,             \* names whose connection the session cannot know about
    credDoubt,         \* names whose credential the session cannot know about
    tested             \* history: a test command has been run

sessionVars == <<config, bConnectionLoaded, bCredentialLoaded, selected, table>>
localVars   == <<added, clear>>
daemonVars  == <<loaded, creds, doubt, credDoubt>>
vars == <<pc, sessionVars, localVars, daemonVars, tested>>

Rows == [name : Names, bConnectionLoaded : BOOLEAN, bCredentialLoaded : BOOLEAN]

TypeOK ==
    /\ pc \in {"prompt", "up_load", "up_credential", "up_start", "up_undo",
               "down_remove", "load_credential", "load_undo",
               "loop_credential", "loop_load", "loop_remove"}
    /\ config \in Names
    /\ bConnectionLoaded \in BOOLEAN
    /\ bCredentialLoaded \in BOOLEAN
    /\ table \in Seq(Rows) /\ Len(table) <= MaxPeers
    /\ selected \in 0 .. Len(table)
    /\ added \in BOOLEAN
    /\ clear \in BOOLEAN
    /\ loaded \subseteq Names /\ creds \subseteq Names
    /\ doubt \subseteq Names /\ credDoubt \subseteq Names
    /\ tested \in BOOLEAN

Init ==
    /\ pc = "prompt"
    /\ config = Base
    /\ bConnectionLoaded = FALSE
    /\ bCredentialLoaded = FALSE
    /\ selected = 0
    /\ table = <<>>
    /\ added = FALSE
    /\ clear = FALSE
    /\ loaded = {}
    /\ creds = {}
    /\ doubt = {}
    /\ credDoubt = {}
    /\ tested = FALSE

-----------------------------------------------------------------------------
(* Calls of the library, as charon sees them.  doubt is history.           *)

\* Rows other than the selected one that claim connection n.
ClaimedElsewhere(n) ==
    \E i \in DOMAIN table : i # selected /\ table[i].name = n /\ table[i].bConnectionLoaded

AddIpsecConnection(n, ok) ==
    /\ loaded' \in {loaded \cup {n}} \cup IF ok THEN {} ELSE {loaded}
    /\ doubt' = IF ok THEN doubt \ {n} ELSE doubt \cup {n}
    /\ UNCHANGED <<creds, credDoubt>>

\* charon refuses to unload a connection it does not have.
RemoveIpsecConnection(n, ok) ==
    /\ ok => n \in loaded
    /\ loaded' \in {loaded \ {n}} \cup IF ok THEN {} ELSE {loaded}
    /\ doubt' = IF ok /\ ~ClaimedElsewhere(n) THEN doubt \ {n} ELSE doubt \cup {n}
    /\ UNCHANGED <<creds, credDoubt>>

LoadNativeAppCredential(n, ok) ==
    /\ creds' \in {creds \cup {n}} \cup IF ok THEN {} ELSE {creds}
    /\ credDoubt' = IF ok THEN credDoubt \ {n} ELSE credDoubt \cup {n}
    /\ UNCHANGED <<loaded, doubt>>

ClearIpsecCredentials(ok) ==
    /\ creds' \in {{}} \cup IF ok THEN {} ELSE {creds}
    /\ credDoubt' = IF ok THEN {} ELSE Names
    /\ UNCHANGED <<loaded, doubt>>

-----------------------------------------------------------------------------
(* The end of every command.                                               *)

\* SaveNativeAppSelectedPeer: the session's profile and flags, as the command
\* leaves them, into row sel of t.
SaveNativeAppSelectedPeer(t, sel, n, conn, cred) ==
    [i \in DOMAIN t |-> IF i = sel
                        THEN [name |-> n, bConnectionLoaded |-> conn,
                              bCredentialLoaded |-> cred]
                        ELSE t[i]]

\* The command ends with these flags, and its local variables end with it.
Finish(conn, cred) ==
    /\ pc' = "prompt"
    /\ bConnectionLoaded' = conn
    /\ bCredentialLoaded' = cred
    /\ table' = SaveNativeAppSelectedPeer(table, selected, config, conn, cred)
    /\ added' = FALSE /\ clear' = FALSE
    /\ UNCHANGED <<config, selected>>

\* The command goes on with its next daemon call.
Continue(to, conn, cred) ==
    /\ pc' = to
    /\ bConnectionLoaded' = conn
    /\ bCredentialLoaded' = cred
    /\ UNCHANGED <<config, selected, table>>

-----------------------------------------------------------------------------
(* connection load, connection unload [NAME], credential load, credential  *)
(* clear.                                                                  *)

ConnectionLoad(ok) ==
    /\ pc = "prompt"
    /\ AddIpsecConnection(config, ok)
    /\ Finish(bConnectionLoaded \/ ok, bCredentialLoaded)

ConnectionUnload(n, ok) ==
    /\ pc = "prompt"
    /\ RemoveIpsecConnection(n, ok)
    /\ Finish(bConnectionLoaded /\ ~(ok /\ n = config), bCredentialLoaded)

CredentialLoad(ok) ==
    /\ pc = "prompt"
    /\ LoadNativeAppCredential(config, ok)
    /\ Finish(bConnectionLoaded, bCredentialLoaded \/ ok)

\* Mutant: only the selected profile learns that charon forgot everything.
CredentialClearSelected(ok) ==
    /\ pc = "prompt"
    /\ ClearIpsecCredentials(ok)
    /\ Finish(bConnectionLoaded, bCredentialLoaded /\ ~ok)

\* All rows forget their credential, because charon forgot all of them.
CredentialClear(ok) ==
    /\ pc = "prompt"
    /\ ClearIpsecCredentials(ok)
    /\ bCredentialLoaded' = (bCredentialLoaded /\ ~ok)
    /\ table' = SaveNativeAppSelectedPeer(
                   [i \in DOMAIN table |->
                       [table[i] EXCEPT !.bCredentialLoaded = @ /\ ~ok]],
                   selected, config, bConnectionLoaded, bCredentialLoaded /\ ~ok)
    /\ UNCHANGED <<pc, config, bConnectionLoaded, selected, localVars>>

-----------------------------------------------------------------------------
(* up: load what is not loaded yet, start, and undo the load on failure.   *)

\* The next call of an "up" that finds the flags so.
UpFrom(conn, cred) ==
    IF ~conn THEN "up_load" ELSE IF ~cred THEN "up_credential" ELSE "up_start"

ExecuteNativeAppUp ==
    /\ pc = "prompt"
    /\ added' = FALSE
    /\ pc' = UpFrom(bConnectionLoaded, bCredentialLoaded)
    /\ UNCHANGED <<sessionVars, clear, daemonVars>>

UpLoad(ok) ==
    /\ pc = "up_load"
    /\ AddIpsecConnection(config, ok)
    /\ IF ok
       THEN /\ Continue(UpFrom(TRUE, bCredentialLoaded), TRUE, bCredentialLoaded)
            /\ added' = TRUE
            /\ UNCHANGED clear
       ELSE Finish(bConnectionLoaded, bCredentialLoaded)

UpCredential(ok) ==
    /\ pc = "up_credential"
    /\ LoadNativeAppCredential(config, ok)
    /\ \/ /\ ok \/ added
          /\ Continue(IF ok THEN "up_start" ELSE "up_undo", bConnectionLoaded,
                      bCredentialLoaded \/ ok)
          /\ UNCHANGED localVars
       \/ /\ ~ok /\ ~added
          /\ Finish(bConnectionLoaded, bCredentialLoaded)

\* StartNativeAppConnection: initiations and waits, which load nothing.
UpStart(ok) ==
    /\ pc = "up_start"
    /\ UNCHANGED daemonVars
    /\ \/ /\ ~ok /\ added
          /\ Continue("up_undo", bConnectionLoaded, bCredentialLoaded)
          /\ UNCHANGED localVars
       \/ /\ ok \/ ~added
          /\ Finish(bConnectionLoaded, bCredentialLoaded)

UpUndo(ok) ==
    /\ pc = "up_undo"
    /\ RemoveIpsecConnection(config, ok)
    /\ Finish(bConnectionLoaded /\ ~ok, bCredentialLoaded)

-----------------------------------------------------------------------------
(* down: terminate the SAs, then unload, whether or not that succeeded.    *)

ExecuteNativeAppDown ==
    /\ pc = "prompt"
    /\ UNCHANGED daemonVars
    /\ \/ /\ bConnectionLoaded
          /\ Continue("down_remove", bConnectionLoaded, bCredentialLoaded)
          /\ UNCHANGED localVars
       \/ /\ ~bConnectionLoaded
          /\ Finish(bConnectionLoaded, bCredentialLoaded)

\* Mutant: ownership is kept although the connection is unloaded.
DownRemoveKeepsFlag(ok) ==
    /\ pc = "down_remove"
    /\ RemoveIpsecConnection(config, ok)
    /\ Finish(bConnectionLoaded, bCredentialLoaded)

DownRemove(ok) ==
    /\ pc = "down_remove"
    /\ RemoveIpsecConnection(config, ok)
    /\ Finish(bConnectionLoaded /\ ~ok, bCredentialLoaded)

-----------------------------------------------------------------------------
(* load: LoadNativeAppResources; the result of its undo is ignored.        *)

LegacyLoad(ok) ==
    /\ pc = "prompt" /\ ~bConnectionLoaded /\ ~bCredentialLoaded
    /\ AddIpsecConnection(config, ok)
    /\ Continue(IF ok THEN "load_credential" ELSE "load_undo",
                bConnectionLoaded, bCredentialLoaded)
    /\ UNCHANGED localVars

LegacyCredential(ok) ==
    /\ pc = "load_credential"
    /\ LoadNativeAppCredential(config, ok)
    /\ \/ ok /\ Finish(TRUE, TRUE)
       \/ /\ ~ok
          /\ Continue("load_undo", bConnectionLoaded, bCredentialLoaded)
          /\ UNCHANGED localVars

LegacyUndo(ok) ==
    /\ pc = "load_undo"
    /\ RemoveIpsecConnection(config, ok)
    /\ Finish(bConnectionLoaded, bCredentialLoaded)

-----------------------------------------------------------------------------
(* test loop: RunNativeAppLoop, with --clear-credentials or without, and   *)
(* test algorithm.                                                         *)

\* However the loop ended, the flags are set the same way.
LoopEnds(clearing) == Finish(FALSE, ~clearing)

\* Refused while the profile's connection is loaded.  A responder's loop is
\* refused later, inside RunNativeAppLoop, and the flags are set all the same.
LoopStart(clearing) ==
    /\ pc = "prompt" /\ ~bConnectionLoaded
    /\ tested' = TRUE
    /\ UNCHANGED daemonVars
    /\ \/ /\ Continue("loop_credential", bConnectionLoaded, bCredentialLoaded)
          /\ clear' = clearing
          /\ UNCHANGED added
       \/ LoopEnds(clearing)

LoopCredential(ok) ==
    /\ pc = "loop_credential"
    /\ LoadNativeAppCredential(config, ok)
    /\ \/ /\ ok
          /\ Continue("loop_load", bConnectionLoaded, bCredentialLoaded)
          /\ UNCHANGED localVars
       \/ ~ok /\ LoopEnds(clear)

\* One iteration loads the connection, starts, verifies and terminates the
\* SAs, and unloads what it loaded, whatever the calls in between returned.
LoopLoad(ok) ==
    /\ pc = "loop_load"
    /\ AddIpsecConnection(config, ok)
    /\ Continue(IF ok THEN "loop_remove" ELSE "loop_load", bConnectionLoaded,
                bCredentialLoaded)
    /\ UNCHANGED localVars

LoopRemove(ok) ==
    /\ pc = "loop_remove"
    /\ RemoveIpsecConnection(config, ok)
    /\ Continue("loop_load", bConnectionLoaded, bCredentialLoaded)
    /\ UNCHANGED localVars

\* All iterations done, the user's stop, or a failure that ends the loop.
LoopClear(ok) ==
    /\ pc = "loop_load"
    /\ IF clear THEN ClearIpsecCredentials(ok) ELSE UNCHANGED daemonVars
    /\ LoopEnds(clear)

\* test algorithm run and serve: at this level a loop that clears nothing.  It is
\* refused (wrong role, no socket) or loads the credential, its cases load and
\* unload the profile's own connection, and the flag is set however it ended.
AlgorithmTest == LoopStart(FALSE)

-----------------------------------------------------------------------------
(* config and peer commands.                                               *)

\* Refused while bConnectionLoaded; profile n becomes the session's, in the
\* selected row too, and the credential marker is reset.
ReplaceConfig(n) ==
    /\ pc = "prompt" /\ ~bConnectionLoaded
    /\ config' = n
    /\ bCredentialLoaded' = FALSE
    /\ table' = SaveNativeAppSelectedPeer(table, selected, n, FALSE, FALSE)
    /\ UNCHANGED <<pc, bConnectionLoaded, selected, localVars>>

\* The session's context is replaced by one to another charon, which holds
\* whatever others loaded there (which credentials does not matter, as each is in
\* doubt until it is loaded or cleared).  The rows keep the flags they earned at the
\* old one: nothing resets them.
ReconnectNativeAppContext ==
    /\ loaded' \in SUBSET Names /\ creds' = loaded'
    /\ doubt' = Names /\ credDoubt' = Names

\* One setting: the name of the connection, or vici_uri and with it the daemon.
ConfigSet(n) ==
    /\ ReplaceConfig(n)
    /\ \/ UNCHANGED daemonVars
       \/ n = config /\ ReconnectNativeAppContext

\* The file's profile, and the daemon at the socket path the file gives.
ConfigLoad ==
    /\ ReplaceConfig(Base)
    /\ UNCHANGED daemonVars \/ ReconnectNativeAppContext

\* Mutants: the old profile is saved under the new index; an index off by one.
SelectSavesLate(i) ==
    /\ pc = "prompt"
    /\ table' = SaveNativeAppSelectedPeer(table, i, config,
                                          bConnectionLoaded, bCredentialLoaded)
    /\ selected' = i
    /\ UNCHANGED <<pc, config, bConnectionLoaded, bCredentialLoaded, localVars,
                   daemonVars>>

SelectOffByOne(i) ==
    /\ pc = "prompt"
    /\ selected' = i + 1
    /\ config' = table[i].name
    /\ UNCHANGED <<pc, bConnectionLoaded, bCredentialLoaded, table, localVars,
                   daemonVars>>

\* The row the lookup finds becomes the session's profile, flags and all,
\* after the profile that was selected so far has been saved.
SelectNativeAppPeer(i) ==
    /\ pc = "prompt"
    /\ table' = SaveNativeAppSelectedPeer(table, selected, config,
                                          bConnectionLoaded, bCredentialLoaded)
    /\ selected' = i
    /\ config' = table'[i].name
    /\ bConnectionLoaded' = table'[i].bConnectionLoaded
    /\ bCredentialLoaded' = table'[i].bCredentialLoaded
    /\ UNCHANGED <<pc, localVars, daemonVars>>

\* The listener thread appends a row under the table's lock, at any moment.
AppendNativeAppPeer(n) ==
    /\ Len(table) < MaxPeers
    /\ n # Base /\ \A i \in DOMAIN table : table[i].name # n
    /\ table' = Append(table, [name |-> n, bConnectionLoaded |-> FALSE,
                               bCredentialLoaded |-> FALSE])
    /\ UNCHANGED <<pc, config, bConnectionLoaded, bCredentialLoaded, selected,
                   localVars, daemonVars>>

-----------------------------------------------------------------------------

\* charon restarts empty.
DaemonRestart ==
    /\ loaded' = {} /\ creds' = {}
    /\ doubt' = Names /\ credDoubt' = Names
    /\ UNCHANGED <<pc, sessionVars, localVars>>

Command(ok) ==
    \/ ConnectionLoad(ok)
    \/ \E n \in Names : ConnectionUnload(n, ok)
    \/ CredentialLoad(ok)
    \/ CredentialClear(ok)
    \/ UpLoad(ok)
    \/ UpCredential(ok)
    \/ UpStart(ok)
    \/ UpUndo(ok)
    \/ DownRemove(ok)
    \/ LegacyLoad(ok)
    \/ LegacyCredential(ok)
    \/ LegacyUndo(ok)
    \/ LoopCredential(ok)
    \/ LoopLoad(ok)
    \/ LoopRemove(ok)
    \/ LoopClear(ok)

Next ==
    \/ AlgorithmTest
    \/ \E clearing \in BOOLEAN : LoopStart(clearing)
    \/ /\ \/ \E ok \in BOOLEAN : Command(ok)
          \/ ExecuteNativeAppUp
          \/ ExecuteNativeAppDown
          \/ \E n \in Names : ConfigSet(n)
          \/ ConfigLoad
          \/ \E i \in DOMAIN table : SelectNativeAppPeer(i)
          \/ \E n \in Names : AppendNativeAppPeer(n)
          \/ DaemonRestart
       /\ UNCHANGED tested

Spec == Init /\ [][Next]_vars

-----------------------------------------------------------------------------
(* Properties.                                                             *)

\* The profiles that are not selected, whose rows are their only record.
Unselected == DOMAIN table \ {selected}

\* A flag that says a connection is loaded, the session's or a row's, is true:
\* charon has the connection, unless since the last successful load of that name
\* a call about it failed, charon restarted, the session moved to another charon
\* (config set vici_uri and config load keep the flags of the other rows), or
\* another profile or "connection unload NAME" unloaded it.
ConnectionFlagsAreTrue ==
    /\ bConnectionLoaded => config \in loaded \cup doubt
    /\ \A i \in Unselected :
          table[i].bConnectionLoaded => table[i].name \in loaded \cup doubt

\* The same for credentials: a profile that would skip loading its credential
\* on "up", and that "credential show" calls loaded, has it in charon, unless
\* since its last successful load a call about it failed, charon restarted, or
\* the session moved to another charon.
CredentialFlagsAreTrue ==
    /\ bCredentialLoaded => config \in creds \cup credDoubt
    /\ \A i \in Unselected :
          table[i].bCredentialLoaded => table[i].name \in creds \cup credDoubt

\* The credential flags are true, with those exceptions, as long as no test command
\* has been run: every other command, in any order and with any failures, keeps
\* them so, although clearing is daemon-wide and profiles come and go with their
\* flags.
CredentialFlagsUntilTest == ~tested => CredentialFlagsAreTrue

\* A command leaves the profile and the connection flag of every row alone but
\* the row that is selected when it starts.
RowsKeepTheirProfile ==
    [][\A i \in Unselected :
          /\ table'[i].name = table[i].name
          /\ table'[i].bConnectionLoaded = table[i].bConnectionLoaded]_vars

\* A configuration change is accepted only when the session has no connection
\* loaded in charon.
ConfigChangesRejected ==
    (pc = "prompt" /\ ~bConnectionLoaded) => loaded \subseteq doubt

=============================================================================
