------------------------- MODULE NativeSessionProofs -------------------------
(***************************************************************************)
(* Theorems about NativeSession: for any set of connection names and any   *)
(* size of the peer table.                                                 *)
(***************************************************************************)
EXTENDS NativeSession, SequenceTheorems, TLAPS

-----------------------------------------------------------------------------
(* The inductive invariant.                                                *)

\* What a command has established when it is at one of its calls: a load or a loop
\* runs only while the profile claims no connection, the connection that "load" is
\* about to claim has been loaded, and a loop is a test.
CallInv ==
    /\ pc \in {"load_credential", "load_undo", "loop_credential", "loop_load", "loop_remove"}
          => ~bConnectionLoaded
    /\ pc = "load_credential" => config \in loaded \cup doubt
    /\ pc \in {"loop_credential", "loop_load", "loop_remove"} => tested

IInv ==
    /\ TypeOK
    /\ CallInv
    /\ ConnectionFlagsAreTrue
    /\ CredentialFlagsUntilTest

DaemonType ==
    /\ loaded \subseteq Names /\ creds \subseteq Names
    /\ doubt \subseteq Names /\ credDoubt \subseteq Names

Calls == {"prompt", "up_load", "up_credential", "up_start", "up_undo", "down_remove",
          "load_credential", "load_undo", "loop_credential", "loop_load", "loop_remove"}

-----------------------------------------------------------------------------
(* Saving a profile in its row.                                            *)

\* One row is replaced, the others and the length of the table stay.
LEMMA SavedRows ==
    ASSUME NEW t \in Seq(Rows), NEW sel, NEW n, NEW conn, NEW cred,
           [name |-> n, bConnectionLoaded |-> conn, bCredentialLoaded |-> cred] \in Rows,
           NEW s, s = SaveNativeAppSelectedPeer(t, sel, n, conn, cred)
    PROVE  /\ s \in Seq(Rows) /\ Len(s) = Len(t) /\ DOMAIN s = DOMAIN t
           /\ \A i \in DOMAIN t : i # sel => s[i] = t[i]
           /\ sel \in DOMAIN t => s[sel] = [name |-> n, bConnectionLoaded |-> conn,
                                            bCredentialLoaded |-> cred]
  <1> DEFINE row == [name |-> n, bConnectionLoaded |-> conn, bCredentialLoaded |-> cred]
  <1>1 row \in Rows
    OBVIOUS
  <1>2 DOMAIN t = 1 .. Len(t) /\ Len(t) \in Nat
    OBVIOUS
  <1>3 s = [i \in 1 .. Len(t) |-> IF i = sel THEN row ELSE t[i]]
    BY <1>2 DEF SaveNativeAppSelectedPeer
  <1> HIDE DEF row
  <1>4 \A i \in 1 .. Len(t) : t[i] \in Rows
    OBVIOUS
  <1>5 s \in [1 .. Len(t) -> Rows]
    BY <1>1, <1>3, <1>4
  <1>6 s \in Seq(Rows) /\ Len(s) = Len(t)
    BY <1>2, <1>5, SeqDef
  <1>7 DOMAIN s = DOMAIN t /\ \A i \in DOMAIN t : i # sel => s[i] = t[i]
    BY <1>2, <1>3
  <1>8 sel \in DOMAIN t => s[sel] = row
    BY <1>2, <1>3
  <1> QED BY <1>6, <1>7, <1>8 DEF row

\* The fields of a row.
LEMMA RowFields ==
    ASSUME NEW r \in Rows
    PROVE  r.name \in Names /\ r.bConnectionLoaded \in BOOLEAN /\ r.bCredentialLoaded \in BOOLEAN
  BY DEF Rows

\* Rows are rows.
LEMMA TableRows ==
    ASSUME TypeOK, NEW i \in DOMAIN table
    PROVE  table[i] \in Rows
  <1>1 table \in Seq(Rows)
    BY DEF TypeOK
  <1>2 ASSUME NEW S, NEW t \in Seq(S), NEW k \in DOMAIN t PROVE t[k] \in S
    BY <1>2
  <1> QED BY <1>1, <1>2

-----------------------------------------------------------------------------
(* The calls of the library.                                               *)

\* A load, whatever its result, leaves everything charon has or may have.
LEMMA AddEffect ==
    ASSUME TypeOK, NEW n \in Names, NEW ok \in BOOLEAN, AddIpsecConnection(n, ok)
    PROVE  /\ DaemonType' /\ creds' = creds /\ credDoubt' = credDoubt
           /\ \A m : m \in loaded \cup doubt => m \in loaded' \cup doubt'
           /\ n \in loaded' \cup doubt'
  BY DEF TypeOK, DaemonType, AddIpsecConnection

\* An unload takes away at most the connection itself, and only if the session can
\* know about it.
LEMMA RemoveEffect ==
    ASSUME TypeOK, NEW n \in Names, NEW ok \in BOOLEAN, RemoveIpsecConnection(n, ok)
    PROVE  /\ DaemonType' /\ creds' = creds /\ credDoubt' = credDoubt
           /\ \A m : m \in loaded \cup doubt =>
                 m \in loaded' \cup doubt' \/ (m = n /\ ok /\ ~ClaimedElsewhere(n))
  BY DEF TypeOK, DaemonType, RemoveIpsecConnection

\* A credential load leaves every credential charon has or may have.
LEMMA CredentialEffect ==
    ASSUME TypeOK, NEW n \in Names, NEW ok \in BOOLEAN, LoadNativeAppCredential(n, ok)
    PROVE  /\ DaemonType' /\ loaded' = loaded /\ doubt' = doubt
           /\ \A m : m \in creds \cup credDoubt => m \in creds' \cup credDoubt'
           /\ n \in creds' \cup credDoubt'
  BY DEF TypeOK, DaemonType, LoadNativeAppCredential

\* A clear that fails leaves every credential in doubt.
LEMMA ClearEffect ==
    ASSUME TypeOK, NEW ok \in BOOLEAN, ClearIpsecCredentials(ok)
    PROVE  /\ DaemonType' /\ loaded' = loaded /\ doubt' = doubt
           /\ ~ok => credDoubt' = Names
  BY DEF TypeOK, DaemonType, ClearIpsecCredentials

\* No call.
LEMMA NoEffect ==
    ASSUME TypeOK, UNCHANGED daemonVars
    PROVE  /\ DaemonType' /\ creds' = creds /\ credDoubt' = credDoubt
           /\ loaded' = loaded /\ doubt' = doubt
  BY DEF TypeOK, DaemonType, daemonVars

-----------------------------------------------------------------------------
(* How a command ends and goes on.                                         *)

\* The claims of the rows that are not selected, of what charon has next.
RowsConnection == \A i \in Unselected :
    table[i].bConnectionLoaded => table[i].name \in loaded' \cup doubt'
RowsCredential == \A i \in Unselected :
    table[i].bCredentialLoaded => table[i].name \in creds' \cup credDoubt'

\* The end of a command keeps the invariant if what it claims is true.
LEMMA FinishStep ==
    ASSUME IInv, DaemonType', tested' \in BOOLEAN, NEW conn \in BOOLEAN, NEW cred \in BOOLEAN,
           Finish(conn, cred),
           conn => config \in loaded' \cup doubt',
           RowsConnection,
           ~tested' => (cred => config \in creds' \cup credDoubt') /\ RowsCredential
    PROVE  IInv'
  <1>1 TypeOK /\ table \in Seq(Rows) /\ config \in Names
    BY DEF IInv, TypeOK
  <1>2 /\ table' \in Seq(Rows) /\ Len(table') = Len(table) /\ DOMAIN table' = DOMAIN table
       /\ \A i \in DOMAIN table : i # selected => table'[i] = table[i]
    <2>1 table' = SaveNativeAppSelectedPeer(table, selected, config, conn, cred)
      BY DEF Finish
    <2>2 [name |-> config, bConnectionLoaded |-> conn, bCredentialLoaded |-> cred] \in Rows
      BY <1>1 DEF Rows
    <2> QED BY <1>1, <2>1, <2>2, SavedRows
  <1>3 TypeOK'
    BY <1>1, <1>2 DEF TypeOK, DaemonType, Finish
  <1>4 CallInv'
    BY DEF CallInv, Finish
  <1>5 Unselected' = Unselected /\ \A i \in Unselected : table'[i] = table[i]
    BY <1>2 DEF Unselected, Finish
  <1>6 ConnectionFlagsAreTrue'
    BY <1>5 DEF ConnectionFlagsAreTrue, RowsConnection, Finish
  <1>7 CredentialFlagsUntilTest'
    BY <1>5 DEF CredentialFlagsUntilTest, CredentialFlagsAreTrue, RowsCredential, Finish
  <1> QED BY <1>3, <1>4, <1>6, <1>7 DEF IInv

\* The next call of a command.
LEMMA ContinueStep ==
    ASSUME IInv, DaemonType', tested' \in BOOLEAN, added' \in BOOLEAN, clear' \in BOOLEAN,
           NEW to \in Calls, NEW conn \in BOOLEAN, NEW cred \in BOOLEAN,
           Continue(to, conn, cred),
           to \in {"load_credential", "load_undo", "loop_credential", "loop_load", "loop_remove"}
              => ~conn,
           to = "load_credential" => config \in loaded' \cup doubt',
           to \in {"loop_credential", "loop_load", "loop_remove"} => tested',
           conn => config \in loaded' \cup doubt',
           RowsConnection,
           ~tested' => (cred => config \in creds' \cup credDoubt') /\ RowsCredential
    PROVE  IInv'
  <1>1 TypeOK'
    BY DEF IInv, TypeOK, DaemonType, Continue, Calls
  <1>2 CallInv'
    BY DEF CallInv, Continue
  <1>3 Unselected' = Unselected /\ table' = table
    BY DEF Unselected, Continue
  <1>4 ConnectionFlagsAreTrue'
    BY <1>3 DEF ConnectionFlagsAreTrue, RowsConnection, Continue
  <1>5 CredentialFlagsUntilTest'
    BY <1>3 DEF CredentialFlagsUntilTest, CredentialFlagsAreTrue, RowsCredential, Continue
  <1> QED BY <1>1, <1>2, <1>4, <1>5 DEF IInv

\* What charon keeps, the flags may go on claiming.
LEMMA KeptConnections ==
    ASSUME IInv, \A m : m \in loaded \cup doubt => m \in loaded' \cup doubt'
    PROVE  RowsConnection /\ (bConnectionLoaded => config \in loaded' \cup doubt')
  BY DEF IInv, ConnectionFlagsAreTrue, RowsConnection

\* The same for credentials, as long as no test has been run.
LEMMA KeptCredentials ==
    ASSUME IInv, ~tested, \A m : m \in creds \cup credDoubt => m \in creds' \cup credDoubt'
    PROVE  RowsCredential /\ (bCredentialLoaded => config \in creds' \cup credDoubt')
  BY DEF IInv, CredentialFlagsUntilTest, CredentialFlagsAreTrue, RowsCredential

\* After an unload the rows' claims are still true, because a name that another row
\* claims is in doubt from then on.
LEMMA RemovedConnections ==
    ASSUME IInv, NEW n \in Names, NEW ok \in BOOLEAN, RemoveIpsecConnection(n, ok)
    PROVE  /\ RowsConnection
           /\ bConnectionLoaded /\ ~(ok /\ n = config) => config \in loaded' \cup doubt'
  <1>1 \A m : m \in loaded \cup doubt =>
           m \in loaded' \cup doubt' \/ (m = n /\ ok /\ ~ClaimedElsewhere(n))
    BY RemoveEffect DEF IInv
  <1>2 RowsConnection
    BY <1>1 DEF IInv, ConnectionFlagsAreTrue, RowsConnection, ClaimedElsewhere, Unselected
  <1> QED BY <1>1, <1>2 DEF IInv, ConnectionFlagsAreTrue

\* The types that the steps need.
LEMMA SessionTypes ==
    ASSUME IInv
    PROVE  /\ TypeOK /\ config \in Names
           /\ bConnectionLoaded \in BOOLEAN /\ bCredentialLoaded \in BOOLEAN
           /\ added \in BOOLEAN /\ clear \in BOOLEAN /\ tested \in BOOLEAN
  BY DEF IInv, TypeOK

-----------------------------------------------------------------------------
(* The steps of the commands.                                              *)

\* connection load, connection unload, credential load.
LEMMA PlainCommandStep ==
    ASSUME IInv, UNCHANGED tested, NEW ok \in BOOLEAN,
           \/ ConnectionLoad(ok)
           \/ \E n \in Names : ConnectionUnload(n, ok)
           \/ CredentialLoad(ok)
    PROVE  IInv'
  <1> USE SessionTypes
  <1>1 CASE ConnectionLoad(ok)
    <2> DEFINE conn == bConnectionLoaded \/ ok
    <2>1 conn \in BOOLEAN /\ Finish(conn, bCredentialLoaded) /\ AddIpsecConnection(config, ok)
      BY <1>1 DEF ConnectionLoad
    <2>2 /\ DaemonType' /\ RowsConnection /\ config \in loaded' \cup doubt'
         /\ creds' = creds /\ credDoubt' = credDoubt
      BY <2>1, AddEffect, KeptConnections
    <2>3 ~tested' => (bCredentialLoaded => config \in creds' \cup credDoubt') /\ RowsCredential
      BY <2>2, KeptCredentials
    <2> HIDE DEF conn
    <2> QED BY <2>1, <2>2, <2>3, FinishStep
  <1>2 ASSUME NEW n \in Names, ConnectionUnload(n, ok) PROVE IInv'
    <2> DEFINE conn == bConnectionLoaded /\ ~(ok /\ n = config)
    <2>1 conn \in BOOLEAN /\ Finish(conn, bCredentialLoaded) /\ RemoveIpsecConnection(n, ok)
      BY <1>2 DEF ConnectionUnload
    <2>2 DaemonType' /\ creds' = creds /\ credDoubt' = credDoubt
      BY <2>1, RemoveEffect
    <2>3 RowsConnection /\ (conn => config \in loaded' \cup doubt')
      BY <2>1, RemovedConnections
    <2>4 ~tested' => (bCredentialLoaded => config \in creds' \cup credDoubt') /\ RowsCredential
      BY <2>2, KeptCredentials
    <2> HIDE DEF conn
    <2> QED BY <2>1, <2>2, <2>3, <2>4, FinishStep
  <1>3 CASE CredentialLoad(ok)
    <2> DEFINE cred == bCredentialLoaded \/ ok
    <2>1 /\ cred \in BOOLEAN /\ Finish(bConnectionLoaded, cred)
         /\ LoadNativeAppCredential(config, ok)
      BY <1>3 DEF CredentialLoad
    <2>2 /\ DaemonType' /\ loaded' = loaded /\ doubt' = doubt
         /\ \A m : m \in creds \cup credDoubt => m \in creds' \cup credDoubt'
         /\ config \in creds' \cup credDoubt'
      BY <2>1, CredentialEffect
    <2>3 RowsConnection /\ (bConnectionLoaded => config \in loaded' \cup doubt')
      BY <2>2, KeptConnections
    <2>4 ~tested' => RowsCredential
      BY <2>2, KeptCredentials
    <2> HIDE DEF cred
    <2> QED BY <2>1, <2>2, <2>3, <2>4, FinishStep
  <1> QED BY <1>1, <1>2, <1>3

\* credential clear: every row forgets its credential.
LEMMA ClearStep ==
    ASSUME IInv, UNCHANGED tested, NEW ok \in BOOLEAN, CredentialClear(ok)
    PROVE  IInv'
  <1> DEFINE forget == [i \in DOMAIN table |->
                           [table[i] EXCEPT !.bCredentialLoaded = @ /\ ~ok]]
             cred == bCredentialLoaded /\ ~ok
  <1>1 TypeOK /\ config \in Names /\ table \in Seq(Rows) /\ DOMAIN table = 1 .. Len(table)
       /\ Len(table) \in Nat
    BY DEF IInv, TypeOK
  <1>2 ASSUME NEW i \in DOMAIN table
       PROVE  /\ forget[i] \in Rows
              /\ forget[i].name = table[i].name
              /\ forget[i].bConnectionLoaded = table[i].bConnectionLoaded
              /\ forget[i].bCredentialLoaded = (table[i].bCredentialLoaded /\ ~ok)
    <2> DEFINE r == table[i]
               b == r.bCredentialLoaded /\ ~ok
    <2>1 r \in Rows
      BY <1>1, TableRows
    <2>2 forget[i] = [r EXCEPT !.bCredentialLoaded = b] /\ b \in BOOLEAN
      BY <2>1, RowFields
    <2> HIDE DEF r
    <2>3 b = (r.bCredentialLoaded /\ ~ok)
      OBVIOUS
    <2> HIDE DEF b, forget
    <2>4 forget[i] \in Rows /\ forget[i].name = r.name
         /\ forget[i].bConnectionLoaded = r.bConnectionLoaded /\ forget[i].bCredentialLoaded = b
      BY <2>1, <2>2 DEF Rows
    <2> QED BY <2>3, <2>4 DEF r
  <1>3 forget \in Seq(Rows) /\ Len(forget) = Len(table) /\ DOMAIN forget = DOMAIN table
    <2>1 forget \in [1 .. Len(table) -> Rows]
      BY <1>1, <1>2
    <2> HIDE DEF forget
    <2> QED BY <1>1, <2>1, SeqDef
  <1>4 table' = SaveNativeAppSelectedPeer(forget, selected, config, bConnectionLoaded, cred)
    BY DEF CredentialClear
  <1>5 cred \in BOOLEAN /\ bConnectionLoaded \in BOOLEAN
       /\ [name |-> config, bConnectionLoaded |-> bConnectionLoaded, bCredentialLoaded |-> cred]
             \in Rows
    BY <1>1 DEF TypeOK, Rows
  <1>6 /\ table' \in Seq(Rows) /\ Len(table') = Len(table) /\ DOMAIN table' = DOMAIN table
       /\ \A i \in DOMAIN table : i # selected => table'[i] = forget[i]
    <2> HIDE DEF forget, cred
    <2> QED BY <1>3, <1>4, <1>5, SavedRows
  <1>7 /\ DaemonType' /\ loaded' = loaded /\ doubt' = doubt
       /\ ~ok => credDoubt' = Names
    BY <1>1, ClearEffect DEF CredentialClear
  <1>8 /\ UNCHANGED <<pc, config, bConnectionLoaded, selected, added, clear, tested>>
       /\ bCredentialLoaded' = cred /\ pc = "prompt"
    BY DEF CredentialClear, localVars
  <1>9 TypeOK'
    BY <1>1, <1>5, <1>6, <1>7, <1>8 DEF TypeOK, DaemonType
  <1>10 CallInv'
    BY <1>8 DEF CallInv
  <1>11 Unselected' = Unselected
    BY <1>6, <1>8 DEF Unselected
  <1>12 ASSUME NEW i \in Unselected
        PROVE  /\ table'[i].name = table[i].name
               /\ table'[i].bConnectionLoaded = table[i].bConnectionLoaded
               /\ table'[i].bCredentialLoaded => ~ok /\ table[i].name \in Names
    <2>1 i \in DOMAIN table /\ i # selected
      BY DEF Unselected
    <2>2 table[i].name \in Names
      BY <1>1, <2>1, TableRows, RowFields
    <2> HIDE DEF forget
    <2> QED BY <1>2, <1>6, <2>1, <2>2
  <1> HIDE DEF forget
  <1>13 ConnectionFlagsAreTrue'
    BY <1>7, <1>8, <1>11, <1>12 DEF IInv, ConnectionFlagsAreTrue
  <1>14 CredentialFlagsUntilTest'
    BY <1>1, <1>7, <1>8, <1>11, <1>12 DEF CredentialFlagsUntilTest, CredentialFlagsAreTrue
  <1> QED BY <1>9, <1>10, <1>13, <1>14 DEF IInv

\* up: the loads, the start and the undo.
LEMMA UpStep ==
    ASSUME IInv, UNCHANGED tested, NEW ok \in BOOLEAN,
           ExecuteNativeAppUp \/ UpLoad(ok) \/ UpCredential(ok) \/ UpStart(ok) \/ UpUndo(ok)
    PROVE  IInv'
  <1> USE SessionTypes
  <1> DEFINE cred == bCredentialLoaded \/ ok
             conn == bConnectionLoaded /\ ~ok
  <1>0 cred \in BOOLEAN /\ conn \in BOOLEAN /\ tested' \in BOOLEAN
    OBVIOUS
  <1>1 CASE ExecuteNativeAppUp
    <2>1 /\ pc' \in {"up_load", "up_credential", "up_start"} /\ added' = FALSE /\ clear' = clear
         /\ UNCHANGED <<config, bConnectionLoaded, bCredentialLoaded, selected, table>>
         /\ UNCHANGED <<loaded, creds, doubt, credDoubt>>
      BY <1>1 DEF ExecuteNativeAppUp, UpFrom, sessionVars, daemonVars
    <2>2 TypeOK'
      BY <2>1 DEF TypeOK
    <2>3 CallInv'
      BY <2>1 DEF CallInv
    <2>4 ConnectionFlagsAreTrue' /\ CredentialFlagsUntilTest'
      BY <2>1 DEF IInv, ConnectionFlagsAreTrue, CredentialFlagsUntilTest, CredentialFlagsAreTrue,
         Unselected
    <2> QED BY <2>2, <2>3, <2>4 DEF IInv
  <1>2 CASE UpLoad(ok)
    <2>1 /\ DaemonType' /\ RowsConnection /\ config \in loaded' \cup doubt'
         /\ creds' = creds /\ credDoubt' = credDoubt
      BY <1>2, AddEffect, KeptConnections DEF UpLoad
    <2>2 ~tested' => (bCredentialLoaded => config \in creds' \cup credDoubt') /\ RowsCredential
      BY <2>1, KeptCredentials
    <2>3 CASE ok
      <3>1 PICK to \in {"up_credential", "up_start"} : Continue(to, TRUE, bCredentialLoaded)
        BY <1>2, <2>3 DEF UpLoad, UpFrom
      <3>2 added' \in BOOLEAN /\ clear' \in BOOLEAN /\ to \in Calls
        BY <1>2, <2>3 DEF UpLoad, Calls
      <3> QED BY <1>0, <2>1, <2>2, <3>1, <3>2, ContinueStep
    <2>4 CASE ~ok
      <3>1 Finish(bConnectionLoaded, bCredentialLoaded)
        BY <1>2, <2>4 DEF UpLoad
      <3> QED BY <1>0, <2>1, <2>2, <3>1, FinishStep
    <2> QED BY <2>3, <2>4
  <1>3 CASE UpCredential(ok)
    <2>1 /\ DaemonType' /\ loaded' = loaded /\ doubt' = doubt
         /\ \A m : m \in creds \cup credDoubt => m \in creds' \cup credDoubt'
         /\ config \in creds' \cup credDoubt'
      BY <1>3, CredentialEffect DEF UpCredential
    <2>2 RowsConnection /\ (bConnectionLoaded => config \in loaded' \cup doubt')
      BY <2>1, KeptConnections
    <2>3 ~tested' => RowsCredential
      BY <2>1, KeptCredentials
    <2>4 CASE ok \/ added
      <3>1 PICK to \in {"up_start", "up_undo"} : Continue(to, bConnectionLoaded, cred)
        BY <1>3, <2>4 DEF UpCredential
      <3>2 added' \in BOOLEAN /\ clear' \in BOOLEAN /\ to \in Calls
        BY <1>3, <2>4 DEF UpCredential, localVars, Calls
      <3> HIDE DEF cred
      <3> QED BY <1>0, <2>1, <2>2, <2>3, <3>1, <3>2, ContinueStep
    <2>5 CASE ~ok /\ ~added
      <3>1 Finish(bConnectionLoaded, bCredentialLoaded)
        BY <1>3, <2>5 DEF UpCredential
      <3> QED BY <1>0, <2>1, <2>2, <2>3, <3>1, FinishStep
    <2> QED BY <2>4, <2>5
  <1>4 CASE UpStart(ok)
    <2>1 /\ DaemonType' /\ creds' = creds /\ credDoubt' = credDoubt
         /\ loaded' = loaded /\ doubt' = doubt
      BY <1>4, NoEffect DEF UpStart
    <2>2 RowsConnection /\ (bConnectionLoaded => config \in loaded' \cup doubt')
      BY <2>1, KeptConnections
    <2>3 ~tested' => (bCredentialLoaded => config \in creds' \cup credDoubt') /\ RowsCredential
      BY <2>1, KeptCredentials
    <2>4 CASE ~ok /\ added
      <3>1 /\ Continue("up_undo", bConnectionLoaded, bCredentialLoaded)
           /\ added' \in BOOLEAN /\ clear' \in BOOLEAN /\ "up_undo" \in Calls
        BY <1>4, <2>4 DEF UpStart, localVars, Calls
      <3> QED BY <1>0, <2>1, <2>2, <2>3, <3>1, ContinueStep
    <2>5 CASE ok \/ ~added
      <3>1 Finish(bConnectionLoaded, bCredentialLoaded)
        BY <1>4, <2>5 DEF UpStart
      <3> QED BY <1>0, <2>1, <2>2, <2>3, <3>1, FinishStep
    <2> QED BY <2>4, <2>5
  <1>5 CASE UpUndo(ok)
    <2>1 RemoveIpsecConnection(config, ok) /\ Finish(conn, bCredentialLoaded)
      BY <1>5 DEF UpUndo
    <2>2 DaemonType' /\ creds' = creds /\ credDoubt' = credDoubt
      BY <2>1, RemoveEffect
    <2>3 RowsConnection /\ (conn => config \in loaded' \cup doubt')
      BY <2>1, RemovedConnections
    <2>4 ~tested' => (bCredentialLoaded => config \in creds' \cup credDoubt') /\ RowsCredential
      BY <2>2, KeptCredentials
    <2> HIDE DEF conn
    <2> QED BY <1>0, <2>1, <2>2, <2>3, <2>4, FinishStep
  <1> QED BY <1>1, <1>2, <1>3, <1>4, <1>5

\* down.
LEMMA DownStep ==
    ASSUME IInv, UNCHANGED tested, NEW ok \in BOOLEAN, ExecuteNativeAppDown \/ DownRemove(ok)
    PROVE  IInv'
  <1> USE SessionTypes
  <1> DEFINE conn == bConnectionLoaded /\ ~ok
  <1>0 conn \in BOOLEAN /\ tested' \in BOOLEAN
    OBVIOUS
  <1>1 CASE ExecuteNativeAppDown
    <2>1 /\ DaemonType' /\ creds' = creds /\ credDoubt' = credDoubt
         /\ loaded' = loaded /\ doubt' = doubt
      BY <1>1, NoEffect DEF ExecuteNativeAppDown
    <2>2 RowsConnection /\ (bConnectionLoaded => config \in loaded' \cup doubt')
      BY <2>1, KeptConnections
    <2>3 ~tested' => (bCredentialLoaded => config \in creds' \cup credDoubt') /\ RowsCredential
      BY <2>1, KeptCredentials
    <2>4 CASE bConnectionLoaded
      <3>1 /\ Continue("down_remove", bConnectionLoaded, bCredentialLoaded)
           /\ added' \in BOOLEAN /\ clear' \in BOOLEAN /\ "down_remove" \in Calls
        BY <1>1, <2>4 DEF ExecuteNativeAppDown, localVars, Calls
      <3> QED BY <1>0, <2>1, <2>2, <2>3, <3>1, ContinueStep
    <2>5 CASE ~bConnectionLoaded
      <3>1 Finish(bConnectionLoaded, bCredentialLoaded)
        BY <1>1, <2>5 DEF ExecuteNativeAppDown
      <3> QED BY <1>0, <2>1, <2>2, <2>3, <3>1, FinishStep
    <2> QED BY <2>4, <2>5
  <1>2 CASE DownRemove(ok)
    <2>1 RemoveIpsecConnection(config, ok) /\ Finish(conn, bCredentialLoaded)
      BY <1>2 DEF DownRemove
    <2>2 DaemonType' /\ creds' = creds /\ credDoubt' = credDoubt
      BY <2>1, RemoveEffect
    <2>3 RowsConnection /\ (conn => config \in loaded' \cup doubt')
      BY <2>1, RemovedConnections
    <2>4 ~tested' => (bCredentialLoaded => config \in creds' \cup credDoubt') /\ RowsCredential
      BY <2>2, KeptCredentials
    <2> HIDE DEF conn
    <2> QED BY <1>0, <2>1, <2>2, <2>3, <2>4, FinishStep
  <1> QED BY <1>1, <1>2

\* load: the profile claims nothing until both calls have succeeded.
LEMMA LegacyStep ==
    ASSUME IInv, UNCHANGED tested, NEW ok \in BOOLEAN,
           LegacyLoad(ok) \/ LegacyCredential(ok) \/ LegacyUndo(ok)
    PROVE  IInv'
  <1> USE SessionTypes
  <1>0 tested' \in BOOLEAN
    OBVIOUS
  <1>1 CASE LegacyLoad(ok)
    <2>1 /\ DaemonType' /\ RowsConnection /\ config \in loaded' \cup doubt'
         /\ creds' = creds /\ credDoubt' = credDoubt
      BY <1>1, AddEffect, KeptConnections DEF LegacyLoad
    <2>2 ~tested' => (bCredentialLoaded => config \in creds' \cup credDoubt') /\ RowsCredential
      BY <2>1, KeptCredentials
    <2>3 PICK to \in {"load_credential", "load_undo"} :
             Continue(to, bConnectionLoaded, bCredentialLoaded)
      BY <1>1 DEF LegacyLoad
    <2>4 added' \in BOOLEAN /\ clear' \in BOOLEAN /\ to \in Calls /\ ~bConnectionLoaded
      BY <1>1 DEF LegacyLoad, localVars, Calls
    <2> QED BY <1>0, <2>1, <2>2, <2>3, <2>4, ContinueStep
  <1>2 CASE LegacyCredential(ok)
    <2>1 /\ DaemonType' /\ loaded' = loaded /\ doubt' = doubt
         /\ \A m : m \in creds \cup credDoubt => m \in creds' \cup credDoubt'
         /\ config \in creds' \cup credDoubt'
      BY <1>2, CredentialEffect DEF LegacyCredential
    <2>2 RowsConnection
      BY <2>1, KeptConnections
    <2>3 ~tested' => RowsCredential
      BY <2>1, KeptCredentials
    <2>4 config \in loaded' \cup doubt' /\ ~bConnectionLoaded
      BY <1>2, <2>1 DEF LegacyCredential, IInv, CallInv
    <2>5 CASE ok
      <3>1 Finish(TRUE, TRUE)
        BY <1>2, <2>5 DEF LegacyCredential
      <3> QED BY <1>0, <2>1, <2>2, <2>3, <2>4, <3>1, FinishStep
    <2>6 CASE ~ok
      <3>1 /\ Continue("load_undo", bConnectionLoaded, bCredentialLoaded)
           /\ added' \in BOOLEAN /\ clear' \in BOOLEAN /\ "load_undo" \in Calls
        BY <1>2, <2>6 DEF LegacyCredential, localVars, Calls
      <3> QED BY <1>0, <2>1, <2>2, <2>3, <2>4, <3>1, ContinueStep
    <2> QED BY <2>5, <2>6
  <1>3 CASE LegacyUndo(ok)
    <2>1 /\ RemoveIpsecConnection(config, ok) /\ Finish(bConnectionLoaded, bCredentialLoaded)
         /\ ~bConnectionLoaded
      BY <1>3 DEF LegacyUndo, IInv, CallInv
    <2>2 DaemonType' /\ creds' = creds /\ credDoubt' = credDoubt
      BY <2>1, RemoveEffect
    <2>3 RowsConnection
      BY <2>1, RemovedConnections
    <2>4 ~tested' => (bCredentialLoaded => config \in creds' \cup credDoubt') /\ RowsCredential
      BY <2>2, KeptCredentials
    <2> QED BY <1>0, <2>1, <2>2, <2>3, <2>4, FinishStep
  <1> QED BY <1>1, <1>2, <1>3

\* test loop and test algorithm, which claim no connection.
LEMMA LoopStep ==
    ASSUME IInv, NEW ok \in BOOLEAN,
           \/ LoopStart(ok)
           \/ UNCHANGED tested /\ LoopCredential(ok)
           \/ UNCHANGED tested /\ LoopLoad(ok)
           \/ UNCHANGED tested /\ LoopRemove(ok)
           \/ UNCHANGED tested /\ LoopClear(ok)
    PROVE  IInv'
  <1> USE SessionTypes
  <1> DEFINE kept == ~clear
             keptNow == ~ok
  <1>0 tested' = TRUE /\ ~bConnectionLoaded /\ kept \in BOOLEAN /\ keptNow \in BOOLEAN
    BY DEF LoopStart, LoopCredential, LoopLoad, LoopRemove, LoopClear, IInv, CallInv
  <1>1 CASE LoopStart(ok)
    <2>1 /\ DaemonType' /\ creds' = creds /\ credDoubt' = credDoubt
         /\ loaded' = loaded /\ doubt' = doubt
      BY <1>1, NoEffect DEF LoopStart
    <2>2 RowsConnection
      BY <2>1, KeptConnections
    <2>3 CASE Finish(FALSE, keptNow)
      <3> HIDE DEF keptNow
      <3> QED BY <1>0, <2>1, <2>2, <2>3, FinishStep
    <2>4 CASE /\ Continue("loop_credential", bConnectionLoaded, bCredentialLoaded)
              /\ clear' = ok /\ UNCHANGED added
      <3>1 added' \in BOOLEAN /\ clear' \in BOOLEAN /\ "loop_credential" \in Calls
        BY <2>4 DEF Calls
      <3> QED BY <1>0, <2>1, <2>2, <2>4, <3>1, ContinueStep
    <2> QED BY <1>1, <2>3, <2>4 DEF LoopStart, LoopEnds
  <1>2 CASE LoopCredential(ok)
    <2>1 /\ DaemonType' /\ loaded' = loaded /\ doubt' = doubt
      BY <1>2, CredentialEffect DEF LoopCredential
    <2>2 RowsConnection
      BY <2>1, KeptConnections
    <2>3 CASE ok
      <3>1 /\ Continue("loop_load", bConnectionLoaded, bCredentialLoaded)
           /\ added' \in BOOLEAN /\ clear' \in BOOLEAN /\ "loop_load" \in Calls
        BY <1>2, <2>3 DEF LoopCredential, localVars, Calls
      <3> QED BY <1>0, <2>1, <2>2, <3>1, ContinueStep
    <2>4 CASE ~ok
      <3>1 Finish(FALSE, kept)
        BY <1>2, <2>4 DEF LoopCredential, LoopEnds
      <3> HIDE DEF kept
      <3> QED BY <1>0, <2>1, <2>2, <3>1, FinishStep
    <2> QED BY <2>3, <2>4
  <1>3 CASE LoopLoad(ok)
    <2>1 DaemonType' /\ RowsConnection
      BY <1>3, AddEffect, KeptConnections DEF LoopLoad
    <2>2 PICK to \in {"loop_load", "loop_remove"} :
             Continue(to, bConnectionLoaded, bCredentialLoaded)
      BY <1>3 DEF LoopLoad
    <2>3 added' \in BOOLEAN /\ clear' \in BOOLEAN /\ to \in Calls
      BY <1>3 DEF LoopLoad, localVars, Calls
    <2> QED BY <1>0, <2>1, <2>2, <2>3, ContinueStep
  <1>4 CASE LoopRemove(ok)
    <2>1 DaemonType' /\ RowsConnection
      BY <1>4, RemoveEffect, RemovedConnections DEF LoopRemove
    <2>2 /\ Continue("loop_load", bConnectionLoaded, bCredentialLoaded)
         /\ added' \in BOOLEAN /\ clear' \in BOOLEAN /\ "loop_load" \in Calls
      BY <1>4 DEF LoopRemove, localVars, Calls
    <2> QED BY <1>0, <2>1, <2>2, ContinueStep
  <1>5 CASE LoopClear(ok)
    <2>1 DaemonType' /\ loaded' = loaded /\ doubt' = doubt
      BY <1>5, ClearEffect, NoEffect DEF LoopClear
    <2>2 RowsConnection
      BY <2>1, KeptConnections
    <2>3 Finish(FALSE, kept)
      BY <1>5 DEF LoopClear, LoopEnds
    <2> HIDE DEF kept
    <2> QED BY <1>0, <2>1, <2>2, <2>3, FinishStep
  <1> QED BY <1>1, <1>2, <1>3, <1>4, <1>5

-----------------------------------------------------------------------------
(* The steps that change profiles.                                         *)

\* A new profile in place of the selected one claims nothing.
LEMMA ReplaceStep ==
    ASSUME IInv, UNCHANGED tested, NEW n \in Names, ReplaceConfig(n),
           UNCHANGED daemonVars \/ ReconnectNativeAppContext
    PROVE  IInv'
  <1> DEFINE no == FALSE
  <1>0 /\ table' = SaveNativeAppSelectedPeer(table, selected, n, no, no) /\ no \in BOOLEAN
       /\ pc = "prompt" /\ ~bConnectionLoaded /\ config' = n /\ bCredentialLoaded' = FALSE
       /\ UNCHANGED <<pc, bConnectionLoaded, selected, localVars>>
    BY DEF ReplaceConfig
  <1> HIDE DEF no
  <1>1 TypeOK /\ table \in Seq(Rows)
    BY DEF IInv, TypeOK
  <1>2 [name |-> n, bConnectionLoaded |-> no, bCredentialLoaded |-> no] \in Rows
    BY <1>0 DEF Rows
  <1>3 /\ table' \in Seq(Rows) /\ Len(table') = Len(table) /\ DOMAIN table' = DOMAIN table
       /\ \A i \in DOMAIN table : i # selected => table'[i] = table[i]
    BY <1>0, <1>1, <1>2, SavedRows
  <1>d /\ loaded' \subseteq Names /\ creds' \subseteq Names
       /\ doubt' \subseteq Names /\ credDoubt' \subseteq Names
    BY <1>1 DEF TypeOK, daemonVars, ReconnectNativeAppContext
  <1>4 TypeOK'
    BY <1>0, <1>1, <1>3, <1>d DEF TypeOK, localVars
  <1>5 CallInv'
    BY <1>0 DEF CallInv
  <1>6 Unselected' = Unselected /\ \A i \in Unselected : table'[i] = table[i]
    BY <1>0, <1>3 DEF Unselected
  <1>7 ConnectionFlagsAreTrue' /\ CredentialFlagsUntilTest'
    <2>1 CASE UNCHANGED daemonVars
      BY <1>0, <1>6, <2>1 DEF IInv, ConnectionFlagsAreTrue, CredentialFlagsUntilTest,
         CredentialFlagsAreTrue, daemonVars
    <2>2 CASE ReconnectNativeAppContext
      <3>1 doubt' = Names /\ credDoubt' = Names
        BY <2>2 DEF ReconnectNativeAppContext
      <3>2 \A i \in Unselected' : table'[i].name \in Names
        <4>1 \A i \in DOMAIN table' : table'[i] \in Rows
          BY <1>3
        <4> QED BY <4>1 DEF Unselected, Rows
      <3> QED BY <1>0, <3>1, <3>2 DEF ConnectionFlagsAreTrue, CredentialFlagsUntilTest,
              CredentialFlagsAreTrue
    <2> QED BY <2>1, <2>2
  <1> QED BY <1>4, <1>5, <1>7 DEF IInv

\* config set and config load.
LEMMA ConfigStep ==
    ASSUME IInv, UNCHANGED tested, (\E n \in Names : ConfigSet(n)) \/ ConfigLoad
    PROVE  IInv'
  <1>1 ASSUME NEW n \in Names, ConfigSet(n) PROVE IInv'
    BY <1>1, ReplaceStep DEF ConfigSet
  <1>2 CASE ConfigLoad
    BY <1>2, ReplaceStep, SessionConstants DEF ConfigLoad
  <1> QED BY <1>1, <1>2

\* peer select: the profile that was selected takes its flags into its row, and the
\* new one takes its own out.
LEMMA SelectStep ==
    ASSUME IInv, UNCHANGED tested, NEW k \in DOMAIN table, SelectNativeAppPeer(k)
    PROVE  IInv'
  <1> DEFINE row == [name |-> config, bConnectionLoaded |-> bConnectionLoaded,
                     bCredentialLoaded |-> bCredentialLoaded]
  <1>1 TypeOK /\ table \in Seq(Rows)
    BY DEF IInv, TypeOK
  <1>2 row \in Rows
    BY <1>1 DEF Rows, TypeOK
  <1>3 /\ table' = SaveNativeAppSelectedPeer(table, selected, config, bConnectionLoaded,
                                             bCredentialLoaded)
       /\ selected' = k /\ UNCHANGED <<pc, added, clear, loaded, creds, doubt, credDoubt>>
       /\ config' = table'[k].name /\ bConnectionLoaded' = table'[k].bConnectionLoaded
       /\ bCredentialLoaded' = table'[k].bCredentialLoaded /\ pc = "prompt"
    BY DEF SelectNativeAppPeer, localVars, daemonVars
  <1>4 /\ table' \in Seq(Rows) /\ Len(table') = Len(table) /\ DOMAIN table' = DOMAIN table
       /\ \A i \in DOMAIN table : i # selected => table'[i] = table[i]
       /\ selected \in DOMAIN table => table'[selected] = row
    BY <1>1, <1>2, <1>3, SavedRows
  <1>5 /\ row.name = config /\ row.bConnectionLoaded = bConnectionLoaded
       /\ row.bCredentialLoaded = bCredentialLoaded
    OBVIOUS
  <1> HIDE DEF row
  <1>6 ASSUME NEW i \in DOMAIN table
       PROVE  /\ table'[i] \in Rows
              /\ table'[i].bConnectionLoaded => table'[i].name \in loaded' \cup doubt'
              /\ ~tested /\ table'[i].bCredentialLoaded => table'[i].name \in creds' \cup credDoubt'
    <2>1 CASE i = selected
      BY <1>2, <1>3, <1>4, <1>5, <2>1 DEF IInv, ConnectionFlagsAreTrue, CredentialFlagsUntilTest,
         CredentialFlagsAreTrue
    <2>2 CASE i # selected
      <3>1 table'[i] = table[i] /\ table[i] \in Rows /\ i \in Unselected
        BY <1>1, <1>4, <2>2, TableRows DEF Unselected
      <3> QED BY <1>3, <3>1 DEF IInv, ConnectionFlagsAreTrue, CredentialFlagsUntilTest,
         CredentialFlagsAreTrue
    <2> QED BY <2>1, <2>2
  <1>7 TypeOK'
    <2>1 config' \in Names /\ bConnectionLoaded' \in BOOLEAN /\ bCredentialLoaded' \in BOOLEAN
      BY <1>3, <1>6, RowFields
    <2>2 k \in 0 .. Len(table)
      BY <1>1
    <2> QED BY <1>1, <1>3, <1>4, <2>1, <2>2 DEF TypeOK
  <1>8 CallInv'
    BY <1>3 DEF CallInv
  <1>9 ConnectionFlagsAreTrue' /\ CredentialFlagsUntilTest'
    BY <1>3, <1>4, <1>6 DEF ConnectionFlagsAreTrue, CredentialFlagsUntilTest,
       CredentialFlagsAreTrue, Unselected
  <1> QED BY <1>7, <1>8, <1>9 DEF IInv

\* The listener's new row claims nothing.
LEMMA AppendStep ==
    ASSUME IInv, UNCHANGED tested, NEW n \in Names, AppendNativeAppPeer(n)
    PROVE  IInv'
  <1> DEFINE row == [name |-> n, bConnectionLoaded |-> FALSE, bCredentialLoaded |-> FALSE]
  <1>1 TypeOK /\ table \in Seq(Rows) /\ row \in Rows
    BY DEF IInv, TypeOK, Rows
  <1>2 row.bConnectionLoaded = FALSE /\ row.bCredentialLoaded = FALSE
    OBVIOUS
  <1>3 /\ table' = Append(table, row) /\ Len(table) < MaxPeers
       /\ UNCHANGED <<pc, config, bConnectionLoaded, bCredentialLoaded, selected, added, clear,
                      loaded, creds, doubt, credDoubt>>
    BY DEF AppendNativeAppPeer, localVars, daemonVars
  <1> HIDE DEF row
  <1>4 /\ table' \in Seq(Rows) /\ Len(table') = Len(table) + 1
       /\ DOMAIN table' = DOMAIN table \cup {Len(table) + 1}
       /\ \A i \in DOMAIN table : table'[i] = table[i]
       /\ table'[Len(table) + 1] = row
    BY <1>1, <1>3
  <1>5 TypeOK'
    <2>1 Len(table) \in Nat /\ MaxPeers \in Nat
      BY <1>1, SessionConstants
    <2> QED BY <1>1, <1>3, <1>4, <2>1 DEF TypeOK
  <1>6 CallInv'
    BY <1>3 DEF IInv, CallInv
  <1>7 ASSUME NEW i \in Unselected'
       PROVE  (i \in Unselected /\ table'[i] = table[i]) \/ table'[i] = row
    BY <1>3, <1>4 DEF Unselected
  <1>8 ConnectionFlagsAreTrue' /\ CredentialFlagsUntilTest'
    BY <1>2, <1>3, <1>7 DEF IInv, ConnectionFlagsAreTrue, CredentialFlagsUntilTest,
       CredentialFlagsAreTrue
  <1> QED BY <1>5, <1>6, <1>8 DEF IInv

\* charon restarts: everything is in doubt.
LEMMA RestartStep ==
    ASSUME IInv, UNCHANGED tested, DaemonRestart
    PROVE  IInv'
  <1>1 /\ UNCHANGED <<pc, config, bConnectionLoaded, bCredentialLoaded, selected, table,
                      added, clear>>
       /\ loaded' = {} /\ creds' = {} /\ doubt' = Names /\ credDoubt' = Names
    BY DEF DaemonRestart, sessionVars, localVars
  <1>2 TypeOK'
    BY <1>1 DEF IInv, TypeOK
  <1>3 config \in Names
    BY DEF IInv, TypeOK
  <1>4 CallInv'
    BY <1>1, <1>3 DEF IInv, CallInv
  <1>5 \A i \in DOMAIN table : table[i].name \in Names
    BY TableRows, RowFields DEF IInv
  <1>6 ConnectionFlagsAreTrue' /\ CredentialFlagsUntilTest'
    BY <1>1, <1>3, <1>5 DEF ConnectionFlagsAreTrue, CredentialFlagsUntilTest,
       CredentialFlagsAreTrue, Unselected
  <1> QED BY <1>2, <1>4, <1>6 DEF IInv

-----------------------------------------------------------------------------
(* The theorems.                                                           *)

\* The invariant holds initially.
LEMMA InvariantInit == Init => IInv
  <1> SUFFICES ASSUME Init PROVE IInv
    OBVIOUS
  <1>1 TypeOK
    <2>1 <<>> \in Seq(Rows) /\ Len(<<>>) = 0
      OBVIOUS
    <2>2 table \in Seq(Rows) /\ Len(table) <= MaxPeers /\ selected \in 0 .. Len(table)
      BY <2>1, SessionConstants DEF Init
    <2> QED BY <2>2, SessionConstants DEF Init, TypeOK
  <1>2 CallInv /\ ConnectionFlagsAreTrue /\ CredentialFlagsUntilTest
    BY DEF Init, CallInv, ConnectionFlagsAreTrue, CredentialFlagsUntilTest,
       CredentialFlagsAreTrue, Unselected
  <1> QED BY <1>1, <1>2 DEF IInv

\* Every step preserves it.
LEMMA InvariantStep == IInv /\ [Next]_vars => IInv'
  <1> SUFFICES ASSUME IInv, [Next]_vars PROVE IInv'
    OBVIOUS
  <1>1 ASSUME NEW ok \in BOOLEAN, LoopStart(ok) PROVE IInv'
    BY <1>1, LoopStep
  <1>2 CASE AlgorithmTest
    BY <1>1, <1>2 DEF AlgorithmTest
  <1>3 ASSUME UNCHANGED tested, NEW ok \in BOOLEAN, Command(ok) PROVE IInv'
    BY <1>3, PlainCommandStep, ClearStep, UpStep, DownStep, LegacyStep, LoopStep DEF Command
  <1>4 ASSUME UNCHANGED tested, ExecuteNativeAppUp \/ ExecuteNativeAppDown PROVE IInv'
    <2>1 TRUE \in BOOLEAN
      OBVIOUS
    <2> QED BY <1>4, <2>1, UpStep, DownStep
  <1>5 ASSUME UNCHANGED tested, (\E n \in Names : ConfigSet(n)) \/ ConfigLoad PROVE IInv'
    BY <1>5, ConfigStep
  <1>6 ASSUME UNCHANGED tested, NEW i \in DOMAIN table, SelectNativeAppPeer(i) PROVE IInv'
    BY <1>6, SelectStep
  <1>7 ASSUME UNCHANGED tested, NEW n \in Names, AppendNativeAppPeer(n) PROVE IInv'
    BY <1>7, AppendStep
  <1>8 ASSUME UNCHANGED tested, DaemonRestart PROVE IInv'
    BY <1>8, RestartStep
  <1>9 CASE UNCHANGED vars
    <2>1 /\ UNCHANGED <<pc, config, bConnectionLoaded, bCredentialLoaded, selected, table>>
         /\ UNCHANGED <<added, clear, loaded, creds, doubt, credDoubt, tested>>
      BY <1>9 DEF vars, sessionVars, localVars, daemonVars
    <2>2 TypeOK' /\ CallInv'
      BY <2>1 DEF IInv, TypeOK, CallInv
    <2>3 ConnectionFlagsAreTrue' /\ CredentialFlagsUntilTest'
      BY <2>1 DEF IInv, ConnectionFlagsAreTrue, CredentialFlagsUntilTest, CredentialFlagsAreTrue,
         Unselected
    <2> QED BY <2>2, <2>3 DEF IInv
  <1> QED BY <1>1, <1>2, <1>3, <1>4, <1>5, <1>6, <1>7, <1>8, <1>9 DEF Next

\* The invariant holds of every behaviour.
LEMMA Invariant == Spec => []IInv
  BY InvariantInit, InvariantStep, PTL DEF Spec

\* The session's variables and its peer table keep their types and the table its bound.
THEOREM SessionTypesHold == Spec => []TypeOK
  <1>1 IInv => TypeOK
    BY DEF IInv
  <1> QED BY <1>1, Invariant, PTL

\* For any number of profiles and any order of commands, failures and restarts: a flag
\* that says a connection is loaded, the session's or a row's, is true unless a call
\* about that connection failed, charon restarted, the session moved to another charon,
\* or it was unloaded through another profile or by name.
THEOREM LoadedFlagsAreTrue == Spec => []ConnectionFlagsAreTrue
  <1>1 IInv => ConnectionFlagsAreTrue
    BY DEF IInv
  <1> QED BY <1>1, Invariant, PTL

\* The credential flags are true in the same sense until the first test command.
THEOREM CredentialFlagsHold == Spec => []CredentialFlagsUntilTest
  <1>1 IInv => CredentialFlagsUntilTest
    BY DEF IInv
  <1> QED BY <1>1, Invariant, PTL

-----------------------------------------------------------------------------
(* The rows of other profiles.                                             *)

RowsKept ==
    \A i \in Unselected : /\ table'[i].name = table[i].name
                          /\ table'[i].bConnectionLoaded = table[i].bConnectionLoaded

\* Saving touches the selected row only.
LEMMA SaveKeeps ==
    ASSUME NEW n, NEW conn, NEW cred,
           table' = SaveNativeAppSelectedPeer(table, selected, n, conn, cred)
    PROVE  RowsKept
  BY DEF RowsKept, Unselected, SaveNativeAppSelectedPeer

\* The end of a command saves; its next call leaves the table alone.
LEMMA FinishKeeps ==
    ASSUME NEW conn, NEW cred, Finish(conn, cred)
    PROVE  RowsKept
  BY SaveKeeps DEF Finish

LEMMA ContinueKeeps ==
    ASSUME NEW to, NEW conn, NEW cred, Continue(to, conn, cred)
    PROVE  RowsKept
  BY DEF Continue, RowsKept

\* No command writes the profile or the connection flag of another row.
LEMMA CommandKeeps ==
    ASSUME NEW ok \in BOOLEAN, TypeOK, Command(ok)
    PROVE  RowsKept
  <1>1 CASE ConnectionLoad(ok) \/ (\E n \in Names : ConnectionUnload(n, ok)) \/ CredentialLoad(ok)
    BY <1>1, FinishKeeps DEF ConnectionLoad, ConnectionUnload, CredentialLoad
  <1>2 CASE CredentialClear(ok)
    <2> SUFFICES ASSUME NEW i \in Unselected
                 PROVE  /\ table'[i].name = table[i].name
                        /\ table'[i].bConnectionLoaded = table[i].bConnectionLoaded
      BY DEF RowsKept
    <2>1 i \in DOMAIN table /\ i # selected
      BY DEF Unselected
    <2> DEFINE r == table[i]
               b == r.bCredentialLoaded /\ ~ok
    <2>2 table'[i] = [r EXCEPT !.bCredentialLoaded = b]
      BY <1>2, <2>1 DEF CredentialClear, SaveNativeAppSelectedPeer
    <2>3 r \in Rows
      BY <2>1, TableRows
    <2> HIDE DEF r, b
    <2>4 table'[i].name = r.name /\ table'[i].bConnectionLoaded = r.bConnectionLoaded
      BY <2>2, <2>3 DEF Rows
    <2> QED BY <2>4 DEF r
  <1>3 CASE UpLoad(ok)
    BY <1>3, FinishKeeps, ContinueKeeps DEF UpLoad
  <1>4 CASE UpCredential(ok)
    BY <1>4, FinishKeeps, ContinueKeeps DEF UpCredential
  <1>5 CASE UpStart(ok)
    BY <1>5, FinishKeeps, ContinueKeeps DEF UpStart
  <1>6 CASE UpUndo(ok) \/ DownRemove(ok) \/ LegacyUndo(ok)
    BY <1>6, FinishKeeps DEF UpUndo, DownRemove, LegacyUndo
  <1>7 CASE LegacyLoad(ok)
    BY <1>7, ContinueKeeps DEF LegacyLoad
  <1>8 CASE LegacyCredential(ok)
    BY <1>8, FinishKeeps, ContinueKeeps DEF LegacyCredential
  <1>9 CASE LoopCredential(ok)
    BY <1>9, FinishKeeps, ContinueKeeps DEF LoopCredential, LoopEnds
  <1>10 CASE LoopLoad(ok) \/ LoopRemove(ok)
    BY <1>10, ContinueKeeps DEF LoopLoad, LoopRemove
  <1>11 CASE LoopClear(ok)
    BY <1>11, FinishKeeps DEF LoopClear, LoopEnds
  <1> QED BY <1>1, <1>2, <1>3, <1>4, <1>5, <1>6, <1>7, <1>8, <1>9, <1>10, <1>11 DEF Command

\* Nor does any other step.
LEMMA StepKeeps ==
    ASSUME TypeOK, Next
    PROVE  RowsKept
  <1>1 ASSUME NEW c \in BOOLEAN, LoopStart(c) PROVE RowsKept
    BY <1>1, FinishKeeps, ContinueKeeps DEF LoopStart, LoopEnds
  <1>2 CASE ExecuteNativeAppUp \/ DaemonRestart
    BY <1>2 DEF ExecuteNativeAppUp, DaemonRestart, sessionVars, RowsKept
  <1>3 CASE ExecuteNativeAppDown
    BY <1>3, FinishKeeps, ContinueKeeps DEF ExecuteNativeAppDown
  <1>4 CASE (\E n \in Names : ConfigSet(n)) \/ ConfigLoad
    BY <1>4, SaveKeeps DEF ConfigSet, ConfigLoad, ReplaceConfig
  <1>5 ASSUME NEW i \in DOMAIN table, SelectNativeAppPeer(i) PROVE RowsKept
    BY <1>5, SaveKeeps DEF SelectNativeAppPeer
  <1>6 ASSUME NEW n \in Names, AppendNativeAppPeer(n) PROVE RowsKept
    <2> DEFINE row == [name |-> n, bConnectionLoaded |-> FALSE, bCredentialLoaded |-> FALSE]
    <2>1 table' = Append(table, row) /\ table \in Seq(Rows)
      BY <1>6 DEF AppendNativeAppPeer, TypeOK
    <2> HIDE DEF row
    <2>2 \A i \in DOMAIN table : table'[i] = table[i]
      BY <2>1
    <2> QED BY <2>2 DEF RowsKept, Unselected
  <1> QED BY <1>1, <1>2, <1>3, <1>4, <1>5, <1>6, CommandKeeps DEF Next, AlgorithmTest

\* A command, whatever it does and however it ends, leaves the profile and the
\* connection flag of every row alone but the row selected when it starts; so do the
\* listener's registrations and a restart of charon.
THEOREM OtherRowsAreKept == Spec => RowsKeepTheirProfile
  <1>1 TypeOK /\ [Next]_vars =>
          [\A i \in Unselected :
              /\ table'[i].name = table[i].name
              /\ table'[i].bConnectionLoaded = table[i].bConnectionLoaded]_vars
    BY StepKeeps DEF RowsKept
  <1> QED BY <1>1, SessionTypesHold, PTL DEF Spec, RowsKeepTheirProfile

=============================================================================
