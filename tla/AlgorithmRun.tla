---------------------------- MODULE AlgorithmRun ----------------------------
(***************************************************************************)
(* The two-host algorithm test of the CLI application (algorithm_runner.c):*)
(* "test algorithm run" on the initiator and "test algorithm serve" on the *)
(* responder agree over UDP on one case after the other.                   *)
(*                                                                         *)
(* A datagram may be lost, duplicated, delayed and reordered: net holds    *)
(* every datagram ever sent, and a receiver may take any of them at any    *)
(* time, or none.  Sending one again therefore adds nothing, and the loops *)
(* that repeat PREPARE, CLEANUP and ABORT are the waits themselves.        *)
(*                                                                         *)
(* All cases use the connection name of the profile, so each daemon holds  *)
(* at most one connection, with the proposals of the case that loaded it   *)
(* last.  A security association is named by the case that negotiated it.  *)
(***************************************************************************)
EXTENDS Integers, FiniteSets

CONSTANTS
    Cases,     \* 1 .. n, in the order in which the client runs them
    NoCase,
    MaxRuns    \* bound: client runs

ASSUME RunConstants ==
    /\ IsFiniteSet(Cases) /\ Cases # {} /\ Cases = 1 .. Cardinality(Cases)
    /\ NoCase \notin Cases
    /\ MaxRuns \in Nat \ {0}

VARIABLES
    net,       \* the datagrams sent so far
    \* the client: RunNativeAppAlgorithmClient
    cpc,       \* where it is; "off" between two runs
    run,       \* the run id, and the UDP port the run sends from
    case,      \* the case it is at
    ready,     \* whether READY arrived for it (history)
    loaded,    \* its bConnectionLoaded
    verdict,   \* eResult of the case, PASS or any failure
    cObs,      \* the case whose SA the client examined (history)
    failed,    \* whether any case so far was reported as failed (history)
    cStop,     \* Ctrl-C
    cConn,     \* the connection in the client's charon
    cSa,       \* the SAs in the client's charon and kernel
    \* the server: RunNativeAppAlgorithmServer
    spc,
    sRun,      \* acRunId; 0 when empty
    sCase,     \* the case it serves
    sLast,     \* acLastCleanupCaseId
    sObs,      \* the case whose SA the server examined (history)
    sStop,
    sConn,
    sSa

clientVars == <<cpc, run, case, ready, loaded, verdict, cObs, failed, cStop, cConn>>
serverVars == <<spc, sRun, sCase, sLast, sObs, sStop, sConn>>
vars == <<net, clientVars, cSa, serverVars, sSa>>

Maybe == Cases \cup {NoCase}
Runs  == 1 .. MaxRuns

Requests == {"PREPARE", "VERIFY", "CLEANUP", "ABORT", "FINISH"}
Replies  == {"READY", "RESULT_PASS", "RESULT_FAIL", "DONE", "FINISHED"}

\* A datagram: what it says, about which case, from or to which run's port.
Msg(action, c, r) == [action |-> action, case |-> c, run |-> r]

TypeOK ==
    /\ net \subseteq [action : Requests \cup Replies, case : Maybe, run : Runs]
    /\ cpc \in {"off", "prepare", "preparing", "add", "start", "query", "verify",
                "verifying", "cleanup", "finish", "finishing", "finish_run",
                "finishing_run"}
    /\ run \in 0 .. MaxRuns
    /\ case \in Cases
    /\ {ready, loaded, failed, cStop, sStop} \subseteq BOOLEAN
    /\ verdict \in {"PASS", "FAIL"}
    /\ {cObs, sObs, cConn, sConn, sCase, sLast} \subseteq Maybe
    /\ cSa \subseteq Cases /\ sSa \subseteq Cases
    /\ spc \in {"off", "main", "add", "case", "cleanup"}
    /\ sRun \in 0 .. MaxRuns

Init ==
    /\ net = {}
    /\ cpc = "off" /\ run = 0 /\ case = 1
    /\ ready = FALSE /\ loaded = FALSE /\ verdict = "FAIL" /\ failed = FALSE
    /\ cObs = NoCase /\ cStop = FALSE /\ cConn = NoCase /\ cSa = {}
    /\ spc = "off" /\ sRun = 0 /\ sCase = NoCase
    /\ sLast = NoCase /\ sObs = NoCase /\ sStop = FALSE /\ sConn = NoCase /\ sSa = {}

-----------------------------------------------------------------------------
(* The client.                                                             *)

\* A new case, from its first statement.
BeginCase(c) ==
    /\ cpc' = "prepare"
    /\ case' = c
    /\ ready' = FALSE /\ loaded' = FALSE /\ verdict' = "FAIL" /\ cObs' = NoCase

StartRun ==
    /\ cpc = "off" /\ run < MaxRuns
    /\ run' = run + 1
    /\ cStop' = FALSE
    /\ BeginCase(1)
    /\ UNCHANGED <<net, failed, cConn, cSa, serverVars, sSa>>

ClientSends(at, action, c, to) ==
    /\ cpc = at
    /\ net' = net \cup {Msg(action, c, run)}
    /\ cpc' = to
    /\ UNCHANGED <<run, case, ready, loaded, verdict, cObs, failed, cStop, cConn,
                   cSa, serverVars, sSa>>

\* WaitNativeAppAlgorithmResponse returns the expected action for the expected
\* id; everything else that arrives is ignored and is not counted as waiting:
\* only a poll of the socket that finds nothing adds to the elapsed time.
Arrived(action, c) == Msg(action, c, run) \in net

\* PrepareNativeAppAlgorithmPeer.  A loop that ends because of Ctrl-C, before or
\* after the first PREPARE, returns IPSEC_OK.
SendPrepare == ~cStop /\ ClientSends("prepare", "PREPARE", case, "preparing")

Prepared(gotReady) ==
    /\ cpc' = "add"
    /\ ready' = gotReady
    /\ UNCHANGED <<net, run, case, loaded, verdict, cObs, failed, cStop, cConn, cSa,
                   serverVars, sSa>>

\* The case fails here and goes on with its cleanup.
CaseFails(to) ==
    /\ cpc' = to
    /\ verdict' = "FAIL"
    /\ UNCHANGED <<net, run, case, ready, loaded, cObs, failed, cStop, cConn, cSa,
                   serverVars, sSa>>

PrepareNativeAppAlgorithmPeer ==
    \/ SendPrepare
    \/ cpc = "preparing" /\ Arrived("READY", case) /\ Prepared(TRUE)
    \/ cpc = "preparing" /\ ~cStop /\ CaseFails("finish")
    \/ cpc \in {"prepare", "preparing"} /\ cStop /\ Prepared(FALSE)

\* AddIpsecConnection succeeds, fails, or fails with its effect.
AddConnection(ok) ==
    /\ cpc = "add"
    /\ cConn' \in {case} \cup IF ok THEN {} ELSE {cConn}
    /\ loaded' = ok
    /\ cpc' = IF ok THEN "start" ELSE "finish"
    /\ UNCHANGED <<net, run, case, ready, verdict, cObs, failed, cStop, cSa,
                   serverVars, sSa>>

\* StartNativeAppConnection: both daemons must have the proposals of the case.
\* A start that fails may leave an SA on one side or on both.
StartNativeAppConnection(ok) ==
    /\ cpc = "start"
    /\ \/ /\ sConn = case
          /\ cSa' = cSa \cup {case} /\ sSa' = sSa \cup {case}
       \/ /\ ~ok /\ sConn = case
          /\ UNCHANGED cSa /\ sSa' = sSa \cup {case}
       \/ ~ok /\ UNCHANGED <<cSa, sSa>>
    /\ cpc' = IF ok THEN "query" ELSE "cleanup"
    /\ UNCHANGED <<net, run, case, ready, loaded, verdict, cObs, failed, cStop, cConn,
                   serverVars>>

\* Mutant: the query is made and its findings are not looked at.
QueryClientUnused(ok) ==
    /\ cpc = "query"
    /\ cpc' = IF ok THEN "verify" ELSE "cleanup"
    /\ UNCHANGED <<net, run, case, ready, loaded, verdict, cObs, failed, cStop, cConn,
                   cSa, serverVars, sSa>>

\* QueryNativeAppAlgorithmState takes the first established SA it finds under
\* the connection's name.
QueryClient(ok) ==
    /\ cpc = "query"
    /\ IF ok THEN cObs' \in cSa ELSE UNCHANGED cObs
    /\ cpc' = IF ok THEN "verify" ELSE "cleanup"
    /\ UNCHANGED <<net, run, case, ready, loaded, verdict, failed, cStop, cConn, cSa,
                   serverVars, sSa>>

SendVerify == ClientSends("verify", "VERIFY", case, "verifying")

ReceiveResult ==
    /\ cpc = "verifying"
    /\ \/ /\ Arrived("RESULT_PASS", case) /\ ~cStop
          /\ verdict' = "PASS"
          /\ cpc' = "cleanup"
          /\ UNCHANGED <<net, run, case, ready, loaded, cObs, failed, cStop, cConn,
                         cSa, serverVars, sSa>>
       \/ CaseFails("cleanup")

\* CleanupNativeAppAlgorithmCase terminates, waits, unloads, each with retries,
\* and then looks: success means that no SA and no connection of that name is
\* left.  After Ctrl-C the last look always fails.
CleanupClient(ok) ==
    /\ cpc = "cleanup" /\ (ok => ~cStop)
    /\ cSa' \in IF ok THEN {{}} ELSE SUBSET cSa
    /\ cConn' \in {NoCase} \cup IF ok THEN {} ELSE {cConn}
    /\ verdict' = IF ok THEN verdict ELSE "FAIL"
    /\ cpc' = "finish"
    /\ UNCHANGED <<net, run, case, ready, loaded, cObs, failed, cStop, serverVars, sSa>>

\* FinishNativeAppAlgorithmPeer.
SendCleanup ==
    ClientSends("finish", IF loaded THEN "CLEANUP" ELSE "ABORT", case, "finishing")

\* Mutant: one case too many.
EndCaseBeyondLast(result) ==
    /\ failed' = (failed \/ result = "FAIL")
    /\ \/ /\ ~cStop
          /\ BeginCase(case + 1)
       \/ /\ cStop \/ case \notin Cases \/ result = "FAIL"
          /\ cpc' = "finish_run"
          /\ UNCHANGED <<case, ready, loaded, verdict, cObs>>
    /\ UNCHANGED <<net, run, cStop, cConn, cSa, serverVars, sSa>>

\* The end of a case: the next one, or the end of the run (no case left, Ctrl-C,
\* or a failure without --continue-on-error).
EndCase(result) ==
    /\ failed' = (failed \/ result = "FAIL")
    /\ \/ /\ ~cStop /\ case + 1 \in Cases
          /\ BeginCase(case + 1)
       \/ /\ cStop \/ case + 1 \notin Cases \/ result = "FAIL"
          /\ cpc' = "finish_run"
          /\ UNCHANGED <<case, ready, loaded, verdict, cObs>>
    /\ UNCHANGED <<net, run, cStop, cConn, cSa, serverVars, sSa>>

\* Mutant: a peer that does not answer is not a failure.
ReceiveDoneOptional ==
    /\ cpc = "finishing"
    /\ EndCase(verdict)

ReceiveDone ==
    /\ cpc = "finishing"
    /\ \/ Arrived("DONE", case) /\ ~cStop /\ EndCase(verdict)
       \/ EndCase("FAIL")

\* FinishNativeAppAlgorithmRun: FINISH, once, and a wait.
SendFinish == ClientSends("finish_run", "FINISH", NoCase, "finishing_run")

\* Mutant: the wait for FINISHED has no deadline.
EndRunOnlyWhenFinished ==
    /\ cpc = "finishing_run"
    /\ Arrived("FINISHED", NoCase)
    /\ cpc' = "off"
    /\ UNCHANGED <<net, run, case, ready, loaded, verdict, cObs, failed, cStop, cConn,
                   cSa, serverVars, sSa>>

\* Mutant: the wait for FINISHED does not look at Ctrl-C.
EndRunUninterrupted ==
    /\ cpc = "finishing_run"
    /\ cStop => Arrived("FINISHED", NoCase)
    /\ cpc' = "off"
    /\ UNCHANGED <<net, run, case, ready, loaded, verdict, cObs, failed, cStop, cConn,
                   cSa, serverVars, sSa>>

\* FINISHED, the timeout or Ctrl-C: only the reported error differs.
EndRun ==
    /\ cpc = "finishing_run"
    /\ cpc' = "off"
    /\ UNCHANGED <<net, run, case, ready, loaded, verdict, cObs, failed, cStop, cConn,
                   cSa, serverVars, sSa>>

StopClient ==
    /\ cpc # "off" /\ ~cStop
    /\ cStop' = TRUE
    /\ UNCHANGED <<net, cpc, run, case, ready, loaded, verdict, cObs, failed, cConn,
                   cSa, serverVars, sSa>>

\* RunNativeAppAlgorithmCaseClient and the loop around it.  Each wait may end
\* without an answer: the silent polls add up to the timeout, Ctrl-C, or an error
\* of the socket.
Client ==
    \/ PrepareNativeAppAlgorithmPeer
    \/ \E ok \in BOOLEAN :
          \/ AddConnection(ok)
          \/ StartNativeAppConnection(ok)
          \/ QueryClient(ok)
          \/ CleanupClient(ok)
    \/ SendVerify
    \/ ReceiveResult
    \/ SendCleanup
    \/ ReceiveDone
    \/ SendFinish
    \/ EndRun

-----------------------------------------------------------------------------
(* The server.                                                             *)

StartServer ==
    /\ spc = "off"
    /\ spc' = "main"
    /\ sRun' = 0 /\ sCase' = NoCase /\ sLast' = NoCase /\ sStop' = FALSE
    /\ UNCHANGED <<net, clientVars, cSa, sObs, sConn, sSa>>

\* The reply goes to the port the request came from.
ReplyNativeAppAlgorithmServer(m, action) ==
    net' = net \cup {Msg(action, m.case, m.run)}

\* CLEANUP or ABORT again for the case that was cleaned up last, of any run.
DoneAgain(m) ==
    /\ spc = "main" /\ ~sStop
    /\ m.action \in {"CLEANUP", "ABORT"} /\ m.case = sLast
    /\ ReplyNativeAppAlgorithmServer(m, "DONE")
    /\ UNCHANGED <<clientVars, cSa, serverVars, sSa>>

\* FINISH of the run ends the command.
Finished(m) ==
    /\ spc = "main" /\ ~sStop
    /\ m.action = "FINISH" /\ m.run = sRun
    /\ ReplyNativeAppAlgorithmServer(m, "FINISHED")
    /\ spc' = "off"
    /\ UNCHANGED <<clientVars, cSa, sRun, sCase, sLast, sObs, sStop, sConn, sSa>>

\* PREPARE opens a case of the run; the first one fixes the run.
OpenCase(m) ==
    /\ spc = "main" /\ ~sStop
    /\ m.action = "PREPARE" /\ sRun \in {0, m.run}
    /\ spc' = "add"
    /\ sRun' = m.run
    /\ sCase' = m.case
    /\ UNCHANGED <<net, clientVars, cSa, sLast, sObs, sStop, sConn, sSa>>

\* Mutant: every case is remembered.
CaseClosedAlways(verified) ==
    /\ spc' = "main"
    /\ sLast' = sCase

\* The end of RunNativeAppAlgorithmServerCase: only a case whose cleanup was
\* verified is remembered.
CaseClosed(verified) ==
    /\ spc' = "main"
    /\ sLast' = IF verified THEN sCase ELSE NoCase

\* READY goes to the port of the PREPARE that opened the case, a port of the run.
ServerAdd(ok) ==
    /\ spc = "add"
    /\ sConn' \in {sCase} \cup IF ok THEN {} ELSE {sConn}
    /\ \/ /\ ok
          /\ spc' = "case"
          /\ net' = net \cup {Msg("READY", sCase, sRun)}
          /\ UNCHANGED sLast
       \/ /\ ~ok
          /\ CaseClosed(FALSE)
          /\ UNCHANGED net
    /\ UNCHANGED <<clientVars, cSa, sRun, sCase, sObs, sStop, sSa>>

\* Messages about the case, of whatever run.
ReadyAgain(m) ==
    /\ spc = "case" /\ ~sStop
    /\ m.action = "PREPARE" /\ m.case = sCase
    /\ ReplyNativeAppAlgorithmServer(m, "READY")
    /\ UNCHANGED <<clientVars, cSa, serverVars, sSa>>

Verify(m, ok) ==
    /\ spc = "case" /\ ~sStop
    /\ m.action = "VERIFY" /\ m.case = sCase
    /\ IF ok THEN sObs' \in sSa ELSE UNCHANGED sObs
    /\ ReplyNativeAppAlgorithmServer(m, IF ok THEN "RESULT_PASS" ELSE "RESULT_FAIL")
    /\ UNCHANGED <<clientVars, cSa, spc, sRun, sCase, sLast, sStop, sConn, sSa>>

\* CleanupNativeAppAlgorithmCase without terminating: the client does that.
ServerCleans(ok) ==
    /\ ok => sSa = {} /\ ~sStop
    /\ sConn' \in {NoCase} \cup IF ok THEN {} ELSE {sConn}
    /\ UNCHANGED sSa

\* CLEANUP or ABORT ends the case; DONE only for a verified cleanup.
Cleanup(m, ok) ==
    /\ spc = "case" /\ ~sStop
    /\ m.action \in {"CLEANUP", "ABORT"} /\ m.case = sCase
    /\ ServerCleans(ok)
    /\ IF ok THEN ReplyNativeAppAlgorithmServer(m, "DONE") ELSE UNCHANGED net
    /\ CaseClosed(ok)
    /\ UNCHANGED <<clientVars, cSa, sRun, sCase, sObs, sStop>>

\* Mutant: the case waits for its client without a limit.
LeaveCaseOnStop ==
    /\ spc = "case" /\ sStop
    /\ spc' = "cleanup"
    /\ UNCHANGED <<net, clientVars, cSa, sRun, sCase, sLast, sObs, sStop, sConn, sSa>>

\* The silent polls add up to twice the timeout, Ctrl-C, or a reply could not be
\* sent: the case ends with a cleanup of its own.  An error of the receive is
\* forgotten and the loop goes on, as it does, without counting anything, after a
\* datagram of a stranger or about another case.
LeaveCase ==
    /\ spc = "case"
    /\ spc' = "cleanup"
    /\ UNCHANGED <<net, clientVars, cSa, sRun, sCase, sLast, sObs, sStop, sConn,
                   sSa>>

LastCleanup(ok) ==
    /\ spc = "cleanup"
    /\ ServerCleans(ok)
    /\ CaseClosed(ok)
    /\ UNCHANGED <<net, clientVars, cSa, sRun, sCase, sObs, sStop>>

\* Ctrl-C; in the main loop also an error of the socket or of the run's log.
StopServer ==
    /\ spc # "off" /\ ~sStop
    /\ sStop' = TRUE
    /\ UNCHANGED <<net, clientVars, cSa, spc, sRun, sCase, sLast, sObs, sConn, sSa>>

EndServer ==
    /\ spc = "main" /\ sStop
    /\ spc' = "off"
    /\ UNCHANGED <<net, clientVars, cSa, sRun, sCase, sLast, sObs, sStop, sConn, sSa>>

ServerReceives ==
    \E m \in net :
        \/ DoneAgain(m)
        \/ Finished(m)
        \/ OpenCase(m)
        \/ ReadyAgain(m)
        \/ \E ok \in BOOLEAN : Verify(m, ok) \/ Cleanup(m, ok)

\* RunNativeAppAlgorithmServerCase once it is entered, without the network.
ServerCase ==
    \/ \E ok \in BOOLEAN : ServerAdd(ok) \/ LastCleanup(ok)
    \/ LeaveCase
    \/ EndServer

-----------------------------------------------------------------------------

\* charon on the server's side learns, by DELETE or dead peer detection, that the
\* client's SA is gone.  Only the client terminates, so the converse never arises.
SaDeleted ==
    /\ sSa \ cSa # {}
    /\ sSa' = sSa \cap cSa
    /\ UNCHANGED <<net, clientVars, cSa, serverVars>>

Next ==
    \/ StartRun
    \/ StopClient
    \/ Client
    \/ StartServer
    \/ StopServer
    \/ ServerReceives
    \/ ServerCase
    \/ SaDeleted

\* The client's waits for a datagram.
Waiting == {"preparing", "verifying", "finishing", "finishing_run"}

\* What the code guarantees by itself: both programs keep running while they do
\* not wait for a datagram, and each round of a wait looks at Ctrl-C first.
\* Nothing is assumed of the network or of the user.
Fairness ==
    /\ WF_vars(Client /\ (cpc \in Waiting => cStop))
    /\ WF_vars(ServerCase /\ (spc = "case" => sStop))

\* What it needs of the network besides: nobody keeps a wait busy for ever.  The
\* timeouts count the polls that find nothing, so datagrams that are not awaited
\* (repeated, late, or a stranger's) must at last leave enough of them.
QuietNetwork ==
    /\ WF_vars(Client /\ cpc \in Waiting)
    /\ WF_vars(ServerCase /\ spc = "case")

Spec == Init /\ [][Next]_vars

FairSpec == Spec /\ Fairness

-----------------------------------------------------------------------------
(* Properties.                                                             *)

\* As long as no case was reported as failed, a case that passes was judged, on
\* both hosts, by the SA it negotiated itself, although SAs are looked up by a
\* name all cases share and nobody compares proposals.
PassIsOwn ==
    (verdict = "PASS" /\ ~failed) => cObs = case /\ sObs = case

\* When the server answers a repeated CLEANUP from memory, nothing of the case
\* is left in its daemon, and nothing of any other.
DoneIsTrue ==
    (spc = "main" /\ sLast # NoCase) => sConn = NoCase /\ sSa = {}

\* Cases that were all reported as passed have left no SA on either host and no
\* connection on the client's, whatever was lost or came twice.
PassLeavesNothing ==
    (~failed /\ cpc \in {"off", "prepare", "finish_run", "finishing_run"})
        => cSa = {} /\ sSa = {} /\ cConn = NoCase

\* PREPARE has been answered before the client creates an SA.
PreparedBeforeStart == cpc = "start" => ready

\* A run on the client ends, whatever the server does or the network loses, if
\* no stream of datagrams that are not awaited keeps one of its waits busy.
RunEnds == QuietNetwork => (cpc # "off" ~> cpc = "off")

\* The server leaves every case it opened, whether or not the client returns,
\* under the same condition.
CaseEnds == QuietNetwork => (spc \in {"add", "case", "cleanup"} ~> spc \in {"main", "off"})

\* Ctrl-C ends both commands, their cleanups done, whatever the network delivers.
InterruptEnds ==
    /\ cStop /\ cpc # "off" ~> cpc = "off"
    /\ sStop /\ spc # "off" ~> spc = "off"

=============================================================================
