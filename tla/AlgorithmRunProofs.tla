------------------------- MODULE AlgorithmRunProofs -------------------------
(***************************************************************************)
(* Theorems about AlgorithmRun: for any number of cases and of runs.       *)
(***************************************************************************)
EXTENDS AlgorithmRun, FiniteSetTheorems, TLAPS

-----------------------------------------------------------------------------
(* The inductive invariant.                                                *)

\* Nobody sends for a run before there is one.
RunInv ==
    /\ cpc # "off" => run \in Runs
    /\ spc \in {"add", "case", "cleanup"} => sRun \in Runs

\* Where the client is once it has asked for a verdict, and once it has asked for
\* the end of a case.
AfterCleanup == {"finishing", "finish_run", "finishing_run", "off"}
AfterVerify  == AfterCleanup \cup {"verifying", "cleanup", "finish"}

\* No request is about a case that has not begun, and every answer that counts was
\* asked for: a late datagram of an earlier case or run cannot be taken for one of
\* the present.
NetInv ==
    /\ \A a \in {"VERIFY", "CLEANUP", "ABORT"}, c \in Maybe, r \in Runs :
          Msg(a, c, r) \in net => c \in Cases /\ r <= run /\ (r = run => c <= case)
    /\ Msg("VERIFY", case, run) \in net => cpc \in AfterVerify
    /\ \A a \in {"CLEANUP", "ABORT"} : Msg(a, case, run) \in net => cpc \in AfterCleanup
    /\ \A c \in Maybe, r \in Runs :
          Msg("RESULT_PASS", c, r) \in net => Msg("VERIFY", c, r) \in net
    /\ \A c \in Maybe, r \in Runs :
          Msg("DONE", c, r) \in net => Msg("CLEANUP", c, r) \in net \/ Msg("ABORT", c, r) \in net

\* As long as no case was reported as failed: both daemons have at most the SA of the
\* present case, none before its start and after its end, and an answer of the server
\* says what it saw or left.
SaInv ==
    ~failed =>
        /\ cSa \subseteq {case} /\ sSa \subseteq {case}
        /\ cpc \in {"off", "prepare", "preparing", "add", "start", "finish_run", "finishing_run"}
              => cSa = {} /\ sSa = {}
        /\ cpc \in {"off", "prepare", "preparing", "finish_run", "finishing_run"}
              => cConn = NoCase
        /\ cpc \in {"verify", "verifying"} => cObs = case
        /\ Msg("RESULT_PASS", case, run) \in net => sObs = case
        /\ Msg("DONE", case, run) \in net => sSa = {}

\* What a verdict PASS stands for.
VerdictInv ==
    ~failed /\ verdict = "PASS" =>
        /\ cpc \in AfterCleanup \cup {"cleanup", "finish"}
        /\ cObs = case /\ sObs = case
        /\ cpc \in {"finish", "finishing"} => cSa = {} /\ cConn = NoCase

IInv ==
    /\ TypeOK
    /\ RunInv
    /\ NetInv
    /\ SaInv
    /\ VerdictInv
    /\ DoneIsTrue

-----------------------------------------------------------------------------
(* Types.                                                                  *)

Datagrams == [action : Requests \cup Replies, case : Maybe, run : Runs]

ClientCalls == {"off", "prepare", "preparing", "add", "start", "query", "verify", "verifying",
                "cleanup", "finish", "finishing", "finish_run", "finishing_run"}

ClientType ==
    /\ cpc \in ClientCalls /\ run \in 0 .. MaxRuns /\ case \in Cases
    /\ ready \in BOOLEAN /\ loaded \in BOOLEAN /\ failed \in BOOLEAN /\ cStop \in BOOLEAN
    /\ verdict \in {"PASS", "FAIL"} /\ cObs \in Maybe /\ cConn \in Maybe

ServerType ==
    /\ spc \in {"off", "main", "add", "case", "cleanup"} /\ sRun \in 0 .. MaxRuns
    /\ sStop \in BOOLEAN /\ sObs \in Maybe /\ sConn \in Maybe /\ sCase \in Maybe /\ sLast \in Maybe

WorldType == net \subseteq Datagrams /\ cSa \subseteq Cases /\ sSa \subseteq Cases

\* The type invariant in three parts.
LEMMA TypeParts == TypeOK <=> ClientType /\ ServerType /\ WorldType
  BY DEF TypeOK, ClientType, ServerType, WorldType, Datagrams, ClientCalls

\* The same of the next state.
LEMMA TypePartsNext == TypeOK' <=> ClientType' /\ ServerType' /\ WorldType'
  BY DEF TypeOK, ClientType, ServerType, WorldType, Datagrams, ClientCalls

\* The cases are numbered from 1.
LEMMA CaseNumbers ==
    /\ Cases \subseteq Nat /\ 1 \in Cases /\ NoCase \notin Cases
    /\ MaxRuns \in Nat /\ MaxRuns > 0 /\ Runs \subseteq Nat
  <1>1 Cardinality(Cases) \in Nat
    BY RunConstants, FS_CardinalityType
  <1>2 \A i \in Cases : i \in Int /\ 1 <= i /\ i <= Cardinality(Cases)
    BY <1>1, RunConstants
  <1>3 PICK i \in Cases : TRUE
    BY RunConstants
  <1>4 1 \in 1 .. Cardinality(Cases)
    BY <1>1, <1>2, <1>3
  <1>5 Cases \subseteq Nat
    <2> SUFFICES ASSUME NEW k \in Cases PROVE k \in Nat
      OBVIOUS
    <2> QED BY <1>2
  <1>6 1 \in Cases
    BY <1>4, RunConstants
  <1>7 MaxRuns \in Nat /\ MaxRuns > 0 /\ NoCase \notin Cases
    BY RunConstants
  <1>8 Runs \subseteq Nat
    BY <1>7 DEF Runs
  <1> QED BY <1>5, <1>6, <1>7, <1>8

\* A datagram is what it says, about which case and for which run.
LEMMA MsgFields ==
    ASSUME NEW a, NEW c, NEW r
    PROVE  /\ Msg(a, c, r).action = a /\ Msg(a, c, r).case = c /\ Msg(a, c, r).run = r
           /\ a \in Requests \cup Replies /\ c \in Maybe /\ r \in Runs => Msg(a, c, r) \in Datagrams
           /\ \A b, d, s : Msg(a, c, r) = Msg(b, d, s) => a = b /\ c = d /\ r = s
  <1>1 Msg(a, c, r).action = a /\ Msg(a, c, r).case = c /\ Msg(a, c, r).run = r
    BY DEF Msg
  <1>2 ASSUME a \in Requests \cup Replies, c \in Maybe, r \in Runs PROVE Msg(a, c, r) \in Datagrams
    BY <1>2 DEF Msg, Datagrams
  <1>3 ASSUME NEW b, NEW d, NEW s, Msg(a, c, r) = Msg(b, d, s) PROVE a = b /\ c = d /\ r = s
    BY <1>3 DEF Msg
  <1> QED BY <1>1, <1>2, <1>3

\* A datagram that arrives is one of these.
LEMMA MsgParts ==
    ASSUME NEW m \in Datagrams
    PROVE  /\ m = Msg(m.action, m.case, m.run)
           /\ m.action \in Requests \cup Replies /\ m.case \in Maybe /\ m.run \in Runs
  BY DEF Msg, Datagrams

\* What is in the network after a datagram was sent.
LEMMA NetGrows ==
    ASSUME NEW b, NEW d, NEW s, net' = net \cup {Msg(b, d, s)}
    PROVE  /\ \A a, c, r : Msg(a, c, r) \in net => Msg(a, c, r) \in net'
           /\ \A a, c, r : Msg(a, c, r) \in net' =>
                 Msg(a, c, r) \in net \/ (a = b /\ c = d /\ r = s)
  BY MsgFields

-----------------------------------------------------------------------------
(* The datagrams.                                                          *)

\* The client goes on within its case.
LEMMA NetKept ==
    ASSUME NetInv, net' = net, run' = run, case' = case,
           cpc \in AfterVerify => cpc' \in AfterVerify,
           cpc \in AfterCleanup => cpc' \in AfterCleanup
    PROVE  NetInv'
  BY DEF NetInv, AfterVerify, AfterCleanup

\* Nothing was asked about a case that begins.
LEMMA NetFresh ==
    ASSUME IInv, net' = net, case' \in Cases, run' \in Runs,
           run' = run + 1 \/ (run' = run /\ case' = case + 1)
    PROVE  /\ NetInv'
           /\ Msg("RESULT_PASS", case', run') \notin net'
           /\ Msg("DONE", case', run') \notin net'
  <1>1 case \in Nat /\ run \in Nat /\ case' \in Nat /\ run' \in Nat /\ case' \in Maybe
    <2>1 case \in Cases /\ run \in 0 .. MaxRuns
      BY TypeParts DEF IInv, ClientType
    <2>2 case \in Nat /\ case' \in Nat /\ run' \in Nat
      BY <2>1, CaseNumbers
    <2>3 run \in Nat /\ case' \in Maybe
      BY <2>1, CaseNumbers DEF Maybe
    <2> QED BY <2>2, <2>3
  <1>2 \A a \in {"VERIFY", "CLEANUP", "ABORT"}, c \in Maybe, r \in Runs :
          Msg(a, c, r) \in net => c \in Cases /\ r <= run /\ (r = run => c <= case)
    BY DEF IInv, NetInv
  <1>3 ASSUME NEW a \in {"VERIFY", "CLEANUP", "ABORT"} PROVE Msg(a, case', run') \notin net
    BY <1>1, <1>2
  <1>4 ASSUME NEW a \in {"VERIFY", "CLEANUP", "ABORT"}, NEW c \in Maybe, NEW r \in Runs,
              Msg(a, c, r) \in net
       PROVE  c \in Cases /\ r <= run' /\ (r = run' => c <= case')
    <2>1 c \in Cases /\ r <= run /\ (r = run => c <= case) /\ c \in Nat /\ r \in Nat
      BY <1>2, <1>4, CaseNumbers
    <2> QED BY <1>1, <2>1
  <1>5 /\ Msg("RESULT_PASS", case', run') \notin net'
       /\ Msg("DONE", case', run') \notin net'
    BY <1>1, <1>3 DEF IInv, NetInv
  <1>6 NetInv'
    BY <1>3, <1>4 DEF IInv, NetInv
  <1> QED BY <1>5, <1>6

\* The server answers what it was asked.
LEMMA NetReply ==
    ASSUME IInv, run' = run, case' = case, cpc' = cpc,
           NEW b \in Replies, NEW d \in Maybe, NEW s \in Runs, net' = net \cup {Msg(b, d, s)},
           b = "RESULT_PASS" => Msg("VERIFY", d, s) \in net,
           b = "DONE" => Msg("CLEANUP", d, s) \in net \/ Msg("ABORT", d, s) \in net
    PROVE  NetInv' /\ net' \subseteq Datagrams
  <1>1 net' \subseteq Datagrams
    BY MsgFields, TypeParts DEF IInv, WorldType
  <1>2 /\ \A a, c, r : Msg(a, c, r) \in net => Msg(a, c, r) \in net'
       /\ \A a, c, r : Msg(a, c, r) \in net' => Msg(a, c, r) \in net \/ (a = b /\ c = d /\ r = s)
    BY NetGrows
  <1>3 b \notin {"VERIFY", "CLEANUP", "ABORT"}
    BY DEF Replies
  <1>4 NetInv
    BY DEF IInv
  <1>5 \A a \in {"VERIFY", "CLEANUP", "ABORT"}, c \in Maybe, r \in Runs :
          Msg(a, c, r) \in net' => c \in Cases /\ r <= run /\ (r = run => c <= case)
    BY <1>2, <1>3, <1>4 DEF NetInv
  <1>6 /\ Msg("VERIFY", case, run) \in net' => cpc \in AfterVerify
       /\ \A a \in {"CLEANUP", "ABORT"} : Msg(a, case, run) \in net' => cpc \in AfterCleanup
    BY <1>2, <1>3, <1>4 DEF NetInv
  <1>7 \A c \in Maybe, r \in Runs :
          Msg("RESULT_PASS", c, r) \in net' => Msg("VERIFY", c, r) \in net'
    BY <1>2, <1>4 DEF NetInv
  <1>8 \A c \in Maybe, r \in Runs :
          Msg("DONE", c, r) \in net' => Msg("CLEANUP", c, r) \in net' \/ Msg("ABORT", c, r) \in net'
    BY <1>2, <1>4 DEF NetInv
  <1>9 NetInv'
    BY <1>5, <1>6, <1>7, <1>8 DEF NetInv, AfterVerify, AfterCleanup
  <1> QED BY <1>1, <1>9

\* The client asks about its own case, or ends its run.
LEMMA NetSend ==
    ASSUME IInv, run' = run, case' = case, run \in Runs,
           NEW b \in Requests, NEW d \in Maybe, net' = net \cup {Msg(b, d, run)},
           b \in {"VERIFY", "CLEANUP", "ABORT"} => d = case,
           b = "VERIFY" => cpc' \in AfterVerify,
           b \in {"CLEANUP", "ABORT"} => cpc' \in AfterCleanup,
           cpc \in AfterVerify => cpc' \in AfterVerify,
           cpc \in AfterCleanup => cpc' \in AfterCleanup
    PROVE  /\ NetInv' /\ net' \subseteq Datagrams
           /\ \A a \in Replies : \A c, r : Msg(a, c, r) \in net' => Msg(a, c, r) \in net
  <1>1 net' \subseteq Datagrams
    BY MsgFields, TypeParts DEF IInv, WorldType
  <1>2 /\ \A a, c, r : Msg(a, c, r) \in net => Msg(a, c, r) \in net'
       /\ \A a, c, r : Msg(a, c, r) \in net' => Msg(a, c, r) \in net \/ (a = b /\ c = d /\ r = run)
    BY NetGrows
  <1>3 b \notin Replies
    BY DEF Replies, Requests
  <1>4 NetInv
    BY DEF IInv
  <1>5 case \in Cases /\ case \in Nat /\ run \in Nat
    BY CaseNumbers, TypeParts DEF IInv, ClientType
  <1>6 \A a \in Replies : \A c, r : Msg(a, c, r) \in net' => Msg(a, c, r) \in net
    BY <1>2, <1>3
  <1>7 \A a \in {"VERIFY", "CLEANUP", "ABORT"}, c \in Maybe, r \in Runs :
          Msg(a, c, r) \in net' => c \in Cases /\ r <= run /\ (r = run => c <= case)
    BY <1>2, <1>4, <1>5 DEF NetInv
  <1>8 Msg("VERIFY", case, run) \in net' => cpc' \in AfterVerify
    BY <1>2, <1>4 DEF NetInv
  <1>9 \A a \in {"CLEANUP", "ABORT"} : Msg(a, case, run) \in net' => cpc' \in AfterCleanup
    BY <1>2, <1>4 DEF NetInv
  <1>10 "RESULT_PASS" \in Replies /\ "DONE" \in Replies
    BY DEF Replies
  <1>11 \A c \in Maybe, r \in Runs :
          Msg("RESULT_PASS", c, r) \in net' => Msg("VERIFY", c, r) \in net'
    BY <1>2, <1>4, <1>6, <1>10 DEF NetInv
  <1>12 \A c \in Maybe, r \in Runs :
          Msg("DONE", c, r) \in net' => Msg("CLEANUP", c, r) \in net' \/ Msg("ABORT", c, r) \in net'
    BY <1>2, <1>4, <1>6, <1>10 DEF NetInv
  <1>13 NetInv'
    BY <1>7, <1>8, <1>9, <1>11, <1>12 DEF NetInv, AfterVerify, AfterCleanup
  <1> QED BY <1>1, <1>6, <1>13

-----------------------------------------------------------------------------
(* The steps of the client.                                                *)

\* The parts of the invariant.
LEMMA Facts ==
    ASSUME IInv
    PROVE  /\ ClientType /\ ServerType /\ WorldType
           /\ RunInv /\ NetInv /\ SaInv /\ VerdictInv /\ DoneIsTrue
           /\ case \in Cases /\ case \in Maybe /\ NoCase \in Maybe /\ case # NoCase
           /\ failed \in BOOLEAN
  BY TypeParts, CaseNumbers DEF IInv, ClientType, Maybe

\* A step of the client leaves the server's promise true, because an SA comes up only
\* with a connection on both sides.
LEMMA ServerKept ==
    ASSUME IInv, UNCHANGED serverVars, sSa' = sSa \/ sConn = case
    PROVE  /\ ServerType' /\ DoneIsTrue'
           /\ (spc \in {"add", "case", "cleanup"} => sRun \in Runs)'
  <1>1 UNCHANGED <<spc, sRun, sCase, sLast, sObs, sStop, sConn>>
    BY DEF serverVars
  <1>2 ServerType'
    BY <1>1, Facts DEF ServerType
  <1>3 DoneIsTrue'
    BY <1>1, Facts DEF DoneIsTrue
  <1> QED BY <1>1, <1>2, <1>3, Facts DEF RunInv

\* A step within a case that sends nothing.
LEMMA ClientLocal ==
    ASSUME IInv, UNCHANGED <<net, run, case>>, UNCHANGED serverVars, cpc # "off",
           ClientType', cSa' \subseteq Cases, sSa' \subseteq Cases, sSa' = sSa \/ sConn = case,
           cpc \in AfterVerify => cpc' \in AfterVerify,
           cpc \in AfterCleanup => cpc' \in AfterCleanup,
           SaInv', VerdictInv'
    PROVE  IInv'
  <1>1 WorldType'
    BY Facts DEF WorldType
  <1>2 NetInv'
    BY Facts, NetKept
  <1>3 ServerType' /\ DoneIsTrue' /\ (spc \in {"add", "case", "cleanup"} => sRun \in Runs)'
    BY ServerKept
  <1>4 RunInv'
    BY <1>3, Facts DEF RunInv
  <1> QED BY <1>1, <1>2, <1>3, <1>4, TypePartsNext DEF IInv

\* A step within a case that sends.
LEMMA ClientSendsStep ==
    ASSUME IInv, NEW at, NEW action \in Requests, NEW c \in Maybe, NEW to \in ClientCalls,
           at # "off", ClientSends(at, action, c, to),
           action \in {"VERIFY", "CLEANUP", "ABORT"} => c = case,
           action = "VERIFY" => to \in AfterVerify,
           action \in {"CLEANUP", "ABORT"} => to \in AfterCleanup,
           <<at, to>> \in {<<"prepare", "preparing">>, <<"verify", "verifying">>,
                           <<"finish", "finishing">>, <<"finish_run", "finishing_run">>}
    PROVE  IInv'
  <1>1 /\ cpc = at /\ cpc' = to /\ net' = net \cup {Msg(action, c, run)}
       /\ UNCHANGED <<run, case, ready, loaded, verdict, cObs, failed, cStop, cConn, cSa, sSa>>
       /\ UNCHANGED serverVars
    BY DEF ClientSends
  <1>2 run \in Runs
    BY <1>1, Facts DEF RunInv
  <1>3 /\ NetInv' /\ net' \subseteq Datagrams
       /\ \A a \in Replies : \A d, r : Msg(a, d, r) \in net' => Msg(a, d, r) \in net
    BY <1>1, <1>2, NetSend DEF AfterVerify, AfterCleanup
  <1>4 "RESULT_PASS" \in Replies /\ "DONE" \in Replies
    BY DEF Replies
  <1>5 ServerType' /\ DoneIsTrue' /\ (spc \in {"add", "case", "cleanup"} => sRun \in Runs)'
    BY <1>1, ServerKept
  <1>6 ClientType' /\ WorldType'
    BY <1>1, <1>3, Facts DEF ClientType, WorldType
  <1>7 RunInv'
    BY <1>1, <1>2, <1>5 DEF RunInv
  <1>8 sObs' = sObs
    BY <1>1 DEF serverVars
  <1>9 SaInv'
    BY <1>1, <1>3, <1>4, <1>8, Facts DEF SaInv
  <1>10 VerdictInv'
    BY <1>1, <1>8, Facts DEF VerdictInv, AfterCleanup
  <1> QED BY <1>3, <1>5, <1>6, <1>7, <1>9, <1>10, TypePartsNext DEF IInv

\* SendVerify, SendCleanup and SendFinish.
LEMMA RequestStep ==
    ASSUME IInv, SendPrepare \/ SendVerify \/ SendCleanup \/ SendFinish
    PROVE  IInv'
  <1> USE Facts DEF Requests, ClientCalls, AfterVerify, AfterCleanup
  <1>1 CASE SendPrepare
    BY <1>1, ClientSendsStep DEF SendPrepare
  <1>2 CASE SendVerify
    BY <1>2, ClientSendsStep DEF SendVerify
  <1>3 CASE SendCleanup
    <2>1 CASE loaded
      <3>1 ClientSends("finish", "CLEANUP", case, "finishing")
        BY <1>3, <2>1 DEF SendCleanup
      <3> QED BY <3>1, ClientSendsStep
    <2>2 CASE ~loaded
      <3>1 ClientSends("finish", "ABORT", case, "finishing")
        BY <1>3, <2>2 DEF SendCleanup
      <3> QED BY <3>1, ClientSendsStep
    <2> QED BY <2>1, <2>2
  <1>4 CASE SendFinish
    BY <1>4, ClientSendsStep DEF SendFinish
  <1> QED BY <1>1, <1>2, <1>3, <1>4

\* The case fails, READY arrives, or Ctrl-C ends the preparation.
LEMMA PrepareStep ==
    ASSUME IInv, PrepareNativeAppAlgorithmPeer
    PROVE  IInv'
  <1>1 CASE SendPrepare
    BY <1>1, RequestStep
  <1>2 ASSUME NEW b \in BOOLEAN, cpc \in {"prepare", "preparing"}, Prepared(b) PROVE IInv'
    <2>1 /\ cpc' = "add" /\ ready' = b
         /\ UNCHANGED <<net, run, case, loaded, verdict, cObs, failed, cStop, cConn, cSa, sSa>>
         /\ UNCHANGED serverVars
      BY <1>2 DEF Prepared
    <2>2 ClientType' /\ cSa' \subseteq Cases /\ sSa' \subseteq Cases
      BY <2>1, Facts DEF ClientType, WorldType, ClientCalls
    <2>3 sObs' = sObs
      BY <2>1 DEF serverVars
    <2>4 SaInv'
      BY <1>2, <2>1, <2>3, Facts DEF SaInv
    <2>5 VerdictInv'
      BY <1>2, <2>1, <2>3, Facts DEF VerdictInv, AfterCleanup
    <2> QED BY <1>2, <2>1, <2>2, <2>4, <2>5, ClientLocal DEF AfterVerify, AfterCleanup
  <1>3 CASE cpc = "preparing" /\ CaseFails("finish")
    <2>1 /\ cpc' = "finish" /\ verdict' = "FAIL"
         /\ UNCHANGED <<net, run, case, ready, loaded, cObs, failed, cStop, cConn, cSa, sSa>>
         /\ UNCHANGED serverVars
      BY <1>3 DEF CaseFails
    <2>2 ClientType' /\ cSa' \subseteq Cases /\ sSa' \subseteq Cases
      BY <2>1, Facts DEF ClientType, WorldType, ClientCalls
    <2>3 sObs' = sObs
      BY <2>1 DEF serverVars
    <2>4 SaInv'
      BY <2>1, <2>3, Facts DEF SaInv
    <2>5 VerdictInv'
      BY <2>1 DEF VerdictInv
    <2> QED BY <1>3, <2>1, <2>2, <2>4, <2>5, ClientLocal DEF AfterVerify, AfterCleanup
  <1> QED BY <1>1, <1>2, <1>3 DEF PrepareNativeAppAlgorithmPeer

\* Loading the case's connection.
LEMMA AddStep ==
    ASSUME IInv, NEW ok \in BOOLEAN, AddConnection(ok)
    PROVE  IInv'
  <1>1 /\ cpc = "add" /\ loaded' = ok /\ cConn' \in {case, cConn} /\ cpc' \in {"start", "finish"}
       /\ UNCHANGED <<net, run, case, ready, verdict, cObs, failed, cStop, cSa, sSa>>
       /\ UNCHANGED serverVars
    BY DEF AddConnection
  <1>2 ClientType' /\ cSa' \subseteq Cases /\ sSa' \subseteq Cases
    BY <1>1, Facts DEF ClientType, WorldType, ClientCalls
  <1>3 sObs' = sObs
    BY <1>1 DEF serverVars
  <1>4 SaInv'
    BY <1>1, <1>3, Facts DEF SaInv
  <1>5 VerdictInv'
    BY <1>1, Facts DEF VerdictInv, AfterCleanup
  <1> QED BY <1>1, <1>2, <1>4, <1>5, ClientLocal DEF AfterVerify, AfterCleanup

\* Negotiating: an SA of the case and of no other comes up.
LEMMA NegotiateStep ==
    ASSUME IInv, NEW ok \in BOOLEAN, StartNativeAppConnection(ok)
    PROVE  IInv'
  <1>1 /\ cpc = "start" /\ cpc' \in {"query", "cleanup"}
       /\ UNCHANGED <<net, run, case, ready, loaded, verdict, cObs, failed, cStop, cConn>>
       /\ UNCHANGED serverVars
       /\ cSa' \in {cSa, cSa \cup {case}} /\ sSa' \in {sSa, sSa \cup {case}}
       /\ sSa' = sSa \/ sConn = case
    BY DEF StartNativeAppConnection
  <1>2 ClientType' /\ cSa' \subseteq Cases /\ sSa' \subseteq Cases
    BY <1>1, Facts DEF ClientType, WorldType, ClientCalls
  <1>3 sObs' = sObs
    BY <1>1 DEF serverVars
  <1>4 \A a \in {"CLEANUP", "ABORT"} : Msg(a, case, run) \notin net
    BY <1>1, Facts DEF NetInv, AfterCleanup
  <1>5 run \in Runs
    BY <1>1, Facts DEF RunInv
  <1>6 Msg("DONE", case, run) \notin net
    BY <1>4, <1>5, Facts DEF NetInv
  <1>7 SaInv'
    BY <1>1, <1>3, <1>6, Facts DEF SaInv
  <1>8 VerdictInv'
    BY <1>1, Facts DEF VerdictInv, AfterCleanup
  <1> QED BY <1>1, <1>2, <1>7, <1>8, ClientLocal DEF AfterVerify, AfterCleanup

\* The client's query finds the SA of its case, there being no other.
LEMMA QueryStep ==
    ASSUME IInv, NEW ok \in BOOLEAN, QueryClient(ok)
    PROVE  IInv'
  <1>1 /\ cpc = "query" /\ cpc' = (IF ok THEN "verify" ELSE "cleanup")
       /\ IF ok THEN cObs' \in cSa ELSE cObs' = cObs
       /\ UNCHANGED <<net, run, case, ready, loaded, verdict, failed, cStop, cConn, cSa, sSa>>
       /\ UNCHANGED serverVars
    BY DEF QueryClient
  <1>2 ClientType' /\ cSa' \subseteq Cases /\ sSa' \subseteq Cases
    BY <1>1, Facts DEF ClientType, WorldType, ClientCalls, Maybe
  <1>3 sObs' = sObs
    BY <1>1 DEF serverVars
  <1>4 SaInv'
    BY <1>1, <1>3, Facts DEF SaInv
  <1>5 VerdictInv'
    BY <1>1, Facts DEF VerdictInv, AfterCleanup
  <1> QED BY <1>1, <1>2, <1>4, <1>5, ClientLocal DEF AfterVerify, AfterCleanup

\* The server's verdict: RESULT_PASS stands for an SA of the case.
LEMMA ResultStep ==
    ASSUME IInv, ReceiveResult
    PROVE  IInv'
  <1>1 /\ cpc = "verifying" /\ cpc' = "cleanup"
       /\ verdict' = "FAIL" \/ (verdict' = "PASS" /\ Msg("RESULT_PASS", case, run) \in net)
       /\ UNCHANGED <<net, run, case, ready, loaded, cObs, failed, cStop, cConn, cSa, sSa>>
       /\ UNCHANGED serverVars
    BY DEF ReceiveResult, CaseFails, Arrived
  <1>2 ClientType' /\ cSa' \subseteq Cases /\ sSa' \subseteq Cases
    BY <1>1, Facts DEF ClientType, WorldType, ClientCalls
  <1>3 sObs' = sObs
    BY <1>1 DEF serverVars
  <1>4 SaInv'
    BY <1>1, <1>3, Facts DEF SaInv
  <1>5 VerdictInv'
    BY <1>1, <1>3, Facts DEF SaInv, VerdictInv, AfterCleanup
  <1> QED BY <1>1, <1>2, <1>4, <1>5, ClientLocal DEF AfterVerify, AfterCleanup

\* The client's cleanup: a case passes only if nothing of it is left on this side.
LEMMA CleanupStep ==
    ASSUME IInv, NEW ok \in BOOLEAN, CleanupClient(ok)
    PROVE  IInv'
  <1>1 /\ cpc = "cleanup" /\ cpc' = "finish"
       /\ cSa' \subseteq cSa /\ cConn' \in {NoCase, cConn}
       /\ verdict' = "FAIL" \/ (verdict' = verdict /\ cSa' = {} /\ cConn' = NoCase)
       /\ UNCHANGED <<net, run, case, ready, loaded, cObs, failed, cStop, sSa>>
       /\ UNCHANGED serverVars
    BY DEF CleanupClient
  <1>2 ClientType' /\ cSa' \subseteq Cases /\ sSa' \subseteq Cases
    BY <1>1, Facts DEF ClientType, WorldType, ClientCalls
  <1>3 sObs' = sObs
    BY <1>1 DEF serverVars
  <1>4 SaInv'
    BY <1>1, <1>3, Facts DEF SaInv
  <1>5 VerdictInv'
    BY <1>1, <1>3, Facts DEF VerdictInv, AfterCleanup
  <1> QED BY <1>1, <1>2, <1>4, <1>5, ClientLocal DEF AfterVerify, AfterCleanup

\* Ctrl-C, and the end of a run.
LEMMA QuietStep ==
    ASSUME IInv, StopClient \/ EndRun
    PROVE  IInv'
  <1>1 /\ cpc # "off" /\ cStop' \in BOOLEAN
       /\ cpc' = cpc \/ (cpc = "finishing_run" /\ cpc' = "off")
       /\ UNCHANGED <<net, run, case, ready, loaded, verdict, cObs, failed, cConn, cSa, sSa>>
       /\ UNCHANGED serverVars
    BY Facts DEF StopClient, EndRun, ClientType
  <1>2 ClientType' /\ cSa' \subseteq Cases /\ sSa' \subseteq Cases
    BY <1>1, Facts DEF ClientType, WorldType, ClientCalls
  <1>3 sObs' = sObs
    BY <1>1 DEF serverVars
  <1>4 SaInv'
    BY <1>1, <1>3, Facts DEF SaInv
  <1>5 VerdictInv'
    BY <1>1, <1>3, Facts DEF VerdictInv, AfterCleanup
  <1> QED BY <1>1, <1>2, <1>4, <1>5, ClientLocal DEF AfterVerify, AfterCleanup

\* A case begins on two hosts without SAs, if none was reported as failed.
LEMMA BeginStep ==
    ASSUME IInv, UNCHANGED <<net, cConn, cSa, sSa>>, UNCHANGED serverVars,
           NEW c \in Cases, BeginCase(c), run' \in Runs, cStop' \in BOOLEAN, failed' \in BOOLEAN,
           run' = run + 1 \/ (run' = run /\ c = case + 1),
           ~failed' => cSa = {} /\ sSa = {} /\ cConn = NoCase
    PROVE  IInv'
  <1>1 /\ cpc' = "prepare" /\ case' = c /\ verdict' = "FAIL" /\ cObs' = NoCase
       /\ ready' = FALSE /\ loaded' = FALSE
    BY DEF BeginCase
  <1>2 /\ NetInv'
       /\ Msg("RESULT_PASS", case', run') \notin net' /\ Msg("DONE", case', run') \notin net'
    BY <1>1, NetFresh
  <1>3 ServerType' /\ DoneIsTrue' /\ (spc \in {"add", "case", "cleanup"} => sRun \in Runs)'
    BY ServerKept
  <1>4 run' \in 0 .. MaxRuns
    BY CaseNumbers DEF Runs
  <1>5 ClientType' /\ WorldType'
    BY <1>1, <1>4, Facts DEF ClientType, WorldType, ClientCalls
  <1>6 RunInv'
    BY <1>3 DEF RunInv
  <1>7 SaInv'
    BY <1>1, <1>2 DEF SaInv
  <1>8 VerdictInv'
    BY <1>1 DEF VerdictInv
  <1> QED BY <1>2, <1>3, <1>5, <1>6, <1>7, <1>8, TypePartsNext DEF IInv

\* The first case of a run.
LEMMA StartRunStep ==
    ASSUME IInv, StartRun
    PROVE  IInv'
  <1>1 /\ cpc = "off" /\ run < MaxRuns /\ run' = run + 1 /\ cStop' = FALSE /\ BeginCase(1)
       /\ UNCHANGED <<net, failed, cConn, cSa, sSa>> /\ UNCHANGED serverVars
    BY DEF StartRun
  <1>2 run' \in Runs /\ 1 \in Cases
    BY <1>1, Facts, CaseNumbers DEF ClientType, Runs
  <1>3 ~failed' => cSa = {} /\ sSa = {} /\ cConn = NoCase
    BY <1>1, Facts DEF SaInv
  <1>4 failed' \in BOOLEAN
    BY <1>1, Facts
  <1> QED BY <1>1, <1>2, <1>3, <1>4, BeginStep

\* The end of a case with a report: the next case, or the end of the run.
LEMMA EndCaseStep ==
    ASSUME IInv, cpc = "finishing", NEW result \in {"PASS", "FAIL"}, EndCase(result),
           result = "PASS" => verdict = "PASS" /\ Msg("DONE", case, run) \in net
    PROVE  IInv'
  <1>1 /\ failed' = (failed \/ result = "FAIL")
       /\ UNCHANGED <<net, run, cStop, cConn, cSa, sSa>> /\ UNCHANGED serverVars
    BY DEF EndCase
  <1>2 ~failed' => cSa = {} /\ sSa = {} /\ cConn = NoCase
    BY <1>1, Facts DEF SaInv, VerdictInv
  <1>3 failed' \in BOOLEAN /\ cStop \in BOOLEAN /\ run \in Runs
    BY <1>1, Facts DEF ClientType, RunInv
  <1>4 CASE case + 1 \in Cases /\ BeginCase(case + 1)
    <2> DEFINE next == case + 1
    <2>1 next \in Cases /\ BeginCase(next) /\ next = case + 1
      BY <1>4
    <2> HIDE DEF next
    <2> QED BY <1>1, <1>2, <1>3, <2>1, BeginStep
  <1>5 CASE cpc' = "finish_run" /\ UNCHANGED <<case, ready, loaded, verdict, cObs>>
    <2>1 ClientType' /\ cSa' \subseteq Cases /\ sSa' \subseteq Cases
      BY <1>1, <1>3, <1>5, Facts DEF ClientType, WorldType, ClientCalls
    <2>2 sObs' = sObs
      BY <1>1 DEF serverVars
    <2>3 ~failed' => ~failed
      BY <1>1
    <2>4 SaInv'
      BY <1>1, <1>2, <1>5, <2>2, <2>3, Facts DEF SaInv
    <2>5 VerdictInv'
      BY <1>1, <1>5, <2>2, <2>3, Facts DEF VerdictInv, AfterCleanup
    <2> QED BY <1>1, <1>5, <2>1, <2>4, <2>5, ClientLocal DEF AfterVerify, AfterCleanup
  <1> QED BY <1>4, <1>5 DEF EndCase

\* DONE, or none: only an answered case keeps its verdict.
LEMMA DoneStep ==
    ASSUME IInv, ReceiveDone
    PROVE  IInv'
  <1>1 verdict \in {"PASS", "FAIL"} /\ cpc = "finishing"
    BY Facts DEF ClientType, ReceiveDone
  <1>2 CASE EndCase("FAIL")
    BY <1>1, <1>2, EndCaseStep
  <1>3 CASE Arrived("DONE", case) /\ EndCase(verdict)
    BY <1>1, <1>3, EndCaseStep DEF Arrived
  <1> QED BY <1>2, <1>3 DEF ReceiveDone

-----------------------------------------------------------------------------
(* The steps of the server.                                                *)

\* A step of the server leaves the client's state alone; it may answer, examine an
\* SA and lose one.
LEMMA ServerStep ==
    ASSUME IInv, UNCHANGED clientVars, cSa' = cSa, sSa' \subseteq sSa, ServerType',
           NetInv', net' \subseteq Datagrams,
           (spc \in {"add", "case", "cleanup"} => sRun \in Runs)',
           sObs' = sObs \/ sObs' \in sSa,
           Msg("RESULT_PASS", case, run) \in net' =>
               Msg("RESULT_PASS", case, run) \in net \/ sObs' \in sSa,
           Msg("DONE", case, run) \in net' => Msg("DONE", case, run) \in net \/ sSa = {},
           DoneIsTrue'
    PROVE  IInv'
  <1>1 UNCHANGED <<cpc, run, case, ready, loaded, verdict, cObs, failed, cStop, cConn>>
    BY DEF clientVars
  <1>2 ClientType' /\ WorldType'
    BY <1>1, Facts DEF ClientType, WorldType
  <1>3 RunInv'
    BY <1>1, Facts DEF RunInv
  <1>4 SaInv'
    BY <1>1, Facts DEF SaInv
  <1>5 VerdictInv'
    BY <1>1, Facts DEF SaInv, VerdictInv
  <1> QED BY <1>2, <1>3, <1>4, <1>5, TypePartsNext DEF IInv

\* A step of the server that sends and examines nothing.
LEMMA ServerSilent ==
    ASSUME IInv, UNCHANGED clientVars, UNCHANGED <<net, cSa, sObs>>, sSa' \subseteq sSa,
           ServerType',
           (spc \in {"add", "case", "cleanup"} => sRun \in Runs)', DoneIsTrue'
    PROVE  IInv'
  <1>1 UNCHANGED <<cpc, run, case>>
    BY DEF clientVars
  <1>2 NetInv' /\ net' \subseteq Datagrams
    BY <1>1, Facts, NetKept DEF WorldType
  <1> QED BY <1>2, ServerStep

\* An answer to a datagram of the network.
LEMMA ReplyFacts ==
    ASSUME IInv, UNCHANGED clientVars, NEW m \in net, NEW b \in Replies,
           ReplyNativeAppAlgorithmServer(m, b),
           b = "RESULT_PASS" => m.action = "VERIFY",
           b = "DONE" => m.action \in {"CLEANUP", "ABORT"}
    PROVE  /\ NetInv' /\ net' \subseteq Datagrams
           /\ \A a, c, r : Msg(a, c, r) \in net' => Msg(a, c, r) \in net \/ a = b
  <1>1 UNCHANGED <<cpc, run, case>>
    BY DEF clientVars
  <1>2 m \in Datagrams
    BY Facts DEF WorldType
  <1>3 m = Msg(m.action, m.case, m.run) /\ m.case \in Maybe /\ m.run \in Runs
    BY <1>2, MsgParts
  <1>4 net' = net \cup {Msg(b, m.case, m.run)}
    BY DEF ReplyNativeAppAlgorithmServer
  <1> DEFINE d == m.case
             s == m.run
  <1>5 /\ d \in Maybe /\ s \in Runs /\ net' = net \cup {Msg(b, d, s)}
       /\ b = "RESULT_PASS" => Msg("VERIFY", d, s) \in net
       /\ b = "DONE" => Msg("CLEANUP", d, s) \in net \/ Msg("ABORT", d, s) \in net
    BY <1>3, <1>4
  <1> HIDE DEF d, s
  <1>6 NetInv' /\ net' \subseteq Datagrams
    BY <1>1, <1>5, NetReply
  <1>7 \A a, c, r : Msg(a, c, r) \in net' => Msg(a, c, r) \in net \/ a = b
    BY <1>5, NetGrows
  <1> QED BY <1>6, <1>7

\* The answers that change nothing else.
LEMMA AnswerStep ==
    ASSUME IInv, NEW m \in net, DoneAgain(m) \/ Finished(m) \/ ReadyAgain(m)
    PROVE  IInv'
  <1>1 CASE DoneAgain(m)
    <2>1 /\ UNCHANGED clientVars /\ UNCHANGED <<cSa, sSa>> /\ UNCHANGED serverVars
         /\ ReplyNativeAppAlgorithmServer(m, "DONE") /\ spc = "main"
         /\ m.action \in {"CLEANUP", "ABORT"} /\ m.case = sLast
      BY <1>1 DEF DoneAgain
    <2>2 /\ NetInv' /\ net' \subseteq Datagrams
         /\ \A a, c, r : Msg(a, c, r) \in net' => Msg(a, c, r) \in net \/ a = "DONE"
      BY <2>1, ReplyFacts DEF Replies
    <2>3 m = Msg(m.action, m.case, m.run) /\ m.case \in Maybe /\ m.run \in Runs
      BY Facts, MsgParts DEF WorldType
    <2>4 m.case \in Cases
      BY <2>1, <2>3, Facts DEF NetInv
    <2>5 sSa = {}
      BY <2>1, <2>4, Facts, CaseNumbers DEF DoneIsTrue
    <2>6 UNCHANGED <<spc, sRun, sCase, sLast, sObs, sStop, sConn>>
      BY <2>1 DEF serverVars
    <2>7 ServerType' /\ DoneIsTrue' /\ (spc \in {"add", "case", "cleanup"} => sRun \in Runs)'
      BY <2>1, <2>6, Facts DEF ServerType, DoneIsTrue, RunInv
    <2>8 Msg("RESULT_PASS", case, run) \in net' => Msg("RESULT_PASS", case, run) \in net
      BY <2>2
    <2> QED BY <2>1, <2>2, <2>5, <2>6, <2>7, <2>8, ServerStep
  <1>2 CASE Finished(m)
    <2>1 /\ UNCHANGED clientVars /\ UNCHANGED <<cSa, sSa>> /\ spc' = "off"
         /\ UNCHANGED <<sRun, sCase, sLast, sObs, sStop, sConn>>
         /\ ReplyNativeAppAlgorithmServer(m, "FINISHED")
      BY <1>2 DEF Finished
    <2>2 /\ NetInv' /\ net' \subseteq Datagrams
         /\ \A a, c, r : Msg(a, c, r) \in net' => Msg(a, c, r) \in net \/ a = "FINISHED"
      BY <2>1, ReplyFacts DEF Replies
    <2>3 ServerType' /\ DoneIsTrue' /\ (spc \in {"add", "case", "cleanup"} => sRun \in Runs)'
      BY <2>1, Facts DEF ServerType, DoneIsTrue
    <2>4 /\ Msg("RESULT_PASS", case, run) \in net' => Msg("RESULT_PASS", case, run) \in net
         /\ Msg("DONE", case, run) \in net' => Msg("DONE", case, run) \in net
      BY <2>2
    <2> QED BY <2>1, <2>2, <2>3, <2>4, ServerStep
  <1>3 CASE ReadyAgain(m)
    <2>1 /\ UNCHANGED clientVars /\ UNCHANGED <<cSa, sSa>> /\ UNCHANGED serverVars
         /\ ReplyNativeAppAlgorithmServer(m, "READY")
      BY <1>3 DEF ReadyAgain
    <2>2 /\ NetInv' /\ net' \subseteq Datagrams
         /\ \A a, c, r : Msg(a, c, r) \in net' => Msg(a, c, r) \in net \/ a = "READY"
      BY <2>1, ReplyFacts DEF Replies
    <2>3 UNCHANGED <<spc, sRun, sCase, sLast, sObs, sStop, sConn>>
      BY <2>1 DEF serverVars
    <2>4 ServerType' /\ DoneIsTrue' /\ (spc \in {"add", "case", "cleanup"} => sRun \in Runs)'
      BY <2>1, <2>3, Facts DEF ServerType, DoneIsTrue, RunInv
    <2>5 /\ Msg("RESULT_PASS", case, run) \in net' => Msg("RESULT_PASS", case, run) \in net
         /\ Msg("DONE", case, run) \in net' => Msg("DONE", case, run) \in net
      BY <2>2
    <2> QED BY <2>1, <2>2, <2>3, <2>4, <2>5, ServerStep
  <1> QED BY <1>1, <1>2, <1>3

\* VERIFY: the server examines an SA it has.
LEMMA VerifyStep ==
    ASSUME IInv, NEW m \in net, NEW ok \in BOOLEAN, Verify(m, ok)
    PROVE  IInv'
  <1>1 /\ UNCHANGED clientVars /\ UNCHANGED <<cSa, sSa>> /\ m.action = "VERIFY"
       /\ UNCHANGED <<spc, sRun, sCase, sLast, sStop, sConn>>
       /\ ok => sObs' \in sSa /\ ReplyNativeAppAlgorithmServer(m, "RESULT_PASS")
       /\ ~ok => sObs' = sObs /\ ReplyNativeAppAlgorithmServer(m, "RESULT_FAIL")
    BY DEF Verify
  <1>2 /\ NetInv' /\ net' \subseteq Datagrams
       /\ \A a, c, r : Msg(a, c, r) \in net' =>
             Msg(a, c, r) \in net \/ (a = "RESULT_PASS" /\ ok) \/ a = "RESULT_FAIL"
    BY <1>1, ReplyFacts DEF Replies
  <1>3 sObs' \in Maybe
    BY <1>1, Facts DEF ServerType, WorldType, Maybe
  <1>4 ServerType' /\ DoneIsTrue' /\ (spc \in {"add", "case", "cleanup"} => sRun \in Runs)'
    BY <1>1, <1>3, Facts DEF ServerType, DoneIsTrue, RunInv
  <1>5 /\ Msg("RESULT_PASS", case, run) \in net' => Msg("RESULT_PASS", case, run) \in net \/ ok
       /\ Msg("DONE", case, run) \in net' => Msg("DONE", case, run) \in net
    BY <1>2
  <1> QED BY <1>1, <1>2, <1>4, <1>5, ServerStep

\* The end of a case on the server: what it remembers as cleaned up is gone.
LEMMA ClosedFacts ==
    ASSUME IInv, NEW ok \in BOOLEAN, ServerCleans(ok), CaseClosed(ok),
           UNCHANGED <<sRun, sCase, sObs, sStop>>
    PROVE  /\ ServerType' /\ DoneIsTrue' /\ sSa' = sSa /\ (ok => sSa = {})
           /\ (spc \in {"add", "case", "cleanup"} => sRun \in Runs)'
  <1>1 /\ spc' = "main" /\ sLast' \in {sCase, NoCase} /\ sConn' \in {NoCase, sConn} /\ sSa' = sSa
       /\ ok => sSa = {} /\ sConn' = NoCase
       /\ ~ok => sLast' = NoCase
    BY DEF ServerCleans, CaseClosed
  <1>2 ServerType'
    BY <1>1, Facts DEF ServerType
  <1> QED BY <1>1, <1>2 DEF DoneIsTrue

\* CLEANUP or ABORT: DONE is sent when no SA is left.
LEMMA CloseStep ==
    ASSUME IInv, NEW m \in net, NEW ok \in BOOLEAN, Cleanup(m, ok)
    PROVE  IInv'
  <1>1 /\ UNCHANGED clientVars /\ UNCHANGED <<cSa, sRun, sCase, sObs, sStop>>
       /\ m.action \in {"CLEANUP", "ABORT"} /\ ServerCleans(ok) /\ CaseClosed(ok)
       /\ IF ok THEN ReplyNativeAppAlgorithmServer(m, "DONE") ELSE net' = net
    BY DEF Cleanup
  <1>2 /\ ServerType' /\ DoneIsTrue' /\ sSa' = sSa /\ (ok => sSa = {})
       /\ (spc \in {"add", "case", "cleanup"} => sRun \in Runs)'
    BY <1>1, ClosedFacts
  <1>3 CASE ok
    <2>1 /\ NetInv' /\ net' \subseteq Datagrams
         /\ \A a, c, r : Msg(a, c, r) \in net' => Msg(a, c, r) \in net \/ a = "DONE"
      BY <1>1, <1>3, ReplyFacts DEF Replies
    <2>2 Msg("RESULT_PASS", case, run) \in net' => Msg("RESULT_PASS", case, run) \in net
      BY <2>1
    <2> QED BY <1>1, <1>2, <1>3, <2>1, <2>2, ServerStep
  <1>4 CASE ~ok
    BY <1>1, <1>2, <1>4, ServerSilent
  <1> QED BY <1>3, <1>4

\* PREPARE opens a case.
LEMMA OpenStep ==
    ASSUME IInv, NEW m \in net, OpenCase(m)
    PROVE  IInv'
  <1>1 /\ UNCHANGED clientVars /\ UNCHANGED <<net, cSa, sLast, sObs, sStop, sConn, sSa>>
       /\ spc' = "add" /\ sRun' = m.run /\ sCase' = m.case
    BY DEF OpenCase
  <1>2 m.case \in Maybe /\ m.run \in Runs
    BY Facts, MsgParts DEF WorldType
  <1>3 m.run \in 0 .. MaxRuns
    BY <1>2, CaseNumbers DEF Runs
  <1>4 ServerType' /\ DoneIsTrue' /\ (spc \in {"add", "case", "cleanup"} => sRun \in Runs)'
    BY <1>1, <1>2, <1>3, Facts DEF ServerType, DoneIsTrue
  <1> QED BY <1>1, <1>4, ServerSilent

\* The server loads the case's connection and says so.
LEMMA ServerAddStep ==
    ASSUME IInv, NEW ok \in BOOLEAN, ServerAdd(ok)
    PROVE  IInv'
  <1>1 /\ UNCHANGED clientVars /\ UNCHANGED <<cSa, sRun, sCase, sObs, sStop, sSa>>
       /\ spc = "add" /\ sConn' \in {sCase, sConn}
       /\ ok => spc' = "case" /\ net' = net \cup {Msg("READY", sCase, sRun)} /\ sLast' = sLast
       /\ ~ok => spc' = "main" /\ sLast' = NoCase /\ net' = net
    BY DEF ServerAdd, CaseClosed
  <1>2 sRun \in Runs /\ sCase \in Maybe
    BY <1>1, Facts DEF RunInv, ServerType
  <1>3 ServerType' /\ DoneIsTrue' /\ (spc \in {"add", "case", "cleanup"} => sRun \in Runs)'
    BY <1>1, <1>2, Facts DEF ServerType, DoneIsTrue
  <1>4 CASE ok
    <2>1 UNCHANGED <<cpc, run, case>>
      BY <1>1 DEF clientVars
    <2>2 NetInv' /\ net' \subseteq Datagrams
      BY <1>1, <1>2, <1>4, <2>1, NetReply DEF Replies
    <2>3 \A a, c, r : Msg(a, c, r) \in net' => Msg(a, c, r) \in net \/ a = "READY"
      BY <1>1, <1>4, NetGrows
    <2>4 /\ Msg("RESULT_PASS", case, run) \in net' => Msg("RESULT_PASS", case, run) \in net
         /\ Msg("DONE", case, run) \in net' => Msg("DONE", case, run) \in net
      BY <2>3
    <2> QED BY <1>1, <1>3, <2>2, <2>4, ServerStep
  <1>5 CASE ~ok
    BY <1>1, <1>3, <1>5, ServerSilent
  <1> QED BY <1>4, <1>5

\* The steps of the server that send nothing, and a DELETE that reaches its charon.
LEMMA ServerQuietStep ==
    ASSUME IInv, NEW ok \in BOOLEAN,
           StartServer \/ StopServer \/ LeaveCase \/ LastCleanup(ok) \/ EndServer \/ SaDeleted
    PROVE  IInv'
  <1>1 CASE StartServer
    <2>1 /\ UNCHANGED clientVars /\ UNCHANGED <<net, cSa, sObs, sConn, sSa>>
         /\ spc' = "main" /\ sRun' = 0 /\ sCase' = NoCase /\ sLast' = NoCase /\ sStop' = FALSE
      BY <1>1 DEF StartServer
    <2>2 ServerType' /\ DoneIsTrue' /\ (spc \in {"add", "case", "cleanup"} => sRun \in Runs)'
      <3>1 0 \in 0 .. MaxRuns
        BY CaseNumbers
      <3> QED BY <2>1, <3>1, Facts DEF ServerType, DoneIsTrue
    <2> QED BY <2>1, <2>2, ServerSilent
  <1>2 CASE StopServer \/ LeaveCase \/ EndServer
    <2>1 /\ UNCHANGED clientVars /\ UNCHANGED <<net, cSa, sRun, sCase, sLast, sObs, sConn, sSa>>
         /\ sStop' \in BOOLEAN
         /\ spc' = spc \/ (spc = "case" /\ spc' = "cleanup") \/ spc' = "off"
      BY <1>2, Facts DEF StopServer, LeaveCase, EndServer, ServerType
    <2>2 ServerType' /\ DoneIsTrue' /\ (spc \in {"add", "case", "cleanup"} => sRun \in Runs)'
      BY <2>1, Facts DEF ServerType, DoneIsTrue, RunInv
    <2> QED BY <2>1, <2>2, ServerSilent
  <1>3 CASE LastCleanup(ok)
    <2>1 /\ UNCHANGED clientVars /\ UNCHANGED <<net, cSa, sRun, sCase, sObs, sStop>>
         /\ ServerCleans(ok) /\ CaseClosed(ok)
      BY <1>3 DEF LastCleanup
    <2> QED BY <2>1, ClosedFacts, ServerSilent
  <1>4 CASE SaDeleted
    <2>1 /\ UNCHANGED clientVars /\ UNCHANGED serverVars /\ UNCHANGED <<net, cSa>>
         /\ sSa' \subseteq sSa
      BY <1>4 DEF SaDeleted
    <2>2 UNCHANGED <<spc, sRun, sCase, sLast, sObs, sStop, sConn>>
      BY <2>1 DEF serverVars
    <2>3 ServerType' /\ DoneIsTrue' /\ (spc \in {"add", "case", "cleanup"} => sRun \in Runs)'
      BY <2>1, <2>2, Facts DEF ServerType, DoneIsTrue, RunInv
    <2> QED BY <2>1, <2>2, <2>3, ServerSilent
  <1> QED BY <1>1, <1>2, <1>3, <1>4

-----------------------------------------------------------------------------
(* The theorems.                                                           *)

\* The invariant holds initially.
LEMMA InvariantInit == Init => IInv
  <1> SUFFICES ASSUME Init PROVE IInv
    OBVIOUS
  <1>1 ClientType /\ ServerType /\ WorldType
    <2>1 0 \in 0 .. MaxRuns /\ 1 \in Cases /\ NoCase \in Maybe
      BY CaseNumbers DEF Maybe
    <2> QED BY <2>1 DEF Init, ClientType, ServerType, WorldType, ClientCalls
  <1>2 RunInv /\ NetInv /\ SaInv /\ VerdictInv /\ DoneIsTrue
    BY DEF Init, RunInv, NetInv, SaInv, VerdictInv, DoneIsTrue
  <1> QED BY <1>1, <1>2, TypeParts DEF IInv

\* Every step preserves it.
LEMMA InvariantStep == IInv /\ [Next]_vars => IInv'
  <1> SUFFICES ASSUME IInv, [Next]_vars PROVE IInv'
    OBVIOUS
  <1>1 CASE StartRun \/ StopClient
    BY <1>1, StartRunStep, QuietStep
  <1>2 CASE Client
    BY <1>2, PrepareStep, AddStep, NegotiateStep, QueryStep, CleanupStep, RequestStep, ResultStep,
       DoneStep, QuietStep DEF Client
  <1>3 CASE ServerReceives
    BY <1>3, AnswerStep, OpenStep, VerifyStep, CloseStep DEF ServerReceives
  <1>4 ASSUME NEW ok \in BOOLEAN,
              StartServer \/ StopServer \/ LeaveCase \/ LastCleanup(ok) \/ EndServer \/ SaDeleted
       PROVE  IInv'
    BY <1>4, ServerQuietStep
  <1>5 CASE ServerCase
    BY <1>4, <1>5, ServerAddStep DEF ServerCase
  <1>6 CASE UNCHANGED vars
    <2>1 /\ UNCHANGED clientVars /\ UNCHANGED <<net, cSa, sSa>>
         /\ UNCHANGED <<spc, sRun, sCase, sLast, sObs, sStop, sConn>>
      BY <1>6 DEF vars, serverVars
    <2>2 ServerType' /\ DoneIsTrue' /\ (spc \in {"add", "case", "cleanup"} => sRun \in Runs)'
      BY <2>1, Facts DEF ServerType, DoneIsTrue, RunInv
    <2> QED BY <2>1, <2>2, ServerSilent
  <1>7 TRUE \in BOOLEAN
    OBVIOUS
  <1> QED BY <1>1, <1>2, <1>3, <1>4, <1>5, <1>6, <1>7 DEF Next

\* The invariant holds of every behaviour.
LEMMA Invariant == Spec => []IInv
  BY InvariantInit, InvariantStep, PTL DEF Spec

\* Both programs, both daemons and the network keep their types.
THEOREM RunTypes == Spec => []TypeOK
  <1>1 IInv => TypeOK
    BY DEF IInv
  <1> QED BY <1>1, Invariant, PTL

\* When the server answers a repeated CLEANUP from memory, nothing of any case is left
\* in its daemon, however often the request was sent and to whichever run it belongs.
THEOREM RememberedDoneIsTrue == Spec => []DoneIsTrue
  <1>1 IInv => DoneIsTrue
    BY DEF IInv
  <1> QED BY <1>1, Invariant, PTL

\* For any number of cases and runs, and whatever the network loses, repeats or delays:
\* as long as no case was reported as failed, a case that passes was judged on both
\* hosts by the SA it negotiated itself.
THEOREM PassesAreOwn == Spec => []PassIsOwn
  <1>1 IInv => PassIsOwn
    BY DEF IInv, VerdictInv, PassIsOwn
  <1> QED BY <1>1, Invariant, PTL

\* Cases that were all reported as passed have left no SA on either host and no
\* connection on the client's, also when the next run begins.
THEOREM PassesLeaveNothing == Spec => []PassLeavesNothing
  <1>1 IInv => PassLeavesNothing
    BY DEF IInv, SaInv, PassLeavesNothing
  <1> QED BY <1>1, Invariant, PTL

=============================================================================
