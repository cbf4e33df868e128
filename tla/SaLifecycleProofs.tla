-------------------------- MODULE SaLifecycleProofs --------------------------
(***************************************************************************)
(* Theorems about SaLifecycle: for any number of SAs, of rounds, of        *)
(* cleanup attempts, of programs and of commands that charon performs      *)
(* late.                                                                   *)
(***************************************************************************)
EXTENDS SaLifecycle, FiniteSetTheorems, TLAPS

-----------------------------------------------------------------------------
(* The inductive invariant.                                                *)

\* Which program can be at which call; nothing is reported before the end.
FlowInv ==
    /\ pc # "idle" => result = "none"
    /\ program \in {"loop", "client", "server"} => start # "await_child"
    /\ pc = "load" => program # "down"
    /\ pc \in {"ike", "await_ike", "child", "await_child"} => program \in {"up", "loop", "client"}
    /\ pc = "verify" => program \in {"loop", "client", "server"}
    /\ pc = "serve" => program = "server"
    /\ pc = "terminate" => program \in {"down", "loop", "client"}
    /\ pc = "wait" => program \in {"loop", "client", "server"}
    /\ pc \in {"check", "final", "final_check"} => program \in {"client", "server"}

\* Nobody brings up an SA of the connection: no command is performed late, and no
\* peer initiates, because charon has no definition or expects no peer.
Steady == ~disturbed /\ (program = "loop" \/ ~loaded)

\* A round that has seen nothing so far has looked at things that stay away.
RoundInv ==
    pc \in {"wait", "final"} =>
        /\ my.next > 1 => my.rounds > 0
        /\ Steady /\ my.seen = {} =>
              /\ my.next > 1 => Sas = {}
              /\ my.next > 3 /\ my.reqid => kernel = {}

\* What a program that has had no error knows when it is about to report.
EndInv ==
    /\ program = "loop" /\ pc \in {"terminate", "wait", "remove"} /\ my.ok => my.reqid
    /\ pc = "remove" /\ program = "loop" /\ my.ok /\ ~disturbed => Sas = {} /\ kernel = {}
    /\ pc = "remove" /\ program = "down" /\ my.ok /\ ~disturbed /\ start # "await_child"
          => Sas = {}
    /\ pc = "final_check" /\ my.ok /\ ~disturbed /\ ~loaded
          => Sas = {} /\ (my.reqid => kernel = {})

IInv ==
    /\ TypeOK
    /\ FlowInv
    /\ RoundInv
    /\ EndInv
    /\ VerifiedIsClean
    /\ SuccessLeavesNothing

-----------------------------------------------------------------------------
(* Types.                                                                  *)

Calls == {"idle", "load", "ike", "await_ike", "child", "await_child", "verify",
          "terminate", "wait", "remove", "serve", "check", "final", "final_check"}

Locals == [ok : BOOLEAN, mine : BOOLEAN, reqid : BOOLEAN, next : 1 .. 4,
           attempt : 0 .. CleanupAttempts - 1,
           seen : SUBSET {Queries[q] : q \in 1 .. 4}, rounds : 0 .. Rounds]

ProgramType ==
    /\ pc \in Calls /\ program \in Programs /\ start \in Starts
    /\ stop \in BOOLEAN /\ my \in Locals /\ result \in Results
    /\ programs \in 0 .. MaxPrograms

WorldType ==
    /\ loaded \in BOOLEAN /\ disturbed \in BOOLEAN
    /\ sa \in [SaIds -> SaStates] /\ kernel \subseteq SaIds
    /\ late \subseteq Commands /\ Cardinality(late) <= MaxLate

\* The type invariant in two halves.
LEMMA TypeHalves == TypeOK <=> ProgramType /\ WorldType
  BY DEF TypeOK, ProgramType, WorldType, Calls, Locals

\* The same of the next state.
LEMMA TypeHalvesNext == TypeOK' <=> ProgramType' /\ WorldType'
  BY DEF TypeOK, ProgramType, WorldType, Calls, Locals

\* The constants as the arithmetic needs them.
LEMMA Bounds ==
    /\ Rounds \in Nat /\ Rounds > 0 /\ CleanupAttempts \in Nat /\ CleanupAttempts > 0
    /\ MaxPrograms \in Nat /\ MaxLate \in Nat
  BY LifecycleConstants

\* The locals of a program that has not begun.
LEMMA FreshType ==
    /\ Fresh \in Locals
    /\ Fresh.ok = TRUE /\ Fresh.mine = FALSE /\ Fresh.reqid = FALSE
  <1>1 0 \in 0 .. CleanupAttempts - 1 /\ Rounds \in 0 .. Rounds /\ 1 \in 1 .. 4
    BY Bounds
  <1>2 {} \in SUBSET {Queries[q] : q \in 1 .. 4}
    OBVIOUS
  <1> QED BY <1>1, <1>2 DEF Fresh, Locals

\* A loop of rounds begins with its first query, having seen nothing.
LEMMA BeginType ==
    ASSUME NEW l \in Locals, NEW n \in 0 .. Rounds
    PROVE  /\ Begin(l, n) \in Locals
           /\ Begin(l, n).next = 1 /\ Begin(l, n).seen = {} /\ Begin(l, n).rounds = n
           /\ Begin(l, n).ok = l.ok /\ Begin(l, n).reqid = l.reqid /\ Begin(l, n).mine = l.mine
           /\ Begin(l, n).attempt = l.attempt
  <1> DEFINE AllSeen == SUBSET {Queries[q] : q \in 1 .. 4}
             Nexts == 1 .. 4
             Attempts == 0 .. CleanupAttempts - 1
             Counts == 0 .. Rounds
  <1>1 {} \in AllSeen /\ 1 \in Nexts /\ n \in Counts
    OBVIOUS
  <1>2 l \in [ok : BOOLEAN, mine : BOOLEAN, reqid : BOOLEAN, next : Nexts, attempt : Attempts,
              seen : AllSeen, rounds : Counts]
    BY DEF Locals
  <1> HIDE DEF AllSeen, Nexts, Attempts, Counts
  <1>3 Begin(l, n) \in [ok : BOOLEAN, mine : BOOLEAN, reqid : BOOLEAN, next : Nexts,
                        attempt : Attempts, seen : AllSeen, rounds : Counts]
    BY <1>1, <1>2 DEF Begin
  <1>4 Begin(l, n) \in Locals
    BY <1>3 DEF AllSeen, Nexts, Attempts, Counts, Locals
  <1>5 /\ Begin(l, n).next = 1 /\ Begin(l, n).seen = {} /\ Begin(l, n).rounds = n
       /\ Begin(l, n).ok = l.ok /\ Begin(l, n).reqid = l.reqid /\ Begin(l, n).mine = l.mine
       /\ Begin(l, n).attempt = l.attempt
    BY <1>2 DEF Begin
  <1> QED BY <1>4, <1>5

\* What charon does with a command keeps the world well typed.
LEMMA PerformType ==
    ASSUME WorldType, NEW command, NEW complete \in BOOLEAN, Perform(command, complete)
    PROVE  /\ loaded' \in BOOLEAN /\ sa' \in [SaIds -> SaStates] /\ kernel' \subseteq SaIds
  <1> USE DEF WorldType
  <1>1 ASSUME NEW st \in {"up", "connecting", "installed"}, NewSa(st)
       PROVE  sa' \in [SaIds -> SaStates] /\ kernel' \subseteq SaIds
    BY <1>1 DEF NewSa, SaStates
  <1>2 ASSUME NewChild PROVE sa' \in [SaIds -> SaStates] /\ kernel' \subseteq SaIds
    BY <1>2 DEF NewChild, SaStates
  <1>3 ASSUME Terminating PROVE sa' \in [SaIds -> SaStates] /\ kernel' \subseteq SaIds
    BY <1>3 DEF Terminating, SaStates
  <1>4 CASE command \in {"load", "remove"}
    BY <1>4 DEF Perform
  <1>5 CASE command = "ike"
    BY <1>1, <1>5 DEF Perform
  <1>6 CASE command = "child"
    BY <1>1, <1>2, <1>6 DEF Perform
  <1>7 CASE command = "terminate"
    BY <1>3, <1>7 DEF Perform, SaStates
  <1> QED BY <1>4, <1>5, <1>6, <1>7 DEF Perform

\* A command keeps the world well typed and is not itself a late one.
LEMMA CommandType ==
    ASSUME WorldType, NEW command \in Commands, NEW ok \in BOOLEAN, NEW complete \in BOOLEAN,
           Command(command, ok, complete)
    PROVE  WorldType' /\ disturbed' = disturbed
  <1>1 CASE Perform(command, ok /\ complete) /\ UNCHANGED late
    BY <1>1, PerformType DEF Command, WorldType
  <1>2 CASE /\ UNCHANGED <<loaded, sa, kernel>>
            /\ late' \in {late} \cup {l \in {late \cup {command}} : Cardinality(l) <= MaxLate}
    BY <1>2 DEF Command, WorldType
  <1> QED BY <1>1, <1>2 DEF Command

-----------------------------------------------------------------------------
(* Where a step of the program can lead.                                   *)

\* A call that claims nothing about charon.
LEMMA ToPlain ==
    ASSUME IInv, WorldType', pc # "idle",
           NEW to \in {"ike", "await_ike", "child", "await_child", "verify", "serve", "check"},
           NEW l \in Locals, Go(to, l),
           to \in {"ike", "await_ike", "child", "await_child"} =>
               program \in {"up", "loop", "client"},
           to = "verify" => program \in {"loop", "client", "server"},
           to = "serve" => program = "server",
           to = "check" => program \in {"client", "server"}
    PROVE  IInv'
  <1> USE DEF IInv
  <1>1 TypeOK'
    BY TypeHalves, TypeHalvesNext DEF Go, ProgramType, Calls, programVars
  <1>2 FlowInv'
    BY DEF FlowInv, Go, programVars
  <1>3 RoundInv' /\ EndInv' /\ VerifiedIsClean' /\ SuccessLeavesNothing'
    BY DEF RoundInv, EndInv, VerifiedIsClean, SuccessLeavesNothing, Reported, Go
  <1> QED BY <1>1, <1>2, <1>3

\* The termination, and a new loop of rounds.
LEMMA ToRounds ==
    ASSUME IInv, WorldType', pc # "idle", NEW to \in {"terminate", "wait", "final"},
           NEW l \in Locals, Go(to, l),
           program = "loop" /\ l.ok => l.reqid,
           to = "terminate" => program \in {"down", "loop", "client"},
           to = "wait" => program \in {"loop", "client", "server"} /\ l.next = 1,
           to = "final" => program \in {"client", "server"} /\ l.next = 1
    PROVE  IInv'
  <1> USE DEF IInv
  <1>1 TypeOK'
    BY TypeHalves, TypeHalvesNext DEF Go, ProgramType, Calls, programVars
  <1>2 FlowInv'
    BY DEF FlowInv, Go, programVars
  <1>3 RoundInv' /\ EndInv' /\ VerifiedIsClean' /\ SuccessLeavesNothing'
    BY DEF RoundInv, EndInv, VerifiedIsClean, SuccessLeavesNothing, Reported, Go, programVars
  <1> QED BY <1>1, <1>2, <1>3

\* The unload, and the last look at the connection list.
LEMMA ToEnd ==
    ASSUME IInv, WorldType', pc # "idle", NEW to \in {"remove", "final_check"},
           NEW l \in Locals, Go(to, l),
           to = "final_check" => program \in {"client", "server"},
           program = "loop" /\ l.ok => l.reqid,
           to = "remove" /\ program = "loop" /\ l.ok /\ ~disturbed' => Sas' = {} /\ kernel' = {},
           to = "remove" /\ program = "down" /\ l.ok /\ ~disturbed' /\ start # "await_child"
               => Sas' = {},
           to = "final_check" /\ l.ok /\ ~disturbed' /\ ~loaded'
               => Sas' = {} /\ (l.reqid => kernel' = {})
    PROVE  IInv'
  <1> USE DEF IInv
  <1>1 TypeOK'
    BY TypeHalves, TypeHalvesNext DEF Go, ProgramType, Calls, programVars
  <1>2 FlowInv'
    BY DEF FlowInv, Go, programVars
  <1>3 RoundInv' /\ EndInv' /\ VerifiedIsClean' /\ SuccessLeavesNothing'
    BY DEF RoundInv, EndInv, VerifiedIsClean, SuccessLeavesNothing, Reported, Go, programVars
  <1> QED BY <1>1, <1>2, <1>3

\* A report, which is only as good as what charon and the kernel have.
LEMMA ToReport ==
    ASSUME IInv, WorldType', NEW ok \in BOOLEAN, Return(ok),
           ok /\ program \in {"client", "server"} /\ ~disturbed'
               => ~loaded' /\ Sas' = {} /\ (my.reqid => kernel' = {}),
           ok /\ program = "loop" /\ ~disturbed' => ~loaded' /\ Sas' = {} /\ kernel' = {},
           ok /\ program = "down" /\ ~disturbed'
               => (my.mine => ~loaded') /\ (start # "await_child" => Sas' = {})
    PROVE  IInv'
  <1> USE DEF IInv
  <1>0 my \in Locals
    BY TypeHalves DEF ProgramType
  <1>1 my' \in Locals /\ my'.reqid = my.reqid /\ my'.mine = my.mine
    <2>1 my.reqid \in BOOLEAN /\ my.mine \in BOOLEAN
      BY <1>0 DEF Locals
    <2>2 my' = [Fresh EXCEPT !.reqid = my.reqid, !.mine = my.mine]
      BY DEF Return
    <2> DEFINE f == Fresh
    <2>3 f \in Locals /\ my' = [f EXCEPT !.reqid = my.reqid, !.mine = my.mine]
      BY <2>2, FreshType
    <2> HIDE DEF f
    <2> QED BY <2>1, <2>3 DEF Locals
  <1>2 TypeOK'
    BY <1>1, TypeHalves, TypeHalvesNext DEF Return, ProgramType, Calls, Results, programVars
  <1>3 FlowInv' /\ RoundInv' /\ EndInv'
    BY DEF FlowInv, RoundInv, EndInv, Return, programVars
  <1>4 VerifiedIsClean' /\ SuccessLeavesNothing'
    BY <1>1 DEF VerifiedIsClean, SuccessLeavesNothing, Reported, Return, programVars
  <1> QED BY <1>2, <1>3, <1>4

\* The types of the locals one by one.
LEMMA LocalTypes ==
    ASSUME IInv
    PROVE  /\ my \in Locals /\ ProgramType /\ WorldType
           /\ my.ok \in BOOLEAN /\ my.mine \in BOOLEAN /\ my.reqid \in BOOLEAN
           /\ my.next \in 1 .. 4 /\ my.rounds \in 0 .. Rounds
           /\ my.attempt \in 0 .. CleanupAttempts - 1
           /\ my.seen \in SUBSET {Queries[q] : q \in 1 .. 4}
  <1>1 ProgramType /\ WorldType
    BY TypeHalves DEF IInv
  <1>2 my \in Locals
    BY <1>1 DEF ProgramType
  <1> QED BY <1>1, <1>2 DEF Locals

-----------------------------------------------------------------------------
(* The steps of the program.                                               *)

\* The end of the start, whatever it was.
LEMMA StartEndsStep ==
    ASSUME IInv, WorldType', NEW ok \in BOOLEAN, StartEnds(ok),
           pc \in {"ike", "await_ike", "child", "await_child"}
    PROVE  IInv'
  <1> DEFINE b == Begin(my, Rounds).ok /\ ok
             l == [Begin(my, Rounds) EXCEPT !.ok = b]
  <1>1 program \in {"up", "loop", "client"} /\ Rounds \in 0 .. Rounds
    BY Bounds DEF IInv, FlowInv
  <1>2 my.ok \in BOOLEAN /\ Begin(my, Rounds).ok = my.ok
    BY <1>1, LocalTypes, BeginType
  <1>3 l \in Locals /\ l.ok = (my.ok /\ ok)
    <2>1 b \in BOOLEAN /\ b = (my.ok /\ ok)
      BY <1>2
    <2> DEFINE r == Begin(my, Rounds)
    <2>2 r \in Locals
      BY <1>1, LocalTypes, BeginType
    <2> HIDE DEF b, r
    <2>3 [r EXCEPT !.ok = b] \in Locals /\ [r EXCEPT !.ok = b].ok = b
      BY <2>1, <2>2 DEF Locals
    <2> QED BY <2>1, <2>3 DEF r
  <1>4 CASE AfterStart(ok) = "idle"
    BY <1>1, <1>4, ToReport DEF StartEnds, AfterStart
  <1>5 CASE AfterStart(ok) # "idle"
    <2>1 Go(AfterStart(ok), l)
      BY <1>5 DEF StartEnds
    <2> HIDE DEF l
    <2>2 CASE AfterStart(ok) = "remove"
      BY <2>1, <2>2, <1>1, <1>3, ToEnd DEF AfterStart
    <2>3 CASE AfterStart(ok) = "verify"
      BY <2>1, <2>3, <1>1, <1>3, ToPlain DEF AfterStart
    <2>4 CASE AfterStart(ok) = "terminate"
      <3>1 program = "loop" /\ ~ok
        BY <2>4, <1>1 DEF AfterStart
      <3> QED BY <3>1, <2>1, <2>4, <1>3, ToRounds
    <2> QED BY <1>1, <1>5, <2>2, <2>3, <2>4 DEF AfterStart
  <1> QED BY <1>4, <1>5

\* Loading the connection.
LEMMA LoadStep ==
    ASSUME IInv, NEW ok \in BOOLEAN, AddIpsecConnection(ok)
    PROVE  IInv'
  <1>1 WorldType' /\ pc = "load"
    BY LocalTypes, CommandType DEF AddIpsecConnection, Commands
  <1>2 CASE ok /\ program = "server" /\ Go("serve", my)
    BY <1>1, <1>2, LocalTypes, ToPlain
  <1>3 CASE ok /\ program # "server" /\ Go(start, [my EXCEPT !.mine = (program = "up")])
    <2> DEFINE b == program = "up"
               l == [my EXCEPT !.mine = b]
    <2>1 l \in Locals
      <3>1 b \in BOOLEAN /\ my \in Locals
        BY LocalTypes
      <3> HIDE DEF b
      <3> QED BY <3>1 DEF Locals
    <2>2 Go(start, l)
      BY <1>3
    <2>3 start \in {"ike", "child", "await_child"} /\ program \in {"up", "loop", "client"}
      BY <1>1, <1>3, LocalTypes DEF ProgramType, Starts, Programs, IInv, FlowInv
    <2> HIDE DEF l
    <2> QED BY <1>1, <2>1, <2>2, <2>3, ToPlain
  <1>4 CASE pc' = "idle" /\ my' = Fresh /\ UNCHANGED <<programVars, result>>
    <2>1 TypeOK'
      BY <1>1, <1>4, FreshType, LocalTypes, TypeHalvesNext DEF ProgramType, Calls, programVars
    <2>2 result = "none"
      BY <1>1 DEF IInv, FlowInv
    <2>3 FlowInv' /\ RoundInv' /\ EndInv'
      BY <1>4 DEF IInv, FlowInv, RoundInv, EndInv, programVars
    <2>4 VerifiedIsClean' /\ SuccessLeavesNothing'
      BY <1>4, <2>2 DEF VerifiedIsClean, SuccessLeavesNothing, Reported
    <2> QED BY <2>1, <2>3, <2>4 DEF IInv
  <1>5 CASE ~ok /\ program # "client" /\ Return(FALSE)
    BY <1>1, <1>5, ToReport
  <1> QED BY <1>2, <1>3, <1>4, <1>5 DEF AddIpsecConnection

\* A refused credential, the initiations and the waits for what they bring up.
LEMMA StartStep ==
    ASSUME IInv, NEW ok \in BOOLEAN,
           \/ CredentialRefused
           \/ InitiateIpsecIke(ok)
           \/ InitiateIpsecChild(ok)
           \/ WaitIpsecIkeEstablished(ok)
           \/ WaitIpsecChildInstalled(ok)
    PROVE  IInv'
  <1>1 CASE CredentialRefused
    <2>1 WorldType'
      BY <1>1, LocalTypes DEF CredentialRefused, WorldType, worldVars
    <2>2 pc \in {"ike", "child", "await_child"} /\ StartEnds(FALSE)
      BY <1>1, LocalTypes DEF CredentialRefused, ProgramType, Starts
    <2> QED BY <2>1, <2>2, StartEndsStep
  <1>2 CASE InitiateIpsecIke(ok)
    <2>1 WorldType' /\ pc = "ike"
      BY <1>2, LocalTypes, CommandType DEF InitiateIpsecIke, Commands
    <2>2 CASE ok
      <3>1 Go("await_ike", my) /\ program \in {"up", "loop", "client"}
        BY <1>2, <2>1, <2>2 DEF InitiateIpsecIke, IInv, FlowInv
      <3> QED BY <2>1, <3>1, LocalTypes, ToPlain
    <2>3 CASE ~ok
      BY <1>2, <2>1, <2>3, StartEndsStep DEF InitiateIpsecIke
    <2> QED BY <2>2, <2>3
  <1>3 CASE InitiateIpsecChild(ok)
    <2>1 WorldType' /\ pc = "child"
      BY <1>3, LocalTypes, CommandType DEF InitiateIpsecChild, Commands
    <2>2 CASE ok
      <3>1 Go("await_child", my) /\ program \in {"up", "loop", "client"}
        BY <1>3, <2>1, <2>2 DEF InitiateIpsecChild, IInv, FlowInv
      <3> QED BY <2>1, <3>1, LocalTypes, ToPlain
    <2>3 CASE ~ok
      BY <1>3, <2>1, <2>3, StartEndsStep DEF InitiateIpsecChild
    <2> QED BY <2>2, <2>3
  <1>4 CASE WaitIpsecIkeEstablished(ok)
    <2>1 WorldType' /\ pc = "await_ike"
      BY <1>4, LocalTypes DEF WaitIpsecIkeEstablished, WorldType, worldVars
    <2>2 CASE ok
      <3>1 Go("child", my) /\ program \in {"up", "loop", "client"}
        BY <1>4, <2>1, <2>2 DEF WaitIpsecIkeEstablished, IInv, FlowInv
      <3> QED BY <2>1, <3>1, LocalTypes, ToPlain
    <2>3 CASE ~ok
      BY <1>4, <2>1, <2>3, StartEndsStep DEF WaitIpsecIkeEstablished
    <2> QED BY <2>2, <2>3
  <1>5 CASE WaitIpsecChildInstalled(ok)
    <2>1 WorldType' /\ pc = "await_child"
      BY <1>5, LocalTypes DEF WaitIpsecChildInstalled, WorldType, worldVars
    <2> QED BY <1>5, <2>1, StartEndsStep DEF WaitIpsecChildInstalled
  <1> QED BY <1>1, <1>2, <1>3, <1>4, <1>5

\* A query adds itself to what the round has seen.
LEMMA QueryType ==
    ASSUME IInv, NEW sees \in BOOLEAN
    PROVE  /\ Look(sees) \in Locals
           /\ Look(sees).seen = IF sees THEN my.seen \cup {Query} ELSE my.seen
           /\ Look(sees).next = my.next
  <1> DEFINE AllSeen == {Queries[q] : q \in 1 .. 4}
             new == IF sees THEN my.seen \cup {Query} ELSE my.seen
  <1>1 Query \in AllSeen /\ my.seen \in SUBSET AllSeen
    BY LocalTypes DEF Query
  <1>2 new \in SUBSET AllSeen
    BY <1>1
  <1>3 Look(sees) = [my EXCEPT !.seen = new]
    BY DEF Look
  <1> HIDE DEF new
  <1>4 my \in Locals
    BY LocalTypes
  <1>5 /\ [my EXCEPT !.seen = new] \in Locals /\ [my EXCEPT !.seen = new].seen = new
       /\ [my EXCEPT !.seen = new].next = my.next
    BY <1>2, <1>4 DEF Locals
  <1> QED BY <1>3, <1>5 DEF new

\* What a query finds is yes or no.
LEMMA FindsType == Installed \in BOOLEAN /\ Present \in BOOLEAN
  BY DEF Installed, Present

\* A look of a verification.
LEMMA VerifyStep ==
    ASSUME IInv, NEW ok \in BOOLEAN, VerifyNativeAppInstalled(ok)
    PROVE  IInv'
  <1>1 WorldType' /\ pc = "verify" /\ program \in {"loop", "client", "server"}
    BY LocalTypes DEF VerifyNativeAppInstalled, WorldType, worldVars, IInv, FlowInv
  <1>2 CASE ok /\ my.next < 4
    <2> DEFINE r == Look(Installed)
               l == [r EXCEPT !.next = r.next + 1]
    <2>1 r \in Locals /\ r.next + 1 \in 1 .. 4
      BY <1>2, FindsType, QueryType, LocalTypes
    <2>2 Go("verify", l)
      BY <1>2 DEF VerifyNativeAppInstalled
    <2>3 l \in Locals
      <3> HIDE DEF r
      <3> QED BY <2>1 DEF Locals
    <2> HIDE DEF l
    <2> QED BY <1>1, <2>2, <2>3, ToPlain
  <1>3 CASE ~(ok /\ my.next < 4)
    <2> DEFINE seen == Look(Installed).seen
               all == ok /\ Cardinality(seen) = 4
               child == my.reqid \/ (ok /\ "child" \in seen)
               r == Begin(my, Rounds)
               lAll == [r EXCEPT !.ok = all, !.reqid = all]
               lChild == [r EXCEPT !.reqid = child]
    <2>1 r \in Locals /\ r.reqid = my.reqid /\ all \in BOOLEAN /\ child \in BOOLEAN
      BY LocalTypes, BeginType, Bounds
    <2>2 /\ program = "loop" => Go("terminate", lAll)
         /\ program = "client" => Go("terminate", lChild)
         /\ program = "server" => Go("serve", lChild)
      BY <1>1, <1>3, <2>1 DEF VerifyNativeAppInstalled, Verified
    <2>3 lAll \in Locals /\ lAll.ok = all /\ lAll.reqid = all /\ lChild \in Locals
      <3> HIDE DEF r, all, child
      <3> QED BY <2>1 DEF Locals
    <2> HIDE DEF lAll, lChild, all, child
    <2>4 CASE program = "loop"
      BY <1>1, <2>2, <2>3, <2>4, ToRounds
    <2>5 CASE program = "client"
      BY <1>1, <2>2, <2>3, <2>5, ToRounds
    <2>6 CASE program = "server"
      BY <1>1, <2>2, <2>3, <2>6, ToPlain
    <2> QED BY <1>1, <2>4, <2>5, <2>6
  <1> QED BY <1>2, <1>3

\* The end of a removal wait, which claims a removal only of what it saw removed.
LEMMA RemovalEndsStep ==
    ASSUME IInv, UNCHANGED worldVars, NEW removed \in BOOLEAN, RemovalEnds(removed),
           pc \in {"wait", "final"},
           removed /\ Steady => Sas = {} /\ (my.reqid => kernel = {})
    PROVE  IInv'
  <1>1 WorldType' /\ my \in Locals
    BY LocalTypes DEF WorldType, worldVars
  <1>2 program \in {"loop", "client", "server"} /\ (pc = "final" => program # "loop")
    BY DEF IInv, FlowInv
  <1>3 Sas' = Sas /\ kernel' = kernel /\ disturbed' = disturbed /\ loaded' = loaded
    BY DEF worldVars, Sas
  <1> DEFINE b == my.ok /\ removed
             lOk == [my EXCEPT !.ok = b]
             lFirst == [my EXCEPT !.attempt = 0]
  <1>4 lOk \in Locals /\ lOk.ok = (my.ok /\ removed) /\ lOk.reqid = my.reqid
    <2>1 b \in BOOLEAN
      BY LocalTypes
    <2>2 b = (my.ok /\ removed)
      OBVIOUS
    <2> HIDE DEF b
    <2>3 lOk \in Locals /\ lOk.ok = b /\ lOk.reqid = my.reqid
      BY <1>1, <2>1 DEF Locals
    <2> QED BY <2>2, <2>3
  <1>5 lFirst \in Locals
    BY <1>1, Bounds DEF Locals
  <1>6 CASE pc = "final"
    <2>1 Go("final_check", lOk)
      BY <1>6 DEF RemovalEnds
    <2>2 lOk.ok /\ ~disturbed' /\ ~loaded' => Sas' = {} /\ (lOk.reqid => kernel' = {})
      BY <1>3, <1>4 DEF Steady
    <2> HIDE DEF lOk
    <2> QED BY <1>1, <1>2, <1>4, <1>6, <2>1, <2>2, ToEnd
  <1>7 CASE pc = "wait" /\ program = "loop"
    <2>1 Go("remove", lOk)
      BY <1>7 DEF RemovalEnds
    <2>2 lOk.ok => lOk.reqid
      BY <1>4, <1>7 DEF IInv, EndInv
    <2>3 lOk.ok /\ ~disturbed' => Sas' = {} /\ kernel' = {}
      BY <1>3, <1>4, <1>7, <2>2 DEF Steady
    <2> HIDE DEF lOk
    <2> QED BY <1>1, <1>4, <1>7, <2>1, <2>2, <2>3, ToEnd
  <1>8 CASE pc = "wait" /\ program # "loop" /\ (removed \/ LastAttempt)
    <2>1 Go("remove", lFirst)
      BY <1>8 DEF RemovalEnds
    <2> HIDE DEF lFirst
    <2> QED BY <1>1, <1>2, <1>5, <1>8, <2>1, ToEnd
  <1>9 CASE pc = "wait" /\ program # "loop" /\ ~(removed \/ LastAttempt)
    <2> DEFINE r == Begin(my, Rounds)
               l == [r EXCEPT !.attempt = r.attempt + 1]
    <2>1 r \in Locals /\ r.attempt = my.attempt /\ r.next = 1
      BY <1>1, BeginType, Bounds
    <2>2 r.attempt + 1 \in 0 .. CleanupAttempts - 1
      BY <1>9, <2>1, LocalTypes, Bounds DEF LastAttempt
    <2>3 Go(IF program = "client" THEN "terminate" ELSE "wait", l)
      BY <1>9 DEF RemovalEnds
    <2>4 l \in Locals /\ l.next = 1
      <3> HIDE DEF r
      <3> QED BY <2>1, <2>2 DEF Locals
    <2> HIDE DEF l
    <2>5 CASE program = "client"
      BY <1>1, <1>2, <1>9, <2>3, <2>4, <2>5, ToRounds
    <2>6 CASE program = "server"
      BY <1>1, <1>2, <1>9, <2>3, <2>4, <2>6, ToRounds
    <2> QED BY <1>2, <1>9, <2>5, <2>6
  <1> QED BY <1>6, <1>7, <1>8, <1>9

\* The time is over, or Ctrl-C was pressed.
LEMMA GiveUpStep ==
    ASSUME IInv, RemovalGivesUp
    PROVE  IInv'
  BY RemovalEndsStep DEF RemovalGivesUp

\* A look of a removal round.
LEMMA WaitStep ==
    ASSUME IInv, NEW ok \in BOOLEAN, WaitNativeAppRemoved(ok)
    PROVE  IInv'
  <1> DEFINE seen == Look(Present).seen
  <1>1 /\ WorldType' /\ my \in Locals /\ pc \in {"wait", "final"}
       /\ loaded' = loaded /\ kernel' = kernel /\ disturbed' = disturbed /\ Sas' = Sas
    BY LocalTypes DEF WaitNativeAppRemoved, WorldType, worldVars, Sas
  <1>2 my.rounds > 0
    BY LocalTypes DEF WaitNativeAppRemoved, IInv, RoundInv
  <1>3 seen = IF Present THEN my.seen \cup {Query} ELSE my.seen
    BY FindsType, QueryType
  <1>4 seen = {} => my.seen = {} /\ ~Present
    BY <1>3, FindsType
  <1>5 /\ my.next = 1 => Query = "ike"
       /\ my.next = 4 => Query = "policy"
       /\ my.next = 3 => Query = "state"
    BY DEF Query, Queries
  <1>6 my.next = 1 /\ ~Present => Sas = {}
    BY <1>5 DEF Present
  <1>7 my.next \in {3, 4} /\ ~Present /\ my.reqid => kernel = {}
    BY <1>5 DEF Present
  <1>8 CASE ~ok
    BY <1>1, <1>8, RemovalEndsStep DEF WaitNativeAppRemoved
  <1>9 CASE ok /\ my.next < 4
    <2> DEFINE n == my.next + 1
               l == [my EXCEPT !.seen = seen, !.next = n]
    <2>1 Go(pc, l)
      BY <1>9 DEF WaitNativeAppRemoved
    <2>2 n \in 1 .. 4 /\ seen \in SUBSET {Queries[q] : q \in 1 .. 4}
      <3>1 Look(Present) \in Locals
        BY FindsType, QueryType
      <3>2 my.next \in 1 .. 4
        BY LocalTypes
      <3> QED BY <1>9, <3>1, <3>2 DEF Locals
    <2>3 l \in Locals /\ l.next = n /\ l.seen = seen
      <3> HIDE DEF seen, n
      <3> QED BY <1>1, <2>2 DEF Locals
    <2>4 l.ok = my.ok /\ l.reqid = my.reqid /\ l.rounds = my.rounds
      <3> HIDE DEF seen, n
      <3> QED BY <1>1, <2>2 DEF Locals
    <2> HIDE DEF l, seen
    <2>5 TypeOK'
      BY <1>1, <2>1, <2>3, LocalTypes, TypeHalvesNext DEF Go, ProgramType, Calls, programVars
    <2>6 FlowInv' /\ EndInv' /\ VerifiedIsClean' /\ SuccessLeavesNothing'
      BY <1>1, <2>1, <2>4 DEF IInv, FlowInv, EndInv, VerifiedIsClean, SuccessLeavesNothing,
         Reported, Go, programVars
    <2>7 RoundInv'
      <3>1 my' = l /\ pc' = pc /\ program' = program
        BY <2>1 DEF Go, programVars
      <3>2 Steady' = Steady
        BY <1>1, <3>1 DEF Steady
      <3>3 my'.next > 1 => my'.rounds > 0
        BY <1>2, <2>4, <3>1
      <3>4 ASSUME Steady', my'.seen = {}, my'.next > 1 PROVE Sas' = {}
        <4>1 CASE my.next = 1
          BY <4>1, <3>1, <3>4, <2>3, <1>1, <1>4, <1>6
        <4>2 CASE my.next > 1
          BY <4>2, <3>1, <3>2, <3>4, <2>3, <1>1, <1>4 DEF IInv, RoundInv
        <4> QED BY <4>1, <4>2, LocalTypes
      <3>5 ASSUME Steady', my'.seen = {}, my'.next > 3, my'.reqid PROVE kernel' = {}
        <4>1 my.next = 3
          BY <1>9, <2>2, <2>3, <3>1, <3>5, LocalTypes
        <4> QED BY <4>1, <3>1, <3>5, <2>3, <2>4, <1>1, <1>4, <1>7
      <3> QED BY <3>3, <3>4, <3>5 DEF RoundInv
    <2> QED BY <2>5, <2>6, <2>7 DEF IInv
  <1>10 CASE ok /\ ~(my.next < 4) /\ seen = {}
    <2>1 RemovalEnds(TRUE)
      BY <1>10 DEF WaitNativeAppRemoved
    <2>2 my.next = 4
      BY <1>10, LocalTypes
    <2>3 Steady => Sas = {}
      BY <1>1, <1>4, <1>10, <2>2 DEF IInv, RoundInv
    <2>4 my.reqid => kernel = {}
      BY <1>4, <1>7, <1>10, <2>2
    <2>5 UNCHANGED worldVars
      BY DEF WaitNativeAppRemoved
    <2> QED BY <1>1, <2>1, <2>3, <2>4, <2>5, RemovalEndsStep
  <1>11 CASE ok /\ ~(my.next < 4) /\ seen # {}
    <2> DEFINE l == Begin(my, my.rounds - 1)
    <2>1 Go(pc, l)
      BY <1>11 DEF WaitNativeAppRemoved, AnotherRound
    <2>2 my.rounds - 1 \in 0 .. Rounds
      BY <1>2, LocalTypes, Bounds
    <2>3 l \in Locals /\ l.next = 1 /\ l.ok = my.ok /\ l.reqid = my.reqid
      BY <1>1, <2>2, BeginType
    <2>4 program = "loop" /\ l.ok => l.reqid
      BY <1>1, <2>3 DEF IInv, EndInv, FlowInv
    <2>5 /\ pc = "wait" => program \in {"loop", "client", "server"}
         /\ pc = "final" => program \in {"client", "server"}
      BY DEF IInv, FlowInv
    <2> HIDE DEF l
    <2> QED BY <1>1, <2>1, <2>3, <2>4, <2>5, ToRounds
  <1> QED BY <1>8, <1>9, <1>10, <1>11

\* A termination that charon has completed leaves no SA.
LEMMA TerminateStep ==
    ASSUME IInv, NEW ok \in BOOLEAN, TerminateIpsecIke(ok)
    PROVE  IInv'
  <1> DEFINE b == my.ok /\ ok
             l == [my EXCEPT !.ok = b]
             r == Begin(my, Rounds)
  <1>1 WorldType' /\ pc = "terminate"
    <2>1 (program # "client") \in BOOLEAN /\ "terminate" \in Commands
      BY DEF Commands
    <2> QED BY <2>1, LocalTypes, CommandType DEF TerminateIpsecIke
  <1>2 program \in {"down", "loop", "client"}
    BY <1>1 DEF IInv, FlowInv
  <1>3 ok /\ program # "client" => Sas' = {}
    BY DEF TerminateIpsecIke, Command, Perform, Sas
  <1>4 r \in Locals /\ r.next = 1 /\ r.ok = my.ok /\ r.reqid = my.reqid
    BY LocalTypes, BeginType, Bounds
  <1>5 l \in Locals /\ l.ok = (my.ok /\ ok)
    <2>1 b \in BOOLEAN /\ my \in Locals
      BY LocalTypes
    <2>2 b = (my.ok /\ ok)
      OBVIOUS
    <2> HIDE DEF b
    <2>3 l \in Locals /\ l.ok = b
      BY <2>1 DEF Locals
    <2> QED BY <2>2, <2>3
  <1>6 CASE program = "client" \/ (program = "loop" /\ ok)
    <2>1 Go("wait", r)
      BY <1>6 DEF TerminateIpsecIke, Terminated
    <2>2 program = "loop" /\ r.ok => r.reqid
      BY <1>1, <1>4 DEF IInv, EndInv
    <2> HIDE DEF r
    <2> QED BY <1>1, <1>4, <1>6, <2>1, <2>2, ToRounds
  <1>7 CASE program = "down" /\ ~my.mine
    <2>1 Return(ok)
      BY <1>7 DEF TerminateIpsecIke, Terminated
    <2> QED BY <1>1, <1>3, <1>7, <2>1, ToReport
  <1>8 CASE program = "loop" /\ ~ok
    <2>1 Go("remove", l)
      BY <1>8 DEF TerminateIpsecIke, Terminated
    <2> HIDE DEF l
    <2> QED BY <1>1, <1>5, <1>8, <2>1, ToEnd
  <1>9 CASE program = "down" /\ my.mine
    <2>1 Go("remove", l)
      BY <1>9 DEF TerminateIpsecIke, Terminated
    <2>2 l.ok => Sas' = {}
      BY <1>3, <1>5, <1>9
    <2> HIDE DEF l
    <2> QED BY <1>1, <1>5, <1>9, <2>1, <2>2, ToEnd
  <1>10 my.mine \in BOOLEAN
    BY LocalTypes
  <1> QED BY <1>2, <1>6, <1>7, <1>8, <1>9, <1>10

\* The final verification begins to look anew.
LEMMA FinalVerifyStep ==
    ASSUME IInv, pc # "idle", program \in {"client", "server"}, FinalVerify,
           loaded' \in BOOLEAN, UNCHANGED <<sa, kernel, late>>
    PROVE  IInv'
  <1> DEFINE r == Begin(my, 1)
             l == [r EXCEPT !.ok = TRUE]
  <1>1 WorldType'
    BY LocalTypes DEF WorldType, FinalVerify
  <1>2 r \in Locals /\ r.next = 1
    BY LocalTypes, BeginType, Bounds
  <1>3 Go("final", l)
    BY DEF FinalVerify
  <1>4 l \in Locals /\ l.next = 1
    <2> HIDE DEF r
    <2> QED BY <1>2 DEF Locals
  <1> HIDE DEF l
  <1> QED BY <1>1, <1>3, <1>4, ToRounds

\* Unloading, and the answer of a program that ends with it.
LEMMA RemoveStep ==
    ASSUME IInv, NEW ok \in BOOLEAN, RemoveIpsecConnection(ok)
    PROVE  IInv'
  <1>1 pc = "remove" /\ "remove" \in Commands /\ my.ok \in BOOLEAN
    BY LocalTypes DEF RemoveIpsecConnection, Commands
  <1>2 ASSUME Command("remove", ok, TRUE)
       PROVE  /\ WorldType' /\ disturbed' = disturbed /\ Sas' = Sas /\ kernel' = kernel
              /\ ok => ~loaded'
    <2>1 WorldType' /\ disturbed' = disturbed
      BY <1>1, <1>2, LocalTypes, CommandType
    <2>2 sa' = sa /\ kernel' = kernel /\ (ok => ~loaded')
      BY <1>2 DEF Command, Perform
    <2> QED BY <2>1, <2>2 DEF Sas
  <1>3 CASE program \in {"loop", "down"} /\ Command("remove", ok, TRUE) /\ Return(my.ok /\ ok)
    <2> DEFINE b == my.ok /\ ok
    <2>1 b \in BOOLEAN /\ (b => my.ok /\ ok) /\ Return(b)
      BY <1>1, <1>3
    <2>2 b /\ program = "loop" /\ ~disturbed' => ~loaded' /\ Sas' = {} /\ kernel' = {}
      BY <1>1, <1>2, <1>3, <2>1 DEF IInv, EndInv
    <2>3 b /\ program = "down" /\ ~disturbed'
            => (my.mine => ~loaded') /\ (start # "await_child" => Sas' = {})
      BY <1>1, <1>2, <1>3, <2>1 DEF IInv, EndInv
    <2> HIDE DEF b
    <2> QED BY <1>2, <1>3, <2>1, <2>2, <2>3, ToReport
  <1>4 CASE program = "up" /\ Command("remove", ok, TRUE) /\ Return(FALSE)
    BY <1>2, <1>4, ToReport
  <1>5 CASE program \in {"client", "server"} /\ Command("remove", ok, TRUE) /\ Go("check", my)
    BY <1>1, <1>2, <1>5, LocalTypes, ToPlain
  <1>6 CASE /\ program \in {"client", "server"} /\ Perform("remove", TRUE) /\ UNCHANGED late
            /\ FinalVerify
    <2>1 loaded' \in BOOLEAN /\ UNCHANGED <<sa, kernel, late>>
      BY <1>6 DEF Perform
    <2> QED BY <1>1, <1>6, <2>1, FinalVerifyStep
  <1>7 CASE /\ program \in {"client", "server"} /\ UNCHANGED <<loaded, sa, kernel, late>>
            /\ FinalVerify
    <2>1 loaded' \in BOOLEAN
      BY <1>7, LocalTypes DEF WorldType
    <2> QED BY <1>1, <1>7, <2>1, FinalVerifyStep
  <1> QED BY <1>3, <1>4, <1>5, <1>6, <1>7 DEF RemoveIpsecConnection

\* The look after a failed unload, the last look, and the server's case.
LEMMA CheckStep ==
    ASSUME IInv, NEW ok \in BOOLEAN, CheckRemoved(ok) \/ FinalCheck(ok) \/ Serve
    PROVE  IInv'
  <1>1 CASE CheckRemoved(ok)
    <2>1 pc = "check" /\ program \in {"client", "server"}
      BY <1>1 DEF CheckRemoved, IInv, FlowInv
    <2>2 CASE FinalVerify
      <3>1 loaded' \in BOOLEAN /\ UNCHANGED <<sa, kernel, late>>
        BY <1>1, LocalTypes DEF CheckRemoved, WorldType
      <3> QED BY <2>1, <2>2, <3>1, FinalVerifyStep
    <2>3 CASE /\ ~LastAttempt /\ UNCHANGED disturbed
              /\ Go("remove", [my EXCEPT !.attempt = @ + 1])
      <3> DEFINE n == my.attempt + 1
                 l == [my EXCEPT !.attempt = n]
      <3>1 WorldType'
        BY <1>1, <2>3, LocalTypes DEF CheckRemoved, WorldType
      <3>2 n \in 0 .. CleanupAttempts - 1 /\ my \in Locals
        BY <2>3, LocalTypes, Bounds DEF LastAttempt
      <3>3 Go("remove", l)
        BY <2>3
      <3>4 l \in Locals
        <4> HIDE DEF n
        <4> QED BY <3>2 DEF Locals
      <3> HIDE DEF l
      <3> QED BY <2>1, <3>1, <3>3, <3>4, ToEnd
    <2> QED BY <1>1, <2>2, <2>3 DEF CheckRemoved
  <1>2 CASE FinalCheck(ok)
    <2> DEFINE b == my.ok /\ ok /\ ~loaded
    <2>1 pc = "final_check" /\ program \in {"client", "server"}
      BY <1>2 DEF FinalCheck, IInv, FlowInv
    <2>2 /\ WorldType' /\ disturbed' = disturbed /\ loaded' = loaded /\ Sas' = Sas
         /\ kernel' = kernel
      BY <1>2, LocalTypes DEF FinalCheck, WorldType, worldVars, Sas
    <2>3 b \in BOOLEAN /\ Return(b)
      BY <1>2, LocalTypes DEF FinalCheck, WorldType
    <2>4 b /\ ~disturbed' => ~loaded' /\ Sas' = {} /\ (my.reqid => kernel' = {})
      BY <2>1, <2>2 DEF IInv, EndInv
    <2> HIDE DEF b
    <2> QED BY <2>1, <2>2, <2>3, <2>4, ToReport
  <1>3 CASE Serve
    <2> DEFINE r == Begin(my, Rounds)
    <2>1 r \in Locals /\ r.next = 1
      BY LocalTypes, BeginType, Bounds
    <2>2 pc = "serve" /\ program = "server" /\ WorldType'
      BY <1>3, LocalTypes DEF Serve, IInv, FlowInv, WorldType, worldVars
    <2>3 Go("verify", r) \/ Go("wait", r)
      BY <1>3 DEF Serve
    <2> HIDE DEF r
    <2>4 CASE Go("verify", r)
      BY <2>1, <2>2, <2>4, ToPlain
    <2>5 CASE Go("wait", r)
      BY <2>1, <2>2, <2>5, ToRounds
    <2> QED BY <2>3, <2>4, <2>5
  <1> QED BY <1>1, <1>2, <1>3

\* A new program begins to look.
LEMMA BeginProgramStep ==
    ASSUME IInv, NEW p \in Programs, NEW first \in Starts, NEW before \in BOOLEAN,
           StartProgram(p, first, before)
    PROVE  IInv'
  <1> DEFINE b == p = "down" /\ before
             f == Fresh
             l == [f EXCEPT !.mine = b]
  <1>1 f \in Locals /\ b \in BOOLEAN /\ my' = l
    BY FreshType DEF StartProgram
  <1>2 l \in Locals
    <2> HIDE DEF f, b
    <2> QED BY <1>1 DEF Locals
  <1> HIDE DEF l
  <1>3 \/ p = "down" /\ pc' = "terminate"
       \/ p = "up" /\ pc' = first
       \/ p # "down" /\ pc' = "load"
    BY DEF StartProgram
  <1>4 TypeOK'
    <2>1 pc' \in Calls
      BY <1>3 DEF Calls, Starts
    <2>2 programs' \in 0 .. MaxPrograms
      BY LocalTypes, Bounds DEF StartProgram, ProgramType
    <2>3 ProgramType'
      BY <1>1, <1>2, <2>1, <2>2 DEF StartProgram, ProgramType, Results
    <2>4 WorldType'
      BY LocalTypes DEF StartProgram, WorldType
    <2> QED BY <2>3, <2>4, TypeHalvesNext
  <1>5 /\ program' = p /\ start' = first /\ result' = "none"
       /\ first = "await_child" => p \in {"up", "down"}
    BY DEF StartProgram
  <1>6 FlowInv'
    BY <1>3, <1>5 DEF FlowInv, Starts
  <1>7 RoundInv' /\ EndInv' /\ VerifiedIsClean' /\ SuccessLeavesNothing'
    BY <1>3, <1>5 DEF RoundInv, EndInv, VerifiedIsClean, SuccessLeavesNothing, Reported, Starts
  <1> QED BY <1>4, <1>6, <1>7 DEF IInv

-----------------------------------------------------------------------------
(* The steps of everyone else.                                             *)

\* Ctrl-C.
LEMMA StopStep ==
    ASSUME IInv, RequestNativeAppStop
    PROVE  IInv'
  <1>1 TypeOK'
    BY LocalTypes, TypeHalvesNext DEF RequestNativeAppStop, ProgramType, WorldType, worldVars
  <1>2 Sas' = Sas
    BY DEF RequestNativeAppStop, worldVars, Sas
  <1>3 FlowInv' /\ RoundInv' /\ EndInv' /\ VerifiedIsClean' /\ SuccessLeavesNothing'
    BY <1>2 DEF RequestNativeAppStop, worldVars, IInv, FlowInv, RoundInv, Steady, EndInv,
       VerifiedIsClean, SuccessLeavesNothing, Reported
  <1> QED BY <1>1, <1>3 DEF IInv

\* A step of charon or the kernel that brings up nothing out of nothing, unless
\* it is the peer's initiation.
LEMMA WorldStep ==
    ASSUME IInv, NEW i \in SaIds, NEW st \in SaStates, NEW entries \in SUBSET SaIds,
           World(i, st, entries),
           \/ Sas = {} => Sas' = {} /\ kernel' \subseteq kernel
           \/ (program = "server" \/ start = "await_child") /\ loaded
    PROVE  IInv'
  <1>1 /\ UNCHANGED <<pc, program, start, stop, programs, my, result, loaded, late, disturbed>>
       /\ sa' = [sa EXCEPT ![i] = st] /\ kernel' = entries
    BY DEF World, programVars
  <1>2 ProgramType'
    BY <1>1, LocalTypes DEF ProgramType
  <1>3 WorldType'
    BY <1>1, LocalTypes DEF WorldType
  <1>4 FlowInv'
    BY <1>1 DEF IInv, FlowInv
  <1>5 CASE Sas = {} => Sas' = {} /\ kernel' \subseteq kernel
    <2>1 Sas = {} /\ kernel = {} => kernel' = {}
      BY <1>5
    <2>2 RoundInv'
      <3>1 my.next > 3 => my.next > 1
        BY LocalTypes
      <3>2 Steady' = Steady
        BY <1>1 DEF Steady
      <3> QED BY <1>1, <1>5, <2>1, <3>1, <3>2 DEF IInv, RoundInv
    <2>3 EndInv'
      BY <1>1, <1>5, <2>1 DEF IInv, EndInv
    <2>4 VerifiedIsClean' /\ SuccessLeavesNothing'
      BY <1>1, <1>5, <2>1 DEF IInv, VerifiedIsClean, SuccessLeavesNothing, Reported
    <2> QED BY <1>2, <1>3, <1>4, <2>2, <2>3, <2>4, TypeHalvesNext DEF IInv
  <1>6 CASE (program = "server" \/ start = "await_child") /\ loaded
    <2>1 program # "loop"
      BY <1>6 DEF IInv, FlowInv
    <2>2 RoundInv'
      BY <1>1, <1>6, <2>1 DEF IInv, RoundInv, Steady
    <2>3 EndInv'
      BY <1>1, <1>6, <2>1 DEF IInv, EndInv, FlowInv
    <2>4 VerifiedIsClean' /\ SuccessLeavesNothing'
      BY <1>1, <1>6, <2>1 DEF IInv, FlowInv, VerifiedIsClean, SuccessLeavesNothing, Reported
    <2> QED BY <1>2, <1>3, <1>4, <2>2, <2>3, <2>4, TypeHalvesNext DEF IInv
  <1> QED BY <1>5, <1>6

\* charon negotiates and deletes, the kernel follows, the peer initiates.
LEMMA CharonStep ==
    ASSUME IInv, NEW i \in SaIds,
           Negotiated(i) \/ SaDeleted(i) \/ KernelRemoves(i) \/ PeerInitiates(i)
    PROVE  IInv'
  <1>1 WorldType /\ sa[i] \in SaStates
    BY LocalTypes DEF WorldType
  <1>2 CASE Negotiated(i)
    <2>1 Sas # {}
      BY <1>2 DEF Negotiated, Sas
    <2>2 PICK st \in {"installed", "up", "none"}, entries \in {kernel, kernel \cup {i}} :
            World(i, st, entries)
      BY <1>2 DEF Negotiated
    <2>3 st \in SaStates /\ entries \in SUBSET SaIds
      BY <1>1 DEF SaStates, WorldType
    <2> QED BY <2>1, <2>2, <2>3, WorldStep
  <1>3 CASE SaDeleted(i)
    <2>1 Sas # {} /\ World(i, "none", kernel)
      BY <1>3 DEF SaDeleted, Sas
    <2>2 "none" \in SaStates /\ kernel \in SUBSET SaIds
      BY <1>1 DEF SaStates, WorldType
    <2> QED BY <2>1, <2>2, WorldStep
  <1>4 CASE KernelRemoves(i)
    <2>1 World(i, sa[i], kernel \ {i})
      BY <1>4 DEF KernelRemoves
    <2>2 Sas' = Sas /\ kernel' \subseteq kernel
      BY <1>1, <2>1 DEF World, Sas, WorldType
    <2>3 kernel \ {i} \in SUBSET SaIds
      BY <1>1 DEF WorldType
    <2> QED BY <1>1, <2>1, <2>2, <2>3, WorldStep
  <1>5 CASE PeerInitiates(i)
    <2>1 /\ World(i, "installed", kernel \cup {i})
         /\ (program = "server" \/ start = "await_child") /\ loaded
      BY <1>5 DEF PeerInitiates
    <2>2 "installed" \in SaStates /\ kernel \cup {i} \in SUBSET SaIds
      BY <1>1 DEF SaStates, WorldType
    <2> QED BY <2>1, <2>2, WorldStep
  <1> QED BY <1>2, <1>3, <1>4, <1>5

\* A command performed late, after which nobody claims anything.
LEMMA LateStep ==
    ASSUME IInv, NEW command \in Commands, PerformLate(command)
    PROVE  IInv'
  <1>1 /\ UNCHANGED <<pc, program, start, stop, programs, my, result>> /\ disturbed' = TRUE
       /\ late' = late \ {command} /\ Perform(command, FALSE)
    BY DEF PerformLate, programVars
  <1>2 Cardinality(late') <= MaxLate
    <2>1 IsFiniteSet(Commands)
      <3>1 /\ IsFiniteSet({})
           /\ Commands = ((({"load"} \cup {"ike"}) \cup {"child"}) \cup {"terminate"})
                            \cup {"remove"}
        BY FS_EmptySet DEF Commands
      <3>2 IsFiniteSet({"load"} \cup {"ike"})
        BY FS_Singleton, FS_AddElement
      <3>3 IsFiniteSet(({"load"} \cup {"ike"}) \cup {"child"})
        BY <3>2, FS_AddElement
      <3>4 IsFiniteSet((({"load"} \cup {"ike"}) \cup {"child"}) \cup {"terminate"})
        BY <3>3, FS_AddElement
      <3> QED BY <3>1, <3>4, FS_AddElement
    <2>2 IsFiniteSet(late)
      BY <2>1, LocalTypes, FS_Subset DEF WorldType
    <2>3 /\ Cardinality(late') <= Cardinality(late)
         /\ Cardinality(late') \in Nat /\ Cardinality(late) \in Nat
      BY <1>1, <2>2, FS_Subset, FS_CardinalityType
    <2> QED BY <2>3, Bounds, LocalTypes DEF WorldType
  <1>3 WorldType'
    BY <1>1, <1>2, LocalTypes, PerformType DEF WorldType
  <1>4 ProgramType'
    BY <1>1, LocalTypes DEF ProgramType
  <1>5 FlowInv' /\ RoundInv' /\ EndInv' /\ VerifiedIsClean' /\ SuccessLeavesNothing'
    BY <1>1 DEF IInv, FlowInv, RoundInv, Steady, EndInv, VerifiedIsClean, SuccessLeavesNothing
  <1> QED BY <1>3, <1>4, <1>5, TypeHalvesNext DEF IInv

-----------------------------------------------------------------------------
(* The theorems.                                                           *)

\* The invariant holds initially.
LEMMA InvariantInit == Init => IInv
  <1> SUFFICES ASSUME Init PROVE IInv
    OBVIOUS
  <1>1 ProgramType
    <2>1 my \in Locals
      BY FreshType DEF Init
    <2>2 programs \in 0 .. MaxPrograms
      BY Bounds DEF Init
    <2> QED BY <2>1, <2>2 DEF Init, ProgramType, Calls, Programs, Starts, Results
  <1>2 WorldType
    <2>1 Cardinality(late) <= MaxLate
      <3>1 Cardinality({}) = 0
        BY FS_EmptySet
      <3> QED BY <3>1, Bounds DEF Init
    <2> QED BY <2>1 DEF Init, WorldType, SaStates
  <1>3 FlowInv /\ RoundInv /\ EndInv /\ VerifiedIsClean /\ SuccessLeavesNothing
    BY DEF Init, FlowInv, RoundInv, EndInv, VerifiedIsClean, SuccessLeavesNothing, Reported
  <1> QED BY <1>1, <1>2, <1>3, TypeHalves DEF IInv

\* Every step preserves it.
LEMMA InvariantStep == IInv /\ [Next]_vars => IInv'
  <1> SUFFICES ASSUME IInv, [Next]_vars PROVE IInv'
    OBVIOUS
  <1>1 CASE Program
    <2>1 ASSUME NEW ok \in BOOLEAN, AddIpsecConnection(ok) PROVE IInv'
      BY <2>1, LoadStep
    <2>2 ASSUME NEW ok \in BOOLEAN,
                \/ CredentialRefused
                \/ InitiateIpsecIke(ok)
                \/ InitiateIpsecChild(ok)
                \/ WaitIpsecIkeEstablished(ok)
                \/ WaitIpsecChildInstalled(ok)
         PROVE  IInv'
      BY <2>2, StartStep
    <2>3 ASSUME NEW ok \in BOOLEAN, VerifyNativeAppInstalled(ok) PROVE IInv'
      BY <2>3, VerifyStep
    <2>4 ASSUME NEW ok \in BOOLEAN, TerminateIpsecIke(ok) PROVE IInv'
      BY <2>4, TerminateStep
    <2>5 ASSUME NEW ok \in BOOLEAN, WaitNativeAppRemoved(ok) PROVE IInv'
      BY <2>5, WaitStep
    <2>6 ASSUME NEW ok \in BOOLEAN, RemoveIpsecConnection(ok) PROVE IInv'
      BY <2>6, RemoveStep
    <2>7 ASSUME NEW ok \in BOOLEAN, CheckRemoved(ok) \/ FinalCheck(ok) \/ Serve PROVE IInv'
      BY <2>7, CheckStep
    <2>8 TRUE \in BOOLEAN
      OBVIOUS
    <2> QED BY <1>1, <2>1, <2>2, <2>3, <2>4, <2>5, <2>6, <2>7, <2>8, GiveUpStep DEF Program
  <1>2 ASSUME NEW p \in Programs, NEW first \in Starts, NEW before \in BOOLEAN,
              StartProgram(p, first, before)
       PROVE  IInv'
    BY <1>2, BeginProgramStep
  <1>3 CASE RequestNativeAppStop
    BY <1>3, StopStep
  <1>4 ASSUME NEW i \in SaIds,
              Negotiated(i) \/ SaDeleted(i) \/ KernelRemoves(i) \/ PeerInitiates(i)
       PROVE  IInv'
    BY <1>4, CharonStep
  <1>5 ASSUME NEW command \in Commands, PerformLate(command) PROVE IInv'
    BY <1>5, LateStep
  <1>6 CASE UNCHANGED vars
    <2>1 TypeOK'
      BY <1>6, LocalTypes, TypeHalvesNext DEF vars, programVars, worldVars, ProgramType, WorldType
    <2>2 Sas' = Sas
      BY <1>6 DEF vars, worldVars, Sas
    <2>3 FlowInv' /\ RoundInv' /\ EndInv' /\ VerifiedIsClean' /\ SuccessLeavesNothing'
      BY <1>6, <2>2 DEF vars, programVars, worldVars, IInv, FlowInv, RoundInv, Steady, EndInv,
         VerifiedIsClean, SuccessLeavesNothing, Reported
    <2> QED BY <2>1, <2>3 DEF IInv
  <1> QED BY <1>1, <1>2, <1>3, <1>4, <1>5, <1>6 DEF Next

\* The invariant holds of every behaviour.
LEMMA Invariant == Spec => []IInv
  BY InvariantInit, InvariantStep, PTL DEF Spec

\* The variables of the program, of charon and of the kernel keep their types; the
\* rounds left and the attempts stay within their bounds.
THEOREM LifecycleTypes == Spec => []TypeOK
  <1>1 IInv => TypeOK
    BY DEF IInv
  <1> QED BY <1>1, Invariant, PTL

\* A cleanup that an algorithm case reports as verified is a fact, for any number of
\* SAs, rounds and attempts: unless charon performed a late command after the final
\* verification began, the connection is unloaded, charon has no SA of it and the
\* kernel no entry of a reqid the case learned.
THEOREM VerifiedCleanupIsClean == Spec => []VerifiedIsClean
  <1>1 IInv => VerifiedIsClean
    BY DEF IInv
  <1> QED BY <1>1, Invariant, PTL

\* A passed loop iteration leaves nothing behind in charon or in the kernel, and a
\* completed "down" of an initiator leaves no SA and no definition of the session.
THEOREM SuccessIsClean == Spec => []SuccessLeavesNothing
  <1>1 IInv => SuccessLeavesNothing
    BY DEF IInv
  <1> QED BY <1>1, Invariant, PTL

=============================================================================
