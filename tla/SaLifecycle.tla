----------------------------- MODULE SaLifecycle -----------------------------
(***************************************************************************)
(* Security associations from start to removal: the control commands and   *)
(* polling waits of the library (vici_sa.c), the lifecycle functions of    *)
(* the application (lifecycle.c) and the cleanup of an algorithm test      *)
(* (algorithm_runner.c), against a charon and a kernel that go on working  *)
(* while the program sleeps, asks and decides.                             *)
(*                                                                         *)
(* One program runs at a time, over one connection name:                   *)
(*   "up"        load, start; unload again if the start fails              *)
(*   "down"      terminate, unload what the session loaded                 *)
(*   "loop"      one iteration of the test loop                            *)
(*   "client"    one algorithm case on the initiator, with its cleanup     *)
(*   "server"    one algorithm case on the responder, with its cleanup     *)
(*                                                                         *)
(* What the program knows about charon it learns from separate queries, so *)
(* one round of them is four looks at different moments.  charon gives all *)
(* SAs of one CHILD configuration the same reqid, and the kernel's states  *)
(* and policies of an SA are abstracted to one set of entries.             *)
(***************************************************************************)
EXTENDS Integers, FiniteSets

CONSTANTS
    SaIds,            \* bound: SAs of the connection at one time
    Rounds,           \* rounds of a removal wait: its timeout / 100 ms + 1
    CleanupAttempts,  \* NATIVE_APP_ALGORITHM_CLEANUP_ATTEMPTS
    MaxPrograms,      \* bound: programs run one after the other
    MaxLate           \* bound: commands that charon may still perform at one time

ASSUME LifecycleConstants ==
    /\ SaIds # {} /\ IsFiniteSet(SaIds)
    /\ Rounds \in Nat \ {0}
    /\ CleanupAttempts \in Nat \ {0}
    /\ {MaxPrograms, MaxLate} \subseteq Nat

VARIABLES
    \* the program
    pc,          \* the call it is at; "idle" when none runs
    program,
    start,       \* how StartNativeAppConnection begins: "ike" for a childless IKE,
                 \* "child", or "await_child" for a responder
    stop,        \* gbNativeAppStopRequested
    my,          \* its local variables
    result,      \* what the last program reported
    programs,
    \* charon and the kernel
    loaded,      \* whether charon has the connection definition
    sa,          \* the state of each SA
    kernel,      \* SAs whose states and policies are in the kernel
    late,        \* commands reported as failed that charon may still perform
    \* history
    disturbed    \* charon performed a late command since the program last began
                 \* to look

programVars == <<program, start, stop, programs>>
worldVars   == <<loaded, sa, kernel, late, disturbed>>
vars == <<pc, programVars, my, result, worldVars>>

\* The queries of a round, in their order.
Queries == <<"ike", "child", "state", "policy">>

Programs == {"up", "down", "loop", "client", "server"}
Starts   == {"ike", "child", "await_child"}
Commands == {"load", "ike", "child", "terminate", "remove"}
Results  == {"none", "ok", "failed"}

\* SA states: "connecting" is being negotiated; "up" is an established IKE SA
\* without a CHILD, "installed" one with it; both become "deleting" and "closing"
\* when a DELETE was sent, and the CHILD stays listed meanwhile.
SaStates == {"none", "connecting", "up", "installed", "closing", "deleting"}

TypeOK ==
    /\ pc \in {"idle", "load", "ike", "await_ike", "child", "await_child",
               "verify", "terminate", "wait", "remove", "serve", "check", "final",
               "final_check"}
    /\ program \in Programs
    /\ start \in Starts
    /\ {stop, loaded, disturbed} \subseteq BOOLEAN
    /\ my \in [ok : BOOLEAN, mine : BOOLEAN, reqid : BOOLEAN, next : 1 .. 4,
               attempt : 0 .. CleanupAttempts - 1,
               seen : SUBSET {Queries[q] : q \in 1 .. 4}, rounds : 0 .. Rounds]
    /\ result \in Results
    /\ programs \in 0 .. MaxPrograms
    /\ sa \in [SaIds -> SaStates]
    /\ kernel \subseteq SaIds
    /\ late \subseteq Commands /\ Cardinality(late) <= MaxLate

\* Before the first statement of a program: no error, uiReqid 0.  For "up", mine is
\* bConnectionAdded; for "down" it is the session's bConnectionLoaded.
Fresh == [ok |-> TRUE, mine |-> FALSE, reqid |-> FALSE, next |-> 1, seen |-> {}, rounds |-> Rounds,
          attempt |-> 0]

Init ==
    /\ pc = "idle"
    /\ program = "up" /\ start = "child" /\ stop = FALSE /\ programs = 0
    /\ my = Fresh
    /\ result = "none"
    /\ loaded = FALSE
    /\ sa = [i \in SaIds |-> "none"]
    /\ kernel = {}
    /\ late = {}
    /\ disturbed = FALSE

-----------------------------------------------------------------------------
(* What charon does with a command.                                        *)

Sas == {i \in SaIds : sa[i] # "none"}

\* A new SA under an id that is free, in state st.
NewSa(st) ==
    /\ loaded
    /\ \E i \in SaIds \ (Sas \cup kernel) :
          /\ sa' = [sa EXCEPT ![i] = st]
          /\ kernel' = IF st = "installed" THEN kernel \cup {i} ELSE kernel

\* The CHILD of an established IKE SA that has none.
NewChild ==
    \E i \in SaIds :
       /\ sa[i] = "up" /\ loaded
       /\ sa' = [sa EXCEPT ![i] = "installed"]
       /\ kernel' = kernel \cup {i}

\* DELETEs are sent for established SAs; half-open ones are dropped.
Terminating ==
    /\ Sas # {}
    /\ sa' = [i \in SaIds |-> CASE sa[i] \in {"none", "connecting"} -> "none"
                                [] sa[i] = "up"                    -> "deleting"
                                [] sa[i] = "installed"             -> "closing"
                                [] OTHER                           -> sa[i]]
    /\ UNCHANGED kernel

\* charon performs the command.  A control command is complete when charon says
\* so within the timeout it was given; otherwise the work goes on.
Perform(command, complete) ==
    \/ /\ command = "load"
       /\ loaded' = TRUE
       /\ UNCHANGED <<sa, kernel>>
    \/ /\ command = "remove" /\ loaded
       /\ loaded' = FALSE
       /\ UNCHANGED <<sa, kernel>>
    \/ /\ command = "ike"
       /\ NewSa(IF complete THEN "up" ELSE "connecting")
       /\ UNCHANGED loaded
    \/ /\ command = "child"
       /\ NewChild \/ NewSa("installed") \/ (~complete /\ NewSa("connecting"))
       /\ UNCHANGED loaded
    \/ /\ command = "terminate"
       /\ IF complete
          THEN Sas # {} /\ sa' = [i \in SaIds |-> "none"] /\ UNCHANGED kernel
          ELSE Terminating
       /\ UNCHANGED loaded

\* ExecuteSaControl and the other commands, as the caller sees them.  A failure
\* is charon's refusal, or a deadline or broken socket after which the command
\* may have been performed, may still be, or never will be.  The timeout that
\* AddSaControlTimeout gives to charon equals the command's own deadline, so the
\* two expire together and an initiation that timed out may be in progress.
Command(command, ok, complete) ==
    /\ UNCHANGED disturbed
    /\ \/ /\ Perform(command, ok /\ complete)
          /\ UNCHANGED late
       \/ /\ ~ok
          /\ UNCHANGED <<loaded, sa, kernel>>
          /\ late' \in {late} \cup {l \in {late \cup {command}} : Cardinality(l) <= MaxLate}

-----------------------------------------------------------------------------
(* Control flow of the program.                                            *)

Go(to, locals) ==
    /\ pc' = to
    /\ my' = locals
    /\ UNCHANGED <<programVars, result>>

Return(ok) ==
    /\ pc' = "idle"
    /\ my' = [Fresh EXCEPT !.reqid = my.reqid, !.mine = my.mine]
    /\ result' = IF ok THEN "ok" ELSE "failed"
    /\ UNCHANGED programVars

\* A loop of removal rounds begins, with this many of them.
Begin(locals, n) == [locals EXCEPT !.next = 1, !.seen = {}, !.rounds = n]

\* loadedBefore is the session's bConnectionLoaded: "up" then starts at once.  Only
\* "up" and "down" are commands of a responder too.
StartProgram(p, first, loadedBefore) ==
    /\ pc = "idle" /\ programs < MaxPrograms
    /\ first = "await_child" => p \in {"up", "down"}
    /\ program' = p /\ start' = first
    /\ stop' = FALSE
    /\ programs' = programs + 1
    /\ pc' = CASE p = "down"                  -> "terminate"
               [] p = "up" /\ loadedBefore    -> first
               [] OTHER                       -> "load"
    /\ my' = [Fresh EXCEPT !.mine = (p = "down" /\ loadedBefore)]
    /\ result' = "none"
    /\ disturbed' = FALSE
    /\ UNCHANGED <<loaded, sa, kernel, late>>

-----------------------------------------------------------------------------
(* StartNativeAppConnection.                                               *)

\* Where each program goes when the start failed or is over.
AfterStart(ok) ==
    CASE program = "up"     -> IF ok \/ ~my.mine THEN "idle" ELSE "remove"
      [] program = "loop"   -> IF ok THEN "verify" ELSE "terminate"
      [] program = "client" -> "verify"

StartEnds(ok) ==
    IF AfterStart(ok) = "idle" THEN Return(ok)
    ELSE Go(AfterStart(ok), [Begin(my, Rounds) EXCEPT !.ok = @ /\ ok])

\* A client case whose load failed reports its cleanup as verified unseen; that
\* report is result "none" here, and the server's is a failure.
AddIpsecConnection(ok) ==
    /\ pc = "load"
    /\ Command("load", ok, TRUE)
    /\ \/ ok /\ program = "server" /\ Go("serve", my)
       \/ ok /\ program # "server" /\ Go(start, [my EXCEPT !.mine = (program = "up")])
       \/ /\ ~ok /\ program = "client"
          /\ pc' = "idle" /\ my' = Fresh
          /\ UNCHANGED <<programVars, result>>
       \/ ~ok /\ program # "client" /\ Return(FALSE)

\* charon refuses the credential that "up" loads after the connection.
CredentialRefused ==
    /\ pc = start /\ program = "up"
    /\ UNCHANGED worldVars
    /\ StartEnds(FALSE)

InitiateIpsecIke(ok) ==
    /\ pc = "ike"
    /\ Command("ike", ok, TRUE)
    /\ IF ok THEN Go("await_ike", my) ELSE StartEnds(FALSE)

InitiateIpsecChild(ok) ==
    /\ pc = "child"
    /\ Command("child", ok, TRUE)
    /\ IF ok THEN Go("await_child", my) ELSE StartEnds(FALSE)

Established(i) == sa[i] \in {"up", "installed"}
ListsChild(i)  == sa[i] \in {"installed", "closing"}

\* One look of WaitIpsecIkeEstablished; a failed query ends the wait, and so does
\* the deadline, without another look.
WaitIpsecIkeEstablished(ok) ==
    /\ pc = "await_ike"
    /\ UNCHANGED worldVars
    /\ \/ ok /\ (\E i \in SaIds : Established(i)) /\ Go("child", my)
       \/ ~ok /\ StartEnds(FALSE)

WaitIpsecChildInstalled(ok) ==
    /\ pc = "await_child"
    /\ UNCHANGED worldVars
    /\ \/ ok /\ (\E i \in SaIds : ListsChild(i)) /\ StartEnds(TRUE)
       \/ ~ok /\ StartEnds(FALSE)

-----------------------------------------------------------------------------
(* Rounds of four queries.                                                 *)

Query == Queries[my.next]

\* VerifyNativeAppInstalled and QueryNativeAppAlgorithmState look for an
\* established IKE SA, an installed CHILD, and kernel entries of its reqid.
Installed ==
    CASE Query = "ike"   -> \E i \in SaIds : Established(i)
      [] Query = "child" -> \E i \in SaIds : ListsChild(i)
      [] OTHER           -> kernel # {}

\* Mutant: half-open IKE SAs do not count.
PresentEstablished ==
    CASE Query = "ike"   -> \E i \in SaIds : Established(i)
      [] Query = "child" -> \E i \in SaIds : ListsChild(i)
      [] OTHER           -> my.reqid /\ kernel # {}

\* WaitNativeAppRemovedWithTimeout: anything at all with the name, in any state.
\* The kernel is not looked at when no reqid is known.
Present ==
    CASE Query = "ike"   -> Sas # {}
      [] Query = "child" -> \E i \in SaIds : ListsChild(i)
      [] OTHER           -> my.reqid /\ kernel # {}

Look(sees) == [my EXCEPT !.seen = IF sees THEN @ \cup {Query} ELSE @]

\* The end of a verification: the loop needs all four and only then takes the
\* reqid; an algorithm case takes the reqid of any CHILD it saw, and its verdict
\* is the business of AlgorithmRun.  A failed query ends the round.
Verified(ok, seen) ==
    LET all == ok /\ Cardinality(seen) = 4 IN
    CASE program = "loop"   -> Go("terminate", [Begin(my, Rounds) EXCEPT
                                    !.ok = all, !.reqid = all])
      [] program = "client" -> Go("terminate", [Begin(my, Rounds) EXCEPT
                                    !.reqid = @ \/ (ok /\ "child" \in seen)])
      [] program = "server" -> Go("serve", [Begin(my, Rounds) EXCEPT
                                    !.reqid = @ \/ (ok /\ "child" \in seen)])

VerifyNativeAppInstalled(ok) ==
    /\ pc = "verify"
    /\ UNCHANGED worldVars
    /\ IF ok /\ my.next < 4 THEN Go("verify", [Look(Installed) EXCEPT !.next = @ + 1])
       ELSE Verified(ok, Look(Installed).seen)

\* Mutant: one attempt more.
LastAttemptInclusive == my.attempt = CleanupAttempts

LastAttempt == my.attempt + 1 = CleanupAttempts

\* The end of a removal wait.
RemovalEnds(removed) ==
    IF pc = "final" THEN Go("final_check", [my EXCEPT !.ok = @ /\ removed])
    ELSE IF program = "loop" THEN Go("remove", [my EXCEPT !.ok = @ /\ removed])
    ELSE IF removed \/ LastAttempt THEN Go("remove", [my EXCEPT !.attempt = 0])
    ELSE Go(IF program = "client" THEN "terminate" ELSE "wait",
            [Begin(my, Rounds) EXCEPT !.attempt = @ + 1])

\* Mutant: the elapsed time is not counted.
AnotherRoundUncounted == Go(pc, Begin(my, my.rounds))

\* Something is still there: sleep and look again.
AnotherRound == Go(pc, Begin(my, my.rounds - 1))

\* The loop condition: time is left and nobody pressed Ctrl-C.
RemovalGivesUp ==
    /\ pc \in {"wait", "final"} /\ my.next = 1
    /\ my.rounds = 0 \/ stop
    /\ UNCHANGED worldVars
    /\ RemovalEnds(FALSE)

WaitNativeAppRemoved(ok) ==
    /\ pc \in {"wait", "final"}
    /\ my.next = 1 => my.rounds > 0 /\ ~stop
    /\ UNCHANGED worldVars
    /\ LET seen == Look(Present).seen IN
       IF ~ok THEN RemovalEnds(FALSE)
       ELSE IF my.next < 4 THEN Go(pc, [my EXCEPT !.seen = seen, !.next = @ + 1])
       ELSE IF seen = {} THEN RemovalEnds(TRUE)
       ELSE AnotherRound

-----------------------------------------------------------------------------
(* Taking down.                                                            *)

\* Mutant: a termination that succeeded is taken for the removal.
TerminatedTrusting(ok) ==
    CASE program = "client" -> Go("wait", Begin(my, Rounds))
      [] program = "down" /\ ~my.mine -> Return(ok)
      [] OTHER              -> Go("remove", [my EXCEPT !.ok = @ /\ ok])

\* The test loop waits only for a termination that succeeded, the cleanup of a
\* case whatever the result was, and "down" never.
Terminated(ok) ==
    CASE program = "client"      -> Go("wait", Begin(my, Rounds))
      [] program = "loop" /\ ok  -> Go("wait", Begin(my, Rounds))
      [] program = "down" /\ ~my.mine -> Return(ok)
      [] OTHER                   -> Go("remove", [my EXCEPT !.ok = @ /\ ok])

\* The cleanup terminates with IMMEDIATE: charon answers at once.
TerminateIpsecIke(ok) ==
    /\ pc = "terminate"
    /\ Command("terminate", ok, program # "client")
    /\ Terminated(ok)

\* The final verification of a cleanup: one round, then the connection.
FinalVerify ==
    /\ Go("final", [Begin(my, 1) EXCEPT !.ok = TRUE])
    /\ disturbed' = FALSE

RemoveIpsecConnection(ok) ==
    /\ pc = "remove"
    /\ \/ /\ program \in {"loop", "down"}
          /\ Command("remove", ok, TRUE)
          /\ Return(my.ok /\ ok)
       \/ /\ program = "up"
          /\ Command("remove", ok, TRUE)
          /\ Return(FALSE)
       \/ /\ program \in {"client", "server"} /\ ~ok
          /\ Command("remove", ok, TRUE)
          /\ Go("check", my)
       \/ /\ program \in {"client", "server"} /\ ok
          /\ Perform("remove", TRUE) /\ UNCHANGED late
          /\ FinalVerify
       \/ /\ program \in {"client", "server"} /\ ~ok /\ ~loaded  \* not found
          /\ UNCHANGED <<loaded, sa, kernel, late>>
          /\ FinalVerify

\* CheckNativeAppAlgorithmConnectionRemoved after a failed unload: a query that
\* fails reads as removed and ends the retries.
CheckRemoved(ok) ==
    /\ pc = "check"
    /\ UNCHANGED <<loaded, sa, kernel, late>>
    /\ \/ /\ ok /\ loaded /\ ~LastAttempt
          /\ Go("remove", [my EXCEPT !.attempt = @ + 1])
          /\ UNCHANGED disturbed
       \/ /\ ~ok \/ ~loaded \/ LastAttempt
          /\ FinalVerify

\* bLocalVerified: the last look at the connection list.
FinalCheck(ok) ==
    /\ pc = "final_check"
    /\ UNCHANGED worldVars
    /\ Return(my.ok /\ ok /\ ~loaded)

\* The server's case: VERIFY is a query; CLEANUP, ABORT, Ctrl-C or silence end it.
Serve ==
    /\ pc = "serve"
    /\ UNCHANGED worldVars
    /\ \/ ~stop /\ Go("verify", Begin(my, Rounds))
       \/ Go("wait", Begin(my, Rounds))

-----------------------------------------------------------------------------
(* Everyone else.                                                          *)

\* Ctrl-C.
RequestNativeAppStop ==
    /\ pc # "idle" /\ ~stop
    /\ stop' = TRUE
    /\ UNCHANGED <<pc, program, start, programs, my, result, worldVars>>

\* A step of charon or the kernel on SA i.
World(i, st, entries) ==
    /\ sa' = [sa EXCEPT ![i] = st]
    /\ kernel' = entries
    /\ UNCHANGED <<pc, programVars, my, result, loaded, late, disturbed>>

Negotiated(i) ==
    /\ sa[i] = "connecting"
    /\ \/ World(i, "installed", kernel \cup {i})
       \/ start = "ike" /\ World(i, "up", kernel)
       \/ World(i, "none", kernel)

\* The peer deletes the SA, or it is found dead; the kernel follows.
SaDeleted(i) ==
    /\ sa[i] \in {"up", "installed", "closing", "deleting"}
    /\ World(i, "none", kernel)

KernelRemoves(i) ==
    /\ i \in kernel /\ ~ListsChild(i)
    /\ World(i, sa[i], kernel \ {i})

\* The peer of a responder initiates while the connection is loaded.
PeerInitiates(i) ==
    /\ program = "server" \/ start = "await_child"
    /\ loaded
    /\ sa[i] = "none" /\ i \notin kernel
    /\ World(i, "installed", kernel \cup {i})

\* A command whose caller was told that it failed.
PerformLate(command) ==
    /\ command \in late
    /\ late' = late \ {command}
    /\ Perform(command, FALSE)
    /\ disturbed' = TRUE
    /\ UNCHANGED <<pc, programVars, my, result>>

-----------------------------------------------------------------------------

Program ==
    \/ \E ok \in BOOLEAN :
          \/ AddIpsecConnection(ok)
          \/ InitiateIpsecIke(ok)
          \/ WaitIpsecIkeEstablished(ok)
          \/ InitiateIpsecChild(ok)
          \/ WaitIpsecChildInstalled(ok)
          \/ VerifyNativeAppInstalled(ok)
          \/ TerminateIpsecIke(ok)
          \/ WaitNativeAppRemoved(ok)
          \/ RemoveIpsecConnection(ok)
          \/ CheckRemoved(ok)
          \/ FinalCheck(ok)
    \/ CredentialRefused
    \/ RemovalGivesUp
    \/ Serve

Next ==
    \/ Program
    \/ \E p \in Programs, first \in Starts, loadedBefore \in BOOLEAN :
          StartProgram(p, first, loadedBefore)
    \/ RequestNativeAppStop
    \/ \E i \in SaIds :
          \/ Negotiated(i)
          \/ SaDeleted(i)
          \/ KernelRemoves(i)
          \/ PeerInitiates(i)
    \/ \E command \in Commands : PerformLate(command)

Spec == Init /\ [][Next]_vars

\* Every wait has a deadline and every query a timeout.
FairSpec == Spec /\ WF_vars(Program)

-----------------------------------------------------------------------------
(* Properties.                                                             *)

Reported(p) == pc = "idle" /\ program = p /\ result = "ok"

\* A cleanup reported as verified (bLocalVerified) is a fact: the connection is
\* unloaded, charon has no SA of it in any state, half-open and deleting ones
\* included, and the kernel has no entry of the reqid, if the case ever learned
\* it.  This although the looks are separate queries, retries give up, a query
\* that fails reads as removed, and a command that timed out may still run.  Only
\* a command that charon performs after the last look began can undo it.
VerifiedIsClean ==
    (Reported("client") \/ Reported("server")) /\ ~disturbed =>
        /\ ~loaded /\ Sas = {}
        /\ my.reqid => kernel = {}

\* A passed loop iteration has left nothing behind, in the kernel neither, whatever
\* an earlier command left there; a completed "down" of an initiator has left no
\* SA, and no definition that the session loaded.  A responder's peer may initiate
\* again between the termination and the unload, and its SA survives both.
SuccessLeavesNothing ==
    ~disturbed =>
        /\ Reported("loop") => ~loaded /\ Sas = {} /\ kernel = {}
        /\ Reported("down") => /\ my.mine => ~loaded
                               /\ start # "await_child" => Sas = {}

\* Every removal ends, however long the SAs stay: its waits, its attempts and the
\* last verification are bounded.
RemovalReturns ==
    pc \in {"terminate", "wait", "remove", "check", "final", "final_check"}
        ~> pc = "idle"

=============================================================================
