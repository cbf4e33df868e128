---------------------------- MODULE ViciService -----------------------------
(***************************************************************************)
(* What ExecuteViciCommand promises its callers, without sockets, packets  *)
(* or deadlines.  One call at a time is in progress on a context; its      *)
(* command is performed by charon at most once, possibly after the caller  *)
(* has given up, possibly never; success is only reported for a command    *)
(* that was performed.                                                     *)
(***************************************************************************)
EXTENDS Naturals

CONSTANTS Threads, Calls, NoThread, NoCall

VARIABLES
    owner,    \* the thread whose call is in progress, or NoThread
    current,  \* the last call of each thread, or NoCall
    outcome,  \* "none", "running", "ok" or "error"
    pending,  \* commands handed to charon and not yet performed
    effect    \* whether each command was performed, 0 or 1

vars == <<owner, current, outcome, pending, effect>>

Init ==
    /\ owner = NoThread
    /\ current = [t \in Threads |-> NoCall]
    /\ outcome = [t \in Threads |-> "none"]
    /\ pending = {}
    /\ effect = [c \in Calls |-> 0]

Begin(t, c) ==
    /\ outcome[t] # "running"
    /\ c \notin pending
    /\ \A u \in Threads \ {t} : current[u] # c
    /\ current' = [current EXCEPT ![t] = c]
    /\ outcome' = [outcome EXCEPT ![t] = "running"]
    /\ effect' = [effect EXCEPT ![c] = 0]
    /\ UNCHANGED <<owner, pending>>

Acquire(t) ==
    /\ outcome[t] = "running"
    /\ owner = NoThread
    /\ owner' = t
    /\ UNCHANGED <<current, outcome, pending, effect>>

Submit(t) ==
    /\ owner = t
    /\ effect[current[t]] = 0
    /\ pending' = pending \cup {current[t]}
    /\ UNCHANGED <<owner, current, outcome, effect>>

Perform(c) ==
    /\ c \in pending
    /\ effect[c] = 0
    /\ effect' = [effect EXCEPT ![c] = 1]
    /\ pending' = pending \ {c}
    /\ UNCHANGED <<owner, current, outcome>>

\* charon died, or does not know the command.
Lose ==
    /\ pending' \in SUBSET pending
    /\ UNCHANGED <<owner, current, outcome, effect>>

ReturnOk(t) ==
    /\ owner = t
    /\ effect[current[t]] = 1
    /\ owner' = NoThread
    /\ outcome' = [outcome EXCEPT ![t] = "ok"]
    /\ UNCHANGED <<current, pending, effect>>

ReturnError(t) ==
    /\ owner = t
    /\ owner' = NoThread
    /\ outcome' = [outcome EXCEPT ![t] = "error"]
    /\ UNCHANGED <<current, pending, effect>>

Next ==
    \/ \E t \in Threads :
          \/ \E c \in Calls : Begin(t, c)
          \/ Acquire(t)
          \/ Submit(t)
          \/ ReturnOk(t)
          \/ ReturnError(t)
    \/ \E c \in Calls : Perform(c)
    \/ Lose

Spec == Init /\ [][Next]_vars

=============================================================================
