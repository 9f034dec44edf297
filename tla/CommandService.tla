--------------------------- MODULE CommandService ---------------------------
(***************************************************************************)
(* What dispatch promises its callers: every command takes effect at most  *)
(* once and as a whole, its outcome is stored for good, and each call gets *)
(* one answer that agrees with it.  OrchestrationEngine implements this.   *)
(***************************************************************************)
EXTENDS Naturals, Sequences

CONSTANTS Attempts, Commands, CommandOf, Plan

VARIABLES
    log,       \* the events, each with the attempt that caused it and its kind
    outcome,   \* outcome[c]: "none", "accepted" or "rejected"
    answer     \* answer[a]: "none", or the one answer the call got

vars == <<log, outcome, answer>>

Answers == {"none", "accepted", "rejected", "unfinished"}

Init ==
    /\ log = <<>>
    /\ outcome = [c \in Commands |-> "none"]
    /\ answer = [a \in Attempts |-> "none"]

\* The command takes effect on behalf of a call still waiting for its answer.
Commit(a) ==
    /\ answer[a] = "none" /\ outcome[CommandOf[a]] = "none"
    /\ log' = log \o [k \in 1..Len(Plan[CommandOf[a]]) |->
                         [by |-> a, kind |-> Plan[CommandOf[a]][k]]]
    /\ outcome' = [outcome EXCEPT ![CommandOf[a]] = "accepted"]
    /\ UNCHANGED answer

\* A command is refused; as a rule, but not always, that is stored.
Reject(a) ==
    /\ answer[a] = "none" /\ outcome[CommandOf[a]] = "none"
    /\ answer' = [answer EXCEPT ![a] = "rejected"]
    /\ outcome' \in {outcome, [outcome EXCEPT ![CommandOf[a]] = "rejected"]}
    /\ UNCHANGED log

\* A call is told what is stored.
Report(a) ==
    /\ answer[a] = "none" /\ outcome[CommandOf[a]] # "none"
    /\ answer' = [answer EXCEPT ![a] = outcome[CommandOf[a]]]
    /\ UNCHANGED <<log, outcome>>

\* A call ends without an outcome only if it has caused nothing.
GiveUp(a) ==
    /\ answer[a] = "none"
    /\ \A p \in 1..Len(log) : log[p].by # a
    /\ answer' = [answer EXCEPT ![a] = "unfinished"]
    /\ UNCHANGED <<log, outcome>>

Next == \E a \in Attempts : Commit(a) \/ Reject(a) \/ Report(a) \/ GiveUp(a)

Spec == Init /\ [][Next]_vars
=============================================================================
