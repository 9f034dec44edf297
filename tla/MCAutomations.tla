---------------------------- MODULE MCAutomations ----------------------------
(***************************************************************************)
(* The TLC instance of Automations whose state space is the largest.  The  *)
(* values of updated_at are compared for equality only, by every action    *)
(* and every property, so that two states which differ in the names of the *)
(* moments alone behave alike: View names a moment by one of its holders.  *)
(***************************************************************************)
EXTENDS Automations

Checkers == SetToSeq(Workers)

\* The moments a state holds: the other fibers hold none.
Held == <<definition.stamp, fiber["pass"].now, fiber["now"].now, fiber["edit"].now>>
          \o [i \in 1..Len(Checkers) |-> worker[Checkers[i]].job.stamp]
          \o [i \in 1..Len(jobs) |-> jobs[i].stamp]

View ==
    LET held == Held
    IN <<[i \in DOMAIN held |->
            IF held[i] = 0 THEN 0 ELSE CHOOSE k \in DOMAIN held : held[k] = held[i]],
         [definition EXCEPT !.stamp = 0],
         [f \in Fibers |-> [fiber[f] EXCEPT !.now = 0]],
         [i \in DOMAIN jobs |-> <<jobs[i].run, jobs[i].saves>>],
         [w \in Workers |-> [worker[w] EXCEPT !.job.stamp = 0]],
         run, created, skipped, turn, userTurn, queued, saves, stopped, rewound,
         stranded, disturbances>>
=============================================================================
