------------------------ MODULE MCOrchestrationEngine ------------------------
(***************************************************************************)
(* Small instances of OrchestrationEngine for TLC: a thread is created, a  *)
(* turn is started in it (two events: the user's message, which refreshes  *)
(* the thread's summary, and the request), a session update follows.       *)
(***************************************************************************)
EXTENDS OrchestrationEngine

MCCommands == {"create", "again", "turn", "session", "project"}
MCTargets == {"thread", "workspace"}
MCTarget == [c \in MCCommands |-> IF c = "project" THEN "workspace" ELSE "thread"]
MCPlan == [c \in MCCommands |->
             CASE c \in {"create", "again"} -> <<"create">>
               [] c = "turn" -> <<"summary", "delta">>
               [] c = "session" -> <<"summary">>
               [] c = "project" -> <<"project">>]

\* A thread is created, used, and the turn start is sent a second time.
Retry == {"create1", "turn1", "turn2"}
RetryOf == [a \in Retry |-> IF a = "create1" THEN "create" ELSE "turn"]

\* Two clients create the same thread, and the turn start is sent twice.
Rivals == {"create1", "again1", "turn1", "turn2"}
RivalsOf == [a \in Rivals |-> CASE a = "create1" -> "create" [] a = "again1" -> "again"
                                [] OTHER -> "turn"]

\* A project, a thread, a turn and a session update.
Day == {"project1", "create1", "turn1", "session1"}
DayOf == [a \in Day |-> CASE a = "project1" -> "project" [] a = "create1" -> "create"
                          [] a = "turn1" -> "turn" [] a = "session1" -> "session"]
=============================================================================
