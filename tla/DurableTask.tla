---------------------------- MODULE DurableTask ----------------------------
(***************************************************************************)
(* The vocabulary of a durable LLM task (durable/task.go): its scheduling  *)
(* statuses, the write-ahead commit states with their monotone rank, and   *)
(* the transition matrix the package publishes.                            *)
(***************************************************************************)
EXTENDS Integers

\* Outcomes a settled task can never leave (terminalStatuses).
TerminalStatuses == {"completed", "failed", "expired", "canceled"}

\* Statuses an execution claim may start from (claimSelectSQL).
RunnableStatuses == {"waiting_recovery", "retry_scheduled", "running"}

Statuses == TerminalStatuses \cup RunnableStatuses \cup {"resume_safety_blocked"}

IsTerminalStatus(s) == s \in TerminalStatuses

\* Terminal in the four-element sense, or parked for ever by the safety reaper.
IsSettledStatus(s) == IsTerminalStatus(s) \/ s = "resume_safety_blocked"

CommitStates == {"none", "metadata", "content", "tool_call", "terminal"}

\* commitStateRanks: a checkpoint may only move up this order.
CommitStateRank(cs) ==
  CASE cs = "none"      -> 0
    [] cs = "metadata"  -> 1
    [] cs = "content"   -> 2
    [] cs = "tool_call" -> 3
    [] OTHER            -> 4

\* Mutant: the gate still takes a task whose content was shown.
IsRunnableCommitState_OneTooFar(cs) == cs \in {"none", "metadata", "content"}

\* The gate every execution claim and every reschedule goes through: only a
\* task that has shown the client no semantic output may run again.
IsRunnableCommitState(cs) == cs \in {"none", "metadata"}

\* The static transition matrix, and its reflexive closure CanTransition.
Transitions(from) ==
  CASE from \in {"retry_scheduled", "waiting_recovery"} ->
         {"running", "expired", "canceled", "resume_safety_blocked"}
    [] from = "running" ->
         {"retry_scheduled", "waiting_recovery", "resume_safety_blocked"}
           \cup TerminalStatuses
    [] OTHER -> {}

CanTransition(from, to) == from = to \/ to \in Transitions(from)
=============================================================================
