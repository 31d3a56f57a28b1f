---------------------------- MODULE RunContract ----------------------------
(***************************************************************************)
(* What one call of runner.Run promises, without goroutines, gates, locks  *)
(* or callbacks.  A run collects the readiness conditions that completed,  *)
(* settles on at most one verdict, may be interrupted by its deadline or   *)
(* by its caller, and reports exactly one status.  Runner implements this  *)
(* specification.                                                          *)
(***************************************************************************)
CONSTANTS Ready,      \* the non-guard conditions
          Mode        \* "all" or "any"

VARIABLES completed,  \* readiness conditions whose satisfaction counts
          verdict,    \* "none" until the run is decided
          cause,      \* "live", or what ended the run context first
          report      \* the status Run returned, "none" before it returns

vars == <<completed, verdict, cause, report>>

Causes == {"deadline", "parent", "runner"}

\* What makes a run satisfied in its mode.
GoalMet == IF Mode = "any" THEN completed # {} ELSE completed = Ready

TypeOK ==
    /\ completed \subseteq Ready
    /\ verdict \in {"none", "satisfied", "fatal"}
    /\ cause \in Causes \cup {"live"}
    /\ report \in {"none", "satisfied", "fatal", "timeout", "cancelled"}

Init ==
    /\ completed = {}
    /\ verdict = "none"
    /\ cause = "live"
    /\ report = "none"

\* A readiness condition completes. In mode any the first one decides the run
\* in the same step; in mode all the decision is a step of its own.
Complete(c) ==
    /\ report = "none"
    /\ c \notin completed
    /\ completed' = completed \cup {c}
    /\ verdict' = IF Mode = "any" /\ verdict = "none" THEN "satisfied" ELSE verdict
    /\ UNCHANGED <<cause, report>>

\* In mode all, the last readiness condition claims the run.
Settle ==
    /\ report = "none"
    /\ Mode = "all"
    /\ verdict = "none"
    /\ GoalMet
    /\ verdict' = "satisfied"
    /\ UNCHANGED <<completed, cause, report>>

\* A fatal check, or a guard that became true, decides an undecided run.
Fail ==
    /\ report = "none"
    /\ verdict = "none"
    /\ verdict' = "fatal"
    /\ UNCHANGED <<completed, cause, report>>

\* The run context ends once. Only a decided run ends its own context.
Interrupt(why) ==
    /\ report = "none"
    /\ cause = "live"
    /\ why = "runner" => verdict # "none"
    /\ cause' = why
    /\ UNCHANGED <<completed, verdict, report>>

\* A decided run reports its verdict. An undecided one reports how its context
\* ended, and only when its goal is not met.
Report ==
    /\ report = "none"
    /\ cause # "live"
    /\ \/ /\ verdict # "none"
          /\ report' = verdict
       \/ /\ verdict = "none"
          /\ ~GoalMet
          /\ report' = IF cause = "deadline" THEN "timeout" ELSE "cancelled"
    /\ UNCHANGED <<completed, verdict, cause>>

Next ==
    \/ \E c \in Ready : Complete(c)
    \/ Settle
    \/ Fail
    \/ \E why \in Causes : Interrupt(why)
    \/ Report

Spec == Init /\ [][Next]_vars

\* A run whose context ended reports, and no other step may put that off for ever.
Live == WF_vars(Report) /\ WF_vars(Interrupt("deadline"))

FairSpec == Spec /\ Live
=============================================================================
