---------------------------- MODULE AgentAccess ----------------------------
(***************************************************************************)
(* What the run lifecycle promises about agent access, with no mechanism:  *)
(* an agent may be given a path to its task's sandbox, the path may be     *)
(* taken away, and the sandbox may be evaluated only when there is no path *)
(* and is never given one again afterwards.                                *)
(***************************************************************************)
CONSTANT Task

VARIABLES
  access,     \* tasks whose agent may still reach its sandbox
  evaluated   \* tasks whose evaluation has begun

vars == <<access, evaluated>>

TypeOK ==
  /\ access \subseteq Task
  /\ evaluated \subseteq Task

Init ==
  /\ access = {}
  /\ evaluated = {}

Grant(t) ==
  /\ t \notin evaluated
  /\ access' = access \cup {t}
  /\ UNCHANGED evaluated

\* Several paths may close in one step: a process that ends takes all of its.
Revoke(T) ==
  /\ access' = access \ T
  /\ UNCHANGED evaluated

Evaluate(t) ==
  /\ t \notin access
  /\ evaluated' = evaluated \cup {t}
  /\ UNCHANGED access

Next ==
  \/ \E t \in Task : Grant(t) \/ Evaluate(t)
  \/ \E T \in SUBSET Task : Revoke(T)

Spec == Init /\ [][Next]_vars
=============================================================================
