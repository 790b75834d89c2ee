------------------------------ MODULE Incident ------------------------------
(***************************************************************************)
(* What the incident pipeline promises, with neither events, handlers nor  *)
(* unique indexes: for each cause (a failed validation result, a failed    *)
(* assessment control) at most one violation is opened, and for each       *)
(* violation at most one remediation task is created automatically.        *)
(***************************************************************************)
CONSTANTS
  Violations,  \* identifiers of violations
  Causes,      \* what a violation may be opened for
  NoCause,     \* a violation opened by hand, without a cause
  Unopened     \* identifiers not in use

VARIABLES
  cause,       \* cause of each violation, or Unopened
  tasked       \* violations that have their automatic task

Init ==
  /\ cause = [v \in Violations |-> Unopened]
  /\ tasked = {}

Open(v) ==
  /\ cause[v] = Unopened
  /\ \E c \in Causes \cup {NoCause} :
       /\ \A w \in Violations : c \in Causes => cause[w] # c
       /\ cause' = [cause EXCEPT ![v] = c]
  /\ UNCHANGED tasked

CreateTask(v) ==
  /\ cause[v] # Unopened
  /\ v \notin tasked
  /\ tasked' = tasked \cup {v}
  /\ UNCHANGED cause

Next == \E v \in Violations : Open(v) \/ CreateTask(v)

Spec == Init /\ [][Next]_<<cause, tasked>>
=============================================================================
