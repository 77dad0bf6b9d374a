--------------------------- MODULE TaskGroupSpec ---------------------------
(***************************************************************************)
(* What internal/semerrgroup promises to the pipes that use it: every task *)
(* handed to the group is executed exactly once, at most Limit of them at  *)
(* a time, optionally the first one alone, and Wait answers once, after    *)
(* the last task ended, with a verdict on all of them.                     *)
(***************************************************************************)
EXTENDS Naturals, FiniteSets

CONSTANTS
  N,          \* number of tasks, 1..N in the order the pipe submits them
  Limit,      \* size the group was created with
  Shapes      \* the sets of wrappers a group may have

VARIABLES
  wraps,      \* the wrappers of the group
  ended,      \* outcome of each task that ended
  executing,  \* tasks executing their function
  verdict     \* what Wait answered

specVars == <<wraps, ended, executing, verdict>>

Task == 1..N
Outcome == {"ok", "skip", "fail"}
SkipAware == "skipAware" \in wraps
FirstAlone == "blockingFirst" \in wraps
Verdict == {"none", "ok", "skip", "fail"}

Init ==
  /\ wraps \in Shapes
  /\ ended = [t \in Task |-> "pending"]
  /\ executing = {}
  /\ verdict = "none"

(* A task starts while there is room, and never next to a first task that  *)
(* is to run alone.                                                        *)
Start(t) ==
  /\ ended[t] = "pending" /\ t \notin executing
  /\ \A s \in Task : s < t => s \in executing \/ ended[s] # "pending"
  /\ Cardinality(executing) < Limit
  /\ FirstAlone => 1 \notin executing
  /\ executing' = executing \cup {t}
  /\ UNCHANGED <<wraps, ended, verdict>>

End(t) ==
  /\ t \in executing
  /\ executing' = executing \ {t}
  /\ \E o \in Outcome : ended' = [ended EXCEPT ![t] = o]
  /\ UNCHANGED <<wraps, verdict>>

(* The verdict: the first error when the group knows of no skips, else a   *)
(* failure outweighs every skip, and a skip outweighs success.             *)
Answer ==
  /\ verdict = "none"
  /\ \A t \in Task : ended[t] # "pending"
  /\ LET got == {ended[t] : t \in Task} IN
       \/ got \subseteq {"ok"} /\ verdict' = "ok"
       \/ "fail" \in got /\ verdict' = "fail"
       \/ "skip" \in got /\ (SkipAware => "fail" \notin got) /\ verdict' = "skip"
  /\ UNCHANGED <<wraps, ended, executing>>

Next == (\E t \in Task : Start(t) \/ End(t)) \/ Answer

Spec == Init /\ [][Next]_specVars
=============================================================================
