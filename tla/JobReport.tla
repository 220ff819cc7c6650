------------------------------- MODULE JobReport -------------------------------
(***************************************************************************)
(* What the job trace promises (common.JobTrace, network/trace.go), seen   *)
(* from GitLab and from the job, with no request, lock or goroutine in it: *)
(* the log GitLab receives is always a first part of what the job wrote,   *)
(* the job's result is fixed once, and GitLab gets that result or ends the *)
(* job itself, after which nothing of the job changes there any more.      *)
(***************************************************************************)
EXTENDS Integers

CONSTANTS Reasons, NoneFailure

VARIABLES
  written,   \* characters the job has written to its log
  result,    \* the job's own state and failure reason
  received,  \* characters of the log GitLab has
  outcome    \* state and failure reason of the job in GitLab

vars == <<written, result, received, outcome>>

Open == [state |-> "running", reason |-> NoneFailure]
Given == {[state |-> "success", reason |-> NoneFailure]} \cup [state: {"failed"}, reason: Reasons]

Init == written = 0 /\ received = 0 /\ result = Open /\ outcome.state = "running"

\* The job writes; once it has a result it is silent.
Write ==
  /\ result.state = "running"
  /\ written' = written + 1
  /\ UNCHANGED <<result, received, outcome>>

\* The first Fail or Success decides.
End ==
  /\ result.state = "running"
  /\ result' \in Given
  /\ UNCHANGED <<written, received, outcome>>

\* GitLab gets more of the log, in order, while the job is open there.
Receive ==
  /\ outcome.state = "running"
  /\ received' \in (received + 1)..written
  /\ UNCHANGED <<written, result, outcome>>

\* GitLab gets the result.
Report ==
  /\ outcome.state = "running" /\ result.state # "running"
  /\ outcome' = result
  /\ UNCHANGED <<written, result, received>>

\* Somebody cancels or deletes the job in GitLab.
Withdraw ==
  /\ outcome.state = "running"
  /\ \E s \in {"canceled", "deleted"} : outcome' = [outcome EXCEPT !.state = s]
  /\ UNCHANGED <<written, result, received>>

Next == Write \/ End \/ Receive \/ Report \/ Withdraw

Spec == Init /\ [][Next]_vars
=============================================================================
