------------------------------ MODULE Commands ------------------------------
(***************************************************************************)
(* The two families of commands side by side.  They share no state: one    *)
(* behaviour is of the commands that keep config.toml, another of the      *)
(* helper commands of jobs, and which it is, is chosen at the start.       *)
(***************************************************************************)
EXTENDS ConfigCommands, HelperCommands

configIdle ==
  /\ file = Old /\ fileIs = "whole" /\ gitlab = {} /\ excused = {} /\ faults = 0
  /\ cp = [p \in Procs |-> Exited]

helperIdle ==
  /\ now = 0 /\ works = 0 /\ diskFull = FALSE
  /\ tree = [j \in Jobs |-> [src |-> 0, obj |-> 0]]
  /\ cache = Nothing /\ remote = Nothing
  /\ artifacts = [j \in Jobs |-> Nothing]
  /\ proc = [j \in Jobs |-> [Idle EXCEPT !.calls = MaxCalls]]

Init == (ConfigInit /\ helperIdle) \/ (HelperInit /\ configIdle)

Next == \/ now = 0 /\ ConfigNext /\ UNCHANGED helperVars
        \/ now > 0 /\ HelperNext /\ UNCHANGED configVars

Spec == Init /\ [][Next]_<<configVars, helperVars>>
=============================================================================
