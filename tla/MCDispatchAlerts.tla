-------------------------- MODULE MCDispatchAlerts --------------------------
(***************************************************************************)
(* Small instances of DispatchAlerts for TLC.                             *)
(***************************************************************************)
EXTENDS DispatchAlerts

Calm == [configured |-> TRUE, tables |-> TRUE, fresh |-> TRUE, failing |-> FALSE,
         turns |-> "allotment", deploy |-> "success"]

MCWorlds ==
  {Calm,
   [Calm EXCEPT !.deploy = "failure"],
   [Calm EXCEPT !.turns = "metered"],
   [Calm EXCEPT !.turns = "few"]}
=============================================================================
