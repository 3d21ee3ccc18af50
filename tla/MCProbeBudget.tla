---------------------------- MODULE MCProbeBudget ----------------------------
(***************************************************************************)
(* The users of the account, for TLC: one probe with a file for it, and    *)
(* the fleet, which keeps an account for each model in memory.  A          *)
(* behaviour is of one of them.                                            *)
(***************************************************************************)
EXTENDS ProbeBudget, FirstPartyFleet

VARIABLE user

McFleet == <<"api", "mock">>

McVars == <<user, vars, fleetVars>>

\* The settings of the one that does not run are fixed.
McInit ==
  /\ Init /\ FleetInit
  /\ \/ user = "probe" /\ pace = 1
     \/ user = "fleet" /\ interval = 0 /\ reliable

McNext ==
  \/ user = "probe" /\ Next /\ UNCHANGED <<user, fleetVars>>
  \/ user = "fleet" /\ FleetNext /\ UNCHANGED <<user, vars>>

\* The fleet is one thread; calls to the providers time out and sleep ends.
McSpec ==
  McInit /\ [][McNext]_McVars /\ WF_McVars(user = "fleet" /\ FleetNext /\ UNCHANGED <<user, vars>>)

\* The fleet goes on whatever fails: models are asked again and again, and
\* transmit again and again (probe_model, main).
FleetGoesOn == user = "fleet" => ModelsAsked /\ ModelsTransmit
=============================================================================
