----------------------------- MODULE ProbeTools -----------------------------
(***************************************************************************)
(* The command-line tools of the probe: a bare strict run, a leg of the    *)
(* live emission and a comparison.  A process is one of them.              *)
(***************************************************************************)
EXTENDS LiveEmit, Compare

VARIABLE tool  \* the program that runs

toolsVars == <<tool, runnerVars, legVars, compareVars>>

ToolsInit ==
  /\ tool \in {"run", "leg", "compare"}
  /\ RunnerInit /\ LegInit /\ CompareInit

ToolsNext ==
  \/ tool = "run" /\ RunnerNext /\ UNCHANGED <<tool, legVars, compareVars>>
  \/ tool = "leg" /\ LegNext /\ UNCHANGED <<tool, compareVars>>
  \/ tool = "compare" /\ CompareNext /\ UNCHANGED <<tool, runnerVars, legVars>>

ToolsSpec == ToolsInit /\ [][ToolsNext]_toolsVars

\* The values a run, a leg and a comparison give their variables: above all, no
\* turn is past the last question and no batch is counted that was not made.
ToolsTypeOK ==
  /\ tool \in {"run", "leg", "compare"}
  /\ RunnerTypeOK /\ LegTypeOK /\ CompareTypeOK
=============================================================================
