------------------------------- MODULE Setup -------------------------------
(***************************************************************************)
(* The three ways in which a node's directory comes about: by the run      *)
(* command, by gen and its boot nodes, or by a monitor's script.  A node   *)
(* uses one of them.                                                       *)
(***************************************************************************)
EXTENDS Startup, NodeScript

VARIABLE tool

vars == <<nodeVars, startVars, genVars, scriptVars, tool>>

\* All variables of the three tools and the directory have their types, and what
\* belongs to a tool that is not used stays as it was.
TypeOK ==
    /\ tool \in {"run", "gen", "script"}
    /\ NodeTypeOK /\ StartupTypeOK /\ GenTypeOK /\ ScriptTypeOK
    /\ tool # "run" => start = "off"
    /\ tool # "gen" => \A b \in BootNode : stored[b] = given[b]
    /\ tool # "script" => install = "off"

Init ==
    /\ tool \in {"run", "gen", "script"}
    /\ NodeInit /\ StartupInit /\ GenInit /\ ScriptInit
    /\ tool # "gen" => given = [b \in BootNode |-> NoFile]

Next ==
    \/ tool = "run" /\ StartupNext /\ UNCHANGED <<genVars, scriptVars, tool>>
    \/ tool = "gen" /\ GenNext /\ UNCHANGED <<startVars, scriptVars, tool>>
    \/ tool = "script" /\ ScriptNext /\ UNCHANGED <<startVars, tool>>

Spec == Init /\ [][Next]_vars
=============================================================================
