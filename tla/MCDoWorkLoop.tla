---------------------------- MODULE MCDoWorkLoop ----------------------------
(* Instances of DoWorkLoop for TLC. *)
EXTENDS DoWorkLoop

\* three ports: "real time" (priority 0), a fast one and a slow one
MCPriority == [p \in Ports |-> CASE p = 1 -> 0 [] p = 2 -> 2 [] OTHER -> 3]

\* two ports, none of them "real time"
MCPriorityPair == [p \in Ports |-> p + 1]
=============================================================================
