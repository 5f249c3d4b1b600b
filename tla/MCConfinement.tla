---------------------------- MODULE MCConfinement ----------------------------
(* The host may have been started under limits below, at and above those it  *)
(* asks for, of two kinds.                                                   *)
EXTENDS Confinement

MCResources == {"CPU", "NOFILE"}
MCCap       == [r \in MCResources |-> 2]
MCPairs     == {p \in [soft : 1..4, hard : 1..4] : p.soft =< p.hard}
MCInherited == [MCResources -> MCPairs]

=============================================================================
