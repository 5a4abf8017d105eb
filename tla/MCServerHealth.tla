----------------------------- MODULE MCServerHealth -----------------------------
(* Instances of ServerHealth for TLC. *)
EXTENDS ServerHealth, TLC

CONSTANTS Sweep1, Manual1, Operator1

MCSweeps == {Sweep1}
MCManuals == {Manual1}
MCOperators == {Operator1}
MCKind == Sweep1 :> "collection" @@ Manual1 :> "discovery"
=============================================================================
