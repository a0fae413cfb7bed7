--------------------------- MODULE MCRulesEngine ---------------------------
(***************************************************************************)
(* The instances of RulesEngine that TLC checks: the Rules*.cfg files give *)
(* every constant its value, which kinds of outside event an instance      *)
(* allows and how many of them.                                            *)
(***************************************************************************)
EXTENDS RulesEngine, TLC

(* No valve is special; which one is provisioned first is open.             *)
ValveSymmetry == Permutations(Valves)
=============================================================================
