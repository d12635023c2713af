---------------------------- MODULE MCRuleCache ----------------------------
(* A small instance of RuleCache for TLC. *)
EXTENDS RuleCache

CONSTANTS r1, t1, t2, l1, e1, e2

OneRule == {r1}
TwoTenants == {t1, t2}
OneLoader == {l1}
TwoEditors == {e1, e2}
=============================================================================
