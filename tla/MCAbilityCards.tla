---------------------------- MODULE MCAbilityCards ----------------------------
(* One player of any role, two invitations and one offer.                      *)
EXTENDS AbilityCards

CONSTANTS i1, i2, o1
=============================================================================
