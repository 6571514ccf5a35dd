------------------------------ MODULE MC_Locator ------------------------------
(* Two names, two VPCs with two subnet ids, and up to two resources of    *)
(* each kind: enough for a name matched by a later row, for two VPCs of   *)
(* one name, and for an untagged resource.                                *)
EXTENDS Locator

CONSTANTS v1, v2, n1, n2

MCNames == {"web", "db"}
MCVpcIds == {v1, v2}
MCSubnetIds == {n1, n2}
MCMaxRows == 2
=============================================================================
