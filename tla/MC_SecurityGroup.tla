-------------------------- MODULE MC_SecurityGroup --------------------------
(* Two sessions of one controller host, two VPCs and four group ids:      *)
(* enough for groups left by earlier runs in either VPC and one creation  *)
(* per session.                                                            *)
EXTENDS SecurityGroup, TLC

CONSTANTS s1, s2, v1, v2, g1, g2, g3, g4

MCSessions == {s1, s2}
MCGroupIds == {g1, g2, g3, g4}
MCVpcs == {v1, v2}
MCOneVpc == {v1}

(* Sessions are interchangeable, and so are group ids: a lookup picks an  *)
(* id only when it is the one match.                                       *)
MCSymmetry == Permutations(MCSessions) \cup Permutations(MCGroupIds)
=============================================================================
