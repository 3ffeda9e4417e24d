---------------------------- MODULE MCTrunkVlan ----------------------------
(* Three VLANs, stanzas of up to four lines over every baseline; a port    *)
(* whose list was withdrawn allows one VLAN, so that a withdrawal differs  *)
(* from both `none` and `all`.                                             *)
EXTENDS TrunkVlan

MCVlanIds == 1..3
MCResetList == {1}
=============================================================================
