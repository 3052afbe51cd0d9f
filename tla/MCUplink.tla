------------------------------ MODULE MCUplink ------------------------------
(* Instances of Uplink for TLC. *)
EXTENDS UplinkInv

ToPeer == {<<"peer", "peer">>}
Mixed == ToPeer \cup {<<"group", "self">>, <<"other", "peer">>}
=============================================================================
