-------------------------- MODULE MCGreenfieldDao --------------------------
(* Channels of the Greenfield -> BSC direction as model values. *)
EXTENDS GreenfieldDao

CONSTANTS c1, c2

MCOneChannel == {c1}
MCTwoChannels == {c1, c2}
=============================================================================
