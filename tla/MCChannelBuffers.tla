-------------------------- MODULE MCChannelBuffers --------------------------
(* One channel with small capacities. *)
EXTENDS ChannelBuffers

=============================================================================
