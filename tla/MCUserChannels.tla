--------------------------- MODULE MCUserChannels ---------------------------
(* UserChannels with two handlers, one instance and one message. *)
EXTENDS UserChannels
=============================================================================
