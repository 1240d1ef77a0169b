---------------------------- MODULE MCBotRegistry ----------------------------
(* BotRegistry on a few users, instances and requests. *)
EXTENDS BotRegistry

=============================================================================
