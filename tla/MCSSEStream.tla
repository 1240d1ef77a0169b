----------------------------- MODULE MCSSEStream -----------------------------
(* SSEStream with few instances, respondents and connections. *)
EXTENDS SSEStream

CONSTANT u1

\* Every respondent is a visitor of the one user.
OneUser == [r \in Resps |-> u1]
=============================================================================
