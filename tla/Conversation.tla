---------------------------- MODULE Conversation ----------------------------
(***************************************************************************)
(* What a respondent may rely on, whatever handlers, sessions and channels *)
(* are between: an answer goes to the respondent whose message it answers, *)
(* once, or is lost.  UserChannels implements it.                          *)
(***************************************************************************)
EXTENDS Sequences

CONSTANTS Resps,  \* respondents
          Msgs    \* messages, each accepted at most once

VARIABLES asked,    \* messages of a respondent that were accepted: 200
          pending,  \* those whose answer may still come
          answered  \* answers written to clients of a respondent, in order

vars == <<asked, pending, answered>>

Init ==
    /\ asked = [r \in Resps |-> {}]
    /\ pending = [r \in Resps |-> {}]
    /\ answered = [r \in Resps |-> <<>>]

\* handleData answers 200.
Ask(r, m) ==
    /\ \A q \in Resps : m \notin asked[q]
    /\ asked' = [asked EXCEPT ![r] = @ \cup {m}]
    /\ pending' = [pending EXCEPT ![r] = @ \cup {m}]
    /\ UNCHANGED answered

\* The answer is written to a client of the respondent.
Answer(r, m) ==
    /\ m \in pending[r]
    /\ pending' = [pending EXCEPT ![r] = @ \ {m}]
    /\ answered' = [answered EXCEPT ![r] = Append(@, m)]
    /\ UNCHANGED asked

\* It is lost with a client, a session or a dialog.
Lose(r, lost) ==
    /\ lost # {} /\ lost \subseteq pending[r]
    /\ pending' = [pending EXCEPT ![r] = @ \ lost]
    /\ UNCHANGED <<asked, answered>>

Next == \E r \in Resps :
    \/ \E m \in Msgs : Ask(r, m) \/ Answer(r, m)
    \/ \E lost \in SUBSET pending[r] : Lose(r, lost)

Spec == Init /\ [][Next]_vars
=============================================================================
