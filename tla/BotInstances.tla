---------------------------- MODULE BotInstances ----------------------------
(***************************************************************************)
(* What the bot registry promises about *Bot instances, whatever requests  *)
(* create, replace and stop them.  An instance is built, published in      *)
(* User.bot as the one instance serving its user, and leaves service once: *)
(* either a newer instance replaces it, or a stop withdraws it and then    *)
(* closes its shutdownCh.  BotRegistry implements this specification; the  *)
(* SSE handlers (SSEStream) rely on nothing else.                          *)
(***************************************************************************)
CONSTANTS Users,    \* owners of widgets
          Bots,     \* *Bot instances that can be built (bounds a run)
          NoUser    \* owner of an instance that has not been built

VARIABLES owner,    \* Bot.userID
          stage     \* where the instance is in its life

vars == <<owner, stage>>

Stages == {"none", "built", "serving", "replaced", "withdrawn", "shut"}

Init ==
    /\ owner = [b \in Bots |-> NoUser]
    /\ stage = [b \in Bots |-> "none"]

Serving(u) == {b \in Bots : owner[b] = u /\ stage[b] = "serving"}

\* initializeBot returns a new instance
Build(b, u) ==
    /\ stage[b] = "none"
    /\ owner' = [owner EXCEPT ![b] = u]
    /\ stage' = [stage EXCEPT ![b] = "built"]

\* u.bot.Store: the instance takes the place of the one stored before it
Publish(b) ==
    /\ stage[b] = "built"
    /\ stage' = [d \in Bots |-> IF d = b THEN "serving"
                                ELSE IF d \in Serving(owner[b]) THEN "replaced"
                                ELSE stage[d]]
    /\ UNCHANGED owner

\* u.bot.LoadAndDelete
Withdraw(b) ==
    /\ stage[b] = "serving"
    /\ stage' = [stage EXCEPT ![b] = "withdrawn"]
    /\ UNCHANGED owner

\* close(bot.shutdownCh)
Shut(b) ==
    /\ stage[b] = "withdrawn"
    /\ stage' = [stage EXCEPT ![b] = "shut"]
    /\ UNCHANGED owner

Next == \E b \in Bots :
    \/ \E u \in Users : Build(b, u)
    \/ Publish(b)
    \/ Withdraw(b)
    \/ Shut(b)

Spec == Init /\ [][Next]_vars

-----------------------------------------------------------------------------
TypeOK ==
    /\ owner \in [Bots -> Users \cup {NoUser}]
    /\ stage \in [Bots -> Stages]

\* At most one instance serves a user at any time.
OneServing == \A b, d \in Bots :
    (stage[b] = "serving" /\ stage[d] = "serving" /\ owner[b] = owner[d]) => b = d
=============================================================================
