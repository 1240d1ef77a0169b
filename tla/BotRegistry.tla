----------------------------- MODULE BotRegistry -----------------------------
(***************************************************************************)
(* User.bot: the registry of running bots, and the goroutines that change  *)
(* it.  A request (the handlers of /widget/enable, /restart and /disable,  *)
(* the loop of StartBots, a worker of StopBots) runs createBot or          *)
(* StopUserBot one call at a time, interleaved with the other requests:    *)
(* nothing in the code locks a user between the calls.                     *)
(***************************************************************************)
EXTENDS Naturals, FiniteSets

CONSTANTS Users,      \* owners of widgets
          Bots,       \* *Bot instances that can be built (bounds a run)
          Requests,   \* goroutines that may be creating or stopping a bot
          Patience,   \* periods of the ticker until the timeout of StopUserBot (50)
          NoUser,
          NoBot

ASSUME NoneAssumption == NoUser \notin Users /\ NoBot \notin Bots
ASSUME PatienceAssumption == Patience \in Nat

VARIABLES
    registry,   \* User.bot: the instance stored for each user, or NoBot
    owner,      \* Bot.userID, NoUser until the instance is built
    cancelled,  \* instances whose Bot.cancel has been called
    closed,     \* instances whose Bot.shutdownCh has been closed
    enabled,    \* MySQL: users with channels.Widget_enabled = 1
    pc,         \* the next call of each request
    subject,    \* the user the request is about
    held,       \* the *Bot in the request's local variable, or NoBot
    left        \* periods of the ticker until the request's timer fires

instances == <<registry, owner, cancelled, closed>>
local     == <<pc, subject, held, left>>
vars      == <<registry, owner, cancelled, closed, enabled, pc, subject, held, left>>

CreateSteps == {"read", "subscribe", "load", "cancel", "build", "store"}
StopSteps   == {"take", "close", "wait", "kill"}
HoldSteps   == {"cancel", "store", "close", "wait", "kill"}

TypeOK ==
    /\ registry \in [Users -> Bots \cup {NoBot}]
    /\ owner \in [Bots -> Users \cup {NoUser}]
    /\ cancelled \in SUBSET Bots /\ closed \in SUBSET Bots
    /\ enabled \in SUBSET Users
    /\ pc \in [Requests -> {"idle"} \cup CreateSteps \cup StopSteps]
    /\ subject \in [Requests -> Users \cup {NoUser}]
    /\ held \in [Requests -> Bots \cup {NoBot}]
    /\ left \in [Requests -> 0..Patience]
    /\ \A r \in Requests : /\ pc[r] # "idle" => subject[r] \in Users
                           /\ pc[r] \in HoldSteps => held[r] \in Bots

Init ==
    /\ registry = [u \in Users |-> NoBot]
    /\ owner = [b \in Bots |-> NoUser]
    /\ cancelled = {} /\ closed = {}
    /\ enabled \in SUBSET Users
    /\ pc = [r \in Requests |-> "idle"]
    /\ subject = [r \in Requests |-> NoUser]
    /\ held = [r \in Requests |-> NoBot]
    /\ left = [r \in Requests |-> 0]

-----------------------------------------------------------------------------
(* The control flow of a request. *)

Unbuilt == {b \in Bots : owner[b] = NoUser}

At(r, step) == pc[r] = step

\* Go on to a step with bot in the local variable.
Goto(r, step, bot) ==
    /\ pc' = [pc EXCEPT ![r] = step]
    /\ held' = [held EXCEPT ![r] = bot]
    /\ UNCHANGED <<subject, left>>

\* Return from the handler, with or without an error.
Return(r) ==
    /\ pc' = [pc EXCEPT ![r] = "idle"]
    /\ subject' = [subject EXCEPT ![r] = NoUser]
    /\ held' = [held EXCEPT ![r] = NoBot]
    /\ left' = [left EXCEPT ![r] = 0]

Start(r, u, step) ==
    /\ At(r, "idle")
    /\ pc' = [pc EXCEPT ![r] = step]
    /\ subject' = [subject EXCEPT ![r] = u]
    /\ UNCHANGED <<held, left>>

-----------------------------------------------------------------------------
(* createBot: StartBot, RestartBot and the loop of StartBots.              *)

\* A request to start the bot of u begins.  (Bots bounds the instances ever
\* built: a request begins only while one is left for it.)
BeginCreate(r, u) ==
    /\ Cardinality(Unbuilt) > Cardinality({q \in Requests : pc[q] \in CreateSteps})
    /\ Start(r, u, "read")
    /\ UNCHANGED <<instances, enabled>>

\* GetWidgetBotUser finds a row only for an enabled channel.
HasRow(u) == u \in enabled

\* The row is there, enabled and with data.
ReadRow(r) ==
    /\ At(r, "read") /\ HasRow(subject[r])
    /\ Goto(r, "subscribe", NoBot)
    /\ UNCHANGED <<instances, enabled>>

\* decryptData, ParseWidgetConfig and maxConnect, which touch nothing shared,
\* and CheckUserSubscription succeed.
Subscribed(r) ==
    /\ At(r, "subscribe")
    /\ Goto(r, "load", NoBot)
    /\ UNCHANGED <<instances, enabled>>

\* CheckUserSubscription returns a SubscriptionError: DisableAllUserChannel
\* switches the user's channels off and the request returns the error.
SubscriptionRefused(r) ==
    /\ At(r, "subscribe")
    /\ enabled' = enabled \ {subject[r]}
    /\ Return(r)
    /\ UNCHANGED <<instances>>

\* Every other error returned before the registry is touched: no row, SQL,
\* MasterKey, decryption, configuration, an unknown subscription error, a
\* DisableAllUserChannel that fails.
CreateFails(r) ==
    /\ pc[r] \in {"read", "subscribe"}
    /\ Return(r)
    /\ UNCHANGED <<instances, enabled>>

\* Mutant: the instance found is not cancelled.
LoadOld_Forget(r) ==
    /\ At(r, "load")
    /\ Goto(r, "build", NoBot)
    /\ UNCHANGED <<instances, enabled>>

\* createOrUpdateBot: u.bot.Load.
LoadOld(r) ==
    /\ At(r, "load")
    /\ LET old == registry[subject[r]]
       IN  IF old = NoBot THEN Goto(r, "build", NoBot) ELSE Goto(r, "cancel", old)
    /\ UNCHANGED <<instances, enabled>>

\* Mutant: the cancelled instance is updated and stored again.
CancelOld_Reuse(r) ==
    /\ At(r, "cancel")
    /\ cancelled' = cancelled \cup {held[r]}
    /\ Goto(r, "store", held[r])
    /\ UNCHANGED <<registry, owner, closed, enabled>>

\* Mutant: an error after the cancel makes the request return.
CancelOld_GiveUp(r) ==
    /\ At(r, "cancel")
    /\ cancelled' = cancelled \cup {held[r]}
    /\ Return(r)
    /\ UNCHANGED <<registry, owner, closed, enabled>>

\* createOrUpdateBot: existingBot.cancel().
CancelOld(r) ==
    /\ At(r, "cancel")
    /\ cancelled' = cancelled \cup {held[r]}
    /\ Goto(r, "build", NoBot)
    /\ UNCHANGED <<registry, owner, closed, enabled>>

\* initializeBot: a new instance, crm.Init.  (Its preload is in FirstContact.)
Build(r) ==
    /\ At(r, "build")
    /\ \E b \in Unbuilt : /\ owner' = [owner EXCEPT ![b] = subject[r]]
                          /\ Goto(r, "store", b)
    /\ UNCHANGED <<registry, cancelled, closed, enabled>>

\* u.bot.Store, whatever is stored there now.
Store(r) ==
    /\ At(r, "store")
    /\ registry' = [registry EXCEPT ![subject[r]] = held[r]]
    /\ Return(r)
    /\ UNCHANGED <<owner, cancelled, closed, enabled>>

-----------------------------------------------------------------------------
(* StopUserBot: called by StopBot and by the workers of StopBots.          *)

\* StopBot loads the entry, the Range of StopBots visits the key.
BeginStop(r, u) ==
    /\ registry[u] # NoBot
    /\ Start(r, u, "take")
    /\ UNCHANGED <<instances, enabled>>

\* Mutant: Load, with the Delete left for later.
Take_LoadOnly(r) ==
    /\ At(r, "take")
    /\ IF registry[subject[r]] = NoBot
       THEN Return(r)
       ELSE Goto(r, "close", registry[subject[r]])
    /\ UNCHANGED <<instances, enabled>>

\* Mutant: the exists flag is not looked at.
Take_NoCheck(r) ==
    /\ At(r, "take")
    /\ registry' = [registry EXCEPT ![subject[r]] = NoBot]
    /\ Goto(r, "close", registry[subject[r]])
    /\ UNCHANGED <<owner, cancelled, closed, enabled>>

\* u.bot.LoadAndDelete.
Take(r) ==
    /\ At(r, "take")
    /\ registry' = [registry EXCEPT ![subject[r]] = NoBot]
    /\ IF registry[subject[r]] = NoBot
       THEN Return(r)
       ELSE Goto(r, "close", registry[subject[r]])
    /\ UNCHANGED <<owner, cancelled, closed, enabled>>

\* A step of StopUserBot on the instance it took out.
StopGoto(r, step) ==
    /\ pc' = [pc EXCEPT ![r] = step]
    /\ UNCHANGED <<registry, owner, cancelled, enabled, subject, held>>

\* close(bot.shutdownCh); the timer and the ticker are set up before the loop.
Close(r) ==
    /\ At(r, "close")
    /\ closed' = closed \cup {held[r]}
    /\ left' = [left EXCEPT ![r] = Patience]
    /\ StopGoto(r, "wait")

\* The top of the loop finds no active connection.  (The handlers lower the
\* counter when and if they leave, in SSEStream: here it may be anything.)
Drained(r) ==
    /\ At(r, "wait")
    /\ StopGoto(r, "kill")
    /\ UNCHANGED <<closed, left>>

\* Mutant: the timer is made in the loop, anew on every pass.
TickerFires_RearmTimer(r) ==
    /\ At(r, "wait")
    /\ left' = [left EXCEPT ![r] = Patience]
    /\ StopGoto(r, "wait")
    /\ UNCHANGED closed

\* A connection is open, and case <-ticker.C continues the loop: a period has
\* passed, and the timer has run on meanwhile.
TickerFires(r) ==
    /\ At(r, "wait")
    /\ left' = [left EXCEPT ![r] = IF @ = 0 THEN 0 ELSE @ - 1]
    /\ StopGoto(r, "wait")
    /\ UNCHANGED closed

\* A connection is open, and case <-timeout is ready: the periods are over.
TimeoutFires(r) ==
    /\ At(r, "wait") /\ left[r] = 0
    /\ StopGoto(r, "kill")
    /\ UNCHANGED <<closed, left>>

\* A connection is open, and case <-u.ctx.Done() is ready: the process was told
\* to stop (Shutdown).
ContextDone(r) ==
    /\ At(r, "wait")
    /\ StopGoto(r, "kill")
    /\ UNCHANGED <<closed, left>>

\* bot.cancel() at the label cleanup.
Kill(r) ==
    /\ At(r, "kill")
    /\ cancelled' = cancelled \cup {held[r]}
    /\ Return(r)
    /\ UNCHANGED <<registry, owner, closed, enabled>>

-----------------------------------------------------------------------------
\* The orchestrator switches the user's channel on or off in MySQL.
SetChannel(u) ==
    /\ enabled' \in {enabled \cup {u}, enabled \ {u}}
    /\ UNCHANGED <<instances, local>>

CreateStep(r) ==
    \/ ReadRow(r) \/ Subscribed(r)
    \/ SubscriptionRefused(r) \/ CreateFails(r)
    \/ LoadOld(r) \/ CancelOld(r) \/ Build(r) \/ Store(r)

WaitStep(r) == Drained(r) \/ TickerFires(r) \/ TimeoutFires(r) \/ ContextDone(r)

StopStep(r) == Take(r) \/ Close(r) \/ WaitStep(r) \/ Kill(r)

Next ==
    \/ \E r \in Requests : \/ \E u \in Users : BeginCreate(r, u) \/ BeginStop(r, u)
                           \/ CreateStep(r)
                           \/ StopStep(r)
    \/ \E u \in Users : SetChannel(u)

Spec == Init /\ [][Next]_vars

\* A request that has begun keeps running: the Go scheduler runs its goroutine,
\* each external call returns, the ticker ticks; the timeout stays ready once
\* it is, and a select that chooses at random does not pass it over for ever.
\* Nothing obliges a request to begin, a connection to end (Drained) or u.ctx
\* to be cancelled.
Fairness == \A r \in Requests :
    /\ WF_vars(CreateStep(r)) /\ WF_vars(Take(r) \/ Close(r) \/ Kill(r))
    /\ WF_vars(TickerFires(r)) /\ WF_vars(TimeoutFires(r))

FairSpec == Spec /\ Fairness

-----------------------------------------------------------------------------
(* What must hold. *)

\* close(bot.shutdownCh) panics on a closed channel.  No request is about to
\* close one that is closed, or that another request is about to close too.
ShutOnce == \A r \in Requests : At(r, "close") =>
    /\ held[r] \notin closed
    /\ \A q \in Requests \ {r} : At(q, "close") => held[q] # held[r]

\* Handlers that find an instance in User.bot use its context (the Redis
\* write of handleMessage, the session of StartCh).  A stored instance may
\* have a cancelled context only while the request that will replace it runs.
RegisteredLive == \A u \in Users :
    (registry[u] # NoBot /\ registry[u] \in cancelled) =>
        \E r \in Requests : subject[r] = u /\ pc[r] \in {"build", "store"}

\* A step that stores an instance stores one whose context is live and whose
\* shutdownCh is open: an instance that left the registry never comes back.
PublishesLive == [][\A u \in Users :
    (registry'[u] # registry[u] /\ registry'[u] # NoBot) =>
        registry'[u] \notin cancelled \cup closed]_vars

\* StopUserBot returns even if its loop finds an open connection every time
\* it looks (a client that does not read): the timer bounds the wait as a whole
\* and not each pass.
StopReturns == \A r \in Requests : (pc[r] \in StopSteps) ~> At(r, "idle")

\* An instance whose context was cancelled leaves User.bot: a restart does
\* not leave a dead bot behind that the handlers keep finding.
DeadBotLeaves == \A u \in Users, b \in Bots :
    (registry[u] = b /\ b \in cancelled) ~> (registry[u] # b)

\* createOrUpdateBot says that an existing instance is always stopped: one
\* that is out of the registry and in no request's hands has been cancelled.
ReplacedIsStopped == \A b \in Bots :
    (/\ owner[b] # NoUser
     /\ registry[owner[b]] # b
     /\ \A r \in Requests : held[r] # b) => b \in cancelled

\* At most one request is creating a bot for a user at a time.  Nothing in the
\* code sees to it: it is what a lock for each user would give.
OneCreates == \A r, q \in Requests :
    (pc[r] \in CreateSteps /\ pc[q] \in CreateSteps /\ subject[r] = subject[q]) => r = q

\* The two concurrent creations are the whole cause of the instance that is
\* lost: as long as the creations for a user do not overlap, the instance that
\* is replaced has been stopped, whatever StopUserBot does meanwhile.
SerialStops == []OneCreates => []ReplacedIsStopped

-----------------------------------------------------------------------------
(* Why it holds: the inductive invariant behind ShutOnce, RegisteredLive and *)
(* PublishesLive.                                                            *)

\* An instance that has not been built is known to nobody.
UnbuiltUnknown == \A b \in Bots : owner[b] = NoUser =>
    /\ b \notin cancelled \cup closed
    /\ \A u \in Users : registry[u] # b
    /\ \A r \in Requests : held[r] # b

\* A stored instance belongs to the user it is stored for, its shutdownCh is
\* open, and no request is about to store, shut or kill it.
StoredIsWhole == \A u \in Users : registry[u] # NoBot =>
    /\ owner[registry[u]] = u
    /\ registry[u] \notin closed
    /\ \A r \in Requests : pc[r] \in {"store", "close", "wait", "kill"} =>
                               held[r] # registry[u]

\* An instance about to be stored is new, and only its builder knows it.
NewIsPrivate == \A r \in Requests : At(r, "store") =>
    /\ owner[held[r]] = subject[r]
    /\ held[r] \notin cancelled \cup closed
    /\ \A q \in Requests \ {r} : held[q] # held[r]

\* A request cancels, shuts or kills an instance of its own user.
HeldIsOwn == \A r \in Requests : pc[r] \in {"cancel", "close", "wait", "kill"} =>
    owner[held[r]] = subject[r]

IInv ==
    /\ TypeOK /\ UnbuiltUnknown /\ StoredIsWhole /\ NewIsPrivate /\ HeldIsOwn
    /\ ShutOnce /\ RegisteredLive

-----------------------------------------------------------------------------
(* The instances, as BotInstances sees them. *)

HeldAt(b, step) == \E r \in Requests : At(r, step) /\ held[r] = b

StageOf(b) ==
    CASE owner[b] = NoUser        -> "none"
      [] owner[b] # NoUser /\ registry[owner[b]] = b -> "serving"
      [] OTHER -> IF b \in closed THEN "shut"
                  ELSE IF HeldAt(b, "store") THEN "built"
                  ELSE IF HeldAt(b, "close") THEN "withdrawn"
                  ELSE "replaced"

Life == INSTANCE BotInstances WITH stage <- [b \in Bots |-> StageOf(b)]

\* The registry implements the life of instances the SSE handlers rely on.
ImplementsInstances == Life!Spec
=============================================================================
