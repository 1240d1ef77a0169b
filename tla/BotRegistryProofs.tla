-------------------------- MODULE BotRegistryProofs --------------------------
(* Theorems about BotRegistry, for any sets of users, instances, requests. *)
EXTENDS BotRegistry, TLAPS

LEMMA TypeInit == Init => TypeOK
  BY NoneAssumption, PatienceAssumption DEF Init, TypeOK, CreateSteps, StopSteps, HoldSteps

\* The steps of createBot and of StopUserBot keep the types.
LEMMA TypeCreate == ASSUME TypeOK, NEW r \in Requests, CreateStep(r)
                    PROVE  TypeOK'
<1> USE PatienceAssumption
    DEF TypeOK, instances, At, Goto, Return, CreateSteps, StopSteps, HoldSteps
<1>1. CASE ReadRow(r) BY <1>1, NoneAssumption DEF ReadRow, HasRow
<1>3. CASE Subscribed(r) BY <1>3, NoneAssumption DEF Subscribed
<1>4. CASE SubscriptionRefused(r) BY <1>4, NoneAssumption DEF SubscriptionRefused
<1>5. CASE CreateFails(r) BY <1>5, NoneAssumption DEF CreateFails
<1>6. CASE LoadOld(r) BY <1>6, NoneAssumption DEF LoadOld
<1>7. CASE CancelOld(r) BY <1>7, NoneAssumption DEF CancelOld
<1>8. CASE Build(r) BY <1>8, NoneAssumption DEF Build, Unbuilt
<1>9. CASE Store(r) BY <1>9, NoneAssumption DEF Store
<1>10. QED BY <1>1, <1>3, <1>4, <1>5, <1>6, <1>7, <1>8, <1>9 DEF CreateStep

LEMMA TypeStop == ASSUME TypeOK, NEW r \in Requests, StopStep(r)
                  PROVE  TypeOK'
<1> USE PatienceAssumption
    DEF TypeOK, instances, At, Goto, Return, CreateSteps, StopSteps, HoldSteps
<1>1. CASE Take(r) BY <1>1, NoneAssumption DEF Take
<1>2. CASE Close(r) BY <1>2, NoneAssumption, PatienceAssumption DEF Close, StopGoto
<1>3. CASE WaitStep(r)
      BY <1>3, NoneAssumption, PatienceAssumption
      DEF StopGoto, WaitStep, Drained, TickerFires, TimeoutFires, ContextDone
<1>4. CASE Kill(r) BY <1>4, NoneAssumption DEF Kill
<1>5. QED BY <1>1, <1>2, <1>3, <1>4 DEF StopStep

LEMMA TypeStep == TypeOK /\ [Next]_vars => TypeOK'
<1> SUFFICES ASSUME TypeOK, [Next]_vars PROVE TypeOK'
    OBVIOUS
<1> USE DEF TypeOK, instances, local, At, Start, CreateSteps, StopSteps, HoldSteps
<1>1. ASSUME NEW r \in Requests, NEW u \in Users, BeginCreate(r, u) PROVE TypeOK'
      BY <1>1, NoneAssumption DEF BeginCreate
<1>2. ASSUME NEW r \in Requests, NEW u \in Users, BeginStop(r, u) PROVE TypeOK'
      BY <1>2, NoneAssumption DEF BeginStop
<1>3. ASSUME NEW u \in Users, SetChannel(u) PROVE TypeOK'
      BY <1>3 DEF SetChannel
<1>4. CASE UNCHANGED vars BY <1>4 DEF vars
<1>5. QED BY <1>1, <1>2, <1>3, <1>4, TypeCreate, TypeStop DEF Next

\* Every variable keeps its type, whatever requests run: a request past its
\* first step has a user, and holds an instance where the code dereferences one.
THEOREM TypeCorrect == Spec => []TypeOK
<1>1. Init => TypeOK BY TypeInit
<1>2. TypeOK /\ [Next]_vars => TypeOK' BY TypeStep
<1>3. QED BY <1>1, <1>2, PTL DEF Spec

-----------------------------------------------------------------------------
(* The inductive invariant. *)

LEMMA IInvInit == Init => IInv
  BY TypeInit, NoneAssumption
  DEF Init, IInv, UnbuiltUnknown, StoredIsWhole, NewIsPrivate, HeldIsOwn,
      ShutOnce, RegisteredLive, At

\* The steps of createBot.
LEMMA IInvCreate == ASSUME IInv, NEW r \in Requests, CreateStep(r)
                    PROVE  IInv'
<1>1. TypeOK' BY TypeCreate DEF IInv
<1> USE NoneAssumption
    DEF IInv, TypeOK, instances, At, Goto, Return, CreateSteps, StopSteps, HoldSteps
<1>2. CASE ReadRow(r)
      BY <1>1, <1>2 DEF ReadRow, UnbuiltUnknown, StoredIsWhole, NewIsPrivate,
                        HeldIsOwn, ShutOnce, RegisteredLive
<1>4. CASE Subscribed(r)
      BY <1>1, <1>4 DEF Subscribed, UnbuiltUnknown, StoredIsWhole, NewIsPrivate,
                        HeldIsOwn, ShutOnce, RegisteredLive
<1>5. CASE SubscriptionRefused(r)
      BY <1>1, <1>5 DEF SubscriptionRefused, UnbuiltUnknown, StoredIsWhole,
                        NewIsPrivate, HeldIsOwn, ShutOnce, RegisteredLive
<1>6. CASE CreateFails(r)
      BY <1>1, <1>6 DEF CreateFails, UnbuiltUnknown, StoredIsWhole, NewIsPrivate,
                        HeldIsOwn, ShutOnce, RegisteredLive
<1>7. CASE LoadOld(r)
  <2>1. UnbuiltUnknown' BY <1>7 DEF LoadOld, UnbuiltUnknown
  <2>2. StoredIsWhole' BY <1>7 DEF LoadOld, StoredIsWhole
  <2>3. NewIsPrivate' BY <1>7 DEF LoadOld, NewIsPrivate, StoredIsWhole
  <2>4. HeldIsOwn' BY <1>7 DEF LoadOld, HeldIsOwn, StoredIsWhole
  <2>5. ShutOnce' BY <1>7 DEF LoadOld, ShutOnce
  <2>6. RegisteredLive' BY <1>7 DEF LoadOld, RegisteredLive
  <2>7. QED BY <1>1, <2>1, <2>2, <2>3, <2>4, <2>5, <2>6
<1>8. CASE CancelOld(r)
  <2>1. UnbuiltUnknown' BY <1>8 DEF CancelOld, UnbuiltUnknown
  <2>2. StoredIsWhole' BY <1>8 DEF CancelOld, StoredIsWhole
  <2>3. NewIsPrivate' BY <1>8 DEF CancelOld, NewIsPrivate
  <2>4. HeldIsOwn' BY <1>8 DEF CancelOld, HeldIsOwn
  <2>5. ShutOnce' BY <1>8 DEF CancelOld, ShutOnce
  <2>6. RegisteredLive'
        BY <1>8 DEF CancelOld, RegisteredLive, HeldIsOwn, StoredIsWhole
  <2>7. QED BY <1>1, <2>1, <2>2, <2>3, <2>4, <2>5, <2>6
<1>9. CASE Build(r)
  <2>1. UnbuiltUnknown' BY <1>9 DEF Build, Unbuilt, UnbuiltUnknown
  <2>2. StoredIsWhole' BY <1>9 DEF Build, Unbuilt, StoredIsWhole, UnbuiltUnknown
  <2>3. NewIsPrivate' BY <1>9 DEF Build, Unbuilt, NewIsPrivate, UnbuiltUnknown
  <2>4. HeldIsOwn' BY <1>9 DEF Build, Unbuilt, HeldIsOwn, UnbuiltUnknown
  <2>5. ShutOnce' BY <1>9 DEF Build, ShutOnce
  <2>6. RegisteredLive' BY <1>9 DEF Build, RegisteredLive
  <2>7. QED BY <1>1, <2>1, <2>2, <2>3, <2>4, <2>5, <2>6
<1>10. CASE Store(r)
  <2>1. UnbuiltUnknown' BY <1>10 DEF Store, UnbuiltUnknown, NewIsPrivate
  <2>2. StoredIsWhole' BY <1>10 DEF Store, StoredIsWhole, NewIsPrivate
  <2>3. NewIsPrivate' BY <1>10 DEF Store, NewIsPrivate
  <2>4. HeldIsOwn' BY <1>10 DEF Store, HeldIsOwn
  <2>5. ShutOnce' BY <1>10 DEF Store, ShutOnce
  <2>6. RegisteredLive' BY <1>10 DEF Store, RegisteredLive, NewIsPrivate
  <2>7. QED BY <1>1, <2>1, <2>2, <2>3, <2>4, <2>5, <2>6
<1>11. QED BY <1>2, <1>4, <1>5, <1>6, <1>7, <1>8, <1>9, <1>10 DEF CreateStep

\* The steps of StopUserBot.
LEMMA IInvStop == ASSUME IInv, NEW r \in Requests, StopStep(r)
                  PROVE  IInv'
<1>1. TypeOK' BY TypeStop DEF IInv
<1> USE NoneAssumption
    DEF IInv, TypeOK, instances, At, Goto, Return, CreateSteps, StopSteps, HoldSteps
<1>2. CASE Take(r)
  <2>1. UnbuiltUnknown' BY <1>2 DEF Take, UnbuiltUnknown
  <2>2. StoredIsWhole' BY <1>2 DEF Take, StoredIsWhole
  <2>3. NewIsPrivate' BY <1>2 DEF Take, NewIsPrivate, StoredIsWhole
  <2>4. HeldIsOwn' BY <1>2 DEF Take, HeldIsOwn, StoredIsWhole
  <2>5. ShutOnce' BY <1>2 DEF Take, ShutOnce, StoredIsWhole
  <2>6. RegisteredLive' BY <1>2 DEF Take, RegisteredLive
  <2>7. QED BY <1>1, <2>1, <2>2, <2>3, <2>4, <2>5, <2>6
<1>3. CASE Close(r)
  <2>1. UnbuiltUnknown' BY <1>3 DEF Close, StopGoto, UnbuiltUnknown
  <2>2. StoredIsWhole' BY <1>3 DEF Close, StopGoto, StoredIsWhole
  <2>3. NewIsPrivate' BY <1>3 DEF Close, StopGoto, NewIsPrivate
  <2>4. HeldIsOwn' BY <1>3 DEF Close, StopGoto, HeldIsOwn
  <2>5. ShutOnce' BY <1>3 DEF Close, StopGoto, ShutOnce
  <2>6. RegisteredLive' BY <1>3 DEF Close, StopGoto, RegisteredLive
  <2>7. QED BY <1>1, <2>1, <2>2, <2>3, <2>4, <2>5, <2>6
<1>4. CASE WaitStep(r)
  <2>1. /\ registry' = registry /\ owner' = owner /\ cancelled' = cancelled
        /\ closed' = closed /\ subject' = subject /\ held' = held
        /\ pc[r] = "wait" /\ pc'[r] \in {"wait", "kill"}
        /\ \A q \in Requests \ {r} : pc'[q] = pc[q]
        BY <1>4 DEF StopGoto, WaitStep, Drained, TickerFires, TimeoutFires, ContextDone
  <2>2. QED BY <1>1, <2>1 DEF UnbuiltUnknown, StoredIsWhole, NewIsPrivate,
                              HeldIsOwn, ShutOnce, RegisteredLive
<1>5. CASE Kill(r)
  <2>1. UnbuiltUnknown' BY <1>5 DEF Kill, UnbuiltUnknown
  <2>2. StoredIsWhole' BY <1>5 DEF Kill, StoredIsWhole
  <2>3. NewIsPrivate' BY <1>5 DEF Kill, NewIsPrivate
  <2>4. HeldIsOwn' BY <1>5 DEF Kill, HeldIsOwn
  <2>5. ShutOnce' BY <1>5 DEF Kill, ShutOnce
  <2>6. RegisteredLive' BY <1>5 DEF Kill, RegisteredLive, StoredIsWhole
  <2>7. QED BY <1>1, <2>1, <2>2, <2>3, <2>4, <2>5, <2>6
<1>6. QED BY <1>2, <1>3, <1>4, <1>5 DEF StopStep

LEMMA IInvStep == IInv /\ [Next]_vars => IInv'
<1> SUFFICES ASSUME IInv, [Next]_vars PROVE IInv'
    OBVIOUS
<1>1. TypeOK' BY TypeStep DEF IInv
<1> USE NoneAssumption
    DEF IInv, TypeOK, instances, local, At, Start, CreateSteps, StopSteps, HoldSteps,
        UnbuiltUnknown, StoredIsWhole, NewIsPrivate, HeldIsOwn, ShutOnce, RegisteredLive
<1>2. ASSUME NEW r \in Requests, NEW u \in Users, BeginCreate(r, u) PROVE IInv'
      BY <1>1, <1>2 DEF BeginCreate
<1>3. ASSUME NEW r \in Requests, NEW u \in Users, BeginStop(r, u) PROVE IInv'
      BY <1>1, <1>3 DEF BeginStop
<1>4. ASSUME NEW u \in Users, SetChannel(u) PROVE IInv'
      BY <1>1, <1>4 DEF SetChannel
<1>5. CASE UNCHANGED vars BY <1>1, <1>5 DEF vars
<1>6. QED BY <1>2, <1>3, <1>4, <1>5, IInvCreate, IInvStop DEF Next

THEOREM Inductive == Spec => []IInv
<1>1. Init => IInv BY IInvInit
<1>2. IInv /\ [Next]_vars => IInv' BY IInvStep
<1>3. QED BY <1>1, <1>2, PTL DEF Spec

\* However many requests stop and replace bots at once, no shutdownCh is
\* closed twice: close never panics in StopUserBot.
THEOREM ShutsOnce == Spec => []ShutOnce
<1>1. IInv => ShutOnce BY DEF IInv
<1>2. QED BY <1>1, Inductive, PTL

\* A handler finds an instance with a cancelled context only while the request
\* that will replace it runs.
THEOREM KeepsRegisteredLive == Spec => []RegisteredLive
<1>1. IInv => RegisteredLive BY DEF IInv
<1>2. QED BY <1>1, Inductive, PTL

\* Only a step of createBot or of StopUserBot changes the registry.
LEMMA RegistryChanges == ASSUME IInv, [Next]_vars, registry' # registry
                         PROVE  \E r \in Requests : Store(r) \/ Take(r)
  BY DEF Next, vars, instances, local, BeginCreate, BeginStop,
         SetChannel, CreateStep, StopStep, ReadRow, Subscribed,
         SubscriptionRefused, CreateFails, LoadOld, CancelOld, Build, Close, StopGoto,
         WaitStep, Drained, TickerFires, TimeoutFires, ContextDone, Kill

\* What is stored in User.bot is a live instance whose shutdownCh is open: an
\* instance that left the registry is never put back.
THEOREM OnlyLivePublished == Spec => PublishesLive
<1> DEFINE Pub == \A u \in Users : (registry'[u] # registry[u] /\ registry'[u] # NoBot)
                                      => registry'[u] \notin cancelled \cup closed
<1>1. IInv /\ [Next]_vars => [Pub]_vars
  <2> SUFFICES ASSUME IInv, [Next]_vars, NEW u \in Users,
                      registry'[u] # registry[u], registry'[u] # NoBot
               PROVE  registry'[u] \notin cancelled \cup closed
      OBVIOUS
  <2>1. PICK r \in Requests : Store(r) \/ Take(r) BY RegistryChanges
  <2>2. CASE Store(r)
        BY <2>2 DEF Store, IInv, TypeOK, NewIsPrivate, At
  <2>3. CASE Take(r)
        BY <2>3 DEF Take, IInv, TypeOK
  <2>4. QED BY <2>1, <2>2, <2>3
<1>2. QED BY <1>1, Inductive, PTL DEF Spec, PublishesLive

-----------------------------------------------------------------------------
(* What a lock for each user would give. *)

\* The instance the creating request found is the only one it can lose: at
\* "cancel" it is the one in hand, later it has been cancelled.
OldInHand ==
    /\ \A r \in Requests : At(r, "cancel") => registry[subject[r]] \in {NoBot, held[r]}
    /\ \A r \in Requests : pc[r] \in {"build", "store"} =>
           registry[subject[r]] \in {NoBot} \cup cancelled

\* Between its steps on an instance a request holds none.
EmptyHanded == \A r \in Requests : pc[r] \notin HoldSteps => held[r] = NoBot

Serial == OldInHand /\ EmptyHanded /\ ReplacedIsStopped

\* The steps of createBot, while no other request creates for the same user.
LEMMA SerialCreate == ASSUME IInv, IInv', OneCreates, Serial,
                             NEW r \in Requests, CreateStep(r)
                      PROVE  Serial'
<1> USE NoneAssumption
    DEF IInv, TypeOK, instances, At, Goto, Return, CreateSteps, StopSteps, HoldSteps
<1>1. CASE ReadRow(r) \/ Subscribed(r) \/ SubscriptionRefused(r)
           \/ CreateFails(r)
  <2>1. /\ registry' = registry /\ owner' = owner /\ cancelled' = cancelled
        /\ pc'[r] \in {"idle", "subscribe", "load"}
        /\ held[r] = NoBot /\ held'[r] = NoBot
        /\ \A q \in Requests \ {r} : /\ pc'[q] = pc[q] /\ held'[q] = held[q]
                                     /\ subject'[q] = subject[q]
        BY <1>1 DEF ReadRow, Subscribed, SubscriptionRefused, CreateFails,
                    Serial, EmptyHanded
  <2>2. OldInHand' BY <2>1 DEF Serial, OldInHand
  <2>3. EmptyHanded' BY <2>1 DEF Serial, EmptyHanded
  <2>4. ReplacedIsStopped'
    <3>1. \A q \in Requests : held'[q] = held[q] BY <2>1
    <3>2. QED BY ONLY <2>1, <3>1, Serial DEF Serial, ReplacedIsStopped
  <2>5. QED BY <2>2, <2>3, <2>4 DEF Serial
<1>2. CASE LoadOld(r)
  <2>1. OldInHand' BY <1>2 DEF LoadOld, Serial, OldInHand
  <2>2. EmptyHanded' BY <1>2 DEF LoadOld, Serial, EmptyHanded
  <2>3. ReplacedIsStopped'
    <3>1. /\ registry' = registry /\ owner' = owner /\ cancelled' = cancelled
          /\ held[r] = NoBot /\ \A q \in Requests \ {r} : held'[q] = held[q]
          BY <1>2 DEF LoadOld, Serial, EmptyHanded
    <3>2. QED BY ONLY <3>1, Serial, NoneAssumption, r \in Requests DEF Serial, ReplacedIsStopped
  <2>4. QED BY <2>1, <2>2, <2>3 DEF Serial
<1>3. CASE CancelOld(r)
  <2>1. OldInHand' BY <1>3 DEF CancelOld, Serial, OldInHand
  <2>2. EmptyHanded' BY <1>3 DEF CancelOld, Serial, EmptyHanded
  <2>3. ReplacedIsStopped' BY <1>3 DEF CancelOld, Serial, ReplacedIsStopped
  <2>4. QED BY <2>1, <2>2, <2>3 DEF Serial
<1>4. CASE Build(r)
  <2>1. PICK b \in Bots : /\ owner[b] = NoUser
                          /\ owner' = [owner EXCEPT ![b] = subject[r]]
                          /\ Goto(r, "store", b)
        BY <1>4 DEF Build, Unbuilt
  <2>2. OldInHand' BY <1>4, <2>1 DEF Build, Serial, OldInHand
  <2>3. EmptyHanded' BY <1>4, <2>1 DEF Build, Serial, EmptyHanded
  <2>4. ReplacedIsStopped'
    <3>1. /\ registry' = registry /\ cancelled' = cancelled /\ held'[r] = b
          /\ held[r] = NoBot /\ \A q \in Requests \ {r} : held'[q] = held[q]
          /\ \A d \in Bots \ {b} : owner'[d] = owner[d]
          BY <1>4, <2>1 DEF Build, Serial, EmptyHanded
    <3>2. QED BY ONLY <3>1, Serial, NoneAssumption, r \in Requests DEF Serial, ReplacedIsStopped
  <2>5. QED BY <2>2, <2>3, <2>4 DEF Serial
<1>5. CASE Store(r)
  <2>1. ASSUME NEW q \in Requests \ {r}, pc[q] \in {"cancel", "build", "store"}
        PROVE  subject[q] # subject[r]
        BY <1>5, <2>1 DEF Store, OneCreates
  <2>2. OldInHand'
        BY <1>5, <2>1 DEF Store, Serial, OldInHand
  <2>3. EmptyHanded' BY <1>5 DEF Store, Serial, EmptyHanded
  <2>4. ReplacedIsStopped'
        BY <1>5 DEF Store, Serial, OldInHand, ReplacedIsStopped, NewIsPrivate
  <2>5. QED BY <2>2, <2>3, <2>4 DEF Serial
<1>6. QED BY <1>1, <1>2, <1>3, <1>4, <1>5 DEF CreateStep

\* The steps of StopUserBot take an entry out, and cancel what they took.
LEMMA SerialStop == ASSUME IInv, IInv', Serial, NEW r \in Requests, StopStep(r)
                    PROVE  Serial'
<1> USE NoneAssumption
    DEF IInv, TypeOK, instances, At, Goto, Return, CreateSteps, StopSteps, HoldSteps
<1>1. CASE Take(r)
  <2>1. OldInHand' BY <1>1 DEF Take, Serial, OldInHand
  <2>2. EmptyHanded' BY <1>1 DEF Take, Serial, EmptyHanded
  <2>3. ReplacedIsStopped'
    <3>1. /\ owner' = owner /\ cancelled' = cancelled /\ held[r] = NoBot
          /\ \A q \in Requests \ {r} : held'[q] = held[q]
          BY <1>1 DEF Take, Serial, EmptyHanded
    <3>2. \A u \in Users : \/ registry'[u] = registry[u]
                           \/ held'[r] = registry[u]
          BY <1>1 DEF Take
    <3>3. owner \in [Bots -> Users \cup {NoUser}] OBVIOUS
    <3>4. QED BY ONLY <3>1, <3>2, <3>3, Serial, NoneAssumption, r \in Requests
              DEF Serial, ReplacedIsStopped
  <2>4. QED BY <2>1, <2>2, <2>3 DEF Serial
<1>2. CASE Close(r) \/ WaitStep(r)
  <2>0. /\ registry' = registry /\ owner' = owner /\ cancelled' = cancelled
        /\ subject' = subject /\ held' = held
        /\ pc[r] \in {"close", "wait"} /\ pc'[r] \in {"wait", "kill"}
        /\ \A q \in Requests \ {r} : pc'[q] = pc[q]
        BY <1>2 DEF Close, StopGoto, WaitStep, Drained, TickerFires, TimeoutFires, ContextDone
  <2>1. OldInHand' BY <2>0 DEF Serial, OldInHand
  <2>2. EmptyHanded' BY <2>0 DEF Serial, EmptyHanded
  <2>3. ReplacedIsStopped' BY <2>0 DEF Serial, ReplacedIsStopped
  <2>4. QED BY <2>1, <2>2, <2>3 DEF Serial
<1>3. CASE Kill(r)
  <2>1. OldInHand' BY <1>3 DEF Kill, Serial, OldInHand
  <2>2. EmptyHanded' BY <1>3 DEF Kill, Serial, EmptyHanded
  <2>3. ReplacedIsStopped' BY <1>3 DEF Kill, Serial, ReplacedIsStopped
  <2>4. QED BY <2>1, <2>2, <2>3 DEF Serial
<1>4. QED BY <1>1, <1>2, <1>3 DEF StopStep

LEMMA SerialStep == IInv /\ IInv' /\ OneCreates /\ Serial /\ [Next]_vars => Serial'
<1> SUFFICES ASSUME IInv, IInv', OneCreates, Serial, [Next]_vars PROVE Serial'
    OBVIOUS
<1> USE NoneAssumption
    DEF IInv, TypeOK, instances, local, At, Start, CreateSteps, StopSteps, HoldSteps,
        Serial, OldInHand, EmptyHanded, ReplacedIsStopped
<1>1. ASSUME NEW r \in Requests, NEW u \in Users, BeginCreate(r, u) PROVE Serial'
      BY <1>1 DEF BeginCreate
<1>2. ASSUME NEW r \in Requests, NEW u \in Users, BeginStop(r, u) PROVE Serial'
      BY <1>2 DEF BeginStop
<1>3. ASSUME NEW u \in Users, SetChannel(u) PROVE Serial'
      BY <1>3 DEF SetChannel
<1>4. CASE UNCHANGED vars BY <1>4 DEF vars
<1>5. QED BY <1>1, <1>2, <1>3, <1>4, SerialCreate, SerialStop DEF Next

\* As long as no two requests create a bot for the same user at once, the
\* instance createOrUpdateBot replaces has been stopped, however many requests
\* stop bots meanwhile.
THEOREM SerialStopsOld == Spec => SerialStops
<1>1. Init => Serial
      BY NoneAssumption DEF Init, Serial, OldInHand, EmptyHanded, ReplacedIsStopped, At
<1>2. Serial => ReplacedIsStopped BY DEF Serial
<1>3. QED BY <1>1, <1>2, SerialStep, Inductive, PTL DEF Spec, SerialStops

-----------------------------------------------------------------------------
(* The registry implements BotInstances. *)

\* The stage of an instance depends on the registry, closed, and the requests
\* at store and at close only.
LEMMA StageStutters ==
    ASSUME registry' = registry, owner' = owner, closed' = closed,
           \A r \in Requests : \A step \in {"store", "close"} :
               /\ pc'[r] = step <=> pc[r] = step
               /\ pc[r] = step => held'[r] = held[r]
    PROVE  \A b \in Bots : StageOf(b)' = StageOf(b)
<1> TAKE b \in Bots
<1>1. HeldAt(b, "store")' <=> HeldAt(b, "store") BY DEF HeldAt, At
<1>2. HeldAt(b, "close")' <=> HeldAt(b, "close") BY DEF HeldAt, At
<1>3. QED BY <1>1, <1>2 DEF StageOf

LEMMA LifeStutters ==
    ASSUME registry' = registry, owner' = owner, closed' = closed,
           \A r \in Requests : \A step \in {"store", "close"} :
               /\ pc'[r] = step <=> pc[r] = step
               /\ pc[r] = step => held'[r] = held[r]
    PROVE  UNCHANGED Life!vars
  BY StageStutters DEF Life!vars

LEMMA LifeInit == Init => Life!Init
  BY DEF Init, Life!Init, StageOf

\* initializeBot is Build of BotInstances.
LEMMA BuildRefines == ASSUME IInv, NEW r \in Requests, Build(r)
                      PROVE  Life!Next
<1> USE NoneAssumption
    DEF IInv, TypeOK, At, Goto, Build, Unbuilt, CreateSteps, StopSteps, HoldSteps
<1>1. PICK b \in Bots : /\ owner[b] = NoUser
                        /\ owner' = [owner EXCEPT ![b] = subject[r]]
                        /\ Goto(r, "store", b)
      OBVIOUS
<1>2. subject[r] \in Users OBVIOUS
<1>3. StageOf(b) = "none" BY <1>1 DEF StageOf
<1>4. StageOf(b)' = "built"
  <2>1. owner'[b] = subject[r] /\ registry'[subject[r]] # b /\ b \notin closed'
        BY <1>1, <1>2 DEF UnbuiltUnknown
  <2>2. HeldAt(b, "store")' BY <1>1 DEF HeldAt
  <2>3. QED BY <1>2, <2>1, <2>2 DEF StageOf
<1>5. ASSUME NEW d \in Bots \ {b} PROVE StageOf(d)' = StageOf(d)
  <2>1. HeldAt(d, "store")' <=> HeldAt(d, "store") BY <1>1 DEF HeldAt
  <2>2. HeldAt(d, "close")' <=> HeldAt(d, "close") BY <1>1 DEF HeldAt
  <2>3. owner'[d] = owner[d] /\ registry' = registry /\ closed' = closed BY <1>1
  <2>4. QED BY <2>1, <2>2, <2>3 DEF StageOf
<1>6. [x \in Bots |-> StageOf(x)]' = [[x \in Bots |-> StageOf(x)] EXCEPT ![b] = "built"]
      BY ONLY <1>4, <1>5
<1>7. Life!Build(b, subject[r])
      BY <1>1, <1>3, <1>6 DEF Life!Build
<1>8. QED BY <1>2, <1>7 DEF Life!Next

\* u.bot.Store is Publish: the instance stored before is replaced.
LEMMA StoreRefines == ASSUME IInv, NEW r \in Requests, Store(r)
                      PROVE  Life!Next
<1> USE NoneAssumption
    DEF IInv, TypeOK, At, Return, Store, CreateSteps, StopSteps, HoldSteps
<1>0. PICK b \in Bots, u \in Users : b = held[r] /\ u = subject[r]
      OBVIOUS
<1>1. /\ owner[b] = u /\ b \notin closed /\ registry[u] # b
      /\ \A q \in Requests \ {r} : held[q] # b
      BY <1>0 DEF NewIsPrivate, StoredIsWhole
<1>2. /\ registry' = [registry EXCEPT ![u] = b] /\ owner' = owner /\ closed' = closed
      /\ pc' = [pc EXCEPT ![r] = "idle"] /\ held' = [held EXCEPT ![r] = NoBot]
      BY <1>0
<1>3. StageOf(b) = "built" /\ StageOf(b)' = "serving"
  <2>1. HeldAt(b, "store") BY <1>0 DEF HeldAt
  <2>2. QED BY <1>1, <1>2, <2>1 DEF StageOf
<1>4. ASSUME NEW d \in Bots \ {b}
      PROVE  StageOf(d)' = IF owner[d] = u /\ StageOf(d) = "serving"
                           THEN "replaced" ELSE StageOf(d)
  <2>1. HeldAt(d, "store")' <=> HeldAt(d, "store") BY <1>1, <1>2 DEF HeldAt
  <2>2. HeldAt(d, "close")' <=> HeldAt(d, "close") BY <1>1, <1>2 DEF HeldAt
  <2>3. CASE owner[d] = u /\ registry[u] = d
    <3>1. d \notin closed /\ ~HeldAt(d, "store") /\ ~HeldAt(d, "close")
          BY <1>1, <2>3 DEF StoredIsWhole, HeldAt
    <3>2. QED BY <1>1, <1>2, <2>1, <2>2, <2>3, <3>1 DEF StageOf
  <2>4. CASE owner[d] = u /\ registry[u] # d
        BY <1>1, <1>2, <2>1, <2>2, <2>4 DEF StageOf
  <2>5. CASE owner[d] # u
        BY <1>1, <1>2, <2>1, <2>2, <2>5 DEF StageOf
  <2>6. QED BY <2>3, <2>4, <2>5
<1>5. [x \in Bots |-> StageOf(x)]' =
          [x \in Bots |-> IF x = b THEN "serving"
                          ELSE IF owner[x] = u /\ StageOf(x) = "serving" THEN "replaced"
                          ELSE StageOf(x)]
      BY ONLY <1>3, <1>4
<1>6. Life!Serving(u) = {x \in Bots : owner[x] = u /\ StageOf(x) = "serving"}
      BY ONLY DEF Life!Serving
<1>7. Life!Publish(b)
      BY ONLY <1>1, <1>2, <1>3, <1>5, <1>6 DEF Life!Publish
<1>8. QED BY <1>7 DEF Life!Next

\* LoadAndDelete is Withdraw, or nothing when there is no instance.
LEMMA TakeRefines == ASSUME IInv, NEW r \in Requests, Take(r)
                     PROVE  Life!Next \/ UNCHANGED Life!vars
<1> USE NoneAssumption
    DEF IInv, TypeOK, At, Return, Goto, Take, CreateSteps, StopSteps, HoldSteps
<1>1. CASE registry[subject[r]] = NoBot
  <2>1. registry' = registry BY <1>1
  <2>2. QED BY <1>1, <2>1, LifeStutters
<1>2. CASE registry[subject[r]] # NoBot
  <2>0. PICK u \in Users, b \in Bots : u = subject[r] /\ b = registry[u]
        BY <1>2
  <2>1. owner[b] = u /\ b \notin closed
        BY <2>0 DEF StoredIsWhole
  <2>2. /\ registry' = [registry EXCEPT ![u] = NoBot] /\ owner' = owner /\ closed' = closed
        /\ pc' = [pc EXCEPT ![r] = "close"] /\ held' = [held EXCEPT ![r] = b]
        BY <1>2, <2>0
  <2>3. StageOf(b) = "serving" /\ StageOf(b)' = "withdrawn"
    <3>1. ~HeldAt(b, "store")' BY <2>0, <2>1, <2>2 DEF HeldAt, StoredIsWhole
    <3>2. HeldAt(b, "close")' BY <2>1, <2>2 DEF HeldAt
    <3>3. QED BY <2>0, <2>1, <2>2, <3>1, <3>2 DEF StageOf
  <2>4. ASSUME NEW d \in Bots \ {b} PROVE StageOf(d)' = StageOf(d)
    <3>1. HeldAt(d, "store")' <=> HeldAt(d, "store") BY <2>2 DEF HeldAt
    <3>2. HeldAt(d, "close")' <=> HeldAt(d, "close") BY <2>2 DEF HeldAt
    <3>3. owner[d] # NoUser => (registry'[owner[d]] = d <=> registry[owner[d]] = d)
          BY <2>0, <2>1, <2>2
    <3>4. QED BY <2>2, <3>1, <3>2, <3>3 DEF StageOf
  <2>5. [x \in Bots |-> StageOf(x)]' = [[x \in Bots |-> StageOf(x)] EXCEPT ![b] = "withdrawn"]
        BY ONLY <2>3, <2>4
  <2>6. Life!Withdraw(b)
        BY ONLY <2>2, <2>3, <2>5 DEF Life!Withdraw
  <2>7. QED BY <2>6 DEF Life!Next
<1>3. QED BY <1>1, <1>2

\* close(bot.shutdownCh) is Shut.
LEMMA CloseRefines == ASSUME IInv, NEW r \in Requests, Close(r)
                      PROVE  Life!Next
<1> USE NoneAssumption
    DEF IInv, TypeOK, At, Close, StopGoto, CreateSteps, StopSteps, HoldSteps
<1>0. PICK b \in Bots : b = held[r]
      OBVIOUS
<1>1. /\ owner[b] = subject[r] /\ subject[r] \in Users
      /\ registry[subject[r]] # b /\ b \notin closed
      BY <1>0 DEF HeldIsOwn, StoredIsWhole, ShutOnce
<1>2. /\ registry' = registry /\ owner' = owner /\ closed' = closed \cup {b}
      /\ pc' = [pc EXCEPT ![r] = "wait"] /\ held' = held
      BY <1>0
<1>3. StageOf(b) = "withdrawn" /\ StageOf(b)' = "shut"
  <2>1. ~HeldAt(b, "store") BY <1>0 DEF HeldAt, NewIsPrivate
  <2>2. HeldAt(b, "close") BY <1>0 DEF HeldAt
  <2>3. QED BY <1>1, <1>2, <2>1, <2>2 DEF StageOf
<1>4. ASSUME NEW d \in Bots \ {b} PROVE StageOf(d)' = StageOf(d)
  <2>0. /\ held[r] = b /\ held'[r] = b
        /\ \A q \in Requests \ {r} : pc'[q] = pc[q] /\ held'[q] = held[q]
        BY <1>0, <1>2
  <2>1. HeldAt(d, "store")' <=> HeldAt(d, "store") BY ONLY <2>0 DEF HeldAt, At
  <2>2. HeldAt(d, "close")' <=> HeldAt(d, "close") BY ONLY <2>0 DEF HeldAt, At
  <2>3. QED BY <1>2, <2>1, <2>2 DEF StageOf
<1>5. [x \in Bots |-> StageOf(x)]' = [[x \in Bots |-> StageOf(x)] EXCEPT ![b] = "shut"]
      BY ONLY <1>3, <1>4
<1>6. Life!Shut(b)
      BY ONLY <1>2, <1>3, <1>5 DEF Life!Shut
<1>7. QED BY <1>6 DEF Life!Next

\* Every other step leaves the instances as BotInstances sees them.
LEMMA OthersStutter ==
    ASSUME IInv, [Next]_vars,
           \A r \in Requests : ~Build(r) /\ ~Store(r) /\ ~Take(r) /\ ~Close(r)
    PROVE  UNCHANGED Life!vars
<1> USE NoneAssumption
    DEF IInv, TypeOK, At, Goto, Return, Start, instances, local,
        CreateSteps, StopSteps, HoldSteps
<1>1. ASSUME NEW r \in Requests, NEW u \in Users, BeginCreate(r, u) \/ BeginStop(r, u)
      PROVE  UNCHANGED Life!vars
      BY <1>1, LifeStutters DEF BeginCreate, BeginStop
<1>2. ASSUME NEW r \in Requests, CreateStep(r) PROVE UNCHANGED Life!vars
      BY <1>2, LifeStutters
      DEF CreateStep, ReadRow, Subscribed, SubscriptionRefused,
          CreateFails, LoadOld, CancelOld
<1>3. ASSUME NEW r \in Requests, StopStep(r) PROVE UNCHANGED Life!vars
      BY <1>3, LifeStutters
      DEF StopStep, StopGoto, WaitStep, Drained, TickerFires, TimeoutFires, ContextDone, Kill
<1>4. ASSUME NEW u \in Users, SetChannel(u) PROVE UNCHANGED Life!vars
      BY <1>4, LifeStutters DEF SetChannel
<1>5. CASE UNCHANGED vars BY <1>5, LifeStutters DEF vars
<1>6. QED BY <1>1, <1>2, <1>3, <1>4, <1>5 DEF Next

\* The registry, with its unsynchronised requests, implements the life of
\* instances the SSE handlers rely on: one instance serves a user at a time,
\* and it leaves service once, replaced or shut.
THEOREM Refinement == Spec => ImplementsInstances
<1>1. Init => Life!Init BY LifeInit
<1>2. IInv /\ [Next]_vars => [Life!Next]_(Life!vars)
  <2> SUFFICES ASSUME IInv, [Next]_vars
               PROVE  Life!Next \/ UNCHANGED Life!vars
      OBVIOUS
  <2>1. CASE \E r \in Requests : Build(r) BY <2>1, BuildRefines
  <2>2. CASE \E r \in Requests : Store(r) BY <2>2, StoreRefines
  <2>3. CASE \E r \in Requests : Take(r) BY <2>3, TakeRefines
  <2>4. CASE \E r \in Requests : Close(r) BY <2>4, CloseRefines
  <2>5. QED BY <2>1, <2>2, <2>3, <2>4, OthersStutter
<1>3. QED BY <1>1, <1>2, Inductive, PTL DEF Spec, Life!Spec, ImplementsInstances
=============================================================================
