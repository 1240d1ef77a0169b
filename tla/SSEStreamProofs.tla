--------------------------- MODULE SSEStreamProofs ---------------------------
(* Theorems about SSEStream, for any limit and any finite set of connections. *)
EXTENDS SSEStream, FiniteSetTheorems, SequenceTheorems, WellFoundedInduction, TLAPS

LEMMA TypeInit == Init => TypeOK
  BY StreamAssumption
  DEF Init, TypeOK, SharedTypes, ConnTypes, Life!TypeOK, Life!Init, Life!Stages,
      Steps, Holding

\* The instances keep their types, whatever happens to them.
LEMMA LifeTypes == Life!TypeOK /\ [Life!Next]_life => Life!TypeOK'
  BY DEF Life!TypeOK, Life!Next, Life!Build, Life!Publish, Life!Withdraw,
         Life!Shut, Life!Stages, life

\* A connection goes on to another step, or is over.
LEMMA GotoTypes == ASSUME ConnTypes, NEW c \in Conns, pc[c] # "idle",
                          NEW step \in Steps, Goto(c, step)
                   PROVE  ConnTypes'
  BY DEF ConnTypes, Goto

LEMMA FinishTypes == ASSUME ConnTypes, NEW c \in Conns, Finish(c)
                     PROVE  ConnTypes'
  BY StreamAssumption DEF ConnTypes, Finish, Steps, Holding

LEMMA DecrementTypes == ASSUME active \in [Bots -> 0..255], NEW b \in Bots,
                               decrementConnection(b)
                        PROVE  active' \in [Bots -> 0..255]
  BY DEF decrementConnection

\* The uint8 does not wrap below the limit.
LEMMA NoWrap == \A n \in 0..254 : (n + 1) % 256 = n + 1
  OBVIOUS

\* What a connection that is not idle refers to.
LEMMA Refers == ASSUME TypeOK, NEW c \in Conns, pc[c] # "idle"
                PROVE  /\ bot[c] \in Bots /\ active[bot[c]] \in 0..255
                       /\ resp[c] \in Resps /\ UserOf[resp[c]] \in Users
  BY StreamAssumption DEF TypeOK, SharedTypes, ConnTypes

\* The types of a step that changes the connection only.
LEMMA LocalTypes == ASSUME TypeOK, ConnTypes',
                           UNCHANGED <<life, active, gauge, outside>>
                    PROVE  TypeOK'
  BY DEF TypeOK, SharedTypes, Life!TypeOK, life, outside

LEMMA TypeHandler == ASSUME TypeOK, NEW c \in Conns, HandlerStep(c)
                     PROVE  TypeOK'
<1>0. /\ Life!TypeOK /\ SharedTypes /\ ConnTypes
      /\ UNCHANGED life
      /\ UNCHANGED life => Life!TypeOK'
      /\ Holding \subseteq Steps
      /\ {"idle", "found", "settle", "grace", "end", "clean"} \subseteq Steps
  <2>1. UNCHANGED life
        BY DEF HandlerStep, Admit, Refuse, Count, Attach, InitChannels, InitFails,
               AttachAgain, Release, Disconnect, Settle, Expire, End, Clean
  <2>2. QED BY <2>1 DEF TypeOK, Life!TypeOK, life, Steps
<1>1. CASE Admit(c)
  <2> DEFINE n == (active[bot[c]] + 1) % 256
  <2>1. bot[c] \in Bots /\ resp[c] \in Resps BY <1>1, Refers DEF Admit, At
  <2>2. active[bot[c]] \in 0..254
        BY <1>1, Refers, StreamAssumption DEF Admit, At
  <2>3. n \in 0..255 BY <2>2, NoWrap
  <2> HIDE DEF n
  <2>4. active' = [active EXCEPT ![bot[c]] = n] /\ UNCHANGED <<gauge, outside>>
        BY <1>1 DEF Admit, n
  <2>5. SharedTypes'
        BY <1>0, <2>1, <2>3, <2>4 DEF SharedTypes, outside
  <2>6. pc' = [pc EXCEPT ![c] = "count"] /\ UNCHANGED <<bot, resp, left>>
        BY <1>1 DEF Admit
  <2>7. ConnTypes'
        BY <1>0, <2>1, <2>6 DEF ConnTypes, Holding
  <2>8. QED BY <1>0, <2>5, <2>7 DEF TypeOK
<1>2. CASE Refuse(c)
      BY <1>0, <1>2, FinishTypes, LocalTypes DEF Refuse
<1>3. CASE Count(c)
  <2>1. UserOf[resp[c]] \in Users BY <1>3, Refers DEF Count, At
  <2>2. SharedTypes'
        BY <1>0, <1>3, <2>1 DEF Count, SharedTypes, outside
  <2>3. ConnTypes'
        BY <1>0, <1>3 DEF Count, ConnTypes, At, Holding
  <2>4. QED BY <1>0, <2>2, <2>3 DEF TypeOK
<1>4. CASE Attach(c)
      BY <1>0, <1>4, GotoTypes, LocalTypes DEF Attach, At, Holding
<1>5. CASE InitChannels(c)
  <2>1. SharedTypes'
        BY <1>0, <1>5 DEF InitChannels, SharedTypes, ConnTypes, At
  <2>2. ConnTypes' BY <1>0, <1>5, GotoTypes DEF InitChannels, At, Holding
  <2>3. QED BY <1>0, <2>1, <2>2 DEF TypeOK
<1>6. CASE InitFails(c)
  <2>1. SharedTypes'
        BY <1>0, <1>6 DEF InitFails, SharedTypes, ConnTypes, At
  <2>2. ConnTypes' BY <1>0, <1>6, GotoTypes DEF InitFails, At, Holding
  <2>3. QED BY <1>0, <2>1, <2>2 DEF TypeOK
<1>7. CASE AttachAgain(c)
      BY <1>0, <1>7, GotoTypes, LocalTypes DEF AttachAgain, At, Holding
<1>8. CASE Release(c)
  <2>1. bot[c] \in Bots BY <1>0, <1>8 DEF Release, ConnTypes, At
  <2>2. SharedTypes'
        BY <1>0, <1>8, <2>1, DecrementTypes DEF Release, SharedTypes, outside
  <2>3. ConnTypes' BY <1>0, <1>8, FinishTypes DEF Release
  <2>4. QED BY <1>0, <2>2, <2>3 DEF TypeOK
<1>9. CASE Disconnect(c)
  <2>1. bot[c] \in Bots /\ UserOf[resp[c]] \in Users BY <1>9, Refers DEF Disconnect, At
  <2>2. SharedTypes'
    <3>1. active' \in [Bots -> 0..255]
          BY <1>0, <1>9, <2>1, DecrementTypes DEF Disconnect, SharedTypes
    <3>2. gauge' \in [Users -> Int]
          BY <1>0, <1>9, <2>1 DEF Disconnect, SharedTypes
    <3>3. QED BY <1>0, <1>9, <3>1, <3>2 DEF Disconnect, SharedTypes, outside
  <2>3. ConnTypes' BY <1>0, <1>9, GotoTypes DEF Disconnect, At
  <2>4. QED BY <1>0, <2>2, <2>3 DEF TypeOK
<1>10. CASE Settle(c)
  <2>1. ConnTypes'
    <3>1. CASE active[bot[c]] = 0
          BY <1>0, <1>10, <3>1, StreamAssumption DEF Settle, ConnTypes, At
    <3>2. CASE active[bot[c]] # 0
          BY <1>0, <1>10, <3>2, FinishTypes DEF Settle
    <3>3. QED BY <3>1, <3>2
  <2>2. QED BY <1>10, <2>1, LocalTypes DEF Settle
<1>11. CASE Expire(c)
  <2>1. ConnTypes'
    <3>1. CASE active[bot[c]] = 0
          BY <1>0, <1>11, <3>1, GotoTypes DEF Expire, At
    <3>2. CASE active[bot[c]] # 0
          BY <1>0, <1>11, <3>2, FinishTypes DEF Expire
    <3>3. QED BY <3>1, <3>2
  <2>2. QED BY <1>11, <2>1, LocalTypes DEF Expire
<1>12. CASE End(c)
  <2>1. resp[c] \in Resps BY <1>0, <1>12 DEF End, ConnTypes, At
  <2>2. endCh' \in Seq(Resps) /\ Len(endCh') <= EndCap
        BY <1>0, <1>12, <2>1, StreamAssumption DEF End, SharedTypes
  <2>3. SharedTypes' BY <1>0, <1>12, <2>2 DEF End, SharedTypes
  <2>4. ConnTypes' BY <1>0, <1>12, GotoTypes DEF End, At
  <2>5. QED BY <1>0, <2>3, <2>4 DEF TypeOK
<1>13. CASE Clean(c)
  <2>1. SharedTypes' BY <1>0, <1>13 DEF Clean, SharedTypes
  <2>2. ConnTypes' BY <1>0, <1>13, FinishTypes DEF Clean
  <2>3. QED BY <1>0, <2>1, <2>2 DEF TypeOK
<1>14. QED BY <1>1, <1>2, <1>3, <1>4, <1>5, <1>6, <1>7, <1>8, <1>9, <1>10,
              <1>11, <1>12, <1>13 DEF HandlerStep

LEMMA TypeStep == TypeOK /\ [Next]_vars => TypeOK'
<1> SUFFICES ASSUME TypeOK, [Next]_vars PROVE TypeOK'
    OBVIOUS
<1>1. Life!TypeOK /\ SharedTypes /\ ConnTypes BY DEF TypeOK
<1>2. ASSUME NEW c \in Conns, NEW r \in Resps, Open(c, r) PROVE TypeOK'
  <2>1. ConnTypes'
        BY <1>1, <1>2 DEF Open, ConnTypes, At, Steps, Life!Serving
  <2>2. QED BY <1>2, <2>1, LocalTypes DEF Open
<1>3. ASSUME NEW c \in Conns,
             Write(c) \/ WriteReturns(c) \/ ShutdownSeen(c) \/ TimedOut(c) \/ ClientGone(c)
      PROVE  TypeOK'
  <2>1. ConnTypes'
        BY <1>1, <1>3, GotoTypes
        DEF Write, WriteReturns, ShutdownSeen, TimedOut, ClientGone, At, Steps,
            Holding, Streaming
  <2>2. QED BY <1>3, <2>1, LocalTypes
            DEF Write, WriteReturns, ShutdownSeen, TimedOut, ClientGone
<1>4. CASE Tick
  <2>1. ConnTypes' BY <1>1, <1>4, StreamAssumption DEF Tick, ConnTypes
  <2>2. QED BY <1>4, <2>1, LocalTypes DEF Tick
<1>5. ASSUME NEW r \in Resps, ReadDialog(r) PROVE TypeOK'
  <2>1. SharedTypes' BY <1>1, <1>5 DEF ReadDialog, SharedTypes
  <2>2. ConnTypes' BY <1>1, <1>5 DEF ReadDialog, ConnTypes, conn
  <2>3. QED BY <1>1, <1>5, <2>1, <2>2, LifeTypes DEF ReadDialog, TypeOK
<1>6. CASE SaveDialog
  <2>0. endCh' \in Seq(Resps) /\ Len(endCh') = Len(endCh) - 1
        BY <1>1, <1>6, HeadTailProperties DEF SaveDialog, SharedTypes
  <2>1. SharedTypes'
    <3>1. Len(endCh) \in Nat /\ Len(endCh) <= EndCap /\ EndCap \in Nat
          BY <1>1, LenProperties, StreamAssumption DEF SharedTypes
    <3>2. Len(endCh') <= EndCap BY ONLY <2>0, <3>1
    <3>3. UNCHANGED <<active, gauge, chans>> BY <1>6 DEF SaveDialog
    <3>4. QED BY ONLY <1>1, <2>0, <3>2, <3>3 DEF SharedTypes
  <2>2. ConnTypes' BY <1>1, <1>6 DEF SaveDialog, ConnTypes, conn
  <2>3. QED BY <1>1, <1>6, <2>1, <2>2, LifeTypes DEF SaveDialog, TypeOK
<1>7. CASE Lifecycle
  <2>1. SharedTypes' /\ ConnTypes'
        BY <1>1, <1>7 DEF Lifecycle, SharedTypes, ConnTypes, outside, conn
  <2>2. QED BY <1>1, <1>7, <2>1, LifeTypes DEF Lifecycle, TypeOK
<1>8. CASE UNCHANGED vars
  <2>1. SharedTypes' /\ ConnTypes'
        BY <1>1, <1>8 DEF vars, SharedTypes, ConnTypes, outside, conn
  <2>2. QED BY <1>1, <1>8, <2>1, LifeTypes DEF vars, TypeOK
<1>9. QED BY <1>2, <1>3, <1>4, <1>5, <1>6, <1>7, <1>8, TypeHandler DEF Next

\* The handlers keep the types of everything they share, with any number of
\* connections, instances and respondents.
THEOREM TypeCorrect == Spec => []TypeOK
<1>1. Init => TypeOK BY TypeInit
<1>2. TypeOK /\ [Next]_vars => TypeOK' BY TypeStep
<1>3. QED BY <1>1, <1>2, PTL DEF Spec

-----------------------------------------------------------------------------
(* The counter of connections. *)

LEMMA HoldersFinite == \A b : IsFiniteSet(Holders(b)) /\ Cardinality(Holders(b)) \in Nat
<1> TAKE b
<1>1. Holders(b) \in SUBSET Conns BY DEF Holders
<1>2. QED BY <1>1, StreamAssumption, FS_Subset, FS_CardinalityType

\* A step that moves no connection into or out of Holding.
LEMMA HoldersStay ==
    ASSUME SlotAccounting, active' = active,
           \A c \in Conns : /\ pc'[c] \in Holding <=> pc[c] \in Holding
                            /\ pc[c] \in Holding => bot'[c] = bot[c]
    PROVE  SlotAccounting'
<1>1. \A b \in Bots : Holders(b)' = Holders(b) BY DEF Holders
<1>2. QED BY <1>1 DEF SlotAccounting

\* A slot is taken.
LEMMA SlotTaken ==
    ASSUME TypeOK, SlotAccounting, NEW c \in Conns, Admit(c)
    PROVE  SlotAccounting'
<1>1. PICK b \in Bots : b = bot[c] BY Refers DEF Admit, At
<1>2. /\ active[b] < Limit /\ active[b] \in 0..254
      /\ active' = [active EXCEPT ![b] = active[b] + 1]
  <2>1. active[b] < Limit /\ active[b] \in 0..254
        BY <1>1, Refers, StreamAssumption DEF Admit, At
  <2>2. (active[b] + 1) % 256 = active[b] + 1 BY <2>1, NoWrap
  <2>3. active' = [active EXCEPT ![b] = (active[b] + 1) % 256]
        BY <1>1 DEF Admit
  <2>4. QED BY <2>1, <2>2, <2>3
<1>3. c \notin Holders(b) BY DEF Holders, Admit, At, Holding
<1>4. Holders(b)' = Holders(b) \cup {c}
      BY <1>1 DEF Holders, Admit, At, Holding, TypeOK, ConnTypes
<1>5. Cardinality(Holders(b)') = Cardinality(Holders(b)) + 1
      BY <1>3, <1>4, HoldersFinite, FS_AddElement
<1>6. \A d \in Bots \ {b} : Holders(d)' = Holders(d)
      BY <1>1 DEF Holders, Admit, At, Holding, TypeOK, ConnTypes
<1>7. active \in [Bots -> 0..255] BY DEF TypeOK, SharedTypes
<1>8. QED BY <1>2, <1>5, <1>6, <1>7, StreamAssumption DEF SlotAccounting

\* A slot is given back, by Release or by Disconnect.
LEMMA SlotReturned ==
    ASSUME TypeOK, SlotAccounting, NEW c \in Conns, pc[c] \in Holding,
           decrementConnection(bot[c]), pc'[c] \notin Holding,
           \A d \in Conns \ {c} : pc'[d] = pc[d] /\ bot'[d] = bot[d]
    PROVE  SlotAccounting'
<1>1. PICK b \in Bots : b = bot[c] BY Refers DEF Holding
<1>2. c \in Holders(b) BY <1>1 DEF Holders
<1>3. Holders(b)' = Holders(b) \ {c} BY <1>1 DEF Holders
<1>4. Cardinality(Holders(b)') = Cardinality(Holders(b)) - 1
      BY <1>2, <1>3, HoldersFinite, FS_RemoveElement
<1>5. Cardinality(Holders(b)') \in Nat BY <1>3, HoldersFinite, FS_RemoveElement, FS_CardinalityType
<1>6. active[b] > 0 BY <1>4, <1>5, HoldersFinite DEF SlotAccounting
<1>7. active' = [active EXCEPT ![b] = active[b] - 1]
      BY <1>1, <1>6 DEF decrementConnection
<1>8. \A d \in Bots \ {b} : Holders(d)' = Holders(d) BY <1>1 DEF Holders
<1>9. active \in [Bots -> 0..255] BY DEF TypeOK, SharedTypes
<1>10. active'[b] = Cardinality(Holders(b)') /\ active'[b] <= Limit
  <2>1. active[b] = Cardinality(Holders(b)) /\ active[b] <= Limit BY DEF SlotAccounting
  <2>2. active'[b] = active[b] - 1 BY <1>7, <1>9
  <2>3. active[b] \in 0..255 BY <1>9
  <2>4. QED BY <1>4, <2>1, <2>2, <2>3, StreamAssumption
<1>11. ASSUME NEW d \in Bots \ {b}
       PROVE  active'[d] = Cardinality(Holders(d)') /\ active'[d] <= Limit
       BY <1>7, <1>8, <1>9 DEF SlotAccounting
<1>12. QED BY <1>10, <1>11 DEF SlotAccounting

LEMMA SlotHandler == ASSUME TypeOK, SlotAccounting, NEW c \in Conns, HandlerStep(c)
                     PROVE  SlotAccounting'
<1> USE DEF At, Goto, Finish, Holding
<1>1. ConnTypes BY DEF TypeOK
<1>2. CASE Admit(c) BY <1>2, SlotTaken
<1>3. CASE Release(c)
      BY <1>1, <1>3, SlotReturned DEF Release, ConnTypes
<1>4. CASE Disconnect(c)
      BY <1>1, <1>4, SlotReturned DEF Disconnect, ConnTypes
<1>5. CASE Refuse(c) BY <1>1, <1>5, HoldersStay DEF Refuse, ConnTypes
<1>6. CASE Count(c) \/ Attach(c)
      BY <1>1, <1>6, HoldersStay DEF Count, Attach, ConnTypes
<1>7. CASE InitChannels(c) \/ InitFails(c) \/ AttachAgain(c)
      BY <1>1, <1>7, HoldersStay DEF InitChannels, InitFails, AttachAgain, ConnTypes
<1>8. CASE Settle(c)
      BY <1>1, <1>8, HoldersStay DEF Settle, ConnTypes
<1>9. CASE Expire(c) \/ End(c) \/ Clean(c)
      BY <1>1, <1>9, HoldersStay DEF Expire, End, Clean, ConnTypes
<1>10. QED BY <1>2, <1>3, <1>4, <1>5, <1>6, <1>7, <1>8, <1>9 DEF HandlerStep

LEMMA SlotStep == TypeOK /\ SlotAccounting /\ [Next]_vars => SlotAccounting'
<1> SUFFICES ASSUME TypeOK, SlotAccounting, [Next]_vars PROVE SlotAccounting'
    OBVIOUS
<1> USE DEF At, Goto, Holding
<1>1. ConnTypes BY DEF TypeOK
<1>2. ASSUME NEW c \in Conns, NEW r \in Resps, Open(c, r) PROVE SlotAccounting'
      BY <1>1, <1>2, HoldersStay DEF Open, ConnTypes
<1>3. ASSUME NEW c \in Conns,
             Write(c) \/ WriteReturns(c) \/ ShutdownSeen(c) \/ TimedOut(c) \/ ClientGone(c)
      PROVE  SlotAccounting'
      BY <1>1, <1>3, HoldersStay
      DEF Write, WriteReturns, ShutdownSeen, TimedOut, ClientGone, Streaming, ConnTypes
<1>4. CASE UNCHANGED <<active, pc, bot>> BY <1>4, HoldersStay
<1>5. CASE \/ Tick \/ SaveDialog \/ Lifecycle \/ UNCHANGED vars
           \/ \E r \in Resps : ReadDialog(r)
      BY <1>4, <1>5 DEF Tick, SaveDialog, Lifecycle, ReadDialog, vars, conn
<1>6. QED BY <1>2, <1>3, <1>5, SlotHandler DEF Next

\* On every exit path, with any number of connections racing for the slots of
\* any number of instances, the counter is exactly the number of handlers
\* that hold a slot and never passes the limit.
THEOREM SlotsAccounted == Spec => []SlotAccounting
<1>1. Init => SlotAccounting
  <2> SUFFICES ASSUME Init, NEW b \in Bots
               PROVE  active[b] = Cardinality(Holders(b)) /\ active[b] <= Limit
      BY DEF SlotAccounting
  <2>1. Holders(b) = {} BY DEF Holders, Init, Holding
  <2>2. QED BY <2>1, FS_EmptySet, StreamAssumption DEF Init
<1>2. Init => TypeOK BY TypeInit
<1>3. TypeOK /\ [Next]_vars => TypeOK' BY TypeStep
<1>4. TypeOK /\ SlotAccounting /\ [Next]_vars => SlotAccounting' BY SlotStep
<1>5. QED BY <1>1, <1>2, <1>3, <1>4, PTL DEF Spec

-----------------------------------------------------------------------------
(* The gauge of open streams. *)

LEMMA CountedFinite == \A u : IsFiniteSet(CountedOf(u)) /\ Cardinality(CountedOf(u)) \in Nat
<1> TAKE u
<1>1. CountedOf(u) \in SUBSET Conns BY DEF CountedOf
<1>2. QED BY <1>1, StreamAssumption, FS_Subset, FS_CardinalityType

\* A step that moves no connection into Counted or out of it and leaves the
\* gauge alone.
LEMMA GaugeStays ==
    ASSUME TypeOK, GaugeExact, gauge' = gauge,
           \A c \in Conns : /\ pc'[c] \in Counted <=> pc[c] \in Counted
                            /\ pc[c] \in Counted => resp'[c] = resp[c]
    PROVE  GaugeExact'
<1>1. \A u : CountedOf(u)' = CountedOf(u) BY DEF CountedOf
<1>2. QED BY <1>1 DEF GaugeExact

LEMMA GaugeUp ==
    ASSUME TypeOK, GaugeExact, NEW c \in Conns, Count(c)
    PROVE  GaugeExact'
<1>1. PICK v \in Users : v = UserOf[resp[c]] BY Refers DEF Count, At
<1>2. /\ gauge \in [Users -> Int] /\ gauge' = [gauge EXCEPT ![v] = gauge[v] + 1]
      BY <1>1 DEF Count, TypeOK, SharedTypes
<1>3. c \notin CountedOf(v) BY DEF CountedOf, Count, At, Counted
<1>4. CountedOf(v)' = CountedOf(v) \cup {c}
      BY <1>1 DEF CountedOf, Count, At, Counted, TypeOK, ConnTypes
<1>5. Cardinality(CountedOf(v)') = Cardinality(CountedOf(v)) + 1
      BY <1>3, <1>4, CountedFinite, FS_AddElement
<1>6. \A u \in Users \ {v} : CountedOf(u)' = CountedOf(u)
      BY <1>1 DEF CountedOf, Count, At, Counted, TypeOK, ConnTypes
<1>7. gauge'[v] = Cardinality(CountedOf(v)')
      BY <1>2, <1>5, CountedFinite DEF GaugeExact
<1>8. ASSUME NEW u \in Users \ {v} PROVE gauge'[u] = Cardinality(CountedOf(u)')
      BY <1>2, <1>6 DEF GaugeExact
<1>9. QED BY <1>7, <1>8 DEF GaugeExact

LEMMA GaugeDown ==
    ASSUME TypeOK, GaugeExact, NEW c \in Conns, Disconnect(c)
    PROVE  GaugeExact'
<1>1. PICK v \in Users : v = UserOf[resp[c]] BY Refers DEF Disconnect, At
<1>2. /\ gauge \in [Users -> Int] /\ gauge' = [gauge EXCEPT ![v] = gauge[v] - 1]
      BY <1>1 DEF Disconnect, TypeOK, SharedTypes
<1>3. c \in CountedOf(v) BY <1>1 DEF CountedOf, Disconnect, At, Counted
<1>4. CountedOf(v)' = CountedOf(v) \ {c}
      BY <1>1 DEF CountedOf, Disconnect, Goto, At, Counted, TypeOK, ConnTypes
<1>5. Cardinality(CountedOf(v)') = Cardinality(CountedOf(v)) - 1
      BY <1>3, <1>4, CountedFinite, FS_RemoveElement
<1>6. \A u \in Users \ {v} : CountedOf(u)' = CountedOf(u)
      BY <1>1 DEF CountedOf, Disconnect, Goto, At, Counted, TypeOK, ConnTypes
<1>7. gauge'[v] = Cardinality(CountedOf(v)')
      BY <1>2, <1>5, CountedFinite DEF GaugeExact
<1>8. ASSUME NEW u \in Users \ {v} PROVE gauge'[u] = Cardinality(CountedOf(u)')
      BY <1>2, <1>6 DEF GaugeExact
<1>9. QED BY <1>7, <1>8 DEF GaugeExact

LEMMA GaugeHandler ==
    ASSUME TypeOK, GaugeExact, NoErrorExit, NEW c \in Conns, HandlerStep(c)
    PROVE  GaugeExact'
<1> USE DEF At, Goto, Finish, Counted
<1>1. ConnTypes BY DEF TypeOK
<1>2. CASE Count(c) BY <1>2, GaugeUp
<1>3. CASE Disconnect(c) BY <1>3, GaugeDown
<1>4. CASE Admit(c) \/ Refuse(c) BY <1>1, <1>4, GaugeStays DEF Admit, Refuse, ConnTypes
<1>5. CASE Attach(c) \/ AttachAgain(c)
      BY <1>1, <1>5, GaugeStays DEF Attach, AttachAgain, ConnTypes
<1>6. CASE InitChannels(c) \/ InitFails(c)
      BY <1>1, <1>6, GaugeStays DEF InitChannels, InitFails, ConnTypes
<1>7. CASE Settle(c) BY <1>1, <1>7, GaugeStays DEF Settle, ConnTypes
<1>8. CASE Expire(c) \/ End(c) \/ Clean(c)
      BY <1>1, <1>8, GaugeStays DEF Expire, End, Clean, ConnTypes
<1>9. CASE Release(c) BY <1>9 DEF Release, NoErrorExit
<1>10. QED BY <1>2, <1>3, <1>4, <1>5, <1>6, <1>7, <1>8, <1>9 DEF HandlerStep

LEMMA GaugeStep == TypeOK /\ GaugeExact /\ NoErrorExit /\ [Next]_vars => GaugeExact'
<1> SUFFICES ASSUME TypeOK, GaugeExact, NoErrorExit, [Next]_vars PROVE GaugeExact'
    OBVIOUS
<1> USE DEF At, Goto, Counted
<1>1. ConnTypes BY DEF TypeOK
<1>2. ASSUME NEW c \in Conns, NEW r \in Resps, Open(c, r) PROVE GaugeExact'
      BY <1>1, <1>2, GaugeStays DEF Open, ConnTypes
<1>3. ASSUME NEW c \in Conns,
             Write(c) \/ WriteReturns(c) \/ ShutdownSeen(c) \/ TimedOut(c) \/ ClientGone(c)
      PROVE  GaugeExact'
      BY <1>1, <1>3, GaugeStays
      DEF Write, WriteReturns, ShutdownSeen, TimedOut, ClientGone, Streaming, ConnTypes
<1>4. CASE UNCHANGED <<gauge, pc, resp>> BY <1>4, GaugeStays
<1>5. CASE \/ Tick \/ SaveDialog \/ Lifecycle \/ UNCHANGED vars
           \/ \E r \in Resps : ReadDialog(r)
      BY <1>4, <1>5 DEF Tick, SaveDialog, Lifecycle, ReadDialog, vars, conn
<1>6. QED BY <1>2, <1>3, <1>5, GaugeHandler DEF Next

\* SSEConnections is exactly the number of open streams of each user as long
\* as no handler takes an error exit: those, which return before the deferred
\* function is registered, are the only thing that makes its help text wrong.
THEOREM GaugesRight == Spec => GaugeRight
<1>1. Init => GaugeExact
  <2> SUFFICES ASSUME Init, NEW u \in Users PROVE gauge[u] = Cardinality(CountedOf(u))
      BY DEF GaugeExact
  <2>1. CountedOf(u) = {} BY DEF CountedOf, Init, Counted
  <2>2. QED BY <2>1, FS_EmptySet DEF Init
<1>2. Init => TypeOK BY TypeInit
<1>3. TypeOK /\ [Next]_vars => TypeOK' BY TypeStep
<1>4. QED BY <1>1, <1>2, <1>3, GaugeStep, PTL DEF Spec, GaugeRight

-----------------------------------------------------------------------------
(* The timer of the grace period. *)

\* What the timer relies on: at 0 the instance has no stream at all.
LEMMA NoSlotNoStream ==
    ASSUME SlotAccounting, NEW b \in Bots, active[b] = 0
    PROVE  \A d \in Conns : pc[d] \in Streaming => bot[d] # b
<1>1. Holders(b) = {} BY HoldersFinite, FS_EmptySet DEF SlotAccounting
<1>2. QED BY <1>1 DEF Holders, Holding, Streaming

\* Only Expire moves a timer to "end", and only at 0.
LEMMA OnlyAtZero ==
    ASSUME TypeOK, [Next]_vars, NEW c \in Conns, pc[c] = "grace", pc'[c] = "end"
    PROVE  active[bot[c]] = 0
<1> USE DEF At, Goto, Finish
<1>1. ConnTypes BY DEF TypeOK
<1>2. ASSUME NEW d \in Conns, HandlerStep(d) PROVE active[bot[c]] = 0
  <2>1. CASE Expire(d) BY <1>1, <2>1 DEF Expire, ConnTypes
  <2>2. CASE Admit(d) \/ Refuse(d) \/ Count(d) \/ Attach(d)
        BY <1>1, <2>2 DEF Admit, Refuse, Count, Attach, ConnTypes
  <2>3. CASE InitChannels(d) \/ InitFails(d) \/ AttachAgain(d) \/ Release(d)
        BY <1>1, <2>3 DEF InitChannels, InitFails, AttachAgain, Release, ConnTypes
  <2>4. CASE Disconnect(d) \/ Settle(d) \/ End(d) \/ Clean(d)
        BY <1>1, <2>4 DEF Disconnect, Settle, End, Clean, ConnTypes
  <2>5. QED BY <1>2, <2>1, <2>2, <2>3, <2>4 DEF HandlerStep
<1>3. ASSUME NEW d \in Conns, NEW r \in Resps, Open(d, r) PROVE FALSE
      BY <1>1, <1>3 DEF Open, ConnTypes
<1>4. ASSUME NEW d \in Conns,
             Write(d) \/ WriteReturns(d) \/ ShutdownSeen(d) \/ TimedOut(d) \/ ClientGone(d)
      PROVE  FALSE
      BY <1>1, <1>4
      DEF Write, WriteReturns, ShutdownSeen, TimedOut, ClientGone, Streaming, ConnTypes
<1>5. CASE \/ Tick \/ SaveDialog \/ Lifecycle \/ UNCHANGED vars
           \/ \E r \in Resps : ReadDialog(r)
      BY <1>5 DEF Tick, SaveDialog, Lifecycle, ReadDialog, vars, conn
<1>6. QED BY <1>2, <1>3, <1>4, <1>5 DEF Next

\* No timer ends the dialog of a respondent who has a stream of the instance the
\* timer belongs to, for any number of connections and timers: the counter it
\* reads counts every one of them.
THEOREM KeepsDialog == Spec => ReconnectToSameBot
<1>1. TypeOK /\ SlotAccounting /\ [Next]_vars =>
        [\A c \in Conns : (At(c, "grace") /\ pc'[c] = "end") =>
            \A d \in StreamsOf(resp[c]) : bot[d] # bot[c]]_vars
  <2> SUFFICES ASSUME TypeOK, SlotAccounting, [Next]_vars, NEW c \in Conns,
                      pc[c] = "grace", pc'[c] = "end", NEW d \in StreamsOf(resp[c])
               PROVE  bot[d] # bot[c]
      BY DEF At
  <2>1. active[bot[c]] = 0 BY OnlyAtZero
  <2>2. bot[c] \in Bots BY Refers
  <2>3. d \in Conns /\ pc[d] \in Streaming BY DEF StreamsOf
  <2>4. QED BY <2>1, <2>2, <2>3, NoSlotNoStream
<1>2. QED BY <1>1, TypeCorrect, SlotsAccounted, PTL DEF Spec, ReconnectToSameBot

-----------------------------------------------------------------------------
(* The instances the connections refer to. *)

\* A handler, and the timer it leaves, refer to an instance of the user of the
\* token, which was in service when the handler found it.
OwnInstance == \A c \in Conns : pc[c] # "idle" =>
    /\ owner[bot[c]] = UserOf[resp[c]]
    /\ stage[bot[c]] \in {"serving", "replaced", "withdrawn", "shut"}

Whose == OwnInstance /\ Life!OneServing

\* A handler's own step leaves the instances alone and keeps what it refers to.
LEMMA WhoseStays ==
    ASSUME Whose, UNCHANGED life,
           \A c \in Conns : pc'[c] # "idle" =>
               pc[c] # "idle" /\ bot'[c] = bot[c] /\ resp'[c] = resp[c]
    PROVE  Whose'
  BY DEF Whose, OwnInstance, Life!OneServing, life

LEMMA WhoseHandler == ASSUME TypeOK, Whose, NEW c \in Conns, HandlerStep(c)
                      PROVE  Whose'
<1> USE DEF At, Goto, Finish
<1>1. ConnTypes BY DEF TypeOK
<1>2. CASE Admit(c) \/ Refuse(c) \/ Count(c) \/ Attach(c)
      BY <1>1, <1>2, WhoseStays DEF Admit, Refuse, Count, Attach, ConnTypes
<1>3. CASE InitChannels(c) \/ InitFails(c) \/ AttachAgain(c) \/ Release(c)
      BY <1>1, <1>3, WhoseStays DEF InitChannels, InitFails, AttachAgain, Release, ConnTypes
<1>4. CASE Disconnect(c) \/ Settle(c)
      BY <1>1, <1>4, WhoseStays DEF Disconnect, Settle, ConnTypes
<1>5. CASE Expire(c) \/ End(c) \/ Clean(c)
      BY <1>1, <1>5, WhoseStays DEF Expire, End, Clean, ConnTypes
<1>6. QED BY <1>2, <1>3, <1>4, <1>5 DEF HandlerStep

\* Instances come and go, but one that a handler has found keeps its owner.
LEMMA WhoseLife == ASSUME TypeOK, Whose, Lifecycle PROVE Whose'
<1>1. /\ UNCHANGED <<pc, bot, resp>> /\ Life!TypeOK
      /\ \A c \in Conns : pc[c] # "idle" => bot[c] \in Bots
      BY DEF Lifecycle, conn, TypeOK, ConnTypes
<1>2. PICK b \in Bots : \/ \E u \in Users : Life!Build(b, u)
                        \/ Life!Publish(b) \/ Life!Withdraw(b) \/ Life!Shut(b)
      BY DEF Lifecycle, Life!Next
<1> USE DEF Life!TypeOK
<1>3. ASSUME NEW u \in Users, Life!Build(b, u) PROVE Whose'
      BY <1>1, <1>3 DEF Whose, OwnInstance, Life!OneServing, Life!Build
<1>4. CASE Life!Publish(b)
  <2>1. OwnInstance' BY <1>1, <1>4 DEF Whose, OwnInstance, Life!Publish
  <2>2. Life!OneServing'
        BY <1>4 DEF Whose, Life!OneServing, Life!Publish, Life!Serving
  <2>3. QED BY <2>1, <2>2 DEF Whose
<1>5. CASE Life!Withdraw(b) \/ Life!Shut(b)
      BY <1>1, <1>5 DEF Whose, OwnInstance, Life!OneServing, Life!Withdraw, Life!Shut
<1>6. QED BY <1>2, <1>3, <1>4, <1>5

LEMMA WhoseStep == TypeOK /\ Whose /\ [Next]_vars => Whose'
<1> SUFFICES ASSUME TypeOK, Whose, [Next]_vars PROVE Whose'
    OBVIOUS
<1> USE DEF At, Goto
<1>1. ConnTypes BY DEF TypeOK
<1>2. ASSUME NEW c \in Conns, NEW r \in Resps, Open(c, r) PROVE Whose'
      BY <1>1, <1>2 DEF Open, ConnTypes, Life!Serving, Whose, OwnInstance,
                        Life!OneServing, life
<1>3. ASSUME NEW c \in Conns,
             Write(c) \/ WriteReturns(c) \/ ShutdownSeen(c) \/ TimedOut(c) \/ ClientGone(c)
      PROVE  Whose'
      BY <1>1, <1>3, WhoseStays
      DEF Write, WriteReturns, ShutdownSeen, TimedOut, ClientGone, Streaming, ConnTypes
<1>4. CASE \/ Tick \/ SaveDialog \/ UNCHANGED vars
           \/ \E r \in Resps : ReadDialog(r)
      BY <1>4, WhoseStays DEF Tick, SaveDialog, ReadDialog, vars, conn
<1>5. QED BY <1>2, <1>3, <1>4, WhoseHandler, WhoseLife DEF Next

THEOREM KeepsInstance == Spec => []Whose
<1>1. Init => Whose
      BY DEF Init, Whose, OwnInstance, Life!Init, Life!OneServing
<1>2. QED BY <1>1, WhoseStep, TypeCorrect, PTL DEF Spec

\* No handler's instance is replaced or withdrawn while it, or the timer it
\* left, still runs.
Undisturbed == \A c \in Conns : pc[c] # "idle" => stage[bot[c]] = "serving"

\* A restart or a stop is the only way a timer ends the dialog of a respondent
\* who is back: while every handler's instance is the one in service, the timer
\* keeps what its log promises, for any number of respondents and connections.
THEOREM KeepsDialogUndisturbed == Spec /\ []Undisturbed => ReconnectKeepsDialog
<1>1. TypeOK /\ SlotAccounting /\ Whose /\ Undisturbed /\ [Next]_vars =>
        [\A c \in Conns : (At(c, "grace") /\ pc'[c] = "end") => StreamsOf(resp[c]) = {}]_vars
  <2> SUFFICES ASSUME TypeOK, SlotAccounting, Whose, Undisturbed, [Next]_vars,
                      NEW c \in Conns, pc[c] = "grace", pc'[c] = "end",
                      NEW d \in StreamsOf(resp[c])
               PROVE  FALSE
      BY DEF At
  <2>1. /\ d \in Conns /\ pc[d] \in Streaming /\ pc[d] # "idle" /\ resp[d] = resp[c]
        /\ pc[c] # "idle"
        BY DEF StreamsOf, Streaming
  <2>2. bot[c] \in Bots /\ bot[d] \in Bots BY <2>1, Refers
  <2>3. bot[d] = bot[c]
        BY <2>1, <2>2 DEF Whose, OwnInstance, Life!OneServing, Undisturbed
  <2>4. active[bot[c]] = 0 BY OnlyAtZero
  <2>5. QED BY <2>1, <2>2, <2>3, <2>4, NoSlotNoStream
<1>2. QED BY <1>1, TypeCorrect, SlotsAccounted, KeepsInstance, PTL
          DEF Spec, ReconnectKeepsDialog

\* The connections that refer to an instance, their timers included.
Arrived(b) == {c \in Conns : bot[c] = b}

\* Once shutdownCh is closed nobody new reaches the instance, although those
\* that found it before may still be admitted: what ShutDrains waits for can
\* only become less.
NoNewcomers == [][\A b \in Bots : stage[b] = "shut" => Arrived(b)' \subseteq Arrived(b)]_vars

\* A step other than the lookup in handleEvents brings no connection to an instance.
LEMMA OnlyOpenArrives ==
    ASSUME TypeOK, [Next]_vars, NEW c \in Conns, NEW b \in Bots, bot'[c] = b, bot[c] # b
    PROVE  stage[b] = "serving"
<1> USE StreamAssumption DEF At, Goto, Finish
<1>1. ConnTypes BY DEF TypeOK
<1>2. ASSUME NEW d \in Conns, NEW r \in Resps, Open(d, r) PROVE stage[b] = "serving"
      BY <1>1, <1>2 DEF Open, ConnTypes, Life!Serving
<1>3. ASSUME NEW d \in Conns, HandlerStep(d) PROVE FALSE
  <2>1. CASE Admit(d) \/ Refuse(d) \/ Count(d) \/ Attach(d)
        BY <1>1, <2>1 DEF Admit, Refuse, Count, Attach, ConnTypes
  <2>2. CASE InitChannels(d) \/ InitFails(d) \/ AttachAgain(d) \/ Release(d)
        BY <1>1, <2>2 DEF InitChannels, InitFails, AttachAgain, Release, ConnTypes
  <2>3. CASE Disconnect(d) \/ Settle(d) \/ Expire(d) \/ End(d) \/ Clean(d)
        BY <1>1, <2>3 DEF Disconnect, Settle, Expire, End, Clean, ConnTypes
  <2>4. QED BY <1>3, <2>1, <2>2, <2>3 DEF HandlerStep
<1>4. ASSUME NEW d \in Conns,
             Write(d) \/ WriteReturns(d) \/ ShutdownSeen(d) \/ TimedOut(d) \/ ClientGone(d)
      PROVE  FALSE
      BY <1>4 DEF Write, WriteReturns, ShutdownSeen, TimedOut, ClientGone
<1>5. CASE \/ Tick \/ SaveDialog \/ Lifecycle \/ UNCHANGED vars
           \/ \E r \in Resps : ReadDialog(r)
      BY <1>5 DEF Tick, SaveDialog, Lifecycle, ReadDialog, vars, conn
<1>6. QED BY <1>2, <1>3, <1>4, <1>5 DEF Next

THEOREM ShutOnlyDrains == Spec => NoNewcomers
<1>1. TypeOK /\ [Next]_vars =>
        [\A b \in Bots : stage[b] = "shut" => Arrived(b)' \subseteq Arrived(b)]_vars
  <2> SUFFICES ASSUME TypeOK, [Next]_vars, NEW b \in Bots, stage[b] = "shut",
                      NEW c \in Arrived(b)'
               PROVE  c \in Arrived(b)
      OBVIOUS
  <2>1. c \in Conns /\ bot'[c] = b BY DEF Arrived
  <2>2. bot[c] = b BY <2>1, OnlyOpenArrives
  <2>3. QED BY <2>1, <2>2 DEF Arrived
<1>2. QED BY <1>1, TypeCorrect, PTL DEF Spec, NoNewcomers

-----------------------------------------------------------------------------
(* The streams of a user. *)

\* A set of naturals that is not empty has a least element.
LEMMA LeastNatural == ASSUME NEW T \in SUBSET Nat, T # {}
                      PROVE  \E n \in T : \A m \in T : n <= m
<1> DEFINE Less == {x \in Nat \X Nat : x[1] < x[2]}
<1>1. IsWellFoundedOn(Less, Nat)
      BY NatLessThanWellFounded DEF OpToRel
<1>2. \E n \in T : \A m \in T : <<m, n>> \notin Less
  <2> HIDE DEF Less
  <2>1. QED BY <1>1, WFMin
<1>3. PICK n \in T : \A m \in T : <<m, n>> \notin Less BY <1>2
<1>4. \A m \in T : n <= m
  <2>1. TAKE m \in T
  <2>2. m \in Nat /\ n \in Nat /\ <<m, n>> \in Nat \X Nat OBVIOUS
  <2>3. ~(m < n) BY <1>3, <2>2
  <2>4. QED BY <2>2, <2>3
<1>5. QED BY <1>4

\* What a finite set is mapped to.
Image(f, R) == {f[c] : c \in R}

\* The parts of a finite set and their images are finite.
LEMMA FinitePart ==
    ASSUME NEW S, IsFiniteSet(S), NEW f, NEW R \in SUBSET S
    PROVE  /\ IsFiniteSet(R) /\ IsFiniteSet(Image(f, R))
           /\ Cardinality(R) \in Nat /\ Cardinality(Image(f, R)) \in Nat
<1>1. IsFiniteSet(R) BY FS_Subset
<1>2. [c \in R |-> f[c]] \in Surjection(R, Image(f, R)) BY DEF Surjection, Image
<1>3. IsFiniteSet(Image(f, R)) BY <1>1, <1>2, FS_Surjection
<1>4. QED BY <1>1, <1>3, FS_CardinalityType

LEMMA OneLess == ASSUME NEW T, IsFiniteSet(T), NEW x \in T
                 PROVE  Cardinality(T \ {x}) = Cardinality(T) - 1
  BY FS_RemoveElement

\* A set that is mapped to n values, at most K elements to each, has at most
\* K * n elements.
LEMMA FibreBound ==
    ASSUME NEW S, IsFiniteSet(S), NEW f, NEW K \in Nat,
           \A b : Cardinality({c \in S : f[c] = b}) <= K
    PROVE  Cardinality(S) <= K * Cardinality(Image(f, S))
<1> DEFINE TooBig(n) == \E R \in SUBSET S :
                            Cardinality(Image(f, R)) = n /\ Cardinality(R) > K * n
           Sizes     == {n \in Nat : TooBig(n)}
<1>1. ASSUME NEW n \in Nat, TooBig(n), \A m \in Nat : TooBig(m) => n <= m PROVE FALSE
  <2>1. PICK R \in SUBSET S : Cardinality(Image(f, R)) = n /\ Cardinality(R) > K * n
        BY <1>1
  <2>2. K * n \in Nat BY <1>1
  <2>3. R # {}
    <3>1. Cardinality(R) > 0 BY <2>1, <2>2, FinitePart
    <3>2. QED BY <3>1, FS_EmptySet
  <2>4. PICK b : \E c \in R : f[c] = b BY <2>3
  <2> DEFINE Q == {d \in R : f[d] # b}
             F == {d \in S : f[d] = b}
  <2>5. Q \in SUBSET S /\ F \in SUBSET S /\ Q \cup F \in SUBSET S
        /\ R \subseteq Q \cup F /\ Q \cap F = {}
        OBVIOUS
  <2>6. Image(f, Q) = Image(f, R) \ {b} /\ b \in Image(f, R) BY <2>4 DEF Image
  <2>7. Cardinality(F) <= K OBVIOUS
  <2> HIDE DEF Q, F, TooBig
  <2>8. Cardinality(Image(f, Q)) = n - 1 /\ n - 1 \in Nat
    <3>1. IsFiniteSet(Image(f, R)) BY FinitePart
    <3>2. Cardinality(Image(f, Q)) = Cardinality(Image(f, R)) - 1
          BY ONLY <2>6, <3>1, OneLess
    <3>3. Cardinality(Image(f, Q)) \in Nat BY <2>5, FinitePart
    <3>4. QED BY <2>1, <3>2, <3>3
  <2>9. Cardinality(R) <= Cardinality(Q) + K
    <3>1. /\ IsFiniteSet(Q) /\ IsFiniteSet(F) /\ IsFiniteSet(Q \cup F)
          /\ Cardinality(Q) \in Nat /\ Cardinality(F) \in Nat
          /\ Cardinality(Q \cup F) \in Nat /\ Cardinality(R) \in Nat
          BY <2>5, FinitePart
    <3>2. Cardinality(R) <= Cardinality(Q \cup F) BY <2>5, <3>1, FS_Subset
    <3>3. Cardinality(Q \cup F) = Cardinality(Q) + Cardinality(F) - Cardinality(Q \cap F)
          BY <3>1, FS_Union
    <3>4. Cardinality(Q \cap F) = 0 BY <2>5, FS_EmptySet
    <3>5. QED BY <2>7, <3>1, <3>2, <3>3, <3>4
  <2>10. ~(Cardinality(Q) > K * (n - 1))
    <3>1. ~TooBig(n - 1) BY <1>1, <2>8
    <3>2. QED BY <2>5, <2>8, <3>1 DEF TooBig
  <2>11. Cardinality(Q) \in Nat /\ Cardinality(R) \in Nat BY <2>5, FinitePart
  <2>12. K * (n - 1) + K = K * n /\ K * (n - 1) \in Nat BY <2>8
  <2>13. QED BY ONLY <2>1, <2>2, <2>9, <2>10, <2>11, <2>12, K \in Nat
<1>2. ~TooBig(Cardinality(Image(f, S)))
  <2>1. SUFFICES ASSUME TooBig(Cardinality(Image(f, S))) PROVE FALSE OBVIOUS
  <2> HIDE DEF TooBig
  <2>2. Cardinality(Image(f, S)) \in Nat BY FinitePart
  <2>3. Sizes \in SUBSET Nat /\ Sizes # {} BY <2>1, <2>2
  <2>4. PICK n \in Sizes : \A m \in Sizes : n <= m
    <3> HIDE DEF Sizes
    <3>1. QED BY <2>3, LeastNatural
  <2>5. QED BY <1>1, <2>4
<1>3. Cardinality(S) \in Nat /\ K * Cardinality(Image(f, S)) \in Nat BY FinitePart
<1>4. ~(Cardinality(S) > K * Cardinality(Image(f, S))) BY <1>2
<1> HIDE DEF TooBig, Sizes
<1>5. QED BY ONLY <1>3, <1>4

LEMMA TimesGrows == ASSUME NEW k \in Nat, NEW m \in Nat, NEW n \in Nat, m <= n
                    PROVE  k * m \in Nat /\ k * n \in Nat /\ k * m <= k * n
<1>1. PICK d \in Nat : n = m + d
  <2>1. n - m \in Nat /\ n = m + (n - m) OBVIOUS
  <2>2. QED BY <2>1
<1>2. k * n = k * m + k * d /\ k * m \in Nat /\ k * d \in Nat BY <1>1
<1>3. QED BY <1>2

\* The handlers of a user that hold a slot, of whichever instance.
HoldersOf(u) == {c \in Conns : pc[c] \in Holding /\ UserOf[resp[c]] = u}

\* Instances of a user that are out of service and still have handlers.
Draining(u) == {b \in Bots : owner[b] = u /\ stage[b] # "serving" /\ Holders(b) # {}}

\* A restart begins a new counter, and handlers that found the old instance may
\* still be admitted to it.  All the streams of a user stay within the limit
\* for the instance in service and once more for each that still drains.
UserStreams == \A u \in Users :
    Cardinality(HoldersOf(u)) <= Limit * (1 + Cardinality(Draining(u)))

\* The instances that streams of a user belong to: at most one of them serves.
LEMMA InstancesOf ==
    ASSUME TypeOK, Whose, NEW u \in Users
    PROVE  /\ IsFiniteSet(Draining(u)) /\ Cardinality(Draining(u)) \in Nat
           /\ Cardinality(Image(bot, HoldersOf(u))) <= 1 + Cardinality(Draining(u))
<1> DEFINE used == Image(bot, HoldersOf(u))
           old  == Draining(u)
<1>1. HoldersOf(u) \in SUBSET Conns BY DEF HoldersOf
<1>2. IsFiniteSet(used) /\ Cardinality(used) \in Nat
      BY <1>1, StreamAssumption, FinitePart
<1>3. IsFiniteSet(old) /\ Cardinality(old) \in Nat
  <2>1. old \subseteq Image(bot, Conns) BY DEF Draining, Holders, Image
  <2>2. IsFiniteSet(Image(bot, Conns)) BY StreamAssumption, FinitePart
  <2>3. QED BY <2>1, <2>2, FS_Subset, FS_CardinalityType
<1>4. \A b \in used : /\ b \in Bots /\ owner[b] = u
                      /\ stage[b] = "serving" \/ b \in old
  <2> SUFFICES ASSUME NEW c \in HoldersOf(u)
               PROVE  /\ bot[c] \in Bots /\ owner[bot[c]] = u
                      /\ stage[bot[c]] = "serving" \/ bot[c] \in old
      BY DEF Image
  <2>1. c \in Conns /\ pc[c] \in Holding /\ pc[c] # "idle" /\ UserOf[resp[c]] = u
        BY DEF HoldersOf, Holding
  <2>2. bot[c] \in Bots BY <2>1, Refers
  <2>3. owner[bot[c]] = u BY <2>1 DEF Whose, OwnInstance
  <2>4. QED BY <2>1, <2>2, <2>3 DEF Draining, Holders
<1>5. \E s : used \subseteq old \cup {s}
  <2>1. CASE \E s \in used : stage[s] = "serving"
    <3>1. PICK s \in used : stage[s] = "serving" BY <2>1
    <3>2. \A b \in used : b = s \/ b \in old
          BY <1>4, <3>1 DEF Whose, Life!OneServing
    <3>3. QED BY <3>2
  <2>2. CASE \A s \in used : stage[s] # "serving" BY <1>4, <2>2
  <2>3. QED BY <2>1, <2>2
<1> HIDE DEF used, old
<1>6. PICK s : used \subseteq old \cup {s} BY <1>5
<1>7. /\ IsFiniteSet(old \cup {s}) /\ Cardinality(old \cup {s}) \in Nat
      /\ Cardinality(old \cup {s}) <= 1 + Cardinality(old)
  <2>1. IsFiniteSet(old \cup {s}) BY <1>3, FS_AddElement
  <2>2. Cardinality(old \cup {s}) = IF s \in old THEN Cardinality(old)
                                    ELSE Cardinality(old) + 1
        BY <1>3, FS_AddElement
  <2>3. QED BY ONLY <1>3, <2>1, <2>2
<1>8. Cardinality(used) <= Cardinality(old \cup {s}) BY <1>6, <1>7, FS_Subset
<1>9. Cardinality(used) <= 1 + Cardinality(old) BY ONLY <1>2, <1>3, <1>7, <1>8
<1>10. QED BY <1>3, <1>9 DEF used, old

\* The comment at the counter speaks of all connections to the bot ("ОБЩИЙ
\* ЛИМИТ"); the code counts for each instance.  The limit is kept while no
\* instance drains, and passed by it once more for each that does.
THEOREM UserStreamsBounded == Spec => []UserStreams
<1>1. TypeOK /\ SlotAccounting /\ Whose => UserStreams
  <2> SUFFICES ASSUME TypeOK, SlotAccounting, Whose, NEW u \in Users
               PROVE  Cardinality(HoldersOf(u)) <= Limit * (1 + Cardinality(Draining(u)))
      BY DEF UserStreams
  <2> DEFINE mine(b) == {c \in HoldersOf(u) : bot[c] = b}
  <2>1. HoldersOf(u) \in SUBSET Conns /\ IsFiniteSet(HoldersOf(u))
    <3>1. HoldersOf(u) \in SUBSET Conns BY DEF HoldersOf
    <3>2. QED BY <3>1, StreamAssumption, FS_Subset
  <2>2. Limit \in Nat BY StreamAssumption
  <2>3. ASSUME NEW b PROVE Cardinality(mine(b)) <= Limit
    <3>1. CASE b \in Bots
      <4>1. mine(b) \subseteq Holders(b) BY DEF HoldersOf, Holders
      <4>2. Cardinality(mine(b)) <= Cardinality(Holders(b)) /\ Cardinality(mine(b)) \in Nat
            BY <4>1, HoldersFinite, FS_Subset, FS_CardinalityType
      <4>3. Cardinality(Holders(b)) <= Limit BY <3>1 DEF SlotAccounting
      <4>4. Cardinality(Holders(b)) \in Nat BY HoldersFinite
      <4> HIDE DEF mine
      <4>5. QED BY ONLY <2>2, <4>2, <4>3, <4>4
    <3>2. CASE b \notin Bots
      <4>1. mine(b) = {} BY <3>2, Refers DEF HoldersOf, Holding
      <4>2. QED BY <2>2, <4>1, FS_EmptySet
    <3>3. QED BY <3>1, <3>2
  <2>4. Cardinality(HoldersOf(u)) <= Limit * Cardinality(Image(bot, HoldersOf(u)))
        BY <2>1, <2>2, <2>3, FibreBound
  <2>5. /\ Cardinality(HoldersOf(u)) \in Nat
        /\ Cardinality(Image(bot, HoldersOf(u))) \in Nat
        BY <2>1, FinitePart, FS_CardinalityType
  <2>6. /\ Cardinality(Draining(u)) \in Nat
        /\ Cardinality(Image(bot, HoldersOf(u))) <= 1 + Cardinality(Draining(u))
        BY InstancesOf
  <2>7. 1 + Cardinality(Draining(u)) \in Nat BY <2>6
  <2>8. /\ Limit * Cardinality(Image(bot, HoldersOf(u))) \in Nat
        /\ Limit * (1 + Cardinality(Draining(u))) \in Nat
        /\ Limit * Cardinality(Image(bot, HoldersOf(u)))
               <= Limit * (1 + Cardinality(Draining(u)))
        BY <2>2, <2>5, <2>6, <2>7, TimesGrows
  <2>9. QED BY ONLY <2>4, <2>5, <2>8
<1>2. QED BY <1>1, TypeCorrect, SlotsAccounted, KeepsInstance, PTL

-----------------------------------------------------------------------------
(* The connections implement StreamSlots. *)

SlotOf(c) == IF PhaseOf(c) = "out" THEN NoBot ELSE bot[c]

\* Who is inside, for StreamSlots, is who holds a slot.
LEMMA InsideHolders == \A b \in Bots : Slots!Inside(b) = Holders(b)
  BY DEF Slots!Inside, Holders, PhaseOf, Holding

\* A step that moves no connection from one phase to another.
LEMMA SlotsStutter ==
    ASSUME \A c \in Conns : /\ PhaseOf(c)' = PhaseOf(c)
                            /\ PhaseOf(c) # "out" => bot'[c] = bot[c]
    PROVE  UNCHANGED Slots!vars
<1>1. \A c \in Conns : SlotOf(c)' = SlotOf(c) BY DEF SlotOf
<1>2. QED BY <1>1 DEF Slots!vars, SlotOf

\* A step of one connection.
LEMMA SlotsMove ==
    ASSUME NEW c \in Conns, \A d \in Conns \ {c} : pc'[d] = pc[d] /\ bot'[d] = bot[d]
    PROVE  /\ [d \in Conns |-> PhaseOf(d)]' = [[d \in Conns |-> PhaseOf(d)] EXCEPT ![c] = PhaseOf(c)']
           /\ [d \in Conns |-> SlotOf(d)]' = [[d \in Conns |-> SlotOf(d)] EXCEPT ![c] = SlotOf(c)']
<1>1. \A d \in Conns \ {c} : PhaseOf(d)' = PhaseOf(d) /\ SlotOf(d)' = SlotOf(d)
      BY DEF PhaseOf, SlotOf
<1>2. QED BY ONLY <1>1, c \in Conns

\* The mutex admits a connection while a slot is free.
LEMMA AdmitEnters == ASSUME TypeOK, SlotAccounting, NEW c \in Conns, Admit(c)
                     PROVE  Slots!Next
<1>1. PICK b \in Bots : b = bot[c] BY Refers DEF Admit, At
<1>2. ConnTypes /\ bot' = bot /\ pc[c] = "found" /\ pc' = [pc EXCEPT ![c] = "count"]
      BY DEF TypeOK, Admit, At
<1>3. PhaseOf(c) = "out" /\ PhaseOf(c)' = "in" /\ SlotOf(c)' = b
      BY <1>1, <1>2 DEF PhaseOf, SlotOf, Holding, ConnTypes
<1>4. Slots!Cardinality(Slots!Inside(b)) < Limit
  <2>1. Slots!Cardinality(Slots!Inside(b)) = Cardinality(Slots!Inside(b))
        BY ONLY DEF Slots!Cardinality, Cardinality
  <2>2. QED BY <1>1, <2>1, InsideHolders DEF Admit, SlotAccounting
<1>5. \A d \in Conns \ {c} : pc'[d] = pc[d] /\ bot'[d] = bot[d] BY <1>2 DEF ConnTypes
<1>6. /\ [d \in Conns |-> PhaseOf(d)]' = [[d \in Conns |-> PhaseOf(d)] EXCEPT ![c] = "in"]
      /\ [d \in Conns |-> SlotOf(d)]' = [[d \in Conns |-> SlotOf(d)] EXCEPT ![c] = b]
      BY <1>3, <1>5, SlotsMove
<1>7. [d \in Conns |-> PhaseOf(d)][c] = "out" BY <1>3
<1>8. Slots!Enter(c, b)
      BY ONLY <1>4, <1>6, <1>7 DEF Slots!Enter, SlotOf
<1>9. QED BY <1>8 DEF Slots!Next

\* The handler or its timer is over.
LEMMA FinishParts ==
    ASSUME TypeOK, NEW c \in Conns, PhaseOf(c) # "out", Finish(c)
    PROVE  Slots!Next
<1>1. pc'[c] = "idle" /\ \A d \in Conns \ {c} : pc'[d] = pc[d] /\ bot'[d] = bot[d]
      BY DEF TypeOK, ConnTypes, Finish
<1>2. PhaseOf(c)' = "out" /\ SlotOf(c)' = NoBot BY <1>1 DEF PhaseOf, SlotOf, Holding
<1>3. Slots!Part(c) BY <1>1, <1>2, SlotsMove DEF Slots!Part, SlotOf
<1>4. QED BY <1>3 DEF Slots!Next

\* The last stream of a dialog ends: its timer remains.
LEMMA DisconnectLeaves == ASSUME TypeOK, NEW c \in Conns, Disconnect(c)
                          PROVE  Slots!Next
<1>1. ConnTypes /\ bot' = bot /\ pc[c] = "closing" /\ pc' = [pc EXCEPT ![c] = "settle"]
      BY DEF TypeOK, Disconnect, Goto, At
<1>2. /\ PhaseOf(c) = "in" /\ PhaseOf(c)' = "left" /\ SlotOf(c)' = SlotOf(c)
      /\ \A d \in Conns \ {c} : pc'[d] = pc[d] /\ bot'[d] = bot[d]
      BY <1>1 DEF PhaseOf, SlotOf, Holding, ConnTypes
<1>3. /\ [d \in Conns |-> PhaseOf(d)]' = [[d \in Conns |-> PhaseOf(d)] EXCEPT ![c] = "left"]
      /\ [d \in Conns |-> SlotOf(d)]' = [d \in Conns |-> SlotOf(d)]
  <2>1. [d \in Conns |-> SlotOf(d)]' = [[d \in Conns |-> SlotOf(d)] EXCEPT ![c] = SlotOf(c)]
        BY <1>2, SlotsMove
  <2>2. [d \in Conns |-> PhaseOf(d)]' = [[d \in Conns |-> PhaseOf(d)] EXCEPT ![c] = "left"]
        BY <1>2, SlotsMove
  <2>3. QED BY ONLY <2>1, <2>2
<1>4. Slots!Leave(c) BY <1>2, <1>3 DEF Slots!Leave, SlotOf
<1>5. QED BY <1>4 DEF Slots!Next

\* The timer ends the dialog only while no slot of its instance is taken.
LEMMA ExpireEnds == ASSUME TypeOK, SlotAccounting, NEW c \in Conns, Expire(c)
                    PROVE  Slots!Next
<1>1. ConnTypes /\ pc[c] = "grace" /\ bot[c] \in Bots /\ PhaseOf(c) = "left"
      BY Refers DEF TypeOK, Expire, At, PhaseOf, Holding
<1>2. CASE active[bot[c]] = 0
  <2>1. bot' = bot /\ pc' = [pc EXCEPT ![c] = "end"] BY <1>2 DEF Expire, Goto
  <2>2. /\ PhaseOf(c)' = "ending" /\ SlotOf(c)' = SlotOf(c) /\ SlotOf(c) = bot[c]
        /\ \A d \in Conns \ {c} : pc'[d] = pc[d] /\ bot'[d] = bot[d]
        BY <1>1, <2>1 DEF PhaseOf, SlotOf, Holding, ConnTypes
  <2>3. Slots!Inside(bot[c]) = {}
        BY <1>1, <1>2, InsideHolders, HoldersFinite, FS_EmptySet DEF SlotAccounting
  <2>4. [d \in Conns |-> SlotOf(d)]' = [[d \in Conns |-> SlotOf(d)] EXCEPT ![c] = SlotOf(c)]
        BY <2>2, SlotsMove
  <2>5. [d \in Conns |-> SlotOf(d)]' = [d \in Conns |-> SlotOf(d)] BY ONLY <2>4
  <2>6. [d \in Conns |-> PhaseOf(d)]' = [[d \in Conns |-> PhaseOf(d)] EXCEPT ![c] = "ending"]
        BY <2>2, SlotsMove
  <2>7. Slots!EndDialog(c) BY <1>1, <2>2, <2>3, <2>5, <2>6 DEF Slots!EndDialog, SlotOf
  <2>8. QED BY <2>7 DEF Slots!Next
<1>3. CASE active[bot[c]] # 0
  <2>1. Finish(c) BY <1>3 DEF Expire
  <2>2. QED BY <1>1, <2>1, FinishParts
<1>4. QED BY <1>2, <1>3

LEMMA SlotsHandler == ASSUME TypeOK, SlotAccounting, NEW c \in Conns, HandlerStep(c)
                      PROVE  Slots!Next \/ UNCHANGED Slots!vars
<1>1. ConnTypes BY DEF TypeOK
<1>2. CASE Admit(c) BY <1>2, AdmitEnters
<1>3. CASE Release(c)
  <2>1. PhaseOf(c) # "out" /\ Finish(c) BY <1>3 DEF Release, At, PhaseOf, Holding
  <2>2. QED BY <2>1, FinishParts
<1>4. CASE Disconnect(c) BY <1>4, DisconnectLeaves
<1>5. CASE Expire(c) BY <1>5, ExpireEnds
<1>6. CASE Clean(c)
  <2>1. PhaseOf(c) # "out" /\ Finish(c) BY <1>6 DEF Clean, At, PhaseOf, Holding
  <2>2. QED BY <2>1, FinishParts
<1>7. CASE Settle(c)
  <2>1. CASE active[bot[c]] = 0
        BY <1>1, <1>7, <2>1, SlotsStutter DEF Settle, At, PhaseOf, Holding, ConnTypes
  <2>2. CASE active[bot[c]] # 0
    <3>1. PhaseOf(c) # "out" /\ Finish(c) BY <1>7, <2>2 DEF Settle, At, PhaseOf, Holding
    <3>2. QED BY <3>1, FinishParts
  <2>3. QED BY <2>1, <2>2
<1>8. CASE Refuse(c)
      BY <1>1, <1>8, SlotsStutter DEF Refuse, Finish, At, PhaseOf, Holding, ConnTypes
<1>9. CASE Count(c) \/ Attach(c) \/ InitChannels(c) \/ InitFails(c) \/ AttachAgain(c) \/ End(c)
      BY <1>1, <1>9, SlotsStutter
      DEF Count, Attach, InitChannels, InitFails, AttachAgain, End, Goto, At, PhaseOf,
          Holding, ConnTypes
<1>10. QED BY <1>2, <1>3, <1>4, <1>5, <1>6, <1>7, <1>8, <1>9 DEF HandlerStep

LEMMA SlotsStep == ASSUME TypeOK, SlotAccounting, [Next]_vars
                   PROVE  Slots!Next \/ UNCHANGED Slots!vars
<1>1. ConnTypes BY DEF TypeOK
<1>2. ASSUME NEW c \in Conns, NEW r \in Resps, Open(c, r) PROVE UNCHANGED Slots!vars
      BY <1>1, <1>2, SlotsStutter DEF Open, At, PhaseOf, Holding, ConnTypes
<1>3. ASSUME NEW c \in Conns,
             Write(c) \/ WriteReturns(c) \/ ShutdownSeen(c) \/ TimedOut(c) \/ ClientGone(c)
      PROVE  UNCHANGED Slots!vars
      BY <1>1, <1>3, SlotsStutter
      DEF Write, WriteReturns, ShutdownSeen, TimedOut, ClientGone, Streaming, Goto, At,
          PhaseOf, Holding, ConnTypes
<1>4. CASE UNCHANGED <<pc, bot>> BY <1>4, SlotsStutter DEF PhaseOf
<1>5. CASE \/ Tick \/ SaveDialog \/ Lifecycle \/ UNCHANGED vars
           \/ \E r \in Resps : ReadDialog(r)
      BY <1>4, <1>5 DEF Tick, SaveDialog, Lifecycle, ReadDialog, vars, conn
<1>6. QED BY <1>2, <1>3, <1>5, SlotsHandler DEF Next

\* Counter, error exits, deferred function and timers together implement the
\* slots of an instance: a slot is taken at once and given back once, never more
\* than the limit are out, and a dialog ends only while none is.
THEOREM SlotsRefinement == Spec => ImplementsSlots
<1>1. Init => Slots!Init BY DEF Init, Slots!Init, PhaseOf, Holding
<1>2. TypeOK /\ SlotAccounting /\ [Next]_vars => [Slots!Next]_(Slots!vars)
      BY SlotsStep
<1>3. QED BY <1>1, <1>2, TypeCorrect, SlotsAccounted, PTL
          DEF Spec, Slots!Spec, ImplementsSlots
=============================================================================
