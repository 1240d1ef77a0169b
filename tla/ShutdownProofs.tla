--------------------------- MODULE ShutdownProofs ---------------------------
(* Theorems about Shutdown, for any users and any producers of the bus. *)
EXTENDS Shutdown, TLAPS

LEMMA TypeInit == Init => TypeOK
<1> SUFFICES ASSUME Init PROVE TypeOK
    OBVIOUS
<1>1. producer \in [Producers \cup {Listener} -> {"off", "on", "end"}]
      BY DEF Init
<1>2. /\ bots \in [Users -> Bots \cup {NoBot}] /\ hand \in [Users -> Bots \cup {NoBot}]
      /\ stage \in [Bots -> Stages] /\ worker \in [Users -> {"off", "take", "stop", "end"}]
      BY DEF Init, Stages
<1>3. \A u \in Users : worker[u] # "stop" BY DEF Init
<1>4. QED BY <1>1, <1>2, <1>3 DEF Init, TypeOK

LEMMA TypeStep == TypeOK /\ [Next]_vars => TypeOK'
<1> SUFFICES ASSUME TypeOK, [Next]_vars PROVE TypeOK'
    OBVIOUS
<1> USE ShutdownAssumption DEF TypeOK, Stages, run, sweep, map, stopping, ending
<1>1. ASSUME NEW u \in Users, NEW b \in Bots, Store(u, b) PROVE TypeOK'
      BY <1>1 DEF Store
<1>2. ASSUME NEW u \in Users, RequestTakes(u) \/ WorkerStep(u) PROVE TypeOK'
      BY <1>2 DEF RequestTakes, WorkerStep, Visit, WorkerTakes, LoadAndDelete
<1>3. ASSUME NEW b \in Bots, OpenStream(b) \/ Told(b) \/ LeaveStream(b) \/ StopStep(b)
      PROVE  TypeOK'
      BY <1>3 DEF OpenStream, Told, LeaveStream, StopStep, Shut, StopEnds
<1>4. ASSUME NEW p \in DOMAIN producer, ProducerReturns(p) PROVE TypeOK'
      BY <1>4 DEF ProducerReturns
<1>5. CASE Signal BY <1>5 DEF Signal, Stored
<1>6. CASE RunStep
  <2>1. CASE AddProducers BY <2>1 DEF AddProducers, Alive
  <2>2. CASE BotsStopped \/ StopBotsTimeout \/ WaitAndClose
        BY <2>2 DEF BotsStopped, StopBotsTimeout, WaitAndClose
  <2>3. CASE RunCloses BY <2>3 DEF RunCloses
  <2>4. QED BY <1>6, <2>1, <2>2, <2>3 DEF RunStep
<1>7. CASE AlarmFires BY <1>7 DEF AlarmFires
<1>8. CASE SaverStep BY <1>8 DEF SaverStep, RangeEnds, WorkersDone, Saved
<1>9. CASE DBStep BY <1>9 DEF DBStep, DBCloses, DBClosed, Exit
<1>10. CASE UNCHANGED vars BY <1>10 DEF vars
<1>11. QED BY <1>1, <1>2, <1>3, <1>4, <1>5, <1>6, <1>7, <1>8, <1>9, <1>10 DEF Next

\* The goroutines of the shutdown, the bots and the bus keep their types.
THEOREM TypeCorrect == Spec => []TypeOK
<1>1. QED BY TypeInit, TypeStep, PTL DEF Spec

-----------------------------------------------------------------------------
(* The bus and the database. *)

\* Who closed DoneCh: without the alarm, Run, which had waited for the producers.
BusClosed ==
    /\ doneCh = "closed" /\ alarm # "end" => app = "end"
    /\ app \in {"done", "end"} => \A p \in DOMAIN producer : producer[p] = "end"
    /\ db # "serve" => doneCh = "closed"

LEMMA BusClosedStep == TypeOK /\ BusClosed /\ [Next]_vars => BusClosed'
<1> SUFFICES ASSUME TypeOK, BusClosed, [Next]_vars PROVE BusClosed'
    OBVIOUS
<1> USE DEF BusClosed, TypeOK, run, ending
<1>1. CASE UNCHANGED <<run, ending>> BY <1>1
<1>2. ASSUME NEW u \in Users, NEW b \in Bots, Store(u, b) PROVE BusClosed'
      BY <1>1, <1>2 DEF Store
<1>3. ASSUME NEW u \in Users, RequestTakes(u) \/ WorkerStep(u) PROVE BusClosed'
      BY <1>1, <1>3 DEF RequestTakes, WorkerStep, Visit, WorkerTakes
<1>4. ASSUME NEW b \in Bots, OpenStream(b) \/ Told(b) \/ LeaveStream(b) \/ StopStep(b)
      PROVE  BusClosed'
      BY <1>1, <1>4 DEF OpenStream, Told, LeaveStream, StopStep, Shut, StopEnds
<1>5. ASSUME NEW p \in DOMAIN producer, ProducerReturns(p) PROVE BusClosed'
      BY <1>5 DEF ProducerReturns
<1>6. CASE Signal BY <1>6 DEF Signal
<1>7. CASE RunStep
  <2>1. CASE BotsStopped \/ StopBotsTimeout BY <2>1 DEF BotsStopped, StopBotsTimeout
  <2>2. CASE AddProducers BY <2>2 DEF AddProducers
  <2>3. CASE WaitAndClose BY <2>3 DEF WaitAndClose
  <2>4. CASE RunCloses BY <2>4 DEF RunCloses
  <2>5. QED BY <1>7, <2>1, <2>2, <2>3, <2>4 DEF RunStep
<1>8. CASE AlarmFires BY <1>8 DEF AlarmFires
<1>9. CASE SaverStep BY <1>1, <1>9 DEF SaverStep, RangeEnds, WorkersDone, Saved
<1>10. CASE DBStep BY <1>10 DEF DBStep, DBCloses, DBClosed, Exit
<1>11. CASE UNCHANGED vars BY <1>1, <1>11 DEF vars
<1>12. QED BY <1>2, <1>3, <1>4, <1>5, <1>6, <1>7, <1>8, <1>9, <1>10, <1>11 DEF Next

\* The database is not closed under a producer of the bus, however many there
\* are, unless the emergency timer fired.
THEOREM ClosesAfterProducers == Spec => []CloseAfterProducers
<1>1. Init => BusClosed BY DEF Init, BusClosed
<1>2. TypeOK /\ BusClosed /\ [Next]_vars => BusClosed' BY BusClosedStep
<1>3. BusClosed => CloseAfterProducers BY DEF BusClosed, CloseAfterProducers
<1>4. QED BY <1>1, <1>2, <1>3, TypeCorrect, PTL DEF Spec

-----------------------------------------------------------------------------
(* The bots stored at the signal. *)

\* User.bot and the stages agree, and a worker's instance is out of the map.
InMap ==
    /\ \A u \in Users : bots[u] # NoBot => stage[bots[u]] = "stored"
    /\ \A u, v \in Users : bots[u] # NoBot /\ bots[u] = bots[v] => u = v
    /\ \A b \in Bots : stage[b] = "stored" => \E u \in Users : bots[u] = b
    /\ \A u \in Users : hand[u] # NoBot =>
           worker[u] = "stop" /\ stage[hand[u]] \in {"taken", "shut", "end"}

\* How far the sweep is: what Range still has to visit, what the workers still
\* have to take.  What is stored behind their back is new, and not due.
Swept ==
    /\ saver = "off" => due = {} /\ \A u \in Users : worker[u] = "off"
    /\ \A b \in due : stage[b] # "new"
    /\ saver = "range" => \A u \in Users : bots[u] \in due => u \in keys
    /\ saver = "join" => \A u \in Users : bots[u] \in due => worker[u] # "off"
    /\ \A u \in Users : worker[u] \in {"stop", "end"} => bots[u] \notin due
    /\ saver \in {"save", "end"} => \A u \in Users : ~Busy(u)

IInv == TypeOK /\ InMap /\ Swept /\ StopReachesAll

\* A handler stores a new instance over whatever is there.
LEMMA StoreKeeps == ASSUME IInv, NEW u \in Users, NEW b \in Bots, Store(u, b)
                    PROVE  InMap' /\ Swept' /\ StopReachesAll'
<1> USE ShutdownAssumption DEF IInv, TypeOK, Stages
<1>1. /\ stage[b] = "new" /\ bots' = [bots EXCEPT ![u] = b]
      /\ stage' = [d \in Bots |-> IF d = b THEN "stored"
                                  ELSE IF d = bots[u] THEN "replaced" ELSE stage[d]]
      /\ UNCHANGED <<saver, due, keys, worker, hand>>
      BY DEF Store, sweep
<1>2. b \notin due /\ \A v \in Users : bots[v] # b /\ hand[v] # b
      BY <1>1 DEF Swept, InMap
<1>3. \A v \in Users : hand[v] # NoBot => stage'[hand[v]] = stage[hand[v]]
      BY <1>1, <1>2 DEF InMap
<1>4. InMap'
  <2>1. \A v \in Users : bots'[v] # NoBot => stage'[bots'[v]] = "stored"
        BY <1>1, <1>2 DEF InMap
  <2>2. \A v, w \in Users : bots'[v] # NoBot /\ bots'[v] = bots'[w] => v = w
        BY <1>1, <1>2 DEF InMap
  <2>3. \A d \in Bots : stage'[d] = "stored" => \E v \in Users : bots'[v] = d
        BY <1>1, <1>2 DEF InMap
  <2>4. QED BY <1>1, <1>3, <2>1, <2>2, <2>3 DEF InMap
<1>5. Swept'
  <2>1. \A v \in Users : bots'[v] \in due => bots'[v] = bots[v]
        BY <1>1, <1>2
  <2>2. \A v \in Users : Busy(v)' <=> Busy(v) BY <1>1, <1>3, ShutdownAssumption DEF Busy
  <2>3. \A d \in due : stage'[d] # "new" BY <1>1, <1>2 DEF Swept
  <2>4. QED BY <1>1, <2>1, <2>2, <2>3 DEF Swept
<1>6. StopReachesAll' BY <1>1, <1>2, <1>3 DEF StopReachesAll, InMap
<1>7. QED BY <1>4, <1>5, <1>6

\* A step that takes the entry of u out, into no worker's hand.
LEMMA RequestKeeps == ASSUME IInv, NEW u \in Users, RequestTakes(u)
                      PROVE  InMap' /\ Swept' /\ StopReachesAll'
<1> USE ShutdownAssumption DEF IInv, TypeOK, Stages
<1>0. PICK b \in Bots : b = bots[u] BY DEF RequestTakes
<1>1. /\ bots' = [bots EXCEPT ![u] = NoBot] /\ keys' = keys \ {u}
      /\ stage' = [d \in Bots |-> IF d = b THEN "taken" ELSE stage[d]]
      /\ UNCHANGED <<saver, due, worker, hand>>
      BY <1>0 DEF RequestTakes, LoadAndDelete, sweep
<1>2. stage[b] = "stored" /\ \A v \in Users : hand[v] # b /\ (v # u => bots[v] # b)
      BY <1>0 DEF InMap
<1>3. InMap'
  <2>1. \A v \in Users : bots'[v] # NoBot => stage'[bots'[v]] = "stored"
        BY <1>1, <1>2 DEF InMap
  <2>2. \A v, w \in Users : bots'[v] # NoBot /\ bots'[v] = bots'[w] => v = w
        BY <1>1, <1>2 DEF InMap
  <2>3. \A d \in Bots : stage'[d] = "stored" => \E v \in Users : bots'[v] = d
        BY <1>0, <1>1, <1>2 DEF InMap
  <2>4. \A v \in Users : hand'[v] # NoBot =>
            worker'[v] = "stop" /\ stage'[hand'[v]] \in {"taken", "shut", "end"}
        BY <1>1, <1>2 DEF InMap
  <2>5. QED BY <2>1, <2>2, <2>3, <2>4 DEF InMap
<1>4. Swept'
  <2>1. \A v \in Users : bots'[v] \in due => bots'[v] = bots[v] /\ v # u
        BY <1>1
  <2>2. \A v \in Users : Busy(v)' <=> Busy(v) BY <1>1, <1>2, ShutdownAssumption DEF Busy
  <2>3. \A d \in due : stage'[d] # "new" BY <1>1 DEF Swept
  <2>4. QED BY <1>1, <2>1, <2>2, <2>3 DEF Swept
<1>5. StopReachesAll' BY <1>1, <1>2 DEF StopReachesAll
<1>6. QED BY <1>3, <1>4, <1>5

\* A worker takes whatever is stored for its key by now.
LEMMA WorkerKeeps == ASSUME IInv, NEW u \in Users, WorkerTakes(u)
                     PROVE  InMap' /\ Swept' /\ StopReachesAll'
<1> USE ShutdownAssumption DEF IInv, TypeOK, Stages
<1>0. worker[u] = "take" /\ saver' = saver /\ due' = due BY DEF WorkerTakes, sweep
<1>1. saver \in {"range", "join"} BY <1>0 DEF Swept, Busy
<1>2. hand[u] = NoBot BY <1>0 DEF InMap
<1>3. CASE bots[u] = NoBot
  <2>1. worker' = [worker EXCEPT ![u] = "end"] /\ UNCHANGED <<bots, keys, stage, hand>>
        BY <1>3 DEF WorkerTakes, map
  <2>2. InMap' BY <1>2, <2>1 DEF InMap
  <2>3. Swept' BY <1>0, <1>1, <1>3, <2>1 DEF Swept
  <2>4. QED BY <1>0, <1>1, <2>2, <2>3 DEF StopReachesAll
<1>4. CASE bots[u] # NoBot
  <2>0. PICK b \in Bots : b = bots[u] BY <1>4
  <2>1. /\ bots' = [bots EXCEPT ![u] = NoBot] /\ keys' = keys \ {u}
        /\ stage' = [d \in Bots |-> IF d = b THEN "taken" ELSE stage[d]]
        /\ worker' = [worker EXCEPT ![u] = "stop"] /\ hand' = [hand EXCEPT ![u] = b]
        BY <1>4, <2>0 DEF WorkerTakes, LoadAndDelete
  <2>2. stage[b] = "stored" /\ \A v \in Users : hand[v] # b /\ (v # u => bots[v] # b)
        BY <1>4, <2>0 DEF InMap
  <2>3. InMap'
    <3>1. \A v \in Users : bots'[v] # NoBot => stage'[bots'[v]] = "stored"
          BY <2>1, <2>2 DEF InMap
    <3>2. \A v, w \in Users : bots'[v] # NoBot /\ bots'[v] = bots'[w] => v = w
          BY <2>1, <2>2 DEF InMap
    <3>3. \A d \in Bots : stage'[d] = "stored" => \E v \in Users : bots'[v] = d
          BY <2>0, <2>1, <2>2 DEF InMap
    <3>4. \A v \in Users : hand'[v] # NoBot =>
              worker'[v] = "stop" /\ stage'[hand'[v]] \in {"taken", "shut", "end"}
          BY <2>1, <2>2 DEF InMap
    <3>5. QED BY <3>1, <3>2, <3>3, <3>4 DEF InMap
  <2>4. Swept'
    <3>1. \A v \in Users : bots'[v] \in due => bots'[v] = bots[v] /\ v # u
          BY <2>1
    <3>2. \A d \in due : stage'[d] # "new" BY <2>1 DEF Swept
    <3>3. \A v \in Users \ {u} : worker'[v] = worker[v] BY <2>1
    <3>4. QED BY <1>0, <1>1, <2>1, <3>1, <3>2, <3>3 DEF Swept
  <2>5. QED BY <1>0, <1>1, <2>3, <2>4 DEF StopReachesAll
<1>5. QED BY <1>3, <1>4

\* StopUserBot goes on, of a worker or of a request.
LEMMA StopKeeps == ASSUME IInv, NEW b \in Bots, StopStep(b)
                   PROVE  InMap' /\ Swept' /\ StopReachesAll'
<1> USE ShutdownAssumption DEF IInv, TypeOK, Stages
<1>1. /\ stage[b] \in {"taken", "shut"} /\ stage'[b] \in {"shut", "end"}
      /\ \A d \in Bots \ {b} : stage'[d] = stage[d]
      /\ stage[b] = "taken" => stage'[b] = "shut"
      /\ UNCHANGED <<saver, due, bots, keys, worker, hand>>
      BY DEF StopStep, Shut, StopEnds, sweep, map
<1>2. InMap' BY <1>1 DEF InMap
<1>3. saver \in {"save", "end"} => \A u \in Users : hand[u] # b
      BY <1>1 DEF Swept, InMap, Busy
<1>4. Swept'
  <2>1. saver \in {"save", "end"} => \A u \in Users : Busy(u)' <=> Busy(u)
        BY <1>1, <1>3 DEF Busy
  <2>2. QED BY <1>1, <2>1 DEF Swept
<1>5. StopReachesAll' BY <1>1, <1>3 DEF StopReachesAll
<1>6. QED BY <1>2, <1>4, <1>5

LEMMA IInvStep == IInv /\ [Next]_vars => IInv'
<1> SUFFICES ASSUME IInv, [Next]_vars PROVE InMap' /\ Swept' /\ StopReachesAll'
    BY TypeStep DEF IInv
<1> USE ShutdownAssumption DEF IInv
<1>1. CASE UNCHANGED <<saver, due, bots, keys, stage, worker, hand>>
      BY <1>1 DEF InMap, Swept, StopReachesAll, Busy
<1>2. ASSUME NEW u \in Users, Visit(u) PROVE InMap' /\ Swept' /\ StopReachesAll'
  <2>1. /\ saver = "range" /\ worker[u] = "off" /\ worker' = [worker EXCEPT ![u] = "take"]
        /\ UNCHANGED <<saver, due, bots, keys, stage, hand>>
        BY <1>2 DEF Visit, sweep, map
  <2>2. QED BY <2>1 DEF TypeOK, InMap, Swept, StopReachesAll
<1>3. ASSUME NEW b \in Bots, OpenStream(b) \/ Told(b) \/ LeaveStream(b)
      PROVE  InMap' /\ Swept' /\ StopReachesAll'
      BY <1>1, <1>3 DEF OpenStream, Told, LeaveStream, sweep, stopping, map
<1>4. CASE \E p \in DOMAIN producer : ProducerReturns(p)
      BY <1>1, <1>4 DEF ProducerReturns, sweep, stopping, map
<1>5. CASE Signal
  <2>1. /\ saver = "off" /\ saver' = "range" /\ keys' = Stored
        /\ due' = {bots[u] : u \in Stored}
        /\ UNCHANGED <<bots, stage, worker, hand>>
        BY <1>5 DEF Signal, TypeOK
  <2>2. \A u \in Users : worker[u] = "off" BY <2>1 DEF Swept
  <2>3. Swept' BY <2>1, <2>2 DEF Swept, Stored, InMap, TypeOK
  <2>4. QED BY <2>1, <2>3 DEF InMap, StopReachesAll
<1>6. CASE RunStep
      BY <1>1, <1>6 DEF RunStep, BotsStopped, StopBotsTimeout, AddProducers,
                        WaitAndClose, RunCloses, sweep, stopping, map
<1>7. CASE AlarmFires BY <1>1, <1>7 DEF AlarmFires, sweep, stopping, map
<1>8. CASE RangeEnds
  <2>1. /\ saver = "range" /\ saver' = "join" /\ \A u \in keys : worker[u] # "off"
        /\ UNCHANGED <<due, bots, keys, stage, worker, hand>>
        BY <1>8 DEF RangeEnds, stopping, map
  <2>2. QED BY <2>1 DEF InMap, Swept, StopReachesAll
<1>9. CASE WorkersDone
  <2>1. /\ saver = "join" /\ saver' = "save" /\ \A u \in Users : ~Busy(u)
        /\ UNCHANGED <<due, bots, keys, stage, worker, hand>>
        BY <1>9 DEF WorkersDone, stopping, map
  <2>2. \A u \in Users : bots[u] \notin due
        BY <2>1 DEF TypeOK, Swept, Busy
  <2>3. \A b \in due : stage[b] # "stored" BY <2>2 DEF InMap, TypeOK
  <2>4. \A u \in Users, b \in due : hand[u] = b => stage[b] = "end"
        BY <2>1 DEF InMap, Busy, TypeOK
  <2>5. InMap' BY <2>1 DEF InMap
  <2>6. Swept'
    <3>1. \A u \in Users : ~Busy(u)' BY <2>1 DEF Busy
    <3>2. QED BY <2>1, <3>1 DEF Swept
  <2>7. QED BY <2>1, <2>3, <2>4, <2>5, <2>6 DEF StopReachesAll
<1>10. CASE Saved
  <2>1. /\ saver = "save" /\ saver' = "end"
        /\ UNCHANGED <<due, bots, keys, stage, worker, hand>>
        BY <1>10 DEF Saved, stopping, map
  <2>2. \A u \in Users : Busy(u)' <=> Busy(u) BY <2>1 DEF Busy
  <2>3. QED BY <2>1, <2>2 DEF InMap, Swept, StopReachesAll
<1>11. CASE DBStep BY <1>1, <1>11 DEF DBStep, DBCloses, DBClosed, Exit, sweep, stopping, map
<1>12. CASE UNCHANGED vars BY <1>1, <1>12 DEF vars, sweep, stopping, map
<1>13. QED BY <1>2, <1>3, <1>4, <1>5, <1>6, <1>7, <1>8, <1>9, <1>10, <1>11, <1>12,
              StoreKeeps, RequestKeeps, WorkerKeeps, StopKeeps
       DEF Next, SaverStep, WorkerStep

THEOREM Inductive == Spec => []IInv
<1>1. Init => IInv
      BY TypeInit, ShutdownAssumption
      DEF Init, IInv, InMap, Swept, StopReachesAll, Stages
<1>2. QED BY <1>1, IInvStep, PTL DEF Spec

\* When StopBots returns on done, every instance stored at the signal has left
\* the registry, and no worker is still stopping it, for any number of bots and
\* whatever the handlers store, replace and take out while Range runs.
THEOREM StopsAll == Spec => []StopReachesAll
<1>1. IInv => StopReachesAll BY DEF IInv
<1>2. QED BY <1>1, Inductive, PTL

\* No handler stores an instance once the signal has come.
NoneStored == [][Signalled => ~\E u \in Users, b \in Bots : Store(u, b)]_vars

\* The bots that are left were stored at the signal.
Listed == Signalled => \A u \in Users : bots[u] \in due \cup {NoBot}

LEMMA ListedStep ==
    ASSUME TypeOK, Listed, [Next]_vars,
           [Signalled => ~\E u \in Users, b \in Bots : Store(u, b)]_vars
    PROVE  Listed'
<1> USE DEF TypeOK, Listed, Signalled, run, sweep, map, stopping, ending
<1>1. CASE UNCHANGED <<bots, due>> /\ (app' # "run" => app # "run") BY <1>1
<1>2. ASSUME NEW u \in Users, NEW b \in Bots, Store(u, b) PROVE Listed'
  <2>1. vars' # vars BY <1>2, ShutdownAssumption DEF Store, vars
  <2>2. QED BY <1>2, <2>1 DEF Store
<1>3. ASSUME NEW u \in Users, RequestTakes(u) \/ WorkerStep(u) PROVE Listed'
  <2>1. UNCHANGED <<app, due>> /\ (bots' = bots \/ bots' = [bots EXCEPT ![u] = NoBot])
        BY <1>3 DEF RequestTakes, LoadAndDelete, WorkerStep, Visit, WorkerTakes
  <2>2. QED BY <2>1
<1>4. ASSUME NEW b \in Bots, OpenStream(b) \/ Told(b) \/ LeaveStream(b) \/ StopStep(b)
      PROVE  Listed'
      BY <1>1, <1>4 DEF OpenStream, Told, LeaveStream, StopStep, Shut, StopEnds
<1>5. CASE \E p \in DOMAIN producer : ProducerReturns(p)
      BY <1>1, <1>5 DEF ProducerReturns
<1>6. CASE Signal BY <1>6 DEF Signal, Stored
<1>7. CASE RunStep
      BY <1>1, <1>7 DEF RunStep, BotsStopped, StopBotsTimeout, AddProducers,
                        WaitAndClose, RunCloses
<1>8. CASE AlarmFires \/ SaverStep \/ DBStep
      BY <1>1, <1>8 DEF AlarmFires, SaverStep, RangeEnds, WorkersDone, Saved, DBStep,
                        DBCloses, DBClosed, Exit
<1>9. CASE UNCHANGED vars BY <1>1, <1>9 DEF vars
<1>10. QED BY <1>2, <1>3, <1>4, <1>5, <1>6, <1>7, <1>8, <1>9 DEF Next

\* When the saver goroutine is done with the workers, User.bot is empty.
Emptied == saver \in {"save", "end"} => \A u \in Users : bots[u] = NoBot

\* If no handler stores a bot once the signal has come, StopBots empties
\* User.bot: the web server that goes on is the only way past it.
THEOREM StopsEveryBot == Spec /\ NoneStored => []Emptied
<1>1. Init => Listed BY DEF Init, Listed, Signalled
<1>2. TypeOK /\ Listed /\ [Next]_vars
          /\ [Signalled => ~\E u \in Users, b \in Bots : Store(u, b)]_vars => Listed'
      BY ListedStep
<1>3. IInv /\ Listed => Emptied
      BY ShutdownAssumption
      DEF IInv, TypeOK, InMap, Listed, Signalled, StopReachesAll, Emptied
<1>4. QED BY <1>1, <1>2, <1>3, TypeCorrect, Inductive, PTL DEF Spec, NoneStored
=============================================================================
