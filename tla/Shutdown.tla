------------------------------- MODULE Shutdown -------------------------------
(***************************************************************************)
(* The end of the process: App.Run's shutdown goroutine and its emergency  *)
(* timer, User.StopBots with its saver goroutine and one StopUserBot per   *)
(* key, DB.HandlerClose, and main, which returns when DB.Exit is closed    *)
(* and takes every goroutine with it.  The web server is not stopped: its  *)
(* handlers create, replace and stop bots and open streams all the while.  *)
(* Times are left out: a timer that has been started may fire at any       *)
(* moment.                                                                 *)
(***************************************************************************)
EXTENDS FiniteSets, Naturals

CONSTANTS Users,      \* owners of widgets
          Bots,       \* instances that can be built (bounds a run)
          NoBot,
          Producers,  \* Start, CRM, Mod and End: bus.Add(... Shutdown(ch))
          Listener    \* End.NotificationListener, on the bus since Run

ASSUME ShutdownAssumption == Listener \notin Producers /\ NoBot \notin Bots

VARIABLES
    app,       \* the shutdown goroutine of Run
    intime,    \* StopBots returned because done was closed
    alarm,     \* its emergency goroutine
    saver,     \* the goroutine StopBots starts
    bots,      \* User.bot: the instance stored for each user, or NoBot
    stage,     \* how far each instance is: StopUserBot takes it out of the map,
               \* closes its shutdownCh and ends
    worker,    \* the worker of each key that Range has visited
    hand,      \* the instance it took
    due,       \* the instances stored when Range began
    keys,      \* the users who have had an entry ever since
    open,      \* instances with an SSE stream that has not been told to close
    producer,  \* the producers of the bus
    doneCh,    \* DB.DoneCh
    db         \* the goroutine of HandlerClose, and main behind it

run      == <<app, intime, alarm>>
sweep    == <<saver, due>>
map      == <<bots, keys>>
stopping == <<map, stage, worker, hand>>
ending   == <<producer, doneCh, db>>
vars     == <<run, sweep, stopping, open, ending>>

Stages == {"new", "stored", "replaced", "taken", "shut", "end"}

TypeOK ==
    /\ app \in {"run", "stop", "add", "wait", "done", "end"} /\ intime \in BOOLEAN
    /\ alarm \in {"off", "set", "end"}
    /\ saver \in {"off", "range", "join", "save", "end"}
    /\ bots \in [Users -> Bots \cup {NoBot}] /\ stage \in [Bots -> Stages]
    /\ worker \in [Users -> {"off", "take", "stop", "end"}]
    /\ hand \in [Users -> Bots \cup {NoBot}]
    /\ due \in SUBSET Bots /\ keys \in SUBSET Users /\ open \in SUBSET Bots
    /\ producer \in [Producers \cup {Listener} -> {"off", "on", "end"}]
    /\ doneCh \in {"open", "closed"}
    /\ db \in {"serve", "close", "closed", "exit"}
    /\ app = "run" <=> alarm = "off"
    /\ app = "run" <=> saver = "off"
    /\ \A u \in Users : worker[u] = "stop" => hand[u] \in Bots

Init ==
    /\ app = "run" /\ intime = FALSE /\ alarm = "off" /\ saver = "off"
    /\ bots = [u \in Users |-> NoBot] /\ stage = [b \in Bots |-> "new"]
    /\ worker = [u \in Users |-> "off"] /\ hand = [u \in Users |-> NoBot]
    /\ due = {} /\ keys = {} /\ open = {}
    /\ producer = [p \in Producers \cup {Listener} |-> IF p = Listener THEN "on" ELSE "off"]
    /\ doneCh = "open"
    /\ db = "serve"

Alive == db # "exit"
Signalled == app # "run"

-----------------------------------------------------------------------------
(* Before and beside the shutdown. *)

\* createBot (StartBots, enable, restart) stores a new instance, whatever is
\* stored for the user now; a signal does not stop it.  (The cancel of the
\* instance it replaces, and what two creations do to each other, are in
\* BotRegistry.)
Store(u, b) ==
    /\ Alive /\ stage[b] = "new"
    /\ bots' = [bots EXCEPT ![u] = b]
    /\ stage' = [d \in Bots |-> IF d = b THEN "stored"
                                ELSE IF d = bots[u] THEN "replaced" ELSE stage[d]]
    /\ UNCHANGED <<run, sweep, keys, worker, hand, open, ending>>

\* LoadAndDelete of StopUserBot.
LoadAndDelete(u) ==
    /\ bots' = [bots EXCEPT ![u] = NoBot]
    /\ keys' = keys \ {u}
    /\ stage' = [d \in Bots |-> IF d = bots[u] THEN "taken" ELSE stage[d]]

\* A disable runs StopUserBot too.
RequestTakes(u) ==
    /\ Alive /\ bots[u] # NoBot
    /\ LoadAndDelete(u)
    /\ UNCHANGED <<run, sweep, worker, hand, open, ending>>

\* A visitor opens a stream of a stored instance.
OpenStream(b) ==
    /\ Alive /\ stage[b] = "stored"
    /\ open' = open \cup {b}
    /\ UNCHANGED <<run, sweep, stopping, ending>>

\* The loop of handleEvents sees the closed shutdownCh and tells the client.
Told(b) ==
    /\ Alive /\ b \in open /\ stage[b] \in {"shut", "end"}
    /\ open' = open \ {b}
    /\ UNCHANGED <<run, sweep, stopping, ending>>

\* The client closes the stream.
LeaveStream(b) ==
    /\ Alive /\ b \in open
    /\ open' = open \ {b}
    /\ UNCHANGED <<run, sweep, stopping, ending>>

\* A producer of the bus returns (NotificationListener when its context ends).
ProducerReturns(p) ==
    /\ Alive /\ Signalled /\ producer[p] = "on"
    /\ producer' = [producer EXCEPT ![p] = "end"]
    /\ UNCHANGED <<run, sweep, stopping, open, doneCh, db>>

-----------------------------------------------------------------------------
(* Run: the shutdown goroutine. *)

Stored == {u \in Users : bots[u] # NoBot}

\* Mutant: the emergency goroutine is not started.
Signal_NoAlarm ==
    /\ Alive /\ app = "run"
    /\ app' = "stop" /\ saver' = "range"
    /\ keys' = Stored /\ due' = {bots[u] : u \in Stored}
    /\ UNCHANGED <<intime, alarm, bots, stage, worker, hand, open, ending>>

\* The context is cancelled: the emergency timer is set, StopBots starts its
\* saver goroutine, which begins to Range over the stored bots.
Signal ==
    /\ Alive /\ app = "run"
    /\ app' = "stop" /\ alarm' = "set" /\ saver' = "range"
    /\ keys' = Stored /\ due' = {bots[u] : u \in Stored}
    /\ UNCHANGED <<intime, bots, stage, worker, hand, open, ending>>

\* The select of StopBots: done is closed.
BotsStopped ==
    /\ Alive /\ app = "stop" /\ saver \in {"save", "end"}
    /\ app' = "add" /\ intime' = TRUE
    /\ UNCHANGED <<alarm, sweep, stopping, open, ending>>

\* The select of StopBots: 5 s have passed.
StopBotsTimeout ==
    /\ Alive /\ app = "stop"
    /\ app' = "add"
    /\ UNCHANGED <<intime, alarm, sweep, stopping, open, ending>>

\* bus.Add of the four Shutdowns.
AddProducers ==
    /\ Alive /\ app = "add"
    /\ producer' = [p \in DOMAIN producer |-> IF p \in Producers THEN "on" ELSE producer[p]]
    /\ app' = "wait"
    /\ UNCHANGED <<intime, alarm, sweep, stopping, open, doneCh, db>>

\* Mutant: the bus is closed without waiting for its producers.
WaitAndClose_NoWait ==
    /\ Alive /\ app = "wait"
    /\ app' = "done"
    /\ UNCHANGED <<intime, alarm, sweep, stopping, open, ending>>

\* bus.WaitAndClose
WaitAndClose ==
    /\ Alive /\ app = "wait"
    /\ \A p \in DOMAIN producer : producer[p] = "end"
    /\ app' = "done"
    /\ UNCHANGED <<intime, alarm, sweep, stopping, open, ending>>

\* DB.CloseDoneCh: close(DoneCh) inside a sync.Once.
RunCloses ==
    /\ Alive /\ app = "done"
    /\ doneCh' = "closed"
    /\ app' = "end"
    /\ UNCHANGED <<intime, alarm, sweep, stopping, open, producer, db>>

\* Mutant: the emergency goroutine only logs.
AlarmFires_LogOnly ==
    /\ Alive /\ alarm = "set"
    /\ alarm' = "end"
    /\ UNCHANGED <<app, intime, sweep, stopping, open, ending>>

\* The emergency timer fires, whether or not Run has finished.
AlarmFires ==
    /\ Alive /\ alarm = "set"
    /\ doneCh' = "closed"
    /\ alarm' = "end"
    /\ UNCHANGED <<app, intime, sweep, stopping, open, producer, db>>

-----------------------------------------------------------------------------
(* StopBots: the saver goroutine and its workers. *)

\* Range calls back with a key stored now that it has not visited.
Visit(u) ==
    /\ Alive /\ saver = "range" /\ u \in Stored /\ worker[u] = "off"
    /\ worker' = [worker EXCEPT ![u] = "take"]
    /\ UNCHANGED <<run, sweep, map, stage, hand, open, ending>>

\* Range ends: it has visited every key that was stored all the while.
RangeEnds ==
    /\ Alive /\ saver = "range"
    /\ \A u \in keys : worker[u] # "off"
    /\ saver' = "join"
    /\ UNCHANGED <<run, due, stopping, open, ending>>

\* The worker's StopUserBot: LoadAndDelete, of whatever is stored by now.
WorkerTakes(u) ==
    /\ Alive /\ worker[u] = "take"
    /\ IF bots[u] = NoBot
       THEN worker' = [worker EXCEPT ![u] = "end"] /\ UNCHANGED <<map, stage, hand>>
       ELSE /\ worker' = [worker EXCEPT ![u] = "stop"]
            /\ hand' = [hand EXCEPT ![u] = bots[u]]
            /\ LoadAndDelete(u)
    /\ UNCHANGED <<run, sweep, open, ending>>

\* StopUserBot, of a worker or a request: close(shutdownCh).
Shut(b) ==
    /\ Alive /\ stage[b] = "taken"
    /\ stage' = [stage EXCEPT ![b] = "shut"]
    /\ UNCHANGED <<run, sweep, map, worker, hand, open, ending>>

\* StopUserBot ends: no connection, the timeout, or u.ctx is done, in which
\* case it does not wait for the connections.
StopEnds(b) ==
    /\ Alive /\ stage[b] = "shut"
    /\ stage' = [stage EXCEPT ![b] = "end"]
    /\ UNCHANGED <<run, sweep, map, worker, hand, open, ending>>

\* The worker of u has not called wg.Done.
Busy(u) == worker[u] = "take" \/ (worker[u] = "stop" /\ stage[hand[u]] # "end")

\* Mutant: close(done) without the wg.Wait.
WorkersDone_NoWait ==
    /\ Alive /\ saver = "join"
    /\ saver' = "save"
    /\ UNCHANGED <<run, due, stopping, open, ending>>

\* wg.Wait and close(done).
WorkersDone ==
    /\ Alive /\ saver = "join"
    /\ \A u \in Users : ~Busy(u)
    /\ saver' = "save"
    /\ UNCHANGED <<run, due, stopping, open, ending>>

\* SaveAllContextDuringExit returns.
Saved ==
    /\ Alive /\ saver = "save"
    /\ saver' = "end"
    /\ UNCHANGED <<run, due, stopping, open, ending>>

-----------------------------------------------------------------------------
(* HandlerClose and main. *)

\* The main context and DoneCh are done: Close begins.
DBCloses ==
    /\ Signalled /\ doneCh = "closed" /\ db = "serve"
    /\ db' = "close"
    /\ UNCHANGED <<run, sweep, stopping, open, producer, doneCh>>

\* Close returns, with or without an error, and Exit is closed.
DBClosed ==
    /\ db = "close"
    /\ db' = "closed"
    /\ UNCHANGED <<run, sweep, stopping, open, producer, doneCh>>

\* main receives from Exit and returns.
Exit ==
    /\ db = "closed"
    /\ db' = "exit"
    /\ UNCHANGED <<run, sweep, stopping, open, producer, doneCh>>

RunStep == \/ BotsStopped \/ StopBotsTimeout \/ AddProducers \/ WaitAndClose \/ RunCloses
SaverStep == RangeEnds \/ WorkersDone \/ Saved
WorkerStep(u) == Visit(u) \/ WorkerTakes(u)
StopStep(b) == Shut(b) \/ StopEnds(b)
DBStep == DBCloses \/ DBClosed \/ Exit

Next ==
    \/ \E u \in Users, b \in Bots : Store(u, b)
    \/ \E u \in Users : RequestTakes(u) \/ WorkerStep(u)
    \/ \E b \in Bots : OpenStream(b) \/ Told(b) \/ LeaveStream(b) \/ StopStep(b)
    \/ \E p \in DOMAIN producer : ProducerReturns(p)
    \/ Signal \/ RunStep \/ AlarmFires \/ SaverStep \/ DBStep

Spec == Init /\ [][Next]_vars

\* The emergency timer fires, DB.Close returns, and main is scheduled.  The
\* producers, SaveAllContextDuringExit and the rest may hang.
Fairness == WF_vars(AlarmFires) /\ WF_vars(DBStep)

FairSpec == Spec /\ Fairness

-----------------------------------------------------------------------------
(* What must hold. *)

\* Unless the emergency timer fired, the database is closed only after every
\* producer of the bus has returned.
CloseAfterProducers == (db # "serve" /\ alarm # "end") =>
    \A p \in DOMAIN producer : producer[p] = "end"

\* When done is closed, no instance that was stored when the signal came is left
\* in User.bot or with a worker, although handlers store new instances over it,
\* take it out and store again meanwhile: it was replaced, it is with the request
\* that took it, or its StopUserBot has ended.
StopReachesAll == saver \in {"save", "end"} => \A b \in due :
    /\ stage[b] # "stored"
    /\ \A u \in Users : hand[u] = b => stage[b] = "end"

\* After a signal the process exits, whatever hangs.
SignalExits == Signalled ~> (db = "exit")

\* StopBots says that the data is saved at the end: when its bots were stopped in
\* time and there was no emergency, the database is closed after the saving.
SavedBeforeClose == (db # "serve" /\ alarm # "end" /\ intime) => saver = "end"
=============================================================================
