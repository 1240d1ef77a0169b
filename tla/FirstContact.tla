---------------------------- MODULE FirstContact ----------------------------
(***************************************************************************)
(* What the widget remembers about the respondents of one user: knownUsers *)
(* of each instance, the contacts kept in Redis, the preload that copies   *)
(* one into the other, and handleMessage, which decides whether a message  *)
(* is the first of its respondent (internal/widget/widget.go, cache.go).   *)
(*                                                                         *)
(* Instances are numbered in the order they are built.  The creation of an *)
(* instance is two steps here (Build, Publish); BotRegistry has all of     *)
(* them, and the requests that race for one user.  uint64(int64(id)) is    *)
(* one to one, and the key of a user ends with ":", so a contact stands    *)
(* for its key.  Message contents, metrics and files are left out.         *)
(***************************************************************************)
EXTENDS Naturals

CONSTANTS
    Senders,    \* respondents of the user
    Handlers,   \* requests to /data served at the same time
    MaxInst,    \* bound: instances built in a behaviour
    HasCache,   \* New was given a Redis client
    MayFail,    \* external calls that may fail, and "ttl" if keys may expire
    None        \* the respondent of a handler that has no request

ASSUME NoneAssumption == None \notin Senders
ASSUME MaxInstAssumption == MaxInst \in Nat \ {0}
ASSUME HasCacheAssumption == HasCache \in BOOLEAN
ASSUME MayFailAssumption == MayFail \subseteq {"redis", "channel", "crm", "ttl"}

VARIABLES
    bot,        \* instance in User.bot, 0 if there is none
    fresh,      \* instance built and not yet stored, 0 if there is none
    made,       \* number of instances built
    cancelled,  \* instances whose context is cancelled
    known,      \* knownUsers of each instance
    preload,    \* progress of preloadFirstInteraction of each instance
    redis,      \* contacts of the user with a key in Redis
    msg,        \* what each handler of /data is doing
    starts,     \* history: times a respondent was treated as new (2: or more)
    lost,       \* history: contacts whose write failed or whose key expired
    due,        \* history: contacts a preload had to find when it began
    seen,       \* history: respondents of whom the CRM has a message
    opened,     \* history: ... of whom it has one marked NewDialog
    cutOff      \* history: ... whose first message never reached it

instVars == <<bot, fresh, made, cancelled>>
crmVars == <<seen, opened, cutOff>>
vars == <<instVars, known, preload, redis, msg, starts, lost, due, crmVars>>

Inst == 1 .. MaxInst
Steps == {"load", "store", "call", "set", "notify", "channel", "crm", "rx"}
NoMsg == [pc |-> "idle", sender |-> None, inst |-> 0, first |-> FALSE]
Idle(h) == msg[h] = NoMsg
Announced == {s \in Senders : starts[s] > 0}

\* Respondents whose first message is being handled and may still reach the CRM.
FirstUnderway == {s \in Senders : \E h \in Handlers :
                    /\ msg[h].pc \in {"store", "call", "set", "notify", "channel", "crm"}
                    /\ msg[h].first
                    /\ msg[h].sender = s}

\* Redis holds the contacts of earlier runs of the process, long announced.
Init ==
    /\ bot = 0 /\ fresh = 0 /\ made = 0 /\ cancelled = {}
    /\ known = [i \in Inst |-> {}]
    /\ preload = [i \in Inst |-> [at |-> "new", ids |-> {}]]
    /\ redis \in SUBSET Senders
    /\ msg = [h \in Handlers |-> NoMsg]
    /\ starts = [s \in Senders |-> IF s \in redis THEN 1 ELSE 0]
    /\ lost = {} /\ due = [i \in Inst |-> {}]
    /\ seen = redis /\ opened = redis /\ cutOff = {}

-----------------------------------------------------------------------------
\* Instances

\* createOrUpdateBot: the context of the stored instance is cancelled and the
\* next instance is built; its preload runs in a goroutine of its own.
Build ==
    /\ fresh = 0 /\ made < MaxInst
    /\ made' = made + 1 /\ fresh' = made + 1
    /\ cancelled' = cancelled \cup ({bot} \ {0})
    /\ UNCHANGED <<bot, known, preload, redis, msg, starts, lost, due, crmVars>>

\* createBot stores the instance, with its preload done or not.
Publish ==
    /\ fresh # 0
    /\ bot' = fresh /\ fresh' = 0
    /\ UNCHANGED <<made, cancelled, known, preload, redis, msg, starts, lost, due, crmVars>>

\* StopUserBot takes the stored instance out of User.bot and cancels it.
Stop ==
    /\ bot # 0
    /\ bot' = 0 /\ cancelled' = cancelled \cup {bot}
    /\ UNCHANGED <<fresh, made, known, preload, redis, msg, starts, lost, due, crmVars>>

\* The process dies and is started again: a write on its way to Redis may still
\* arrive, everything in memory is gone.
Crash ==
    LET onTheWay == {msg[h].sender : h \in {g \in Handlers : msg[g].pc = "set"}}
    IN  /\ made > 0
        /\ bot' = 0 /\ fresh' = 0
        /\ cancelled' = 1 .. made
        /\ preload' = [i \in Inst |->
             IF i <= made /\ preload[i].at # "done" THEN [at |-> "failed", ids |-> {}]
                                                    ELSE preload[i]]
        /\ msg' = [h \in Handlers |-> NoMsg]
        /\ \E landed \in SUBSET onTheWay :
             redis' = redis \cup landed /\ lost' = lost \ landed
        /\ cutOff' = cutOff \cup FirstUnderway
        /\ UNCHANGED <<made, known, starts, due, seen, opened>>

-----------------------------------------------------------------------------
\* preloadFirstInteraction, in the goroutine of instance i

PreloadStep(i, from, to) ==
    /\ i <= made
    /\ preload[i].at = from
    /\ preload' = [preload EXCEPT ![i] = to]
    /\ UNCHANGED <<instVars, redis, msg, starts, lost, crmVars>>

\* LoadUser begins to scan: ids holds what Redis has now.
ScanBegins(i) ==
    /\ HasCache /\ i \notin cancelled
    /\ PreloadStep(i, "new", [at |-> "scan", ids |-> redis])
    /\ due' = [due EXCEPT ![i] = Announced \ lost]
    /\ UNCHANGED known

\* SCAN returns every key that was there all the time, and perhaps one that came
\* or went meanwhile.
ScanEnds(i) ==
    /\ \E ids \in SUBSET (preload[i].ids \cup redis) :
         /\ preload[i].ids \cap redis \subseteq ids
         /\ PreloadStep(i, "scan", [at |-> "warming", ids |-> ids])
    /\ UNCHANGED <<known, due>>

\* Nothing is loaded: there is no cache, or the scan, which takes its context
\* from the instance, fails.
ScanFails(i) ==
    /\ ~HasCache \/ i \in cancelled \/ "redis" \in MayFail
    /\ \E at \in {"new", "scan"} : PreloadStep(i, at, [at |-> "failed", ids |-> {}])
    /\ UNCHANGED <<known, due>>

\* Mutant: the preload stores ids under a key of another type, which Load never finds.
Warm_WrongKey(i, s) ==
    /\ s \in preload[i].ids
    /\ PreloadStep(i, "warming", [at |-> "warming", ids |-> preload[i].ids \ {s}])
    /\ UNCHANGED <<known, due>>

\* b.knownUsers.Store(uint64(senderID), false), for each id returned.
Warm(i, s) ==
    /\ s \in preload[i].ids
    /\ PreloadStep(i, "warming", [at |-> "warming", ids |-> preload[i].ids \ {s}])
    /\ known' = [known EXCEPT ![i] = @ \cup {s}]
    /\ UNCHANGED due

Preloaded(i) ==
    /\ preload[i].ids = {}
    /\ PreloadStep(i, "warming", [at |-> "done", ids |-> {}])
    /\ UNCHANGED <<known, due>>

\* A key lives for firstInteractionTTL, 168 hours, however active the respondent.
Expire(s) ==
    /\ "ttl" \in MayFail /\ s \in redis
    /\ redis' = redis \ {s}
    /\ lost' = lost \cup {s}
    /\ due' = [i \in Inst |-> IF preload[i].at = "scan" THEN due[i] \ {s} ELSE due[i]]
    /\ UNCHANGED <<instVars, known, preload, msg, starts, crmVars>>

-----------------------------------------------------------------------------
\* handleData and handleMessage

Goto(h, from, to) ==
    /\ msg[h].pc = from
    /\ msg' = [msg EXCEPT ![h].pc = to]

\* The handler answers and is free for the next request.
Done(h, from) ==
    /\ msg[h].pc = from
    /\ msg' = [msg EXCEPT ![h] = NoMsg]

\* Mutant: a message is handled although no instance was found.
Receive_NoCheck(h, s) ==
    /\ Idle(h)
    /\ msg' = [msg EXCEPT ![h] = [pc |-> "load", sender |-> s, inst |-> bot, first |-> FALSE]]
    /\ UNCHANGED <<instVars, known, preload, redis, starts, lost, due, crmVars>>

\* u.bot.Load: without an instance the answer is 404.
Receive(h, s) ==
    /\ Idle(h) /\ bot # 0
    /\ msg' = [msg EXCEPT ![h] = [pc |-> "load", sender |-> s, inst |-> bot, first |-> FALSE]]
    /\ UNCHANGED <<instVars, known, preload, redis, starts, lost, due, crmVars>>

\* Mutant: until the preload is done every respondent is taken for a known one.
LoadKnown_ColdIsKnown(h) ==
    /\ msg[h].pc = "load"
    /\ LET isKnown == \/ msg[h].sender \in known[msg[h].inst]
                      \/ preload[msg[h].inst].at # "done"
       IN  msg' = [msg EXCEPT ![h].pc = IF isKnown THEN "channel" ELSE "store",
                              ![h].first = ~isKnown]
    /\ UNCHANGED <<instVars, known, preload, redis, starts, lost, due, crmVars>>

\* first is decided by Load; the Store of a new contact is a call of its own.
LoadKnown(h) ==
    /\ msg[h].pc = "load"
    /\ LET isKnown == msg[h].sender \in known[msg[h].inst]
       IN  msg' = [msg EXCEPT ![h].pc = IF isKnown THEN "channel" ELSE "store",
                              ![h].first = ~isKnown]
    /\ UNCHANGED <<instVars, known, preload, redis, starts, lost, due, crmVars>>

\* Mutant: the first message is not written to Redis.
StoreKnown_NoCache(h) ==
    /\ Goto(h, "store", "notify")
    /\ known' = [known EXCEPT ![msg[h].inst] = @ \cup {msg[h].sender}]
    /\ UNCHANGED <<instVars, preload, redis, starts, lost, due, crmVars>>

StoreKnown(h) ==
    /\ Goto(h, "store", IF HasCache THEN "call" ELSE "notify")
    /\ known' = [known EXCEPT ![msg[h].inst] = @ \cup {msg[h].sender}]
    /\ lost' = IF HasCache THEN lost ELSE lost \cup ({msg[h].sender} \ redis)
    /\ UNCHANGED <<instVars, preload, redis, starts, due, crmVars>>

\* firstCache.Set(b.ctx, ...): with the context cancelled nothing is sent.
CallSet(h) ==
    /\ IF msg[h].inst \in cancelled
       THEN Goto(h, "call", "notify") /\ lost' = lost \cup ({msg[h].sender} \ redis)
       ELSE Goto(h, "call", "set") /\ UNCHANGED lost
    /\ UNCHANGED <<instVars, known, preload, redis, starts, due, crmVars>>

SetLands(h) ==
    /\ Goto(h, "set", "notify")
    /\ redis' = redis \cup {msg[h].sender}
    /\ lost' = lost \ {msg[h].sender}
    /\ UNCHANGED <<instVars, known, preload, starts, due, crmVars>>

\* An error is logged, and the message goes on.
SetFails(h) ==
    /\ "redis" \in MayFail
    /\ Goto(h, "set", "notify")
    /\ lost' = lost \cup ({msg[h].sender} \ redis)
    /\ UNCHANGED <<instVars, known, preload, redis, starts, due, crmVars>>

\* The "start" notification; whether it arrives does not matter here.
Notify(h) ==
    /\ Goto(h, "notify", "channel")
    /\ starts' = [starts EXCEPT ![msg[h].sender] = IF @ = 2 THEN 2 ELSE @ + 1]
    /\ UNCHANGED <<instVars, known, preload, redis, lost, due, crmVars>>

GetCh(h) ==
    /\ Goto(h, "channel", "crm")
    /\ UNCHANGED <<instVars, known, preload, redis, starts, lost, due, crmVars>>

\* The respondent has no channel: an error is returned, the contact stays known.
NoChannel(h) ==
    /\ "channel" \in MayFail
    /\ Done(h, "channel")
    /\ cutOff' = IF msg[h].first THEN cutOff \cup {msg[h].sender} ELSE cutOff
    /\ UNCHANGED <<instVars, known, preload, redis, starts, lost, due, seen, opened>>

\* sendToCRM with NewDialog(first); an error is logged.
SendToCRM(h) ==
    /\ Goto(h, "crm", "rx")
    /\ LET s == msg[h].sender IN
       \/ /\ seen' = seen \cup {s}
          /\ opened' = IF msg[h].first THEN opened \cup {s} ELSE opened
          /\ UNCHANGED cutOff
       \/ /\ "crm" \in MayFail
          /\ cutOff' = IF msg[h].first THEN cutOff \cup {s} ELSE cutOff
          /\ UNCHANGED <<seen, opened>>
    /\ UNCHANGED <<instVars, known, preload, redis, starts, lost, due>>

\* SendToRx, with or without an error: the handler answers.
Answer(h) ==
    /\ Done(h, "rx")
    /\ UNCHANGED <<instVars, known, preload, redis, starts, lost, due, crmVars>>

InstanceStep == Build \/ Publish \/ Stop \/ Crash

PreloadSteps(i) ==
    \/ ScanBegins(i) \/ ScanEnds(i) \/ ScanFails(i)
    \/ Preloaded(i) \/ \E s \in Senders : Warm(i, s)

Handle(h) ==
    \/ \E s \in Senders : Receive(h, s)
    \/ LoadKnown(h) \/ StoreKnown(h) \/ CallSet(h) \/ SetLands(h) \/ SetFails(h)
    \/ Notify(h) \/ GetCh(h) \/ NoChannel(h) \/ SendToCRM(h) \/ Answer(h)

Next ==
    \/ InstanceStep
    \/ \E i \in Inst : PreloadSteps(i)
    \/ \E s \in Senders : Expire(s)
    \/ \E h \in Handlers : Handle(h)

Spec == Init /\ [][Next]_vars

-----------------------------------------------------------------------------
\* Every variable of the service has its type; a contact is in Redis or lost,
\* never both, and an instance being created is not the stored one.
TypeOK ==
    /\ bot \in 0 .. made /\ fresh \in 0 .. made /\ made \in 0 .. MaxInst
    /\ fresh = bot => fresh = 0
    /\ cancelled \subseteq 1 .. made
    /\ known \in [Inst -> SUBSET Senders]
    /\ preload \in [Inst -> [at : {"new", "scan", "warming", "done", "failed"},
                             ids : SUBSET Senders]]
    /\ redis \subseteq Senders /\ lost \subseteq Senders \ redis
    /\ msg \in [Handlers -> {NoMsg} \cup
                 [pc : Steps, sender : Senders, inst : 1 .. made, first : BOOLEAN]]
    /\ starts \in [Senders -> 0 .. 2]
    /\ due \in [Inst -> SUBSET Senders]
    /\ seen \subseteq Senders /\ opened \subseteq Senders /\ cutOff \subseteq Senders

\* handleMessage records a contact before it announces it: whoever has been
\* announced is in Redis, or its write failed, or its key expired.  A crash at
\* any point leaves this true, so the next process can find the contact.
RecordedFirst == Announced \subseteq redis \cup lost

\* preloadFirstInteraction, once done, has made the instance know every contact
\* that was announced before it began, except those Redis could not keep.
WarmCovers ==
    \A i \in Inst : preload[i].at = "done" => due[i] \subseteq known[i]

\* The CRM has a message marked NewDialog for every respondent of whom it has a
\* message, unless the first one is still being handled or was cut off by a
\* failed call or a crash: no preload, restart or race of handlers hides it.
DialogOpened == seen \subseteq opened \cup cutOff \cup FirstUnderway

\* A respondent is treated as new once: "no repeated first interaction after a
\* restart" (the comment in handleMessage).
FirstOnce == \A s \in Senders : starts[s] <= 1

\* What makes the first four inductive: a respondent is explained if the CRM has
\* a first message, or one was cut off, or is still being handled.
Explained == opened \cup cutOff \cup FirstUnderway

\* A handler that is about to announce has recorded its contact.
NotifyRecorded == \A h \in Handlers :
    msg[h].pc = "notify" => msg[h].sender \in redis \cup lost

\* A preload has what it owes in what it holds, or has stored it.
PreloadOwes == \A i \in Inst :
    /\ preload[i].at # "new" => i <= made
    /\ preload[i].at = "scan" => due[i] \subseteq redis \cap preload[i].ids
    /\ preload[i].at = "warming" => due[i] \subseteq known[i] \cup preload[i].ids

\* Nobody is known, kept, or taken for known without a first message that
\* explains it; the flag of a message that is about to be marked is still set.
KnownExplained ==
    /\ redis \subseteq Explained
    /\ \A i \in Inst : known[i] \cup preload[i].ids \subseteq Explained
    /\ \A h \in Handlers :
         /\ msg[h].pc \in {"channel", "crm"} => msg[h].sender \in Explained
         /\ msg[h].pc \in {"store", "call", "set", "notify"} => msg[h].first

IInv == /\ TypeOK /\ RecordedFirst /\ WarmCovers /\ DialogOpened
        /\ NotifyRecorded /\ PreloadOwes /\ KnownExplained
=============================================================================
