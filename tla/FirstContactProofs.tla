-------------------------- MODULE FirstContactProofs --------------------------
(***************************************************************************)
(* Proofs about FirstContact, for any respondents, handlers and instances, *)
(* with or without Redis, whichever calls may fail.                        *)
(***************************************************************************)
EXTENDS FirstContact, TLAPS

LEMMA InitIInv == Init => IInv
<1> SUFFICES ASSUME Init PROVE IInv
  OBVIOUS
<1> USE DEF Init
<1>1. /\ TypeOK
      /\ \A h \in Handlers : msg[h] = NoMsg /\ msg[h].pc = "idle"
  BY MaxInstAssumption DEF TypeOK, Inst, NoMsg
<1>2. RecordedFirst
  BY DEF RecordedFirst, Announced
<1>3. WarmCovers /\ NotifyRecorded /\ PreloadOwes
  BY <1>1 DEF WarmCovers, NotifyRecorded, PreloadOwes, Inst
<1>4. DialogOpened /\ KnownExplained
  BY <1>1 DEF DialogOpened, KnownExplained, Explained, Inst
<1> QED
  BY <1>1, <1>2, <1>3, <1>4 DEF IInv

-----------------------------------------------------------------------------
\* Types

LEMMA GotoTypes ==
    ASSUME TypeOK, NEW h \in Handlers, NEW from \in Steps, NEW to \in Steps, Goto(h, from, to)
    PROVE  /\ msg' \in [Handlers -> {NoMsg} \cup
                          [pc : Steps, sender : Senders, inst : 1 .. made, first : BOOLEAN]]
           /\ msg[h].sender \in Senders /\ msg[h].inst \in 1 .. made
<1>1. msg[h] \in [pc : Steps, sender : Senders, inst : 1 .. made, first : BOOLEAN]
  BY DEF TypeOK, Goto, NoMsg, Steps
<1>2. [msg[h] EXCEPT !.pc = to]
        \in [pc : Steps, sender : Senders, inst : 1 .. made, first : BOOLEAN]
  BY <1>1
<1>3. msg' = [msg EXCEPT ![h] = [msg[h] EXCEPT !.pc = to]]
  BY DEF Goto
<1>4. msg \in [Handlers -> {NoMsg} \cup
               [pc : Steps, sender : Senders, inst : 1 .. made, first : BOOLEAN]]
  BY DEF TypeOK
<1> QED
  BY <1>1, <1>2, <1>3, <1>4

LEMMA DoneTypes ==
    ASSUME TypeOK, NEW h \in Handlers, NEW from \in Steps, Done(h, from)
    PROVE  /\ msg' \in [Handlers -> {NoMsg} \cup
                          [pc : Steps, sender : Senders, inst : 1 .. made, first : BOOLEAN]]
           /\ msg[h].sender \in Senders /\ msg[h].inst \in 1 .. made
  BY DEF TypeOK, Done, NoMsg, Steps

\* A step of a handler changes its own request, and its pc only.
LEMMA GotoEffect ==
    ASSUME TypeOK, NEW h \in Handlers, NEW from \in Steps, NEW to, Goto(h, from, to)
    PROVE  /\ msg'[h].pc = to /\ msg'[h].sender = msg[h].sender
           /\ msg'[h].inst = msg[h].inst /\ msg'[h].first = msg[h].first
           /\ \A g \in Handlers \ {h} : msg'[g] = msg[g]
<1>1. msg[h] \in [pc : Steps, sender : Senders, inst : 1 .. made, first : BOOLEAN]
  BY DEF TypeOK, Goto, NoMsg, Steps
<1>2. msg' = [msg EXCEPT ![h] = [msg[h] EXCEPT !.pc = to]] /\ DOMAIN msg = Handlers
  BY DEF Goto, TypeOK
<1> QED
  BY <1>1, <1>2

LEMMA DoneEffect ==
    ASSUME TypeOK, NEW h \in Handlers, NEW from \in Steps, Done(h, from)
    PROVE  msg'[h] = NoMsg /\ \A g \in Handlers \ {h} : msg'[g] = msg[g]
  BY DEF TypeOK, Done

LEMMA LoadEffect ==
    ASSUME TypeOK, NEW h \in Handlers, LoadKnown(h)
    PROVE  LET isKnown == msg[h].sender \in known[msg[h].inst]
           IN  /\ msg'[h].pc = (IF isKnown THEN "channel" ELSE "store")
               /\ msg'[h].first = ~isKnown
               /\ msg'[h].sender = msg[h].sender /\ msg'[h].inst = msg[h].inst
               /\ \A g \in Handlers \ {h} : msg'[g] = msg[g]
<1> DEFINE isKnown == msg[h].sender \in known[msg[h].inst]
<1>1. msg[h] \in [pc : Steps, sender : Senders, inst : 1 .. made, first : BOOLEAN]
  BY DEF TypeOK, LoadKnown, NoMsg
<1>2. /\ msg' = [msg EXCEPT ![h] = [msg[h] EXCEPT !.pc = IF isKnown THEN "channel" ELSE "store",
                                                !.first = ~isKnown]]
      /\ DOMAIN msg = Handlers
  BY DEF TypeOK, LoadKnown
<1> HIDE DEF isKnown
<1>3. /\ msg'[h].pc = (IF isKnown THEN "channel" ELSE "store")
      /\ msg'[h].first = ~isKnown
      /\ msg'[h].sender = msg[h].sender /\ msg'[h].inst = msg[h].inst
      /\ \A g \in Handlers \ {h} : msg'[g] = msg[g]
  BY <1>1, <1>2
<1> QED
  BY <1>3 DEF isKnown

LEMMA ReceiveEffect ==
    ASSUME TypeOK, NEW h \in Handlers, NEW s \in Senders, Receive(h, s)
    PROVE  /\ msg'[h] = [pc |-> "load", sender |-> s, inst |-> bot, first |-> FALSE]
           /\ msg'[h].pc = "load"
           /\ \A g \in Handlers \ {h} : msg'[g] = msg[g]
  BY DEF TypeOK, Receive

LEMMA TypeHandle == ASSUME TypeOK, NEW h \in Handlers, Handle(h)
                    PROVE  TypeOK'
<1> USE DEF TypeOK, instVars, crmVars
<1>0. {"load", "store", "call", "set", "notify", "channel", "crm", "rx"} = Steps
  BY DEF Steps
<1>1. ASSUME NEW s \in Senders, Receive(h, s) PROVE TypeOK'
  BY <1>0, <1>1 DEF Receive
<1>2. CASE LoadKnown(h)
  <2>1. msg[h] \in [pc : Steps, sender : Senders, inst : 1 .. made, first : BOOLEAN]
    BY <1>2 DEF LoadKnown, NoMsg
  <2> QED BY <1>0, <1>2, <2>1 DEF LoadKnown
<1>3. CASE StoreKnown(h)
  BY <1>0, <1>3, GotoTypes DEF StoreKnown, Inst
<1>4. CASE CallSet(h)
  <2>1. CASE msg[h].inst \in cancelled
    <3>1. Goto(h, "call", "notify") /\ lost' = lost \cup ({msg[h].sender} \ redis)
      BY <1>4, <2>1 DEF CallSet
    <3>2. UNCHANGED <<instVars, known, preload, redis, starts, due, crmVars>>
      BY <1>4 DEF CallSet
    <3> QED BY <1>0, <3>1, <3>2, GotoTypes
  <2>2. CASE msg[h].inst \notin cancelled
    BY <1>0, <1>4, <2>2, GotoTypes DEF CallSet
  <2> QED BY <2>1, <2>2
<1>5. CASE SetLands(h)
  BY <1>0, <1>5, GotoTypes DEF SetLands
<1>6. CASE SetFails(h)
  BY <1>0, <1>6, GotoTypes DEF SetFails
<1>7. CASE Notify(h)
  <2>1. starts' \in [Senders -> 0 .. 2]
    <3>1. \A n \in 0 .. 2 : (IF n = 2 THEN 2 ELSE n + 1) \in 0 .. 2
      OBVIOUS
    <3> QED BY <1>7, <3>1 DEF Notify
  <2>2. Goto(h, "notify", "channel")
    BY <1>7 DEF Notify
  <2>3. UNCHANGED <<instVars, known, preload, redis, lost, due, crmVars>>
    BY <1>7 DEF Notify
  <2> QED BY <1>0, <2>1, <2>2, <2>3, GotoTypes
<1>8. CASE GetCh(h)
  BY <1>0, <1>8, GotoTypes DEF GetCh
<1>9. CASE NoChannel(h)
  BY <1>0, <1>9, DoneTypes DEF NoChannel
<1>10. CASE SendToCRM(h)
  BY <1>0, <1>10, GotoTypes DEF SendToCRM
<1>11. CASE Answer(h)
  BY <1>0, <1>11, DoneTypes DEF Answer
<1> QED
  BY <1>1, <1>2, <1>3, <1>4, <1>5, <1>6, <1>7, <1>8, <1>9, <1>10, <1>11 DEF Handle

LEMMA TypePreload == ASSUME TypeOK, NEW i \in Inst, PreloadSteps(i)
                     PROVE  TypeOK'
<1> USE DEF TypeOK, instVars, crmVars, PreloadStep
<1>1. CASE ScanBegins(i)
  BY <1>1 DEF ScanBegins, Announced
<1>2. CASE ScanEnds(i)
  BY <1>2 DEF ScanEnds
<1>3. CASE ScanFails(i)
  BY <1>3 DEF ScanFails
<1>4. CASE Preloaded(i)
  BY <1>4 DEF Preloaded
<1>5. ASSUME NEW s \in Senders, Warm(i, s) PROVE TypeOK'
  BY <1>5 DEF Warm
<1> QED
  BY <1>1, <1>2, <1>3, <1>4, <1>5 DEF PreloadSteps

LEMMA TypeStep == TypeOK /\ [Next]_vars => TypeOK'
<1> SUFFICES ASSUME TypeOK, [Next]_vars PROVE TypeOK'
  OBVIOUS
<1>1. CASE Build
  BY <1>1, MaxInstAssumption DEF Build, TypeOK, crmVars
<1>2. CASE Publish
  BY <1>2 DEF Publish, TypeOK, crmVars
<1>3. CASE Stop
  BY <1>3 DEF Stop, TypeOK, crmVars
<1>4. CASE Crash
  BY <1>4 DEF Crash, TypeOK, FirstUnderway, NoMsg
<1>5. ASSUME NEW i \in Inst, PreloadSteps(i) PROVE TypeOK'
  BY <1>5, TypePreload
<1>6. ASSUME NEW s \in Senders, Expire(s) PROVE TypeOK'
  BY <1>6 DEF Expire, TypeOK, instVars, crmVars
<1>7. ASSUME NEW h \in Handlers, Handle(h) PROVE TypeOK'
  BY <1>7, TypeHandle
<1>8. CASE UNCHANGED vars
  BY <1>8 DEF TypeOK, vars, instVars, crmVars
<1> QED
  BY <1>1, <1>2, <1>3, <1>4, <1>5, <1>6, <1>7, <1>8 DEF Next, InstanceStep

\* The type invariant holds in every state, for any constants.
THEOREM TypeCorrect == Spec => []TypeOK
<1>1. Init => TypeOK
  BY InitIInv DEF IInv
<1> QED
  BY <1>1, TypeStep, PTL DEF Spec

-----------------------------------------------------------------------------
\* Recorded before announced

\* Nothing leaves Redis without being counted as lost.
LEMMA RecordKept == TypeOK /\ [Next]_vars => redis \cup lost \subseteq (redis \cup lost)'
<1> SUFFICES ASSUME TypeOK, [Next]_vars PROVE redis \cup lost \subseteq (redis \cup lost)'
  OBVIOUS
<1>1. CASE InstanceStep
  BY <1>1 DEF InstanceStep, Build, Publish, Stop, Crash
<1>2. ASSUME NEW i \in Inst, PreloadSteps(i) PROVE UNCHANGED <<redis, lost>>
  BY <1>2 DEF PreloadSteps, ScanBegins, ScanEnds, ScanFails, Preloaded, Warm,
              PreloadStep
<1>3. ASSUME NEW s \in Senders, Expire(s) PROVE redis \cup lost \subseteq (redis \cup lost)'
  BY <1>3 DEF Expire
<1>4. ASSUME NEW h \in Handlers, Handle(h) PROVE redis \cup lost \subseteq (redis \cup lost)'
  BY <1>4 DEF Handle, Receive, LoadKnown, StoreKnown, CallSet, SetLands, SetFails, Notify,
              GetCh, NoChannel, SendToCRM, Answer
<1>5. CASE UNCHANGED vars
  BY <1>5 DEF vars
<1> QED
  BY <1>1, <1>2, <1>3, <1>4, <1>5 DEF Next

\* Only a handler at the notification announces, and only its own respondent.
LEMMA WhoAnnounces ==
    ASSUME TypeOK, [Next]_vars, NEW s \in Senders, starts'[s] > 0
    PROVE  starts[s] > 0 \/ \E h \in Handlers : msg[h].pc = "notify" /\ msg[h].sender = s
<1>1. ASSUME NEW h \in Handlers, Notify(h)
      PROVE  starts[s] > 0 \/ \E g \in Handlers : msg[g].pc = "notify" /\ msg[g].sender = s
  BY <1>1 DEF Notify, Goto, TypeOK
<1>2. ASSUME NEW h \in Handlers, Handle(h), ~Notify(h) PROVE UNCHANGED starts
  BY <1>2 DEF Handle, Receive, LoadKnown, StoreKnown, CallSet, SetLands, SetFails,
              GetCh, NoChannel, SendToCRM, Answer
<1>3. CASE InstanceStep
  BY <1>3 DEF InstanceStep, Build, Publish, Stop, Crash
<1>4. ASSUME NEW i \in Inst, PreloadSteps(i) PROVE UNCHANGED starts
  BY <1>4 DEF PreloadSteps, ScanBegins, ScanEnds, ScanFails, Preloaded, Warm,
              PreloadStep
<1>5. ASSUME NEW e \in Senders, Expire(e) PROVE UNCHANGED starts
  BY <1>5 DEF Expire
<1>6. CASE UNCHANGED vars
  BY <1>6 DEF vars
<1> QED
  BY <1>1, <1>2, <1>3, <1>4, <1>5, <1>6 DEF Next

\* A handler comes to the notification with its contact in Redis or lost.
LEMMA WhoNotifies ==
    ASSUME TypeOK, [Next]_vars, NEW h \in Handlers, msg'[h].pc = "notify"
    PROVE  \/ msg[h].pc = "notify" /\ msg'[h] = msg[h]
           \/ msg'[h].sender \in (redis \cup lost)'
<1>0. msg'[h].pc = "notify"
  OBVIOUS
<1>1. ASSUME NEW g \in Handlers, g # h, Handle(g) PROVE msg'[h] = msg[h]
  BY <1>1 DEF Handle, Receive, LoadKnown, StoreKnown, CallSet, SetLands, SetFails, Notify,
              GetCh, NoChannel, SendToCRM, Answer, Goto, Done, TypeOK
<1>2. CASE Handle(h)
  <2>0. {"load", "store", "call", "set", "notify", "channel", "crm", "rx"} = Steps
    BY DEF Steps
  <2>1. CASE StoreKnown(h)
    BY <1>0, <2>0, <2>1, GotoEffect DEF StoreKnown
  <2>2. CASE CallSet(h)
    <3>1. CASE msg[h].inst \in cancelled
      BY <1>0, <2>0, <2>2, <3>1, GotoEffect DEF CallSet
    <3>2. CASE msg[h].inst \notin cancelled
      BY <1>0, <2>0, <2>2, <3>2, GotoEffect DEF CallSet
    <3> QED BY <3>1, <3>2
  <2>3. CASE SetLands(h)
    BY <1>0, <2>0, <2>3, GotoEffect DEF SetLands
  <2>4. CASE SetFails(h)
    BY <1>0, <2>0, <2>4, GotoEffect DEF SetFails
  <2>5. ~Notify(h) /\ ~GetCh(h) /\ ~SendToCRM(h)
    BY <1>0, <2>0, GotoEffect DEF Notify, GetCh, SendToCRM
  <2>6. ~NoChannel(h) /\ ~Answer(h)
    BY <1>0, <2>0, DoneEffect DEF NoChannel, Answer, NoMsg
  <2>7. ~LoadKnown(h) /\ \A s \in Senders : ~Receive(h, s)
    <3>1. ASSUME LoadKnown(h) PROVE msg'[h].pc \in {"channel", "store"}
      BY <3>1, LoadEffect
    <3>2. ASSUME NEW s \in Senders, Receive(h, s) PROVE msg'[h].pc = "load"
      BY <3>2, ReceiveEffect
    <3> QED BY <1>0, <3>1, <3>2
  <2> QED
    BY <1>2, <2>1, <2>2, <2>3, <2>4, <2>5, <2>6, <2>7 DEF Handle
<1>3. CASE InstanceStep
  BY <1>3 DEF InstanceStep, Build, Publish, Stop, Crash, NoMsg
<1>4. ASSUME NEW i \in Inst, PreloadSteps(i) PROVE UNCHANGED msg
  BY <1>4 DEF PreloadSteps, ScanBegins, ScanEnds, ScanFails, Preloaded, Warm,
              PreloadStep
<1>5. ASSUME NEW e \in Senders, Expire(e) PROVE UNCHANGED msg
  BY <1>5 DEF Expire
<1>6. CASE UNCHANGED vars
  BY <1>6 DEF vars
<1> QED
  BY <1>1, <1>2, <1>3, <1>4, <1>5, <1>6 DEF Next

LEMMA RecordedStep ==
    TypeOK /\ RecordedFirst /\ NotifyRecorded /\ [Next]_vars
      => RecordedFirst' /\ NotifyRecorded'
<1> SUFFICES ASSUME TypeOK, RecordedFirst, NotifyRecorded, [Next]_vars
             PROVE  RecordedFirst' /\ NotifyRecorded'
  OBVIOUS
<1>1. redis \cup lost \subseteq (redis \cup lost)'
  BY RecordKept
<1>2. ASSUME NEW s \in Senders, starts'[s] > 0 PROVE s \in (redis \cup lost)'
  BY <1>1, <1>2, WhoAnnounces DEF RecordedFirst, NotifyRecorded, Announced
<1>3. ASSUME NEW h \in Handlers, msg'[h].pc = "notify"
      PROVE  msg'[h].sender \in (redis \cup lost)'
  BY <1>1, <1>3, WhoNotifies DEF NotifyRecorded
<1> QED
  BY <1>2, <1>3 DEF RecordedFirst, NotifyRecorded, Announced

\* handleMessage announces a contact only after it was recorded, whatever fails.
THEOREM RecordsFirst == Spec => []RecordedFirst
<1> DEFINE I == TypeOK /\ RecordedFirst /\ NotifyRecorded
<1>1. Init => I
  BY InitIInv DEF IInv
<1>2. I /\ [Next]_vars => I'
  BY TypeStep, RecordedStep
<1>3. I => RecordedFirst
  OBVIOUS
<1> QED
  BY <1>1, <1>2, <1>3, PTL DEF Spec

-----------------------------------------------------------------------------
\* What a finished preload covers

\* A message only adds to knownUsers and to Redis.
LEMMA HandleAdds ==
    ASSUME TypeOK, NEW h \in Handlers, Handle(h)
    PROVE  /\ UNCHANGED <<made, preload, due>>
           /\ redis \subseteq redis'
           /\ \A i \in Inst : known[i] \subseteq known'[i]
<1>1. UNCHANGED <<made, preload, due>> /\ redis \subseteq redis'
  BY DEF Handle, Receive, LoadKnown, StoreKnown, CallSet, SetLands, SetFails, Notify,
         GetCh, NoChannel, SendToCRM, Answer, instVars
<1>2. CASE StoreKnown(h)
  BY <1>1, <1>2 DEF StoreKnown, TypeOK
<1>3. CASE ~StoreKnown(h)
  <2>1. UNCHANGED known
    BY <1>3 DEF Handle, Receive, LoadKnown, CallSet, SetLands, SetFails, Notify,
                GetCh, NoChannel, SendToCRM, Answer
  <2> QED BY <1>1, <2>1
<1> QED
  BY <1>2, <1>3

\* A preload that ends has stored what it owed.
LEMMA PreloadStepCovers ==
    ASSUME IInv, NEW i \in Inst, PreloadSteps(i)
    PROVE  WarmCovers' /\ PreloadOwes'
<1> USE DEF PreloadStep
<1>0. TypeOK /\ WarmCovers /\ PreloadOwes /\ RecordedFirst
  BY DEF IInv
<1>1. CASE ScanBegins(i)
  <2>1. /\ i <= made
        /\ preload' = [preload EXCEPT ![i] = [at |-> "scan", ids |-> redis]]
        /\ due' = [due EXCEPT ![i] = Announced \ lost]
        /\ UNCHANGED <<made, redis, known>>
    BY <1>1 DEF ScanBegins, instVars
  <2>2. Announced \ lost \subseteq redis
    BY <1>0 DEF RecordedFirst
  <2>3. /\ preload'[i].at = "scan" /\ preload'[i].ids = redis
        /\ due'[i] = Announced \ lost
        /\ \A j \in Inst \ {i} : preload'[j] = preload[j] /\ due'[j] = due[j]
    BY <1>0, <2>1 DEF TypeOK
  <2> QED BY <1>0, <2>1, <2>2, <2>3 DEF WarmCovers, PreloadOwes
<1>2. CASE ScanEnds(i)
  <2>1. PICK ids \in SUBSET (preload[i].ids \cup redis) :
          /\ preload[i].ids \cap redis \subseteq ids
          /\ i <= made /\ preload[i].at = "scan"
          /\ preload' = [preload EXCEPT ![i] = [at |-> "warming", ids |-> ids]]
          /\ UNCHANGED <<made, redis, known, due>>
    BY <1>2 DEF ScanEnds, instVars
  <2>2. /\ preload'[i].at = "warming" /\ preload'[i].ids = ids
        /\ \A j \in Inst \ {i} : preload'[j] = preload[j]
    BY <1>0, <2>1 DEF TypeOK
  <2>3. due[i] \subseteq ids
    BY <1>0, <2>1 DEF PreloadOwes
  <2> QED BY <1>0, <2>1, <2>2, <2>3 DEF WarmCovers, PreloadOwes
<1>3. CASE ScanFails(i)
  <2>1. /\ i <= made
        /\ preload' = [preload EXCEPT ![i] = [at |-> "failed", ids |-> {}]]
        /\ UNCHANGED <<made, redis, known, due>>
    BY <1>3 DEF ScanFails, instVars
  <2>2. /\ preload'[i].at = "failed"
        /\ \A j \in Inst \ {i} : preload'[j] = preload[j]
    BY <1>0, <2>1 DEF TypeOK
  <2> QED BY <1>0, <2>1, <2>2 DEF WarmCovers, PreloadOwes
<1>4. CASE Preloaded(i)
  <2>1. /\ i <= made /\ preload[i].at = "warming" /\ preload[i].ids = {}
        /\ preload' = [preload EXCEPT ![i] = [at |-> "done", ids |-> {}]]
        /\ UNCHANGED <<made, redis, known, due>>
    BY <1>4 DEF Preloaded, instVars
  <2>2. /\ preload'[i].at = "done"
        /\ \A j \in Inst \ {i} : preload'[j] = preload[j]
    BY <1>0, <2>1 DEF TypeOK
  <2>3. due[i] \subseteq known[i]
    BY <1>0, <2>1 DEF PreloadOwes
  <2> QED BY <1>0, <2>1, <2>2, <2>3 DEF WarmCovers, PreloadOwes
<1>5. ASSUME NEW s \in Senders, Warm(i, s) PROVE WarmCovers' /\ PreloadOwes'
  <2>1. /\ i <= made /\ preload[i].at = "warming"
        /\ preload' = [preload EXCEPT ![i] = [at |-> "warming", ids |-> preload[i].ids \ {s}]]
        /\ known' = [known EXCEPT ![i] = @ \cup {s}]
        /\ UNCHANGED <<made, redis, due>>
    BY <1>5 DEF Warm, instVars
  <2>2. /\ preload'[i].at = "warming" /\ preload'[i].ids = preload[i].ids \ {s}
        /\ known'[i] = known[i] \cup {s}
        /\ \A j \in Inst \ {i} : preload'[j] = preload[j] /\ known'[j] = known[j]
    BY <1>0, <2>1 DEF TypeOK
  <2>3. due[i] \subseteq known'[i] \cup preload'[i].ids
    BY <1>0, <2>1, <2>2 DEF PreloadOwes
  <2> QED BY <1>0, <2>1, <2>2, <2>3 DEF WarmCovers, PreloadOwes
<1> QED
  BY <1>1, <1>2, <1>3, <1>4, <1>5 DEF PreloadSteps

LEMMA CoversStep == IInv /\ [Next]_vars => WarmCovers' /\ PreloadOwes'
<1> SUFFICES ASSUME IInv, [Next]_vars PROVE WarmCovers' /\ PreloadOwes'
  OBVIOUS
<1>0. TypeOK /\ WarmCovers /\ PreloadOwes
  BY DEF IInv
<1>1. CASE Build
  <2>1. made' = made + 1 /\ made \in Nat /\ UNCHANGED <<known, preload, redis, due>>
    BY <1>0, <1>1, MaxInstAssumption DEF Build, TypeOK
  <2>2. \A i \in Inst : i <= made => i <= made'
    BY <2>1, MaxInstAssumption DEF Inst
  <2> QED BY <1>0, <2>1, <2>2 DEF WarmCovers, PreloadOwes
<1>2. CASE Publish \/ Stop
  BY <1>0, <1>2 DEF Publish, Stop, WarmCovers, PreloadOwes
<1>3. CASE Crash
  <2>1. UNCHANGED <<made, known, due>> /\ redis \subseteq redis'
    BY <1>3 DEF Crash
  <2>2. ASSUME NEW i \in Inst
        PROVE  \/ preload'[i] = preload[i] /\ (i <= made => preload[i].at = "done")
               \/ i <= made /\ preload'[i].at = "failed"
    BY <1>3 DEF Crash
  <2>3. \A i \in Inst : preload[i].at \in {"scan", "warming"} => i <= made
    BY <1>0 DEF PreloadOwes
  <2> QED BY <1>0, <2>1, <2>2, <2>3 DEF WarmCovers, PreloadOwes
<1>4. ASSUME NEW i \in Inst, PreloadSteps(i) PROVE WarmCovers' /\ PreloadOwes'
  BY <1>4, PreloadStepCovers
<1>5. ASSUME NEW s \in Senders, Expire(s) PROVE WarmCovers' /\ PreloadOwes'
  <2>1. /\ UNCHANGED <<made, known, preload>> /\ redis' = redis \ {s}
        /\ \A i \in Inst : due'[i] = IF preload[i].at = "scan" THEN due[i] \ {s} ELSE due[i]
    BY <1>5 DEF Expire, instVars
  <2> QED BY <1>0, <2>1 DEF WarmCovers, PreloadOwes
<1>6. ASSUME NEW h \in Handlers, Handle(h) PROVE WarmCovers' /\ PreloadOwes'
  BY <1>0, <1>6, HandleAdds DEF WarmCovers, PreloadOwes
<1>7. CASE UNCHANGED vars
  BY <1>0, <1>7 DEF vars, instVars, WarmCovers, PreloadOwes
<1> QED
  BY <1>1, <1>2, <1>3, <1>4, <1>5, <1>6, <1>7 DEF Next, InstanceStep

-----------------------------------------------------------------------------
\* Why the CRM has a message of a respondent

LEMMA Underway ==
    ASSUME NEW h \in Handlers, msg[h].first, msg[h].sender \in Senders,
           msg[h].pc \in {"store", "call", "set", "notify", "channel", "crm"}
    PROVE  msg[h].sender \in Explained
  BY DEF Explained, FirstUnderway

LEMMA UnderwayPrime ==
    ASSUME NEW h \in Handlers, msg'[h].first, msg'[h].sender \in Senders,
           msg'[h].pc \in {"store", "call", "set", "notify", "channel", "crm"}
    PROVE  msg'[h].sender \in Explained'
  BY DEF Explained, FirstUnderway

\* A first message leaves its handler only for the CRM or for cutOff.
LEMMA HandleKeeps ==
    ASSUME TypeOK, NEW h \in Handlers, Handle(h), NEW s \in Explained
    PROVE  s \in Explained'
<1>0. /\ {"load", "store", "call", "set", "notify", "channel", "crm", "rx"} = Steps
      /\ opened \subseteq opened' /\ cutOff \subseteq cutOff'
  BY DEF Steps, Handle, Receive, LoadKnown, StoreKnown, CallSet, SetLands, SetFails,
         Notify, GetCh, NoChannel, SendToCRM, Answer, crmVars
<1>1. CASE s \in opened \cup cutOff
  BY <1>0, <1>1 DEF Explained
<1>2. CASE s \in FirstUnderway
  <2>1. PICK g \in Handlers :
          /\ msg[g].pc \in {"store", "call", "set", "notify", "channel", "crm"}
          /\ msg[g].first /\ msg[g].sender = s /\ s \in Senders
    BY <1>2 DEF FirstUnderway
  <2>2. CASE msg'[g] = msg[g]
    BY <2>1, <2>2, UnderwayPrime
  <2>3. CASE msg'[g] # msg[g]
    <3>1. g = h
      BY <2>3 DEF Handle, Receive, LoadKnown, StoreKnown, CallSet, SetLands, SetFails,
              Notify, GetCh, NoChannel, SendToCRM, Answer, Goto, Done, TypeOK
    <3>2. ASSUME NEW from \in Steps, NEW to, Goto(h, from, to),
                 to \in {"store", "call", "set", "notify", "channel", "crm"}
          PROVE  s \in Explained'
      BY <2>1, <3>1, <3>2, GotoEffect, UnderwayPrime
    <3>3. CASE StoreKnown(h)
      BY <1>0, <3>2, <3>3 DEF StoreKnown
    <3>4. CASE CallSet(h)
      BY <1>0, <3>2, <3>4 DEF CallSet
    <3>5. CASE SetLands(h) \/ SetFails(h) \/ Notify(h) \/ GetCh(h)
      BY <1>0, <3>2, <3>5 DEF SetLands, SetFails, Notify, GetCh
    <3>6. CASE NoChannel(h)
      BY <2>1, <3>1, <3>6 DEF NoChannel, Explained
    <3>7. CASE SendToCRM(h)
      BY <2>1, <3>1, <3>7 DEF SendToCRM, Explained
    <3>8. ~LoadKnown(h) /\ ~Answer(h)
      BY <2>1, <3>1 DEF LoadKnown, Answer, Done
    <3>9. \A r \in Senders : ~Receive(h, r)
      BY <2>1, <3>1 DEF Receive, Idle, NoMsg
    <3> QED
      BY <3>3, <3>4, <3>5, <3>6, <3>7, <3>8, <3>9 DEF Handle
  <2> QED BY <2>2, <2>3
<1> QED
  BY <1>1, <1>2 DEF Explained

\* Nothing stops being explained.
LEMMA ExplainedKept == TypeOK /\ [Next]_vars => Explained \subseteq Explained'
<1> SUFFICES ASSUME TypeOK, [Next]_vars PROVE Explained \subseteq Explained'
  OBVIOUS
<1>1. CASE Crash
  BY <1>1 DEF Crash, Explained
<1>2. CASE Build \/ Publish \/ Stop
  BY <1>2 DEF Build, Publish, Stop, Explained, FirstUnderway, crmVars
<1>3. ASSUME NEW i \in Inst, PreloadSteps(i) PROVE UNCHANGED <<msg, crmVars>>
  BY <1>3 DEF PreloadSteps, ScanBegins, ScanEnds, ScanFails, Preloaded, Warm,
              PreloadStep, crmVars
<1>4. ASSUME NEW s \in Senders, Expire(s) PROVE UNCHANGED <<msg, crmVars>>
  BY <1>4 DEF Expire
<1>5. ASSUME NEW h \in Handlers, Handle(h) PROVE Explained \subseteq Explained'
  BY <1>5, HandleKeeps
<1>6. CASE UNCHANGED vars
  BY <1>6 DEF vars, Explained, FirstUnderway, crmVars
<1>7. CASE UNCHANGED <<msg, crmVars>>
  BY <1>7 DEF Explained, FirstUnderway, crmVars
<1> QED
  BY <1>1, <1>2, <1>3, <1>4, <1>5, <1>6, <1>7 DEF Next, InstanceStep

\* Who becomes known, kept or seen by a step of a handler is its respondent,
\* whose first message is under way or was before.
LEMMA HandleExplains ==
    ASSUME TypeOK, KnownExplained, NEW h \in Handlers, Handle(h)
    PROVE  /\ redis' \subseteq Explained
           /\ \A i \in Inst : known'[i] \subseteq Explained
           /\ UNCHANGED preload
           /\ seen' \subseteq seen \cup Explained
<1>0. {"load", "store", "call", "set", "notify", "channel", "crm", "rx"} = Steps
  BY DEF Steps
<1>1. /\ redis \subseteq Explained
      /\ \A i \in Inst : known[i] \subseteq Explained
  BY DEF KnownExplained
<1>2. CASE StoreKnown(h)
  <2>1. msg[h].sender \in Explained
    BY <1>0, <1>2, GotoTypes, Underway DEF StoreKnown, KnownExplained, Goto
  <2>2. /\ known' = [known EXCEPT ![msg[h].inst] = @ \cup {msg[h].sender}]
        /\ UNCHANGED <<redis, preload, seen>>
    BY <1>2 DEF StoreKnown, crmVars
  <2> QED BY <1>1, <2>1, <2>2 DEF TypeOK
<1>3. CASE SetLands(h)
  <2>1. msg[h].sender \in Explained
    BY <1>0, <1>3, GotoTypes, Underway DEF SetLands, KnownExplained, Goto
  <2> QED BY <1>1, <1>3, <2>1 DEF SetLands, crmVars
<1>4. CASE SendToCRM(h)
  <2>1. msg[h].sender \in Explained
    BY <1>4 DEF SendToCRM, KnownExplained, Goto
  <2> QED BY <1>1, <1>4, <2>1 DEF SendToCRM
<1>5. CASE ~(StoreKnown(h) \/ SetLands(h) \/ SendToCRM(h))
  <2>1. UNCHANGED <<redis, known, preload, seen>>
    BY <1>5 DEF Handle, Receive, LoadKnown, CallSet, SetFails, Notify, GetCh, NoChannel,
                Answer, crmVars
  <2> QED BY <1>1, <2>1
<1> QED
  BY <1>2, <1>3, <1>4, <1>5

\* What a handler is about to send is explained, and marked if it is first.
LEMMA HandleFlags ==
    ASSUME TypeOK, KnownExplained, NEW h \in Handlers, Handle(h), NEW g \in Handlers
    PROVE  /\ msg'[g].pc \in {"channel", "crm"} => msg'[g].sender \in Explained
           /\ msg'[g].pc \in {"store", "call", "set", "notify"} => msg'[g].first
<1>0. {"load", "store", "call", "set", "notify", "channel", "crm", "rx"} = Steps
  BY DEF Steps
<1>1. CASE msg'[g] = msg[g]
  BY <1>1 DEF KnownExplained
<1>2. CASE msg'[g] # msg[g]
  <2>1. g = h
    BY <1>2 DEF Handle, Receive, LoadKnown, StoreKnown, CallSet, SetLands, SetFails,
            Notify, GetCh, NoChannel, SendToCRM, Answer, Goto, Done, TypeOK
  <2>2. ASSUME NEW from \in {"store", "call", "set"}, NEW to \in {"call", "set", "notify"},
               Goto(h, from, to)
        PROVE  /\ msg'[h].pc \notin {"channel", "crm"}
               /\ msg'[h].first
    BY <1>0, <2>2, GotoEffect DEF KnownExplained, Goto
  <2>3. CASE StoreKnown(h)
    BY <2>1, <2>2, <2>3 DEF StoreKnown
  <2>4. CASE CallSet(h)
    BY <2>1, <2>2, <2>4 DEF CallSet
  <2>5. CASE SetLands(h) \/ SetFails(h)
    BY <2>1, <2>2, <2>5 DEF SetLands, SetFails
  <2>6. CASE Notify(h)
    <3>1. msg[h].sender \in Explained
      BY <1>0, <2>6, GotoTypes, Underway DEF Notify, KnownExplained, Goto
    <3> QED BY <1>0, <2>1, <2>6, <3>1, GotoEffect DEF Notify
  <2>7. CASE GetCh(h)
    <3>1. msg[h].sender \in Explained
      BY <2>7 DEF GetCh, KnownExplained, Goto
    <3> QED BY <1>0, <2>1, <2>7, <3>1, GotoEffect DEF GetCh
  <2>8. CASE SendToCRM(h)
    BY <1>0, <2>1, <2>8, GotoEffect DEF SendToCRM
  <2>9. CASE NoChannel(h) \/ Answer(h)
    BY <1>0, <2>1, <2>9, DoneEffect DEF NoChannel, Answer, NoMsg
  <2>10. CASE LoadKnown(h)
    <3>1. msg[h] \in [pc : Steps, sender : Senders, inst : 1 .. made, first : BOOLEAN]
      BY <2>10 DEF TypeOK, LoadKnown, NoMsg
    <3>2. msg[h].inst \in Inst
      BY <3>1, MaxInstAssumption DEF TypeOK, Inst
    <3>3. CASE msg[h].sender \in known[msg[h].inst]
      <4>1. msg[h].sender \in Explained
        BY <3>2, <3>3 DEF KnownExplained
      <4>2. msg'[h].pc = "channel" /\ msg'[h].sender = msg[h].sender
        BY <2>10, <3>3, LoadEffect
      <4> QED BY <2>1, <4>1, <4>2
    <3>4. CASE msg[h].sender \notin known[msg[h].inst]
      <4>1. msg'[h].pc = "store" /\ msg'[h].first
        BY <2>10, <3>4, LoadEffect
      <4> QED BY <2>1, <4>1
    <3> QED BY <3>3, <3>4
  <2>11. ASSUME NEW s \in Senders, Receive(h, s) PROVE msg'[h].pc = "load"
    BY <2>11, ReceiveEffect
  <2> QED
    BY <2>1, <2>3, <2>4, <2>5, <2>6, <2>7, <2>8, <2>9, <2>10, <2>11 DEF Handle
<1> QED
  BY <1>1, <1>2

LEMMA ExplainsStep ==
    TypeOK /\ KnownExplained /\ DialogOpened /\ [Next]_vars
      => KnownExplained' /\ DialogOpened'
<1> SUFFICES ASSUME TypeOK, KnownExplained, DialogOpened, [Next]_vars
             PROVE  KnownExplained' /\ DialogOpened'
  OBVIOUS
<1>0. Explained \subseteq Explained'
  BY ExplainedKept
<1>1. /\ redis \subseteq Explained /\ seen \subseteq Explained
      /\ \A i \in Inst : known[i] \cup preload[i].ids \subseteq Explained
  BY DEF KnownExplained, DialogOpened, Explained
<1>2. ASSUME NEW h \in Handlers, Handle(h) PROVE KnownExplained' /\ DialogOpened'
  <2>1. /\ redis' \subseteq Explained' /\ seen' \subseteq Explained'
        /\ \A i \in Inst : known'[i] \cup preload'[i].ids \subseteq Explained'
    BY <1>0, <1>1, <1>2, HandleExplains
  <2>2. \A g \in Handlers :
          /\ msg'[g].pc \in {"channel", "crm"} => msg'[g].sender \in Explained'
          /\ msg'[g].pc \in {"store", "call", "set", "notify"} => msg'[g].first
    BY <1>0, <1>2, HandleFlags
  <2> QED BY <2>1, <2>2 DEF KnownExplained, DialogOpened, Explained
<1>3. ASSUME /\ redis' \subseteq Explained /\ UNCHANGED <<msg, seen>>
             /\ \A i \in Inst : known'[i] \cup preload'[i].ids \subseteq Explained
      PROVE  KnownExplained' /\ DialogOpened'
  BY <1>0, <1>1, <1>3 DEF KnownExplained, DialogOpened, Explained
<1>4. CASE Build \/ Publish \/ Stop
  BY <1>1, <1>3, <1>4 DEF Build, Publish, Stop, crmVars
<1>5. CASE Crash
  <2>1. /\ redis' \subseteq Explained /\ seen' = seen /\ known' = known
        /\ \A i \in Inst : preload'[i].ids \subseteq preload[i].ids
    <3>1. ASSUME NEW h \in Handlers, msg[h].pc = "set" PROVE msg[h].sender \in Explained
      BY <3>1, Underway DEF KnownExplained, TypeOK, NoMsg
    <3> QED BY <1>1, <1>5, <3>1 DEF Crash
  <2>2. \A h \in Handlers : msg'[h].pc = "idle"
    BY <1>5 DEF Crash, NoMsg
  <2> QED BY <1>0, <1>1, <2>1, <2>2 DEF KnownExplained, DialogOpened, Explained
<1>6. ASSUME NEW i \in Inst, PreloadSteps(i) PROVE KnownExplained' /\ DialogOpened'
  <2> USE DEF PreloadStep, crmVars, TypeOK
  <2>1. CASE ScanFails(i) \/ Preloaded(i)
    <3>1. PICK at \in {"failed", "done"} :
                 preload' = [preload EXCEPT ![i] = [at |-> at, ids |-> {}]]
      BY <2>1 DEF ScanFails, Preloaded
    <3>2. \A j \in Inst : preload'[j].ids \subseteq preload[j].ids
      BY <3>1
    <3>3. UNCHANGED <<redis, msg, seen, known>>
      BY <2>1 DEF ScanFails, Preloaded
    <3> QED BY <1>1, <1>3, <3>2, <3>3
  <2>2. CASE ScanBegins(i)
    BY <1>1, <1>3, <2>2 DEF ScanBegins
  <2>3. CASE ScanEnds(i)
    BY <1>1, <1>3, <2>3 DEF ScanEnds
  <2>4. ASSUME NEW s \in Senders, Warm(i, s) PROVE KnownExplained' /\ DialogOpened'
    BY <1>1, <1>3, <2>4 DEF Warm
  <2> QED BY <1>6, <2>1, <2>2, <2>3, <2>4 DEF PreloadSteps
<1>7. ASSUME NEW s \in Senders, Expire(s) PROVE KnownExplained' /\ DialogOpened'
  BY <1>1, <1>3, <1>7 DEF Expire, crmVars
<1>8. CASE UNCHANGED vars
  BY <1>1, <1>3, <1>8 DEF vars, crmVars
<1> QED
  BY <1>2, <1>4, <1>5, <1>6, <1>7, <1>8 DEF Next, InstanceStep

-----------------------------------------------------------------------------
THEOREM Inductive == Spec => []IInv
<1>1. Init => IInv
  BY InitIInv
<1>2. IInv /\ [Next]_vars => IInv'
  BY TypeStep, RecordedStep, CoversStep, ExplainsStep DEF IInv
<1> QED
  BY <1>1, <1>2, PTL DEF Spec

\* A finished preload knows every contact announced before it that Redis kept,
\* whatever scan, restart, crash or expiry it met.
THEOREM PreloadCovers == Spec => []WarmCovers
  BY Inductive, PTL DEF IInv

\* The CRM's first message of a respondent opens a dialog unless a failed call
\* or a crash cut it off.
THEOREM OpensDialog == Spec => []DialogOpened
  BY Inductive, PTL DEF IInv

-----------------------------------------------------------------------------
\* No first interaction is repeated while nothing disturbs the service

\* Redis keeps what it is given, a message is handled only by the newest instance
\* and after its preload (the two things the comment in handleMessage takes for
\* granted), and a respondent has one message at a time.
Calm ==
    /\ lost = {}
    /\ \A h \in Handlers : ~Idle(h) => msg[h].inst = made /\ preload[made].at = "done"
    /\ \A g, h \in Handlers :
         ~Idle(g) /\ ~Idle(h) /\ msg[g].sender = msg[h].sender => g = h

FirstSteps == {"store", "call", "set", "notify"}

\* The newest instance knows, or is going to know, whoever was announced; a
\* respondent who is being announced has not been announced before.
NewestKnows == \A i \in Inst : i = made /\ preload[i].at = "done" => Announced \subseteq known[i]
NewestOwes  == \A i \in Inst : i = made /\ preload[i].at \in {"scan", "warming"}
                                   => Announced \subseteq due[i]
FirstIsNew  == \A h \in Handlers : msg[h].pc \in FirstSteps => starts[msg[h].sender] = 0
FirstStored == \A h \in Handlers : msg[h].pc \in FirstSteps \ {"store"} =>
                   msg[h].sender \in known[msg[h].inst]

OnceInv == FirstOnce /\ NewestKnows /\ NewestOwes /\ FirstIsNew /\ FirstStored

\* A handler that is not idle has a respondent and an instance.
LEMMA BusyHas ==
    ASSUME TypeOK, NEW h \in Handlers, msg[h].pc \in Steps
    PROVE  ~Idle(h) /\ msg[h].sender \in Senders /\ msg[h].inst \in 1 .. made
                    /\ 1 .. made \subseteq Inst
<1>1. ~Idle(h) BY DEF Idle, NoMsg, Steps
<1>2. msg[h] \in [pc : Steps, sender : Senders, inst : 1 .. made, first : BOOLEAN]
  BY <1>1 DEF TypeOK, Idle
<1>3. 1 .. made \subseteq Inst
  BY MaxInstAssumption DEF TypeOK, Inst
<1> QED
  BY <1>1, <1>2, <1>3

\* How a handler comes to the steps of a first message.
LEMMA WhoIsFirst ==
    ASSUME TypeOK, NEW h \in Handlers, Handle(h), msg'[h].pc \in FirstSteps
    PROVE  /\ msg'[h].sender = msg[h].sender /\ msg'[h].inst = msg[h].inst
           /\ \/ /\ msg[h].pc = "load" /\ msg'[h].pc = "store"
                 /\ msg[h].sender \notin known[msg[h].inst]
              \/ /\ msg[h].pc = "store"
                 /\ known' = [known EXCEPT ![msg[h].inst] = @ \cup {msg[h].sender}]
              \/ msg[h].pc \in FirstSteps \ {"store"} /\ known' = known
<1> USE DEF FirstSteps
<1>0. {"load", "store", "call", "set", "notify", "channel", "crm", "rx"} = Steps
  BY DEF Steps
<1>1. CASE LoadKnown(h)
  <2>1. msg[h].pc = "load"
    BY <1>1 DEF LoadKnown
  <2>2. /\ msg'[h].pc = (IF msg[h].sender \in known[msg[h].inst] THEN "channel" ELSE "store")
        /\ msg'[h].sender = msg[h].sender /\ msg'[h].inst = msg[h].inst
    BY <1>1, LoadEffect
  <2> QED BY <2>1, <2>2
<1>2. CASE StoreKnown(h)
  BY <1>0, <1>2, GotoEffect DEF StoreKnown, Goto
<1>3. CASE CallSet(h)
  <2>1. CASE msg[h].inst \in cancelled
    BY <1>0, <1>3, <2>1, GotoEffect DEF CallSet, Goto
  <2>2. CASE msg[h].inst \notin cancelled
    BY <1>0, <1>3, <2>2, GotoEffect DEF CallSet, Goto
  <2> QED BY <2>1, <2>2
<1>4. CASE SetLands(h)
  BY <1>0, <1>4, GotoEffect DEF SetLands, Goto
<1>5. CASE SetFails(h)
  BY <1>0, <1>5, GotoEffect DEF SetFails, Goto
<1>6. ~Notify(h) /\ ~GetCh(h) /\ ~SendToCRM(h)
  BY <1>0, GotoEffect DEF Notify, GetCh, SendToCRM
<1>7. ~NoChannel(h) /\ ~Answer(h)
  BY <1>0, DoneEffect DEF NoChannel, Answer, NoMsg
<1>8. \A s \in Senders : ~Receive(h, s)
  BY ReceiveEffect
<1> QED
  BY <1>1, <1>2, <1>3, <1>4, <1>5, <1>6, <1>7, <1>8 DEF Handle

\* A handler leaves the requests of the others alone.
LEMMA OthersStay ==
    ASSUME TypeOK, NEW h \in Handlers, Handle(h)
    PROVE  \A g \in Handlers \ {h} : msg'[g] = msg[g]
  BY DEF Handle, Receive, LoadKnown, StoreKnown, CallSet, SetLands, SetFails, Notify,
         GetCh, NoChannel, SendToCRM, Answer, Goto, Done, TypeOK

\* The announcement itself.
LEMMA OnceNotify ==
    ASSUME IInv, Calm, OnceInv, NEW h \in Handlers, Notify(h)
    PROVE  OnceInv'
<1> DEFINE s == msg[h].sender
<1>0. TypeOK /\ "notify" \in Steps /\ "channel" \in Steps
  BY DEF IInv, Steps
<1>1. /\ msg[h].pc = "notify" /\ msg[h].pc \in Steps
      /\ UNCHANGED <<made, known, preload, due>>
      /\ starts' = [starts EXCEPT ![s] = IF starts[s] = 2 THEN 2 ELSE starts[s] + 1]
  BY <1>0 DEF Notify, Goto, instVars
<1>2. s \in Senders /\ msg[h].inst \in Inst /\ ~Idle(h)
  BY <1>0, <1>1, BusyHas
<1>3. starts[s] = 0 /\ s \in known[msg[h].inst]
  BY <1>1 DEF OnceInv, FirstIsNew, FirstStored, FirstSteps
<1>4. msg[h].inst = made /\ preload[made].at = "done"
  BY <1>2 DEF Calm
<1>5. /\ starts'[s] = 1 /\ \A d \in Senders \ {s} : starts'[d] = starts[d]
  BY <1>0, <1>1, <1>2, <1>3 DEF TypeOK
<1>6. /\ msg'[h].pc = "channel"
      /\ \A g \in Handlers \ {h} : msg'[g] = msg[g]
  BY <1>0, GotoEffect DEF Notify
<1> HIDE DEF s
<1>7. FirstOnce'
  BY <1>5 DEF OnceInv, FirstOnce
<1>8. NewestKnows'
  BY <1>1, <1>3, <1>4, <1>5 DEF OnceInv, NewestKnows, Announced
<1>9. NewestOwes'
  BY <1>1, <1>4 DEF NewestOwes
<1>10. FirstIsNew'
  <2> SUFFICES ASSUME NEW g \in Handlers, msg'[g].pc \in FirstSteps
               PROVE  starts'[msg'[g].sender] = 0
    BY DEF FirstIsNew
  <2>1. g # h /\ msg'[g] = msg[g]
    BY <1>6 DEF FirstSteps
  <2>2. msg[g].pc \in Steps /\ starts[msg[g].sender] = 0
    BY <2>1 DEF FirstSteps, Steps, OnceInv, FirstIsNew
  <2>3. ~Idle(g) /\ msg[g].sender \in Senders
    BY <1>0, <2>2, BusyHas
  <2>4. msg[g].sender # s
    BY <1>2, <2>1, <2>3 DEF Calm, s
  <2> QED BY <1>5, <2>1, <2>2, <2>3, <2>4
<1>11. FirstStored'
  BY <1>1, <1>6 DEF OnceInv, FirstStored, FirstSteps
<1> QED
  BY <1>7, <1>8, <1>9, <1>10, <1>11 DEF OnceInv

\* The other steps of handleMessage: who is taken for new was never announced.
LEMMA OnceHandle ==
    ASSUME IInv, Calm, OnceInv, NEW h \in Handlers, Handle(h), ~Notify(h)
    PROVE  OnceInv'
<1>0. TypeOK
  BY DEF IInv
<1>1. UNCHANGED <<made, preload, due>> /\ \A i \in Inst : known[i] \subseteq known'[i]
  BY <1>0, HandleAdds
<1>2. starts' = starts
  BY DEF Handle, Receive, LoadKnown, StoreKnown, CallSet, SetLands, SetFails,
         GetCh, NoChannel, SendToCRM, Answer
<1>3. FirstOnce' /\ NewestKnows' /\ NewestOwes'
  BY <1>1, <1>2 DEF OnceInv, FirstOnce, NewestKnows, NewestOwes, Announced
<1>4. \A g \in Handlers \ {h} : msg'[g] = msg[g]
  BY <1>0, OthersStay
<1>5. ASSUME msg'[h].pc \in FirstSteps
      PROVE  /\ starts'[msg'[h].sender] = 0
             /\ msg'[h].pc # "store" => msg'[h].sender \in known'[msg'[h].inst]
  <2>1. msg'[h].sender = msg[h].sender /\ msg'[h].inst = msg[h].inst
    BY <1>0, <1>5, WhoIsFirst
  <2>2. CASE /\ msg[h].pc = "load" /\ msg'[h].pc = "store"
             /\ msg[h].sender \notin known[msg[h].inst]
    <3>1. /\ ~Idle(h) /\ msg[h].sender \in Senders /\ msg[h].inst \in Inst
      BY <1>0, <2>2, BusyHas DEF Steps
    <3>2. msg[h].inst = made /\ preload[made].at = "done"
      BY <3>1 DEF Calm
    <3>3. msg[h].sender \notin Announced
      BY <2>2, <3>1, <3>2 DEF OnceInv, NewestKnows
    <3>4. starts[msg[h].sender] \in 0 .. 2
      BY <1>0, <3>1 DEF TypeOK
    <3> QED BY <1>2, <2>1, <2>2, <3>1, <3>3, <3>4 DEF Announced
  <2>3. CASE msg[h].pc \in FirstSteps
    <3>1. msg[h].sender \in Senders /\ msg[h].inst \in Inst
      BY <1>0, <2>3, BusyHas DEF Steps, FirstSteps
    <3>2. starts'[msg'[h].sender] = 0
      BY <1>2, <2>1, <2>3 DEF OnceInv, FirstIsNew
    <3>3. CASE /\ msg[h].pc = "store"
               /\ known' = [known EXCEPT ![msg[h].inst] = @ \cup {msg[h].sender}]
      BY <1>0, <2>1, <3>1, <3>2, <3>3 DEF TypeOK
    <3>4. CASE msg[h].pc \in FirstSteps \ {"store"} /\ known' = known
      BY <2>1, <3>2, <3>4 DEF OnceInv, FirstStored
    <3> QED
      BY <1>0, <1>5, <2>3, <3>3, <3>4, WhoIsFirst DEF FirstSteps
  <2> QED
    BY <1>0, <1>5, <2>2, <2>3, WhoIsFirst DEF FirstSteps
<1>6. ASSUME NEW g \in Handlers \ {h}, msg'[g].pc \in FirstSteps
      PROVE  /\ starts'[msg'[g].sender] = 0
             /\ msg'[g].pc # "store" => msg'[g].sender \in known'[msg'[g].inst]
  <2>1. msg'[g] = msg[g] /\ msg[g].inst \in Inst
    BY <1>0, <1>4, <1>6, BusyHas DEF Steps, FirstSteps
  <2> QED BY <1>1, <1>2, <1>6, <2>1 DEF OnceInv, FirstIsNew, FirstStored
<1>7. FirstIsNew' /\ FirstStored'
  BY <1>5, <1>6 DEF FirstIsNew, FirstStored
<1> QED
  BY <1>3, <1>7 DEF OnceInv

\* The preload of the newest instance finds whoever was announced.
LEMMA OncePreload ==
    ASSUME IInv, IInv', Calm, OnceInv, NEW i \in Inst, PreloadSteps(i)
    PROVE  OnceInv'
<1> USE DEF PreloadStep
<1>0. TypeOK /\ preload \in [Inst -> [at : {"new", "scan", "warming", "done", "failed"},
                                      ids : SUBSET Senders]]
  BY DEF IInv, TypeOK
<1>1. UNCHANGED <<made, msg, starts>>
  BY DEF PreloadSteps, ScanBegins, ScanEnds, ScanFails, Preloaded, Warm, instVars
<1>2. \A j \in Inst : known[j] \subseteq known'[j]
  BY <1>0 DEF PreloadSteps, ScanBegins, ScanEnds, ScanFails, Preloaded, Warm, TypeOK
<1>3. \A j \in Inst \ {i} : preload'[j] = preload[j] /\ due'[j] = due[j]
  BY <1>0 DEF PreloadSteps, ScanBegins, ScanEnds, ScanFails, Preloaded, Warm, TypeOK
<1>4. preload'[i].at = "done" => preload[i].at = "warming" /\ due' = due
  <2>1. ASSUME Preloaded(i) PROVE preload[i].at = "warming" /\ due' = due
    BY <2>1 DEF Preloaded
  <2>2. ASSUME ScanBegins(i) \/ ScanEnds(i) \/ ScanFails(i) \/ \E s \in Senders : Warm(i, s)
        PROVE  preload'[i].at # "done"
    BY <1>0, <2>2 DEF ScanBegins, ScanEnds, ScanFails, Warm
  <2> QED BY <2>1, <2>2 DEF PreloadSteps
<1>5. preload'[i].at \in {"scan", "warming"} =>
        \/ due'[i] = Announced
        \/ preload[i].at \in {"scan", "warming"} /\ due' = due
  <2>1. ASSUME ScanBegins(i) PROVE due'[i] = Announced
    BY <2>1 DEF ScanBegins, Calm, IInv, TypeOK
  <2>2. ASSUME ScanEnds(i) \/ \E s \in Senders : Warm(i, s)
        PROVE  preload[i].at \in {"scan", "warming"} /\ due' = due
    BY <2>2 DEF ScanEnds, Warm
  <2>3. ASSUME ScanFails(i) \/ Preloaded(i) PROVE preload'[i].at \notin {"scan", "warming"}
    BY <1>0, <2>3 DEF ScanFails, Preloaded
  <2> QED BY <2>1, <2>2, <2>3 DEF PreloadSteps
<1>6. FirstOnce' /\ FirstIsNew'
  BY <1>1 DEF OnceInv, FirstOnce, FirstIsNew
<1>7. FirstStored'
  <2> SUFFICES ASSUME NEW h \in Handlers, msg[h].pc \in FirstSteps \ {"store"}
               PROVE  msg[h].sender \in known'[msg[h].inst]
    BY <1>1 DEF FirstStored
  <2>1. msg[h].inst \in Inst
    BY <1>0, BusyHas DEF FirstSteps, Steps
  <2> QED BY <1>2, <2>1 DEF OnceInv, FirstStored
<1>8. NewestKnows'
  <2> SUFFICES ASSUME NEW j \in Inst, j = made, preload'[j].at = "done"
               PROVE  Announced \subseteq known'[j]
    BY <1>1 DEF NewestKnows, Announced
  <2>1. CASE j # i
    BY <1>2, <1>3, <2>1 DEF OnceInv, NewestKnows
  <2>2. CASE j = i
    <3>1. Announced \subseteq due[i] /\ due' = due
      BY <1>4, <2>2 DEF OnceInv, NewestOwes
    <3>2. due'[i] \subseteq known'[i]
      BY <2>2 DEF IInv, WarmCovers
    <3> QED BY <2>2, <3>1, <3>2
  <2> QED BY <2>1, <2>2
<1>9. NewestOwes'
  <2> SUFFICES ASSUME NEW j \in Inst, j = made, preload'[j].at \in {"scan", "warming"}
               PROVE  Announced \subseteq due'[j]
    BY <1>1 DEF NewestOwes, Announced
  <2>1. CASE j # i
    BY <1>3, <2>1 DEF OnceInv, NewestOwes
  <2>2. CASE j = i
    BY <1>5, <2>2 DEF OnceInv, NewestOwes
  <2> QED BY <2>1, <2>2
<1> QED
  BY <1>6, <1>7, <1>8, <1>9 DEF OnceInv

\* Instances come and go, and the process may crash: a new instance knows nobody
\* and has its preload before it.
LEMMA OnceInstance ==
    ASSUME IInv, OnceInv, InstanceStep
    PROVE  OnceInv'
<1>0. TypeOK
  BY DEF IInv
<1>1. CASE Build
  <2>1. /\ made' = made + 1 /\ made \in 0 .. MaxInst
        /\ UNCHANGED <<known, preload, msg, starts, due>>
    BY <1>0, <1>1 DEF Build, TypeOK
  <2>2. \A i \in Inst : i = made' => preload[i].at = "new"
    BY <2>1, MaxInstAssumption DEF IInv, PreloadOwes, Inst
  <2>3. NewestKnows' /\ NewestOwes'
    BY <2>1, <2>2 DEF NewestKnows, NewestOwes
  <2> QED BY <2>1, <2>3 DEF OnceInv, FirstOnce, FirstIsNew, FirstStored
<1>2. CASE Publish \/ Stop
  BY <1>2 DEF Publish, Stop, OnceInv, FirstOnce, NewestKnows, NewestOwes, FirstIsNew,
              FirstStored, Announced
<1>3. CASE Crash
  <2>1. UNCHANGED <<made, known, starts, due>> /\ \A h \in Handlers : msg'[h].pc = "idle"
    BY <1>3 DEF Crash, NoMsg
  <2>2. \A i \in Inst : preload'[i] = preload[i] \/ preload'[i].at = "failed"
    BY <1>3 DEF Crash
  <2> QED BY <2>1, <2>2 DEF OnceInv, FirstOnce, NewestKnows, NewestOwes, FirstIsNew,
                           FirstStored, FirstSteps, Announced
<1> QED
  BY <1>1, <1>2, <1>3 DEF InstanceStep

LEMMA OnceStep == IInv /\ IInv' /\ Calm /\ Calm' /\ OnceInv /\ [Next]_vars => OnceInv'
<1> SUFFICES ASSUME IInv, IInv', Calm, Calm', OnceInv, [Next]_vars PROVE OnceInv'
  OBVIOUS
<1>1. ASSUME NEW s \in Senders, Expire(s) PROVE FALSE
  BY <1>1 DEF Expire, Calm
<1>2. CASE UNCHANGED vars
  BY <1>2 DEF vars, instVars, OnceInv, FirstOnce, NewestKnows, NewestOwes, FirstIsNew,
              FirstStored, Announced
<1> QED
  BY <1>1, <1>2, OnceInstance, OncePreload, OnceNotify, OnceHandle DEF Next

\* "No repeated first interaction after a restart" holds under what the comment
\* takes for granted, with any number of instances, crashes, respondents and
\* handlers: contact_once shows what one message before the end of a preload does.
THEOREM FirstOnceCalm == Spec /\ []Calm => []FirstOnce
<1>1. Init => OnceInv
  <2> SUFFICES ASSUME Init PROVE OnceInv
    OBVIOUS
  <2>1. /\ \A s \in Senders : starts[s] = 0 \/ starts[s] = 1
        /\ made = 0 /\ \A h \in Handlers : msg[h].pc = "idle"
    BY DEF Init, NoMsg
  <2>2. FirstOnce
    <3> SUFFICES ASSUME NEW s \in Senders PROVE starts[s] <= 1
      BY DEF FirstOnce
    <3>1. starts[s] = 0 \/ starts[s] = 1
      BY <2>1
    <3> QED BY ONLY <3>1
  <2>3. NewestKnows /\ NewestOwes
    BY <2>1, MaxInstAssumption DEF NewestKnows, NewestOwes, Inst
  <2>4. FirstIsNew /\ FirstStored
    BY <2>1 DEF FirstIsNew, FirstStored, FirstSteps
  <2> QED BY <2>2, <2>3, <2>4 DEF OnceInv
<1>2. OnceInv => FirstOnce
  BY DEF OnceInv
<1> QED
  BY <1>1, <1>2, OnceStep, Inductive, PTL DEF Spec
=============================================================================
