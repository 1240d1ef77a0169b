-------------------------- MODULE UserChannelsProofs --------------------------
(* Theorems about UserChannels, for any respondents, handlers and instances. *)
EXTENDS UserChannels, SequenceTheorems, TLAPS

\* The elements of a queue that grows or shrinks by one.
LEMMA AppendRange == ASSUME NEW S, NEW s \in Seq(S), NEW e \in S
                     PROVE  /\ Append(s, e) \in Seq(S) /\ Len(Append(s, e)) = Len(s) + 1
                            /\ Range(Append(s, e)) = Range(s) \cup {e}
<1>1. /\ Append(s, e) \in Seq(S) /\ Len(Append(s, e)) = Len(s) + 1 /\ Len(s) \in Nat
      /\ \A i \in 1..Len(s) : Append(s, e)[i] = s[i]
      /\ Append(s, e)[Len(s) + 1] = e
      BY AppendProperties, LenProperties
<1>2. DOMAIN Append(s, e) = 1..(Len(s) + 1) /\ DOMAIN s = 1..Len(s)
      BY <1>1, LenProperties
<1>3. \A i \in 1..(Len(s) + 1) : i \in 1..Len(s) \/ i = Len(s) + 1 BY <1>1
<1>4. QED BY <1>1, <1>2, <1>3 DEF Range

LEMMA TailRange == ASSUME NEW S, NEW s \in Seq(S), s # <<>>
                   PROVE  /\ Tail(s) \in Seq(S) /\ Head(s) \in S
                          /\ Len(Tail(s)) = Len(s) - 1 /\ Len(s) \in Nat
                          /\ Range(s) = {Head(s)} \cup Range(Tail(s))
<1>1. /\ Tail(s) \in Seq(S) /\ Head(s) \in S /\ Len(s) \in Nat \ {0}
      /\ Len(Tail(s)) = Len(s) - 1 /\ Head(s) = s[1]
      /\ \A i \in 1..(Len(s) - 1) : Tail(s)[i] = s[i + 1]
      BY HeadTailProperties, LenProperties, EmptySeq
<1>2. DOMAIN Tail(s) = 1..(Len(s) - 1) /\ DOMAIN s = 1..Len(s) BY <1>1, LenProperties
<1>3. \A i \in 1..Len(s) : i # 1 => i - 1 \in 1..(Len(s) - 1) /\ s[i] = Tail(s)[i - 1]
  <2> SUFFICES ASSUME NEW i \in 1..Len(s), i # 1
               PROVE  i - 1 \in 1..(Len(s) - 1) /\ s[i] = Tail(s)[i - 1]
      OBVIOUS
  <2>1. i - 1 \in 1..(Len(s) - 1) /\ (i - 1) + 1 = i BY <1>1
  <2>2. QED BY <1>1, <2>1
<1>4. \A i \in 1..(Len(s) - 1) : i + 1 \in 1..Len(s) /\ 1 \in 1..Len(s) BY <1>1
<1>5. Range(s) \subseteq {Head(s)} \cup Range(Tail(s))
  <2> SUFFICES ASSUME NEW i \in 1..Len(s)
               PROVE  s[i] = Head(s) \/ s[i] \in Range(Tail(s))
      BY <1>2 DEF Range
  <2>1. i # 1 => i - 1 \in DOMAIN Tail(s) /\ s[i] = Tail(s)[i - 1] BY <1>2, <1>3
  <2>2. QED BY <1>1, <2>1 DEF Range
<1>6. Range(Tail(s)) \subseteq Range(s) BY <1>1, <1>2, <1>4 DEF Range
<1>7. Head(s) \in Range(s) BY <1>1, <1>2 DEF Range
<1>8. QED BY <1>1, <1>5, <1>6, <1>7

-----------------------------------------------------------------------------
(* The types, and what they rest on. *)

\* GetCh finds an open channel of the respondent.
Found == \A r \in Resps : chan[r] # NoCh => chan[r] \in open /\ home[chan[r]] = r

\* The stored instance serves, or waits to be replaced.
Stored == inst # NoBot => stage[inst] \in {"serving", "replaced"}

\* A session has a channel, and an answer in work has a session.
Reached == /\ \A s \in sessions : s.ch \in Chans
           /\ \A a \in thinking : a.by \in sessions

\* A start that is due a session could have one.
Wanted == \A s \in due : Running(s.bot) /\ s.ch \in open

\* The inductive invariant of the channels.
Kept == TypeOK /\ Found /\ Stored /\ Reached /\ Wanted

LEMMA KeptInit == Init => Kept
  BY ChannelsAssumption
  DEF Init, Kept, TypeOK, RouterTypes, SessionTypes, ConnTypes, Stages, Steps, Starts,
      Found, Stored, Reached, Wanted

Same(d) == /\ pc'[d] = pc[d] /\ via'[d] = via[d] /\ bot'[d] = bot[d]
           /\ resp'[d] = resp[d] /\ ch'[d] = ch[d]

\* What the three kinds of step do to the handlers.
LEMMA GotoEffect ==
    ASSUME ConnTypes, NEW c \in Conns, pc[c] # "idle", NEW step \in Steps,
           NEW g \in Chans \cup {NoCh}, step = "open" => g \in Chans,
           Goto(c, step, g), gone' \subseteq gone
    PROVE  /\ ConnTypes' /\ pc'[c] = step /\ ch'[c] = g
           /\ \A d \in Conns \ {c} : Same(d)
  BY DEF ConnTypes, Goto, Same

LEMMA FinishEffect ==
    ASSUME ConnTypes, NEW c \in Conns, Finish(c), gone' \subseteq gone
    PROVE  /\ ConnTypes' /\ pc'[c] = "idle"
           /\ \A d \in Conns \ {c} : Same(d)
  BY DEF ConnTypes, Finish, Same, Steps

LEMMA BeginEffect ==
    ASSUME ConnTypes, NEW c \in Conns, NEW r \in Resps, NEW route \in {"dialog", "events"},
           NEW step \in Steps, NEW g \in Chans \cup {NoCh}, step = "open" => g \in Chans,
           inst \in Bots \cup {NoBot}, Begin(c, r, route, step, g), gone' = gone
    PROVE  /\ ConnTypes' /\ pc[c] = "idle" /\ pc'[c] = step /\ ch'[c] = g
           /\ resp'[c] = r
           /\ \A d \in Conns \ {c} : Same(d)
  BY DEF ConnTypes, Begin, Same, At

\* What GetOrSetRespGPT does to the router.
LEMMA RouterEffect ==
    ASSUME RouterTypes, Found, NEW r \in Resps, GetOrSetRespGPT(r), UNCHANGED instances
    PROVE  /\ RouterTypes' /\ Found' /\ open \subseteq open' /\ chan'[r] \in Chans \cup {NoCh}
           /\ \A q \in Resps : q # r \/ chan[q] # NoCh => chan'[q] = chan[q]
<1>1. CASE UNCHANGED router
      BY <1>1 DEF RouterTypes, Found, router, instances
<1>2. CASE chan[r] = NoCh /\ \E g \in Chans :
              /\ home[g] = NoResp /\ home' = [home EXCEPT ![g] = r]
              /\ chan' = [chan EXCEPT ![r] = g] /\ open' = open \cup {g}
  <2>1. PICK g \in Chans : /\ home[g] = NoResp /\ home' = [home EXCEPT ![g] = r]
                           /\ chan' = [chan EXCEPT ![r] = g] /\ open' = open \cup {g}
        BY <1>2
  <2>2. RouterTypes' BY <2>1 DEF RouterTypes, instances
  <2>3. chan'[r] = g /\ home'[g] = r /\ \A q \in Resps \ {r} : chan'[q] = chan[q]
        BY <2>1 DEF RouterTypes
  <2>4. ASSUME NEW q \in Resps \ {r}, chan[q] # NoCh
        PROVE  chan[q] \in open' /\ home'[chan[q]] = q
    <3>1. chan[q] \in open /\ home[chan[q]] = q BY <2>4 DEF Found
    <3>2. chan[q] # g BY <2>1, <3>1, ChannelsAssumption
    <3>3. QED BY <2>1, <3>1, <3>2 DEF RouterTypes
  <2>5. Found' BY <2>1, <2>3, <2>4 DEF Found
  <2>6. QED BY <1>2, <2>1, <2>2, <2>3, <2>5
<1>3. QED BY <1>1, <1>2 DEF GetOrSetRespGPT

\* A step that leaves the router, the sessions and the history alone.
LEMMA KeptStays ==
    ASSUME Kept, ConnTypes', SessionTypes',
           UNCHANGED <<instances, router, sessions, thinking, history>>
    PROVE  Kept'
  BY DEF Kept, TypeOK, RouterTypes, Found, Stored, Reached, Wanted, Running, instances,
         router, history

LEMMA KeptInstances ==
    ASSUME Kept, CancelOld \/ StopBot \/ \E b \in Bots : Store(b) \/ Kill(b)
    PROVE  Kept'
<1>1. /\ inst \in Bots \cup {NoBot} /\ stage \in [Bots -> Stages]
      /\ due \subseteq Starts /\ excused \subseteq Chans /\ open \subseteq Chans
      BY DEF Kept, TypeOK, RouterTypes, SessionTypes
<1>2. UNCHANGED others BY DEF CancelOld, StopBot, Store, Kill
<1>3. /\ inst' \in Bots \cup {NoBot} /\ stage' \in [Bots -> Stages]
      BY <1>1 DEF CancelOld, StopBot, Store, Kill, Stages
<1>4. /\ due' \subseteq due /\ excused' \subseteq Chans
      BY <1>1 DEF CancelOld, StopBot, Store, Kill, Cancelled, history, Kept, Wanted
<1>5. Wanted'
  <2>1. CASE CancelOld BY <1>1, <1>2, <2>1
        DEF CancelOld, Cancelled, Kept, Wanted, Running, others, router, Starts
  <2>2. CASE StopBot BY <1>1, <1>2, <2>2
        DEF StopBot, history, Kept, Wanted, Stored, Running, others, router, Starts
  <2>3. ASSUME NEW b \in Bots, Store(b) PROVE Wanted'
        BY <1>1, <1>2, <2>3
        DEF Store, history, Kept, Wanted, Running, others, router, Starts
  <2>4. ASSUME NEW b \in Bots, Kill(b) PROVE Wanted'
        BY <1>1, <1>2, <2>4
        DEF Kill, Cancelled, Kept, Wanted, Running, others, router, Starts
  <2>5. QED BY <2>1, <2>2, <2>3, <2>4
<1>6. Stored'
      BY <1>1 DEF CancelOld, StopBot, Store, Kill, Kept, Stored
<1>7. Found' /\ Reached' BY <1>2 DEF Kept, Found, Reached, others, router, talk
<1>8. TypeOK'
      BY <1>1, <1>2, <1>3, <1>4
      DEF Kept, TypeOK, RouterTypes, SessionTypes, ConnTypes, others, router, talk, queues,
          conn, log
<1>9. QED BY <1>5, <1>6, <1>7, <1>8 DEF Kept

LEMMA SendEffect ==
    ASSUME Kept, NEW c \in Conns, Send(c)
    PROVE  /\ \E s \in Starts :
              /\ s.ch = ch[c] /\ s.bot = bot[c]
              /\ startCh' \in Seq(Starts) /\ Len(startCh') <= StartCap
              /\ Range(startCh') = Range(startCh) \cup {s}
              /\ due' = due \cup (IF Running(bot[c]) /\ ch[c] \in open THEN {s} ELSE {})
           /\ excused' = excused \cup (IF Running(bot[c]) THEN {} ELSE {ch[c]} \cap open)
           /\ ConnTypes' /\ pc[c] = "send" /\ pc'[c] # "send"
           /\ \A d \in Conns \ {c} : Same(d)
           /\ UNCHANGED <<instances, router, talk, queues, gone, log>>
<1>1. ConnTypes /\ startCh \in Seq(Starts) /\ Len(startCh) \in Nat
      BY LenProperties DEF Kept, TypeOK, SessionTypes
<1>0. PICK n \in Ids :
         /\ startCh' = Append(startCh, StartOf(c, n)) /\ Len(startCh) < StartCap
         /\ Accepted(StartOf(c, n)) /\ Sent(c) /\ pc[c] = "send"
         /\ UNCHANGED <<instances, router, talk, queues, gone, log>>
      BY DEF Send, At
<1>2. PICK s \in Starts : s = StartOf(c, n) BY <1>0, <1>1 DEF ConnTypes, StartOf, Starts
<1>3. /\ startCh' = Append(startCh, s) /\ Len(startCh) < StartCap
      /\ Accepted(s) /\ Sent(c) /\ pc[c] = "send"
      /\ UNCHANGED <<instances, router, talk, queues, gone, log>>
      BY <1>0, <1>2
<1>4. /\ startCh' \in Seq(Starts) /\ Len(startCh') <= StartCap
      /\ Range(startCh') = Range(startCh) \cup {s}
      BY <1>1, <1>2, <1>3, AppendRange, ChannelsAssumption
<1>5. ConnTypes' /\ pc'[c] # "send" /\ \A d \in Conns \ {c} : Same(d)
  <2>1. CASE Finish(c) BY <1>1, <1>3, <2>1, FinishEffect
  <2>2. CASE Goto(c, "again", NoCh) BY <1>1, <1>3, <2>2, GotoEffect DEF Steps
  <2>3. QED BY <1>3, <2>1, <2>2 DEF Sent
<1>6. s.ch = ch[c] /\ s.bot = bot[c] BY <1>2 DEF StartOf
<1>7. QED BY <1>2, <1>3, <1>4, <1>5, <1>6 DEF Accepted

LEMMA KeptHandler == ASSUME Kept, NEW c \in Conns, Handler(c) PROVE Kept'
<1>1. RouterTypes /\ SessionTypes /\ ConnTypes /\ Found BY DEF Kept, TypeOK
<1>2. CASE Model(c)
  <2>1. resp[c] \in Resps /\ pc[c] # "idle" BY <1>1, <1>2 DEF Model, At, ConnTypes
  <2>2. GetOrSetRespGPT(resp[c]) /\ UNCHANGED <<instances, startCh, talk, queues, gone, log, history>>
        BY <1>2 DEF Model
  <2>3. /\ RouterTypes' /\ Found' /\ open \subseteq open'
        /\ chan'[resp[c]] \in Chans \cup {NoCh}
        BY <1>1, <2>1, <2>2, RouterEffect
  <2>4. ConnTypes' BY <1>1, <1>2, <2>1, <2>3, GotoEffect DEF Model, Steps
  <2>5. SessionTypes' BY <1>1, <2>2 DEF SessionTypes, talk, queues, log, history
  <2>6. Stored' /\ Reached' /\ Wanted'
        BY <2>2, <2>3 DEF Kept, Stored, Reached, Wanted, Running, instances, talk, history
  <2>7. QED BY <2>3, <2>4, <2>5, <2>6 DEF Kept, TypeOK
<1>3. CASE ModelFails(c)
  <2>1. resp[c] \in Resps BY <1>1, <1>3 DEF ModelFails, At, ConnTypes
  <2>2. /\ GetOrSetRespGPT(resp[c]) /\ excused' = excused \cup ({chan'[resp[c]]} \cap open')
        /\ UNCHANGED <<due, instances, startCh, talk, queues, gone, log>>
        BY <1>3 DEF ModelFails
  <2>3. RouterTypes' /\ Found' /\ open \subseteq open'
        BY <1>1, <2>1, <2>2, RouterEffect
  <2>4. ConnTypes' BY <1>1, <1>3, FinishEffect DEF ModelFails
  <2>5. SessionTypes' BY <1>1, <2>2, <2>3 DEF SessionTypes, RouterTypes, talk, queues, log
  <2>6. Stored' /\ Reached' /\ Wanted'
        BY <2>2, <2>3 DEF Kept, Stored, Reached, Wanted, Running, instances, talk
  <2>7. QED BY <2>3, <2>4, <2>5, <2>6 DEF Kept, TypeOK
<1>4. CASE Send(c)
  <2>1. RouterTypes' /\ ConnTypes' /\ Found' /\ Stored' /\ Reached'
        BY <1>4, SendEffect
        DEF Kept, TypeOK, RouterTypes, Found, Stored, Reached, instances, router, talk
  <2>4. PICK t \in Starts :
           /\ t.ch = ch[c] /\ t.bot = bot[c]
           /\ startCh' \in Seq(Starts) /\ Len(startCh') <= StartCap
           /\ due' = due \cup (IF Running(bot[c]) /\ ch[c] \in open THEN {t} ELSE {})
        BY <1>4, SendEffect
  <2>0. /\ excused' = excused \cup (IF Running(bot[c]) THEN {} ELSE {ch[c]} \cap open)
        /\ UNCHANGED <<instances, router, talk, queues, log>>
        BY <1>4, SendEffect
  <2>2. due' \subseteq Starts /\ excused' \subseteq Chans
        BY <1>1, <2>0, <2>4 DEF SessionTypes, RouterTypes
  <2>3. SessionTypes' BY <1>1, <2>0, <2>2, <2>4 DEF SessionTypes, talk, queues, log
  <2>5. ASSUME NEW s \in due' PROVE Running(s.bot)' /\ s.ch \in open'
        BY <2>0, <2>4 DEF Kept, Wanted, Running, instances, router
  <2>6. QED BY <2>1, <2>3, <2>5 DEF Kept, TypeOK, Wanted
<1>5. CASE SendFails(c)
  <2>1. /\ excused' = excused \cup ({ch[c]} \cap open)
        /\ UNCHANGED <<due, instances, router, startCh, talk, queues, gone, log>>
        BY <1>5 DEF SendFails
  <2>2. ConnTypes' BY <1>1, <1>5, <2>1, FinishEffect DEF SendFails
  <2>3. SessionTypes' /\ RouterTypes'
        BY <1>1, <2>1 DEF SessionTypes, RouterTypes, instances, router, talk, queues, log
  <2>4. QED BY <2>1, <2>2, <2>3
            DEF Kept, TypeOK, Found, Stored, Reached, Wanted, Running, instances, router, talk
<1>6. CASE Again(c)
  <2>1. UNCHANGED <<instances, router, startCh, talk, queues, gone, log, history>>
        BY <1>6 DEF Again
  <2>2. pc[c] # "idle" /\ resp[c] \in Resps /\ chan[resp[c]] \in Chans \cup {NoCh}
        BY <1>1, <1>6 DEF Again, At, ConnTypes, RouterTypes
  <2>3. ConnTypes'
    <3>1. CASE Finish(c) BY <1>1, <2>1, <3>1, FinishEffect
    <3>2. CASE Goto(c, "open", chan[resp[c]]) /\ chan[resp[c]] # NoCh
          BY <1>1, <2>1, <2>2, <3>2, GotoEffect DEF Steps
    <3>3. QED BY <1>6, <3>1, <3>2 DEF Again
  <2>4. SessionTypes' BY <1>1, <2>1 DEF SessionTypes, talk, queues, log, history
  <2>5. QED BY <2>1, <2>3, <2>4, KeptStays DEF talk
<1>7. QED BY <1>2, <1>3, <1>4, <1>5, <1>6 DEF Handler

LEMMA KeptRequest ==
    ASSUME Kept, NEW c \in Conns, NEW r \in Resps, ReadDialog(c, r) \/ Connect(c, r)
    PROVE  Kept'
<1>1. RouterTypes /\ SessionTypes /\ ConnTypes BY DEF Kept, TypeOK
<1>2. chan[r] \in Chans \cup {NoCh} /\ inst \in Bots \cup {NoBot} BY <1>1 DEF RouterTypes
<1>3. UNCHANGED <<instances, router, startCh, talk, queues, gone, log, history>>
      BY DEF ReadDialog, Connect
<1>4. ConnTypes'
  <2>1. CASE ReadDialog(c, r)
    <3>1. Begin(c, r, "dialog", "model", NoCh) BY <2>1 DEF ReadDialog
    <3>2. QED BY <1>1, <1>2, <1>3, <3>1, BeginEffect DEF Steps
  <2>2. CASE Connect(c, r)
    <3>1. PICK step \in {"model", "open"} :
             /\ Begin(c, r, "events", step, chan[r])
             /\ step = "open" => chan[r] # NoCh
          BY <2>2 DEF Connect
    <3>2. QED BY <1>1, <1>2, <1>3, <3>1, BeginEffect DEF Steps
  <2>3. QED BY <2>1, <2>2
<1>5. SessionTypes' BY <1>1, <1>3 DEF SessionTypes, talk, queues, log, history
<1>6. QED BY <1>3, <1>4, <1>5, KeptStays DEF talk

\* Starter and the sessions.
LEMMA StarterEffect ==
    ASSUME Kept, Starter
    PROVE  /\ startCh' \in Seq(Starts) /\ Len(startCh') <= StartCap
           /\ \E s \in Starts : /\ sessions' = sessions \cup Begun(s)
                              /\ Range(startCh) = {s} \cup Range(startCh')
           /\ UNCHANGED <<thinking, instances, router, queues, conn, gone, log, history>>
<1>1. startCh \in Seq(Starts) /\ startCh # <<>> /\ Len(startCh) <= StartCap
      BY DEF Kept, TypeOK, SessionTypes, Starter
<1>2. /\ Tail(startCh) \in Seq(Starts) /\ Head(startCh) \in Starts
      /\ Len(Tail(startCh)) <= StartCap
      /\ Range(startCh) = {Head(startCh)} \cup Range(Tail(startCh))
      BY <1>1, TailRange, ChannelsAssumption
<1>3. QED BY <1>2 DEF Starter

LEMMA KeptStarter == ASSUME Kept, Starter PROVE Kept'
<1>1. PICK s \in Starts : sessions' = sessions \cup Begun(s) BY StarterEffect
<1>2. /\ startCh' \in Seq(Starts) /\ Len(startCh') <= StartCap
      /\ UNCHANGED <<thinking, instances, router, queues, conn, gone, log, history>>
      BY StarterEffect
<1>3. Begun(s) \subseteq Starts /\ \A t \in Begun(s) : t.ch \in Chans BY DEF Begun, Starts
<1>4. SessionTypes' BY <1>1, <1>2, <1>3 DEF Kept, TypeOK, SessionTypes, queues, log, history
<1>5. Reached' BY <1>1, <1>2, <1>3 DEF Kept, Reached
<1>6. QED BY <1>2, <1>4, <1>5
          DEF Kept, TypeOK, RouterTypes, ConnTypes, Found, Stored, Wanted, Running,
              instances, router, conn, history

LEMMA KeptSession ==
    ASSUME Kept, NEW s \in sessions, Session(s) \/ SessionFails(s) \/ EndSession(s)
    PROVE  Kept'
<1>1. /\ SessionTypes /\ s \in Starts /\ s.ch \in Chans
      /\ rx \in [Chans -> Seq(Msgs)] /\ tx \in [Chans -> Seq(Msgs)]
      BY DEF Kept, TypeOK, SessionTypes, Reached
<1>2. UNCHANGED <<instances, router, startCh, conn, gone, asked, seen>>
      BY DEF Session, Listen, Reply, AnswerFails, SessionFails, EndSession, log
<1>0. due' \subseteq due
      BY DEF Session, Listen, Reply, AnswerFails, SessionFails, EndSession, history
<1>3. SessionTypes' /\ Reached'
  <2>1. CASE Listen(s)
    <3>1. Tail(rx[s.ch]) \in Seq(Msgs) /\ Head(rx[s.ch]) \in Msgs
          BY <1>1, <2>1, TailRange DEF Listen
    <3>2. [by |-> s, msg |-> Head(rx[s.ch])] \in [by : Starts, msg : Msgs]
          BY <1>1, <3>1
    <3>3. /\ rx' \in [Chans -> Seq(Msgs)]
          /\ thinking' = thinking \cup {[by |-> s, msg |-> Head(rx[s.ch])]}
          /\ UNCHANGED <<sessions, tx>>
          BY <1>1, <2>1, <3>1 DEF Listen
    <3>6. UNCHANGED <<log, history>> BY <2>1 DEF Listen
    <3>4. SessionTypes' BY <1>1, <1>2, <3>2, <3>3, <3>6 DEF SessionTypes, log, history
    <3>5. QED BY <3>3, <3>4 DEF Kept, Reached
  <2>2. ASSUME NEW a \in thinking, a.by = s, Reply(a) PROVE SessionTypes' /\ Reached'
    <3>1. a.msg \in Msgs /\ thinking' = thinking \ {a} /\ UNCHANGED <<sessions, rx>>
          BY <1>1, <2>2 DEF SessionTypes, Reply
    <3>2. Append(tx[s.ch], a.msg) \in Seq(Msgs) BY <1>1, <3>1, AppendRange
    <3>3. tx' = [tx EXCEPT ![s.ch] = Append(tx[s.ch], a.msg)] BY <2>2 DEF Reply
    <3>4. tx' \in [Chans -> Seq(Msgs)] BY <1>1, <3>2, <3>3
    <3>7. UNCHANGED <<log, history>> BY <2>2 DEF Reply
    <3>5. SessionTypes' BY <1>1, <1>2, <3>1, <3>4, <3>7 DEF SessionTypes, log, history
    <3>6. QED BY <3>1, <3>5 DEF Kept, Reached
  <2>5. ASSUME NEW a \in thinking, AnswerFails(a) PROVE SessionTypes' /\ Reached'
        BY <1>1, <1>2, <2>5 DEF AnswerFails, Kept, SessionTypes, Reached, queues, history
  <2>6. CASE SessionFails(s)
    <3>1. excused' \subseteq Chans /\ failed' \subseteq Msgs
          BY <1>1, <2>6 DEF SessionFails, SessionTypes
    <3>2. QED BY <1>0, <1>1, <1>2, <2>6, <3>1
              DEF SessionFails, Kept, SessionTypes, Reached, queues
  <2>3. CASE EndSession(s)
        BY <1>1, <1>2, <2>3 DEF EndSession, Kept, SessionTypes, Reached, queues, log, history
  <2>4. QED BY <2>1, <2>2, <2>3, <2>5, <2>6 DEF Session
<1>4. QED BY <1>0, <1>2, <1>3
          DEF Kept, TypeOK, RouterTypes, ConnTypes, Found, Stored, Wanted, Running,
              instances, router, conn

\* A message is accepted, or an answer taken.
LEMMA KeptMessage ==
    ASSUME Kept, \/ \E r \in Resps, m \in Msgs : PostMessage(r, m)
                 \/ \E c \in Conns : Take(c)
    PROVE  Kept'
<1>1. SessionTypes /\ RouterTypes /\ ConnTypes BY DEF Kept, TypeOK
<1>2. UNCHANGED <<instances, router, startCh, talk, conn, gone, history>>
      BY DEF PostMessage, Take
<1>3. SessionTypes'
  <2>1. ASSUME NEW r \in Resps, NEW m \in Msgs, PostMessage(r, m) PROVE SessionTypes'
    <3>1. chan[r] \in Chans /\ rx[chan[r]] \in Seq(Msgs)
          BY <1>1, <2>1 DEF PostMessage, RouterTypes, SessionTypes
    <3>2. Append(rx[chan[r]], m) \in Seq(Msgs) BY <3>1, AppendRange
    <3>3. rx' = [rx EXCEPT ![chan[r]] = Append(rx[chan[r]], m)]
          BY <2>1 DEF PostMessage
    <3>4. rx' \in [Chans -> Seq(Msgs)] BY <1>1, <3>1, <3>2, <3>3 DEF SessionTypes
    <3>5. asked' \in [Resps -> SUBSET Msgs] BY <1>1, <2>1 DEF PostMessage, SessionTypes
    <3>6. QED BY <1>1, <1>2, <2>1, <3>4, <3>5 DEF PostMessage, SessionTypes, talk, history
  <2>2. ASSUME NEW c \in Conns, Take(c) PROVE SessionTypes'
    <3>1. ch[c] \in Chans /\ resp[c] \in Resps /\ tx[ch[c]] \in Seq(Msgs)
          BY <1>1, <2>2 DEF Take, At, ConnTypes, SessionTypes
    <3>2. Tail(tx[ch[c]]) \in Seq(Msgs) /\ Head(tx[ch[c]]) \in Msgs
          BY <2>2, <3>1, TailRange DEF Take
    <3>3. tx' \in [Chans -> Seq(Msgs)]
          BY <1>1, <2>2, <3>1, <3>2 DEF Take, SessionTypes
    <3>4. seen' \in [Resps -> Seq(Msgs)]
      <4>1. seen[resp[c]] \in Seq(Msgs) BY <1>1, <3>1 DEF SessionTypes
      <4>2. Append(seen[resp[c]], Head(tx[ch[c]])) \in Seq(Msgs) BY <3>2, <4>1, AppendRange
      <4>3. seen' = seen \/ seen' = [seen EXCEPT ![resp[c]] = Append(seen[resp[c]], Head(tx[ch[c]]))]
            BY <2>2 DEF Take, Written
      <4>4. QED BY <1>1, <3>1, <4>2, <4>3 DEF SessionTypes
    <3>5. QED BY <1>1, <1>2, <2>2, <3>3, <3>4 DEF Take, SessionTypes, talk, history
  <2>3. QED BY <2>1, <2>2
<1>4. ConnTypes' BY <1>1, <1>2 DEF ConnTypes, conn
<1>5. QED BY <1>2, <1>3, <1>4, KeptStays DEF talk

LEMMA KeptStream ==
    ASSUME Kept, NEW c \in Conns, ClientGone(c) \/ Leave(c)
    PROVE  Kept'
<1>1. SessionTypes /\ ConnTypes BY DEF Kept, TypeOK
<1>2. UNCHANGED <<instances, router, startCh, talk, queues, log, history>>
      BY DEF ClientGone, Leave
<1>3. ConnTypes'
  <2>1. CASE ClientGone(c) BY <1>1, <2>1 DEF ClientGone, ConnTypes, conn
  <2>2. CASE Leave(c) BY <1>1, <2>2, FinishEffect DEF Leave
  <2>3. QED BY <2>1, <2>2
<1>4. SessionTypes' BY <1>1, <1>2 DEF SessionTypes, talk, queues, log, history
<1>5. QED BY <1>2, <1>3, <1>4, KeptStays DEF talk

LEMMA KeptClean == ASSUME Kept, NEW r \in Resps, Clean(r) PROVE Kept'
<1>1. RouterTypes /\ SessionTypes /\ ConnTypes BY DEF Kept, TypeOK
<1>2. /\ chan[r] # NoCh /\ open' = open \ {chan[r]} /\ chan' = [chan EXCEPT ![r] = NoCh]
      /\ due' = {s \in due : s.ch # chan[r]} /\ excused' = excused \ {chan[r]}
      /\ UNCHANGED <<home, instances, startCh, talk, queues, conn, gone, log>>
      BY DEF Clean
<1>3. RouterTypes' BY <1>1, <1>2 DEF RouterTypes, instances
<1>4. SessionTypes' /\ ConnTypes'
      BY <1>1, <1>2 DEF SessionTypes, ConnTypes, talk, queues, conn, log
<1>5. Found'
  <2>1. ASSUME NEW q \in Resps \ {r}, chan[q] # NoCh
        PROVE  chan[q] \in open' /\ home'[chan[q]] = q
        BY <1>2, <2>1 DEF Kept, Found
  <2>2. QED BY <1>1, <1>2, <2>1 DEF RouterTypes, Found
<1>6. Stored' /\ Reached' /\ Wanted'
      BY <1>2 DEF Kept, Stored, Reached, Wanted, Running, instances, talk
<1>7. QED BY <1>3, <1>4, <1>5, <1>6 DEF Kept, TypeOK

LEMMA KeptStep == Kept /\ [Next]_vars => Kept'
<1> SUFFICES ASSUME Kept, [Next]_vars PROVE Kept'
    OBVIOUS
<1>1. CASE UNCHANGED vars
  <2>1. SessionTypes' /\ ConnTypes'
        BY <1>1 DEF vars, Kept, TypeOK, SessionTypes, ConnTypes, talk, queues, conn, log, history
  <2>2. QED BY <1>1, <2>1, KeptStays DEF vars, talk
<1>2. QED BY <1>1, KeptInstances, KeptHandler, KeptRequest, KeptStarter, KeptSession,
             KeptMessage, KeptStream, KeptClean
          DEF Next

\* The router, the queues, the sessions and the handlers keep their types, and
\* StartCh its capacity.
THEOREM TypeCorrect == Spec => []TypeOK
<1>1. Kept => TypeOK BY DEF Kept
<1>2. QED BY <1>1, KeptInit, KeptStep, PTL DEF Spec

-----------------------------------------------------------------------------
(* Starts. *)

LEMMA StartsServedStep == Kept /\ StartsServed /\ [Next]_vars => StartsServed'
<1> SUFFICES ASSUME Kept, StartsServed, [Next]_vars PROVE StartsServed'
    OBVIOUS
<1>1. CASE UNCHANGED <<startCh, sessions>> /\ due' \subseteq due
      BY <1>1 DEF StartsServed
<1>2. ASSUME NEW c \in Conns, Send(c) PROVE StartsServed'
  <2>1. sessions' = sessions BY <1>2 DEF Send, talk
  <2>2. PICK s \in Starts :
           /\ Range(startCh') = Range(startCh) \cup {s}
           /\ due' = due \cup (IF Running(bot[c]) /\ ch[c] \in open THEN {s} ELSE {})
        BY <1>2, SendEffect
  <2>3. QED BY <2>1, <2>2 DEF StartsServed
<1>3. CASE Starter
  <2>1. PICK s \in Starts : /\ sessions' = sessions \cup Begun(s)
                            /\ Range(startCh) = {s} \cup Range(startCh')
        BY <1>3, StarterEffect
  <2>2. due' = due BY <1>3 DEF Starter, history
  <2>3. s \in due => s \in Begun(s)
        BY ChannelsAssumption DEF Begun, Kept, TypeOK, RouterTypes, Wanted
  <2>4. QED BY <2>1, <2>2, <2>3 DEF StartsServed
<1>4. ASSUME NEW s \in sessions, EndSession(s) PROVE StartsServed'
  <2>1. s \notin due BY <1>4 DEF EndSession, Kept, Wanted
  <2>2. sessions' = sessions \ {s} /\ UNCHANGED <<startCh, due>>
        BY <1>4 DEF EndSession, history
  <2>3. QED BY <2>1, <2>2 DEF StartsServed
<1>10. ASSUME NEW s \in sessions, SessionFails(s) PROVE StartsServed'
       BY <1>10 DEF SessionFails, StartsServed
<1>5. CASE CancelOld \/ StopBot \/ \E b \in Bots : Store(b) \/ Kill(b)
      BY <1>1, <1>5 DEF CancelOld, StopBot, Store, Kill, Cancelled, others, history, talk
<1>6. ASSUME NEW c \in Conns,
             \/ Model(c) \/ ModelFails(c) \/ SendFails(c) \/ Again(c)
             \/ Take(c) \/ ClientGone(c) \/ Leave(c)
             \/ \E r \in Resps : ReadDialog(c, r) \/ Connect(c, r)
      PROVE  StartsServed'
      BY <1>1, <1>6
      DEF Model, ModelFails, SendFails, Again, Take, ClientGone, Leave, ReadDialog, Connect,
          history, talk
<1>7. CASE \/ \E r \in Resps, m \in Msgs : PostMessage(r, m)
           \/ \E r \in Resps : Clean(r)
           \/ \E s \in sessions : Session(s)
      BY <1>1, <1>7 DEF PostMessage, Clean, Session, Listen, Reply, AnswerFails,
                       history, talk
<1>8. CASE UNCHANGED vars BY <1>1, <1>8 DEF vars, history, talk
<1>9. QED BY <1>2, <1>3, <1>4, <1>5, <1>6, <1>7, <1>8, <1>10 DEF Next, Handler

\* A start that StartCh took is in the queue or a session as long as its
\* instance runs, its channel is open and its session has not failed.
THEOREM NoStartLost == Spec => []StartsServed
<1>1. Init => StartsServed BY DEF Init, StartsServed
<1>2. QED BY <1>1, KeptInit, KeptStep, StartsServedStep, PTL DEF Spec

-----------------------------------------------------------------------------
(* Channels without a session. *)

\* SilentExplained, of the channel of one respondent.
Explained(r) == chan[r] # NoCh => \/ \E s \in due : s.ch = chan[r]
                                  \/ chan[r] \in excused
                                  \/ \E c \in Conns : At(c, "send") /\ ch[c] = chan[r]

\* The handlers that send go on sending, and nothing else is taken away.
LEMMA ExplainedStays ==
    ASSUME NEW r \in Resps, Explained(r), chan'[r] = chan[r],
           due \subseteq due', excused \subseteq excused',
           \A c \in Conns : At(c, "send") => At(c, "send")' /\ ch'[c] = ch[c]
    PROVE  Explained(r)'
  BY DEF Explained, At

LEMMA ExplainedHandler ==
    ASSUME Kept, \A r \in Resps : Explained(r), NEW c \in Conns, Handler(c), NEW r \in Resps
    PROVE  Explained(r)'
<1>1. RouterTypes /\ SessionTypes /\ ConnTypes /\ Found BY DEF Kept, TypeOK
<1>2. ASSUME Model(c) \/ ModelFails(c)
      PROVE  Explained(r)'
  <2>1. resp[c] \in Resps /\ pc[c] = "model"
        BY <1>1, <1>2 DEF Model, ModelFails, At, ConnTypes
  <2>2. GetOrSetRespGPT(resp[c]) /\ UNCHANGED instances BY <1>2 DEF Model, ModelFails
  <2>3. /\ RouterTypes' /\ Found' /\ open \subseteq open'
        /\ chan'[resp[c]] \in Chans \cup {NoCh}
        /\ \A q \in Resps : q # resp[c] \/ chan[q] # NoCh => chan'[q] = chan[q]
        BY <1>1, <2>1, <2>2, RouterEffect
  <2>4. \A d \in Conns \ {c} : Same(d)
    <3>1. CASE Goto(c, "send", chan'[resp[c]]) /\ UNCHANGED gone
          BY <1>1, <2>1, <2>3, <3>1, GotoEffect DEF Steps
    <3>2. CASE Finish(c) /\ UNCHANGED gone BY <1>1, <3>2, FinishEffect
    <3>3. QED BY <1>2, <3>1, <3>2 DEF Model, ModelFails
  <2>5. \A d \in Conns : At(d, "send") => At(d, "send")' /\ ch'[d] = ch[d]
        BY <2>1, <2>4 DEF At, Same
  <2>6. CASE r # resp[c]
        BY <1>2, <2>3, <2>5, <2>6, ExplainedStays DEF Model, ModelFails, history
  <2>7. CASE r = resp[c] /\ Model(c)
        BY <1>1, <2>3, <2>7 DEF Model, Goto, ConnTypes, At, Explained
  <2>8. CASE r = resp[c] /\ ModelFails(c)
        BY <2>3, <2>8 DEF ModelFails, Found, Explained
  <2>9. QED BY <1>2, <2>6, <2>7, <2>8
<1>3. CASE Send(c)
  <2>2. PICK s \in Starts :
           /\ s.ch = ch[c]
           /\ due' = due \cup (IF Running(bot[c]) /\ ch[c] \in open THEN {s} ELSE {})
        BY <1>3, SendEffect
  <2>1. /\ excused' = excused \cup (IF Running(bot[c]) THEN {} ELSE {ch[c]} \cap open)
        /\ \A d \in Conns \ {c} : Same(d)
        /\ UNCHANGED chan
        BY <1>3, SendEffect DEF router
  <2>3. chan[r] # NoCh => chan[r] \in open BY <1>1 DEF Found
  <2>4. CASE ch[c] = chan[r] BY <2>1, <2>2, <2>3, <2>4 DEF Explained
  <2>5. CASE ch[c] # chan[r] BY <2>1, <2>2, <2>5 DEF Explained, At, Same
  <2>6. QED BY <2>4, <2>5
<1>4. CASE SendFails(c)
  <2>1. /\ excused' = excused \cup ({ch[c]} \cap open) /\ UNCHANGED <<due, chan, gone>>
        /\ Finish(c)
        BY <1>4 DEF SendFails, router
  <2>2. \A d \in Conns \ {c} : Same(d) BY <1>1, <2>1, FinishEffect
  <2>3. chan[r] # NoCh => chan[r] \in open BY <1>1 DEF Found
  <2>4. CASE ch[c] = chan[r] BY <2>1, <2>3, <2>4 DEF Explained
  <2>5. CASE ch[c] # chan[r] BY <2>1, <2>2, <2>5 DEF Explained, At, Same
  <2>6. QED BY <2>4, <2>5
<1>5. CASE Again(c)
  <2>1. pc[c] = "again" /\ chan[resp[c]] \in Chans \cup {NoCh}
        BY <1>1, <1>5 DEF Again, At, ConnTypes, RouterTypes
  <2>2. \A d \in Conns \ {c} : Same(d)
    <3>1. CASE Finish(c) /\ UNCHANGED gone BY <1>1, <3>1, FinishEffect
    <3>2. CASE Goto(c, "open", chan[resp[c]]) /\ chan[resp[c]] # NoCh /\ UNCHANGED gone
          BY <1>1, <2>1, <3>2, GotoEffect DEF Steps
    <3>3. QED BY <1>5, <3>1, <3>2 DEF Again
  <2>3. \A d \in Conns : At(d, "send") => At(d, "send")' /\ ch'[d] = ch[d]
        BY <2>1, <2>2 DEF At, Same
  <2>4. QED BY <1>5, <2>3, ExplainedStays DEF Again, router, history
<1>6. QED BY <1>2, <1>3, <1>4, <1>5 DEF Handler

LEMMA ExplainedStream ==
    ASSUME Kept, NEW r \in Resps, Explained(r), NEW c \in Conns,
           \/ Take(c) \/ ClientGone(c) \/ Leave(c)
           \/ \E q \in Resps : ReadDialog(c, q) \/ Connect(c, q)
    PROVE  Explained(r)'
<1>1. RouterTypes /\ ConnTypes BY DEF Kept, TypeOK
<1>2. UNCHANGED <<chan, history>>
      BY DEF Take, ClientGone, Leave, ReadDialog, Connect, router
<1>3. \A d \in Conns : At(d, "send") => At(d, "send")' /\ ch'[d] = ch[d]
  <2>1. CASE Take(c) \/ ClientGone(c) BY <2>1 DEF Take, ClientGone, conn, At
  <2>2. CASE Leave(c)
    <3>1. pc[c] = "open" /\ \A d \in Conns \ {c} : Same(d)
          BY <1>1, <2>2, FinishEffect DEF Leave, At
    <3>2. QED BY <3>1 DEF At, Same
  <2>3. ASSUME NEW q \in Resps, ReadDialog(c, q) \/ Connect(c, q)
        PROVE  \A d \in Conns : At(d, "send") => At(d, "send")' /\ ch'[d] = ch[d]
    <3>1. PICK route \in {"dialog", "events"}, step \in {"model", "open"} :
             Begin(c, q, route, step, ch'[c])
      <4>1. CASE ReadDialog(c, q) BY <1>1, <4>1 DEF ReadDialog, Begin, ConnTypes
      <4>2. CASE Connect(c, q) BY <1>1, <4>2 DEF Connect, Begin, ConnTypes
      <4>3. QED BY <2>3, <4>1, <4>2
    <3>2. QED BY <1>1, <3>1 DEF Begin, At, ConnTypes
  <2>4. QED BY <2>1, <2>2, <2>3
<1>4. QED BY <1>2, <1>3, ExplainedStays DEF history

LEMMA ExplainedClean ==
    ASSUME Kept, \A r \in Resps : Explained(r), NEW q \in Resps, Clean(q), NEW r \in Resps
    PROVE  Explained(r)'
<1>1. /\ chan' = [chan EXCEPT ![q] = NoCh]
      /\ due' = {s \in due : s.ch # chan[q]} /\ excused' = excused \ {chan[q]}
      /\ UNCHANGED <<pc, ch>> /\ chan[q] # NoCh
      BY DEF Clean, conn
<1>2. chan \in [Resps -> Chans \cup {NoCh}] BY DEF Kept, TypeOK, RouterTypes
<1>3. CASE r = q BY <1>1, <1>2, <1>3 DEF Explained
<1>4. CASE r # q
  <2>1. chan'[r] = chan[r] BY <1>1, <1>2, <1>4
  <2>2. chan[r] # NoCh => chan[r] # chan[q] BY <1>1, <1>4 DEF Kept, Found
  <2>3. QED BY <1>1, <2>1, <2>2 DEF Explained, At
<1>5. QED BY <1>3, <1>4

LEMMA ExplainedStep ==
    Kept /\ SilentExplained /\ [Next]_vars => SilentExplained'
<1> SUFFICES ASSUME Kept, \A r \in Resps : Explained(r), [Next]_vars, NEW r \in Resps
             PROVE  Explained(r)'
    BY DEF SilentExplained, Explained
<1>1. CASE UNCHANGED <<chan, history, conn>>
      BY <1>1, ExplainedStays DEF history, conn, At
<1>2. CASE CancelOld \/ StopBot \/ \E b \in Bots : Store(b) \/ Kill(b)
  <2>1. UNCHANGED <<chan, pc, ch>>
        BY <1>2 DEF CancelOld, StopBot, Store, Kill, others, router, conn
  <2>2. CASE UNCHANGED history BY <1>1, <1>2, <2>2
        DEF CancelOld, StopBot, Store, Kill, others, router
  <2>3. ASSUME NEW b, Cancelled(b) PROVE Explained(r)'
    <3>1. \A s \in due : s \in due' \/ s.ch \in excused' BY <2>3 DEF Cancelled
    <3>2. excused \subseteq excused' BY <2>3 DEF Cancelled
    <3>3. QED BY <2>1, <3>1, <3>2 DEF Explained, At
  <2>4. QED BY <1>2, <2>2, <2>3 DEF CancelOld, StopBot, Store, Kill
<1>3. CASE \/ \E q \in Resps, m \in Msgs : PostMessage(q, m)
           \/ Starter
           \/ \E s \in sessions : Session(s) \/ EndSession(s)
      BY <1>1, <1>3 DEF PostMessage, Starter, Session, Listen, Reply, AnswerFails, EndSession,
                        router
<1>6. ASSUME NEW s \in sessions, SessionFails(s) PROVE Explained(r)'
  <2>1. /\ due' = due \ {s} /\ excused' = excused \cup ({s.ch} \cap open)
        /\ UNCHANGED <<chan, pc, ch>>
        BY <1>6 DEF SessionFails, router, conn
  <2>2. chan[r] # NoCh => chan[r] \in open BY DEF Kept, Found
  <2>3. QED BY <2>1, <2>2 DEF Explained, At
<1>4. CASE UNCHANGED vars BY <1>1, <1>4 DEF vars, router
<1>5. QED BY <1>2, <1>3, <1>4, <1>6, ExplainedHandler, ExplainedStream, ExplainedClean DEF Next

\* A channel that GetCh finds has a session or one coming, unless its instance
\* was cancelled, a client was told of an error, or one was logged.
THEOREM SilencesExplained == Spec => []SilentExplained
<1>1. Init => SilentExplained BY DEF Init, SilentExplained
<1>2. QED BY <1>1, KeptInit, KeptStep, ExplainedStep, PTL DEF Spec

-----------------------------------------------------------------------------
(* Messages: a queue gets one, or gives one.                               *)

\* No element of a sequence stands in it twice.
Single(s) == \A i, j \in DOMAIN s : s[i] = s[j] => i = j

\* The queues q become p: m is put at the end of that of g; or taken from its head.
Put(q, p, g, m) ==
    /\ Range(p[g]) = Range(q[g]) \cup {m}
    /\ Single(q[g]) /\ m \notin Range(q[g]) => Single(p[g])
    /\ \A h \in Chans \ {g} : p[h] = q[h]

Got(q, p, g, m) ==
    /\ Range(q[g]) = {m} \cup Range(p[g])
    /\ Single(q[g]) => Single(p[g]) /\ m \notin Range(p[g])
    /\ \A h \in Chans \ {g} : p[h] = q[h]

LEMMA PutEffect ==
    ASSUME NEW q \in [Chans -> Seq(Msgs)], NEW g \in Chans, NEW m \in Msgs
    PROVE  Put(q, [q EXCEPT ![g] = Append(q[g], m)], g, m)
<1> DEFINE s == q[g]
           t == Append(s, m)
<1>1. /\ s \in Seq(Msgs) /\ Len(s) \in Nat /\ Range(t) = Range(s) \cup {m}
      BY AppendRange, LenProperties
<1>2. /\ DOMAIN t = 1..(Len(s) + 1) /\ DOMAIN s = 1..Len(s)
      /\ \A i \in 1..Len(s) : t[i] = s[i]
      /\ t[Len(s) + 1] = m
      BY <1>1, AppendProperties, LenProperties
<1>3. ASSUME Single(s), m \notin Range(s), NEW i \in DOMAIN t, NEW j \in DOMAIN t, t[i] = t[j]
      PROVE  i = j
  <2>1. \A k \in 1..Len(s) : t[k] = s[k] /\ t[k] # m BY <1>2, <1>3 DEF Range
  <2>2. i \in 1..Len(s) \/ i = Len(s) + 1 BY <1>1, <1>2
  <2>3. j \in 1..Len(s) \/ j = Len(s) + 1 BY <1>1, <1>2
  <2>4. QED BY <1>2, <1>3, <2>1, <2>2, <2>3 DEF Single
<1>4. Single(s) /\ m \notin Range(s) => Single(t) BY <1>3 DEF Single
<1> HIDE DEF s, t
<1>5. QED BY <1>1, <1>4 DEF Put, s, t

LEMMA GotEffect ==
    ASSUME NEW q \in [Chans -> Seq(Msgs)], NEW g \in Chans, q[g] # <<>>
    PROVE  Got(q, [q EXCEPT ![g] = Tail(q[g])], g, Head(q[g]))
<1> DEFINE s == q[g]
           t == Tail(s)
<1>1. s \in Seq(Msgs) /\ Range(s) = {Head(s)} \cup Range(t) BY TailRange
<1>2. /\ Len(s) \in Nat \ {0} /\ Head(s) = s[1]
      /\ DOMAIN t = 1..(Len(s) - 1) /\ DOMAIN s = 1..Len(s)
      /\ \A i \in 1..(Len(s) - 1) : t[i] = s[i + 1]
      BY <1>1, HeadTailProperties, LenProperties, EmptySeq
<1>3. \A i \in DOMAIN t : i + 1 \in DOMAIN s /\ i + 1 # 1 /\ 1 \in DOMAIN s /\ i \in Nat
      BY <1>2
<1>4. ASSUME Single(s) PROVE Single(t) /\ Head(s) \notin Range(t)
  <2>1. ASSUME NEW i \in DOMAIN t, NEW j \in DOMAIN t, t[i] = t[j] PROVE i = j
    <3>1. i + 1 = j + 1 BY <1>2, <1>3, <1>4, <2>1 DEF Single
    <3>2. QED BY <1>3, <3>1
  <2>2. ASSUME NEW i \in DOMAIN t PROVE t[i] # Head(s)
        BY <1>2, <1>3, <1>4 DEF Single
  <2>3. QED BY <2>1, <2>2 DEF Single, Range
<1> HIDE DEF s, t
<1>5. QED BY <1>1, <1>4 DEF Got, s, t

\* A stream reads a channel of its respondent.
Own == \A c \in Conns : At(c, "open") => home[ch[c]] = resp[c]

\* A message that is anywhere was accepted.
Accept(m) == \E r \in Resps : m \in asked[r]
Known == /\ \A g \in Chans : \A m \in Range(rx[g]) \cup Range(tx[g]) : Accept(m)
         /\ \A a \in thinking : Accept(a.msg)

\* It is in one place: in one queue, once, or one session answers it.
Apart(q, other) ==
    /\ \A g \in Chans : Single(q[g])
    /\ \A g, h \in Chans : Range(q[g]) \cap Range(other[h]) = {}
    /\ \A g, h \in Chans : g # h => Range(q[g]) \cap Range(q[h]) = {}
Queued == Apart(rx, tx) /\ Apart(tx, rx)
Answered == /\ \A a \in thinking : \A g \in Chans :
                   a.msg \notin Range(rx[g]) /\ a.msg \notin Range(tx[g])
            /\ \A a, b \in thinking : a.msg = b.msg => a = b

\* A channel that nobody has had yet is empty.
Housed == \A g \in Chans : home[g] = NoResp =>
              /\ Range(rx[g]) = {} /\ Range(tx[g]) = {}
              /\ \A a \in thinking : a.by.ch # g

\* The inductive invariant of the messages.
Traced == Kept /\ Own /\ Known /\ Queued /\ Answered /\ Housed

LEMMA PostEffect ==
    ASSUME Kept, NEW r \in Resps, NEW m \in Msgs, PostMessage(r, m)
    PROVE  /\ chan[r] \in Chans /\ home[chan[r]] = r /\ Put(rx, rx', chan[r], m)
           /\ ~Accept(m) /\ asked' = [asked EXCEPT ![r] = asked[r] \cup {m}]
           /\ UNCHANGED <<seen, tx, thinking, home, conn, gone>>
<1>1. chan[r] \in Chans /\ home[chan[r]] = r /\ rx \in [Chans -> Seq(Msgs)]
      BY DEF PostMessage, Kept, TypeOK, RouterTypes, SessionTypes, Found
<1>2. /\ rx' = [rx EXCEPT ![chan[r]] = Append(rx[chan[r]], m)]
      /\ \A q \in Resps : m \notin asked[q]
      /\ asked' = [asked EXCEPT ![r] = asked[r] \cup {m}]
      /\ UNCHANGED <<seen, tx, thinking, home, conn, gone>>
      BY DEF PostMessage, router, talk
<1>3. QED BY <1>1, <1>2, PutEffect DEF Accept

LEMMA ListenEffect ==
    ASSUME Kept, NEW s \in sessions, Listen(s)
    PROVE  \E m \in Msgs : /\ s.ch \in Chans /\ Got(rx, rx', s.ch, m)
                         /\ thinking' = thinking \cup {[by |-> s, msg |-> m]}
                         /\ UNCHANGED <<asked, seen, tx, home, conn, gone>>
<1>1. s.ch \in Chans /\ rx \in [Chans -> Seq(Msgs)] /\ rx[s.ch] # <<>>
      BY DEF Listen, Kept, TypeOK, SessionTypes, Reached
<1>2. Head(rx[s.ch]) \in Msgs BY <1>1, TailRange
<1>3. Got(rx, rx', s.ch, Head(rx[s.ch])) BY <1>1, GotEffect DEF Listen
<1>4. QED BY <1>1, <1>2, <1>3 DEF Listen, log, router

LEMMA ReplyEffect ==
    ASSUME Kept, NEW a \in thinking, Reply(a)
    PROVE  /\ a.by.ch \in Chans /\ a.msg \in Msgs /\ Put(tx, tx', a.by.ch, a.msg)
           /\ thinking' = thinking \ {a}
           /\ UNCHANGED <<asked, seen, rx, home, conn, gone>>
<1>1. a.by.ch \in Chans /\ a.msg \in Msgs /\ tx \in [Chans -> Seq(Msgs)]
      BY DEF Kept, TypeOK, SessionTypes, Reached
<1>2. tx' = [tx EXCEPT ![a.by.ch] = Append(tx[a.by.ch], a.msg)] BY DEF Reply
<1>3. QED BY <1>1, <1>2, PutEffect DEF Reply, log, router

\* The message goes to the client of the stream c, unless it has left.
Read(c, m) ==
    /\ At(c, "open") /\ ch[c] \in Chans /\ resp[c] \in Resps
    /\ Got(tx, tx', ch[c], m)
    /\ c \in gone => seen' = seen
    /\ c \notin gone => seen' = [seen EXCEPT ![resp[c]] = Append(seen[resp[c]], m)]
    /\ UNCHANGED <<asked, thinking, rx, home, conn, gone>>

LEMMA TakeEffect == ASSUME Kept, NEW c \in Conns, Take(c) PROVE \E m \in Msgs : Read(c, m)
<1>1. /\ At(c, "open") /\ ch[c] \in Chans /\ resp[c] \in Resps
      /\ tx \in [Chans -> Seq(Msgs)] /\ tx[ch[c]] # <<>>
      BY DEF Take, Kept, TypeOK, SessionTypes, ConnTypes, At
<1>2. Head(tx[ch[c]]) \in Msgs BY <1>1, TailRange
<1>3. Got(tx, tx', ch[c], Head(tx[ch[c]])) BY <1>1, GotEffect DEF Take
<1>4. PICK m \in Msgs : m = Head(tx[ch[c]]) BY <1>2
<1>5. Written(c, m) /\ UNCHANGED <<asked, rx, router, talk, conn, gone>>
      BY <1>4 DEF Take
<1>6. /\ c \in gone => seen' = seen
      /\ c \notin gone => seen' = [seen EXCEPT ![resp[c]] = Append(seen[resp[c]], m)]
      BY <1>5 DEF Written
<1>7. Got(tx, tx', ch[c], m) BY <1>3, <1>4
<1>8. UNCHANGED <<asked, thinking, rx, home, conn, gone>> BY <1>5 DEF router, talk
<1>9. QED BY <1>1, <1>6, <1>7, <1>8 DEF Read

\* The actions that move a message.
Moves == \/ \E r \in Resps, m \in Msgs : PostMessage(r, m)
         \/ \E s \in sessions : Listen(s)
         \/ \E a \in thinking : Reply(a)
         \/ \E c \in Conns : Take(c)

\* What the others leave as it was.
LEMMA OthersEffect ==
    ASSUME Kept, [Next]_vars, ~Moves
    PROVE  /\ UNCHANGED <<rx, tx, asked, seen>>
           /\ thinking' \subseteq thinking
           /\ \A a \in thinking \ thinking' :
                 ~Running(a.by.bot) \/ a.by.ch \notin open \/ a.msg \in failed'
           /\ \A a, b \in thinking \ thinking' : a.by = b.by
           /\ \A g \in Chans : home[g] # NoResp => home'[g] = home[g]
<1>1. CASE UNCHANGED <<queues, log, thinking, home>> BY <1>1 DEF queues, log
<1>2. ASSUME NEW c \in Conns, Model(c) \/ ModelFails(c)
      PROVE  UNCHANGED <<queues, log, thinking>> /\ \A g \in Chans : home[g] # NoResp => home'[g] = home[g]
  <2>1. UNCHANGED <<queues, log, thinking>> /\ GetOrSetRespGPT(resp[c])
        BY <1>2 DEF Model, ModelFails, talk
  <2>2. home \in [Chans -> Resps \cup {NoResp}] BY DEF Kept, TypeOK, RouterTypes
  <2>3. \/ home' = home
        \/ \E g \in Chans : home[g] = NoResp /\ home' = [home EXCEPT ![g] = resp[c]]
        BY <2>1 DEF GetOrSetRespGPT, router
  <2>4. QED BY <2>1, <2>2, <2>3
<1>3. ASSUME NEW s \in sessions,
             \/ SessionFails(s) \/ EndSession(s)
             \/ \E a \in thinking : a.by = s /\ AnswerFails(a)
      PROVE  /\ UNCHANGED <<queues, asked, seen, home>> /\ thinking' \subseteq thinking
             /\ \A a \in thinking \ thinking' :
                   /\ a.by = s
                   /\ ~Running(a.by.bot) \/ a.by.ch \notin open \/ a.msg \in failed'
  <2>1. CASE SessionFails(s)
    <3>1. /\ UNCHANGED <<queues, asked, seen, home>>
          /\ thinking' = {a \in thinking : a.by # s}
          /\ failed' = failed \cup {a.msg : a \in {x \in thinking : x.by = s}}
          BY <2>1 DEF SessionFails, router
    <3>2. QED BY <3>1
  <2>2. CASE EndSession(s) BY <2>2 DEF EndSession, router, log
  <2>3. ASSUME NEW a \in thinking, a.by = s, AnswerFails(a)
        PROVE  /\ UNCHANGED <<queues, asked, seen, home>> /\ thinking' = thinking \ {a}
               /\ a.msg \in failed'
        BY <2>3 DEF AnswerFails, router
  <2>4. QED BY <1>3, <2>1, <2>2, <2>3
<1>4. ASSUME \/ CancelOld \/ StopBot \/ \E b \in Bots : Store(b) \/ Kill(b)
             \/ Starter \/ \E r \in Resps : Clean(r)
      PROVE  UNCHANGED <<queues, log, thinking, home>>
      BY <1>4 DEF CancelOld, StopBot, Store, Kill, Starter, Clean, others, router, talk
<1>5. ASSUME NEW c \in Conns,
             \/ Send(c) \/ SendFails(c) \/ Again(c) \/ ClientGone(c) \/ Leave(c)
             \/ \E r \in Resps : ReadDialog(c, r) \/ Connect(c, r)
      PROVE  UNCHANGED <<queues, log, thinking, home>>
      BY <1>5 DEF Send, SendFails, Again, ClientGone, Leave, ReadDialog, Connect, router, talk
<1>6. CASE UNCHANGED vars BY <1>1, <1>6 DEF vars, router, talk
<1>7. QED BY <1>1, <1>2, <1>3, <1>4, <1>5, <1>6
          DEF Next, Moves, Handler, Session, queues, log

LEMMA KnownStep == Traced /\ [Next]_vars => Known'
<1> SUFFICES ASSUME Traced, [Next]_vars PROVE Known'
    OBVIOUS
<1>0. Kept /\ Known BY DEF Traced
<1>1. ASSUME NEW r \in Resps, NEW m \in Msgs, PostMessage(r, m) PROVE Known'
  <2>1. /\ Put(rx, rx', chan[r], m) /\ UNCHANGED <<tx, thinking>>
        /\ asked' = [asked EXCEPT ![r] = asked[r] \cup {m}]
        BY <1>0, <1>1, PostEffect
  <2>2. asked \in [Resps -> SUBSET Msgs] BY <1>0 DEF Kept, TypeOK, SessionTypes
  <2>3. /\ \A q \in Resps : asked[q] \subseteq asked'[q]
        /\ m \in asked'[r]
        BY <2>1, <2>2
  <2>4. /\ \A n : Accept(n) => Accept(n)'
        /\ Accept(m)'
        BY <2>3 DEF Accept
  <2>5. \A g \in Chans : Range(rx'[g]) \subseteq Range(rx[g]) \cup {m} BY <2>1 DEF Put
  <2>6. QED BY <1>0, <2>1, <2>4, <2>5 DEF Known
<1>2. ASSUME NEW s \in sessions, Listen(s) PROVE Known'
  <2>1. PICK m \in Msgs : /\ s.ch \in Chans /\ Got(rx, rx', s.ch, m)
                          /\ thinking' = thinking \cup {[by |-> s, msg |-> m]}
                          /\ UNCHANGED <<asked, tx>>
        BY <1>0, <1>2, ListenEffect
  <2>2. Accept(m) BY <1>0, <2>1 DEF Got, Known
  <2>3. \A g \in Chans : Range(rx'[g]) \subseteq Range(rx[g]) BY <2>1 DEF Got
  <2>4. \A a \in thinking' : a \in thinking \/ a.msg = m BY <2>1
  <2>5. \A n : Accept(n)' <=> Accept(n) BY <2>1 DEF Accept
  <2>6. QED BY <1>0, <2>1, <2>2, <2>3, <2>4, <2>5 DEF Known
<1>3. ASSUME NEW a \in thinking, Reply(a) PROVE Known'
  <2>1. /\ Put(tx, tx', a.by.ch, a.msg) /\ thinking' = thinking \ {a}
        /\ UNCHANGED <<asked, rx>>
        BY <1>0, <1>3, ReplyEffect
  <2>2. \A g \in Chans : Range(tx'[g]) \subseteq Range(tx[g]) \cup {a.msg} BY <2>1 DEF Put
  <2>3. QED BY <1>0, <2>1, <2>2 DEF Known, Accept
<1>4. ASSUME NEW c \in Conns, Take(c) PROVE Known'
  <2>0. PICK m \in Msgs : Read(c, m) BY <1>0, <1>4, TakeEffect
  <2>1. Got(tx, tx', ch[c], m) /\ UNCHANGED <<asked, thinking, rx>> BY <2>0 DEF Read
  <2>2. \A g \in Chans : Range(tx'[g]) \subseteq Range(tx[g]) BY <2>1 DEF Got
  <2>3. QED BY <1>0, <2>1, <2>2 DEF Known, Accept
<1>5. CASE ~Moves BY <1>0, <1>5, OthersEffect DEF Known, Accept
<1>6. QED BY <1>1, <1>2, <1>3, <1>4, <1>5 DEF Moves

\* A message that is in no queue goes into one, or one is taken out.
Fresh(q, other, m) == \A g \in Chans : m \notin Range(q[g]) /\ m \notin Range(other[g])

LEMMA PutApart ==
    ASSUME NEW q, NEW p, NEW other, NEW g \in Chans, NEW m,
           Put(q, p, g, m), Fresh(q, other, m), Apart(q, other)
    PROVE  Apart(p, other)
<1>1. /\ Range(p[g]) = Range(q[g]) \cup {m} /\ Single(p[g])
      /\ \A h \in Chans : h # g => p[h] = q[h]
      BY DEF Put, Apart, Fresh
<1>2. \A h \in Chans : Single(p[h]) BY <1>1 DEF Apart
<1>3. ASSUME NEW h \in Chans, NEW k \in Chans PROVE Range(p[h]) \cap Range(other[k]) = {}
  <2>1. CASE h = g BY <1>1, <2>1 DEF Apart, Fresh
  <2>2. CASE h # g BY <1>1, <2>2 DEF Apart
  <2>3. QED BY <2>1, <2>2
<1>4. ASSUME NEW h \in Chans, NEW k \in Chans, h # k PROVE Range(p[h]) \cap Range(p[k]) = {}
  <2>1. CASE h = g BY <1>1, <1>4, <2>1 DEF Apart, Fresh
  <2>2. CASE k = g BY <1>1, <1>4, <2>2 DEF Apart, Fresh
  <2>3. CASE h # g /\ k # g BY <1>1, <1>4, <2>3 DEF Apart
  <2>4. QED BY <2>1, <2>2, <2>3
<1>5. QED BY <1>2, <1>3, <1>4 DEF Apart

LEMMA GotApart ==
    ASSUME NEW q, NEW p, NEW other, NEW g \in Chans, NEW m,
           Got(q, p, g, m), Apart(q, other)
    PROVE  /\ Apart(p, other) /\ Fresh(p, other, m)
           /\ \A h \in Chans : Range(p[h]) \subseteq Range(q[h])
<1>1. /\ Range(q[g]) = {m} \cup Range(p[g]) /\ Single(p[g]) /\ m \notin Range(p[g])
      /\ \A h \in Chans : h # g => p[h] = q[h]
      BY DEF Got, Apart
<1>2. \A h \in Chans : Range(p[h]) \subseteq Range(q[h]) BY <1>1
<1>3. ASSUME NEW h \in Chans PROVE Single(p[h]) /\ m \notin Range(p[h])
  <2>1. CASE h = g BY <1>1, <2>1
  <2>2. CASE h # g BY <1>1, <2>2 DEF Apart
  <2>3. QED BY <2>1, <2>2
<1>4. \A h \in Chans : m \notin Range(other[h]) BY <1>1 DEF Apart
<1>5. ASSUME NEW h \in Chans, NEW k \in Chans
      PROVE  /\ Range(p[h]) \cap Range(other[k]) = {}
             /\ h # k => Range(p[h]) \cap Range(p[k]) = {}
      BY <1>2 DEF Apart
<1>6. QED BY <1>2, <1>3, <1>4, <1>5 DEF Apart, Fresh

LEMMA ApartOther ==
    ASSUME NEW q, NEW p, NEW other, Apart(p, other), Apart(other, q)
    PROVE  Apart(other, p)
  BY DEF Apart

LEMMA PlacesStep == Traced /\ [Next]_vars => Queued' /\ Answered'
<1> SUFFICES ASSUME Traced, [Next]_vars PROVE Queued' /\ Answered'
    OBVIOUS
<1>0. Kept /\ Known /\ Answered /\ Apart(rx, tx) /\ Apart(tx, rx) BY DEF Traced, Queued
<1>1. ASSUME NEW r \in Resps, NEW m \in Msgs, PostMessage(r, m) PROVE Queued' /\ Answered'
  <2>1. /\ chan[r] \in Chans /\ Put(rx, rx', chan[r], m) /\ ~Accept(m)
        /\ UNCHANGED <<tx, thinking>>
        BY <1>0, <1>1, PostEffect
  <2>2. Fresh(rx, tx, m) /\ \A a \in thinking : a.msg # m
        BY <1>0, <2>1 DEF Known, Fresh
  <2>3. Apart(rx', tx) BY <1>0, <2>1, <2>2, PutApart
  <2>4. \A g \in Chans : Range(rx'[g]) \subseteq Range(rx[g]) \cup {m} BY <2>1 DEF Put
  <2>5. Queued' BY <1>0, <2>1, <2>3, ApartOther DEF Queued
  <2>6. Answered' BY <1>0, <2>1, <2>2, <2>4 DEF Answered
  <2>7. QED BY <2>5, <2>6
<1>2. ASSUME NEW s \in sessions, Listen(s) PROVE Queued' /\ Answered'
  <2>1. PICK m \in Msgs : /\ s.ch \in Chans /\ Got(rx, rx', s.ch, m)
                          /\ thinking' = thinking \cup {[by |-> s, msg |-> m]}
                          /\ UNCHANGED tx
        BY <1>0, <1>2, ListenEffect
  <2>2. /\ Apart(rx', tx) /\ Fresh(rx', tx, m)
        /\ \A h \in Chans : Range(rx'[h]) \subseteq Range(rx[h])
        BY <1>0, <2>1, GotApart
  <2>3. Queued' BY <1>0, <2>1, <2>2, ApartOther DEF Queued
  <2>4. m \in Range(rx[s.ch]) BY <2>1 DEF Got
  <2>5. \A a \in thinking : a.msg # m BY <1>0, <2>1, <2>4 DEF Answered
  <2>6. \A a \in thinking' : a \in thinking \/ a = [by |-> s, msg |-> m] BY <2>1
  <2>7. Answered' BY <1>0, <2>1, <2>2, <2>5, <2>6 DEF Answered, Fresh
  <2>8. QED BY <2>3, <2>7
<1>3. ASSUME NEW a \in thinking, Reply(a) PROVE Queued' /\ Answered'
  <2>1. /\ a.by.ch \in Chans /\ Put(tx, tx', a.by.ch, a.msg) /\ thinking' = thinking \ {a}
        /\ UNCHANGED rx
        BY <1>0, <1>3, ReplyEffect
  <2>2. Fresh(tx, rx, a.msg) BY <1>0 DEF Answered, Fresh
  <2>3. Apart(tx', rx) BY <1>0, <2>1, <2>2, PutApart
  <2>4. Queued' BY <1>0, <2>1, <2>3, ApartOther DEF Queued
  <2>5. \A g \in Chans : Range(tx'[g]) \subseteq Range(tx[g]) \cup {a.msg} BY <2>1 DEF Put
  <2>6. \A b \in thinking' : b \in thinking /\ b.msg # a.msg BY <1>0, <2>1 DEF Answered
  <2>7. Answered' BY <1>0, <2>1, <2>5, <2>6 DEF Answered
  <2>8. QED BY <2>4, <2>7
<1>4. ASSUME NEW c \in Conns, Take(c) PROVE Queued' /\ Answered'
  <2>0. PICK m \in Msgs : Read(c, m) BY <1>0, <1>4, TakeEffect
  <2>1. ch[c] \in Chans /\ Got(tx, tx', ch[c], m) /\ UNCHANGED <<thinking, rx>>
        BY <2>0 DEF Read
  <2>2. /\ Apart(tx', rx)
        /\ \A h \in Chans : Range(tx'[h]) \subseteq Range(tx[h])
        BY <1>0, <2>1, GotApart
  <2>3. Queued' BY <1>0, <2>1, <2>2, ApartOther DEF Queued
  <2>4. Answered' BY <1>0, <2>1, <2>2 DEF Answered
  <2>5. QED BY <2>3, <2>4
<1>5. CASE ~Moves
  <2>1. UNCHANGED <<rx, tx>> /\ thinking' \subseteq thinking BY <1>0, <1>5, OthersEffect
  <2>2. QED BY <1>0, <2>1 DEF Queued, Answered, Apart
<1>6. QED BY <1>1, <1>2, <1>3, <1>4, <1>5 DEF Moves

LEMMA HousedStep == Traced /\ [Next]_vars => Housed'
<1> SUFFICES ASSUME Traced, [Next]_vars, NEW g \in Chans, home'[g] = NoResp
             PROVE  /\ Range(rx'[g]) = {} /\ Range(tx'[g]) = {}
                    /\ \A a \in thinking' : a.by.ch # g
    BY DEF Housed
<1> DEFINE Empty == /\ Range(rx'[g]) = {} /\ Range(tx'[g]) = {}
                    /\ \A a \in thinking' : a.by.ch # g
<1>0. Kept /\ Housed BY DEF Traced
<1>1. ASSUME home' = home
      PROVE  /\ home[g] = NoResp /\ Range(rx[g]) = {} /\ Range(tx[g]) = {}
             /\ \A a \in thinking : a.by.ch # g
      BY <1>0, <1>1 DEF Housed
<1>2. ASSUME NEW r \in Resps, NEW m \in Msgs, PostMessage(r, m) PROVE Empty
  <2>1. /\ Put(rx, rx', chan[r], m) /\ UNCHANGED <<tx, thinking, home>>
        /\ home[chan[r]] = r
        BY <1>0, <1>2, PostEffect
  <2>2. g # chan[r] BY <1>1, <2>1, ChannelsAssumption
  <2>3. QED BY <1>1, <2>1, <2>2 DEF Put
<1>3. ASSUME NEW s \in sessions, Listen(s) PROVE Empty
  <2>1. PICK m \in Msgs : /\ Got(rx, rx', s.ch, m) /\ UNCHANGED <<tx, home>>
                          /\ thinking' = thinking \cup {[by |-> s, msg |-> m]}
        BY <1>0, <1>3, ListenEffect
  <2>2. m \in Range(rx[s.ch]) BY <2>1 DEF Got
  <2>3. s.ch # g BY <1>1, <2>1, <2>2
  <2>4. \A a \in thinking' : a \in thinking \/ a = [by |-> s, msg |-> m] BY <2>1
  <2>5. QED BY <1>1, <2>1, <2>3, <2>4 DEF Got
<1>4. ASSUME NEW a \in thinking, Reply(a) PROVE Empty
  <2>1. /\ Put(tx, tx', a.by.ch, a.msg) /\ UNCHANGED <<rx, home>> /\ thinking' = thinking \ {a}
        BY <1>0, <1>4, ReplyEffect
  <2>2. QED BY <1>1, <2>1 DEF Put
<1>5. ASSUME NEW c \in Conns, Take(c) PROVE Empty
  <2>1. PICK m \in Msgs : Read(c, m) BY <1>0, <1>5, TakeEffect
  <2>2. Got(tx, tx', ch[c], m) /\ UNCHANGED <<rx, thinking, home>> BY <2>1 DEF Read
  <2>3. Range(tx'[g]) \subseteq Range(tx[g]) BY <2>2 DEF Got
  <2>4. QED BY <1>1, <2>2, <2>3
<1>6. CASE ~Moves
  <2>1. /\ UNCHANGED <<rx, tx>> /\ thinking' \subseteq thinking
        /\ home[g] # NoResp => home'[g] = home[g]
        BY <1>0, <1>6, OthersEffect
  <2>2. QED BY <1>0, <2>1 DEF Housed
<1>7. QED BY <1>2, <1>3, <1>4, <1>5, <1>6 DEF Moves

\* A stream opens on a channel of its respondent, and channels keep their homes.
LEMMA OwnStep == Traced /\ [Next]_vars => Own'
<1> SUFFICES ASSUME Traced, [Next]_vars, NEW d \in Conns, pc'[d] = "open"
             PROVE  home'[ch'[d]] = resp'[d]
    BY DEF Own, At
<1>0. Kept /\ Own /\ RouterTypes /\ ConnTypes /\ Found BY DEF Traced, Kept, TypeOK
<1>1. ASSUME Same(d), \A g \in Chans : home[g] # NoResp => home'[g] = home[g]
      PROVE  home'[ch'[d]] = resp'[d]
  <2>1. pc[d] = "open" /\ ch'[d] = ch[d] /\ resp'[d] = resp[d] BY <1>1 DEF Same
  <2>2. ch[d] \in Chans /\ home[ch[d]] = resp[d] /\ resp[d] \in Resps
        BY <1>0, <2>1 DEF ConnTypes, Own, At
  <2>3. QED BY <1>1, <2>1, <2>2, ChannelsAssumption
<1>2. CASE UNCHANGED conn /\ \A g \in Chans : home[g] # NoResp => home'[g] = home[g]
      BY <1>1, <1>2 DEF conn, Same
<1>3. CASE Moves
  <2>1. UNCHANGED <<conn, home>>
        BY <1>3 DEF Moves, PostMessage, Listen, Reply, Take, router
  <2>2. QED BY <1>2, <2>1
<1>4. CASE ~Moves
  <2>1. \A g \in Chans : home[g] # NoResp => home'[g] = home[g] BY <1>0, <1>4, OthersEffect
  <2>2. ASSUME NEW c \in Conns, Handler(c) PROVE home'[ch'[d]] = resp'[d]
    <3>1. pc[c] # "idle" /\ resp[c] \in Resps /\ gone' = gone
          BY <1>0, <2>2
          DEF Handler, Model, ModelFails, Send, SendFails, Again, At, ConnTypes
    <3>2. CASE Finish(c)
          BY <1>0, <1>1, <2>1, <3>1, <3>2, FinishEffect
    <3>3. ASSUME NEW step \in {"send", "again"}, NEW g \in Chans \cup {NoCh}, Goto(c, step, g)
          PROVE  home'[ch'[d]] = resp'[d]
      <4>1. pc'[c] = step /\ \A e \in Conns \ {c} : Same(e)
            BY <1>0, <3>1, <3>3, GotoEffect DEF Steps
      <4>2. QED BY <1>1, <2>1, <4>1
    <3>4. CASE Again(c) /\ chan[resp[c]] # NoCh /\ Goto(c, "open", chan[resp[c]])
      <4>1. /\ chan[resp[c]] \in Chans /\ home[chan[resp[c]]] = resp[c] /\ home' = home
            BY <1>0, <3>1, <3>4 DEF RouterTypes, Found, Again, router
      <4>2. ch'[c] = chan[resp[c]] /\ \A e \in Conns \ {c} : Same(e)
            BY <1>0, <3>1, <3>4, <4>1, GotoEffect DEF Steps
      <4>3. resp' = resp BY <3>4 DEF Goto
      <4>4. QED BY <1>1, <2>1, <4>1, <4>2, <4>3
    <3>5. ASSUME Model(c) PROVE chan'[resp[c]] \in Chans \cup {NoCh}
          BY <1>0, <3>1, <3>5, RouterEffect DEF Model
    <3>6. QED BY <2>2, <3>2, <3>3, <3>4, <3>5
              DEF Handler, Model, ModelFails, Send, Sent, SendFails, Again
  <2>3. ASSUME NEW c \in Conns, NEW r \in Resps, ReadDialog(c, r) \/ Connect(c, r)
        PROVE  home'[ch'[d]] = resp'[d]
    <3>1. PICK route \in {"dialog", "events"}, step \in {"model", "open"},
               g \in Chans \cup {NoCh} :
             /\ Begin(c, r, route, step, g)
             /\ step = "open" => g # NoCh /\ g = chan[r]
      <4>1. chan[r] \in Chans \cup {NoCh} BY <1>0 DEF RouterTypes
      <4>2. CASE ReadDialog(c, r) BY <4>2 DEF ReadDialog
      <4>3. CASE Connect(c, r) BY <4>1, <4>3 DEF Connect
      <4>4. QED BY <2>3, <4>2, <4>3
    <3>2. gone' = gone /\ home' = home BY <2>3 DEF ReadDialog, Connect, router
    <3>3. /\ pc'[c] = step /\ ch'[c] = g /\ resp'[c] = r
          /\ \A e \in Conns \ {c} : Same(e)
          BY <1>0, <3>1, <3>2, BeginEffect DEF RouterTypes, Steps
    <3>4. QED BY <1>0, <1>1, <2>1, <3>1, <3>2, <3>3 DEF Found
  <2>4. ASSUME NEW c \in Conns, Leave(c) PROVE home'[ch'[d]] = resp'[d]
        BY <1>0, <1>1, <2>1, <2>4, FinishEffect DEF Leave
  <2>5. CASE UNCHANGED conn BY <1>2, <2>1, <2>5
  <2>6. QED
    <3>1. CASE UNCHANGED vars BY <2>5, <3>1 DEF vars, conn
    <3>2. CASE CancelOld \/ StopBot \/ \E b \in Bots : Store(b) \/ Kill(b)
          BY <2>5, <3>2 DEF CancelOld, StopBot, Store, Kill, others
    <3>3. CASE Starter BY <2>5, <3>3 DEF Starter
    <3>4. ASSUME NEW s \in sessions, Session(s) \/ SessionFails(s) \/ EndSession(s)
          PROVE  home'[ch'[d]] = resp'[d]
          BY <2>5, <1>4, <3>4 DEF EndSession, SessionFails, AnswerFails, Session, Moves
    <3>5. ASSUME NEW r \in Resps, Clean(r) PROVE home'[ch'[d]] = resp'[d]
          BY <2>5, <3>5 DEF Clean
    <3>6. ASSUME NEW c \in Conns, Take(c) \/ ClientGone(c) PROVE home'[ch'[d]] = resp'[d]
          BY <2>5, <1>4, <3>6 DEF ClientGone, Moves
    <3>7. ~\E r \in Resps, m \in Msgs : PostMessage(r, m) BY <1>4 DEF Moves
    <3>8. QED BY <2>2, <2>3, <2>4, <3>1, <3>2, <3>3, <3>4, <3>5, <3>6, <3>7 DEF Next
<1>5. QED BY <1>3, <1>4

LEMMA TracedInit == Init => Traced
<1> SUFFICES ASSUME Init PROVE Traced
    OBVIOUS
<1>1. Kept BY KeptInit
<1>2. Own /\ thinking = {} /\ \A g \in Chans : rx[g] = <<>> /\ tx[g] = <<>>
      BY DEF Init, Own, At
<1>3. Range(<<>>) = {} /\ Single(<<>>) BY DEF Range, Single
<1>4. QED BY <1>1, <1>2, <1>3 DEF Traced, Known, Queued, Apart, Answered, Housed

LEMMA TracedStep == Traced /\ [Next]_vars => Traced'
<1>1. Traced => Kept BY DEF Traced
<1>2. QED BY <1>1, KeptStep, OwnStep, KnownStep, PlacesStep, HousedStep DEF Traced

LEMMA TracedAlways == Spec => []Traced
  BY TracedInit, TracedStep, PTL DEF Spec

-----------------------------------------------------------------------------
(* What the respondent sees of it. *)

\* The message is in a queue of the channel, or a session answers it.
In(g, m) == \/ m \in Range(rx[g]) \/ m \in Range(tx[g])
            \/ \E a \in thinking : a.by.ch = g /\ a.msg = m

LEMMA OnWayIn ==
    ASSUME NEW r \in Resps, NEW m
    PROVE  /\ m \in OnWay(r) <=> \E g \in Chans : home[g] = r /\ In(g, m)
           /\ m \in OnWay(r)' <=> \E g \in Chans : home'[g] = r /\ In(g, m)'
<1>1. \A g \in Chans : m \in MsgsOf(g) <=> In(g, m) BY DEF MsgsOf, In
<1>2. \A g \in Chans : m \in MsgsOf(g)' <=> In(g, m)' BY DEF MsgsOf, In
<1>3. m \in OnWay(r) <=> \E g \in Chans : home[g] = r /\ m \in MsgsOf(g) BY DEF OnWay
<1>4. m \in OnWay(r)' <=> \E g \in Chans : home'[g] = r /\ m \in MsgsOf(g)' BY DEF OnWay
<1>5. QED BY <1>1, <1>2, <1>3, <1>4

LEMMA PostIn ==
    ASSUME Traced, NEW r \in Resps, NEW m \in Msgs, PostMessage(r, m),
           NEW g \in Chans, NEW n
    PROVE  In(g, n)' <=> In(g, n) \/ (g = chan[r] /\ n = m)
<1>1. Put(rx, rx', chan[r], m) /\ UNCHANGED <<tx, thinking>> BY PostEffect DEF Traced
<1>2. CASE g = chan[r] BY <1>1, <1>2 DEF Put, In
<1>3. CASE g # chan[r] BY <1>1, <1>3 DEF Put, In
<1>4. QED BY <1>2, <1>3

LEMMA ListenIn ==
    ASSUME Traced, NEW s \in sessions, Listen(s), NEW g \in Chans, NEW n
    PROVE  In(g, n)' <=> In(g, n)
<1>1. PICK m \in Msgs : /\ Got(rx, rx', s.ch, m) /\ UNCHANGED tx
                        /\ thinking' = thinking \cup {[by |-> s, msg |-> m]}
      BY ListenEffect DEF Traced
<1>2. (\E a \in thinking' : a.by.ch = g /\ a.msg = n)
        <=> \/ \E a \in thinking : a.by.ch = g /\ a.msg = n
            \/ s.ch = g /\ m = n
  <2>1. PICK b : b = [by |-> s, msg |-> m] OBVIOUS
  <2>2. thinking' = thinking \cup {b} BY <1>1, <2>1
  <2>3. b.by = s /\ b.msg = m BY <2>1
  <2>4. QED BY <2>2, <2>3
<1>3. CASE g = s.ch BY <1>1, <1>2, <1>3 DEF Got, In
<1>4. CASE g # s.ch BY <1>1, <1>2, <1>4 DEF Got, In
<1>5. QED BY <1>3, <1>4

LEMMA ReplyIn ==
    ASSUME Traced, NEW a \in thinking, Reply(a), NEW g \in Chans, NEW n
    PROVE  In(g, n)' <=> In(g, n)
<1>1. /\ Put(tx, tx', a.by.ch, a.msg) /\ UNCHANGED rx
      /\ thinking' = thinking \ {a}
      BY ReplyEffect DEF Traced
<1>2. (\E b \in thinking : b.by.ch = g /\ b.msg = n)
        <=> \/ \E b \in thinking' : b.by.ch = g /\ b.msg = n
            \/ a.by.ch = g /\ a.msg = n
      BY <1>1
<1>3. CASE g = a.by.ch BY <1>1, <1>2, <1>3 DEF Put, In
<1>4. CASE g # a.by.ch BY <1>1, <1>2, <1>4 DEF Put, In
<1>5. QED BY <1>3, <1>4

LEMMA TakeIn ==
    ASSUME Traced, NEW c \in Conns, NEW m \in Msgs, Read(c, m), NEW g \in Chans, NEW n
    PROVE  In(g, n)' <=> In(g, n) /\ ~(g = ch[c] /\ n = m)
<1>1. /\ Got(tx, tx', ch[c], m) /\ UNCHANGED <<rx, thinking>> /\ ch[c] \in Chans
      BY DEF Read
<1>2. Apart(tx, rx) /\ Answered BY DEF Traced, Queued
<1>3. Fresh(tx', rx, m) BY <1>1, <1>2, GotApart
<1>4. m \in Range(tx[ch[c]]) BY <1>1 DEF Got
<1>5. \A a \in thinking : a.msg # m BY <1>1, <1>2, <1>4 DEF Answered
<1>6. CASE g = ch[c] BY <1>1, <1>3, <1>5, <1>6 DEF Got, In, Fresh
<1>7. CASE g # ch[c]
  <2>1. m \notin Range(tx[g]) BY <1>1, <1>3, <1>7 DEF Fresh, Got
  <2>2. QED BY <1>1, <1>7 DEF Got, In
<1>8. QED BY <1>6, <1>7

\* LossExplained, of one message.
Explains(r, m) ==
    \/ m \in OnWay(r)'
    \/ m \in Range(seen'[r])
    \/ m \in failed'
    \/ \E c \in gone : At(c, "open") /\ m \in Range(tx[ch[c]])
    \/ \E a \in thinking : a.msg = m /\ (~Running(a.by.bot) \/ a.by.ch \notin open)

\* It stays on its way where it is in the same channel.
LEMMA StaysOnWay ==
    ASSUME NEW r \in Resps, NEW g \in Chans, NEW m, home'[g] = r, In(g, m)'
    PROVE  m \in OnWay(r)'
  BY OnWayIn

LEMMA LossStep ==
    ASSUME Traced, [Next]_vars, NEW r \in Resps, NEW m \in OnWay(r)
    PROVE  Explains(r, m)
<1>1. PICK g \in Chans : home[g] = r /\ In(g, m) BY OnWayIn
<1>2. ASSUME NEW q \in Resps, NEW n \in Msgs, PostMessage(q, n) PROVE Explains(r, m)
  <2>1. home' = home BY <1>2, PostEffect DEF Traced
  <2>2. In(g, m)' BY <1>1, <1>2, PostIn
  <2>3. QED BY <1>1, <2>1, <2>2, StaysOnWay DEF Explains
<1>3. ASSUME NEW s \in sessions, Listen(s) PROVE Explains(r, m)
  <2>1. home' = home BY <1>3 DEF Listen, router
  <2>2. In(g, m)' BY <1>1, <1>3, ListenIn
  <2>3. QED BY <1>1, <2>1, <2>2, StaysOnWay DEF Explains
<1>4. ASSUME NEW a \in thinking, Reply(a) PROVE Explains(r, m)
  <2>1. home' = home BY <1>4 DEF Reply, router
  <2>2. In(g, m)' BY <1>1, <1>4, ReplyIn
  <2>3. QED BY <1>1, <2>1, <2>2, StaysOnWay DEF Explains
<1>5. ASSUME NEW c \in Conns, Take(c) PROVE Explains(r, m)
  <2>1. PICK n \in Msgs : Read(c, n) BY <1>5, TakeEffect DEF Traced
  <2>2. home' = home /\ At(c, "open") /\ ch[c] \in Chans /\ Got(tx, tx', ch[c], n)
        BY <2>1 DEF Read
  <2>3. CASE g = ch[c] /\ m = n
    <3>1. m \in Range(tx[ch[c]]) BY <2>2, <2>3 DEF Got
    <3>2. CASE c \in gone BY <2>2, <3>1, <3>2 DEF Explains
    <3>3. CASE c \notin gone
      <4>1. resp[c] = r BY <1>1, <2>2, <2>3 DEF Traced, Own
      <4>2. seen \in [Resps -> Seq(Msgs)] BY DEF Traced, Kept, TypeOK, SessionTypes
      <4>3. seen'[r] = Append(seen[r], n) BY <2>1, <3>3, <4>1, <4>2 DEF Read
      <4>4. m \in Range(seen'[r]) BY <2>3, <4>2, <4>3, AppendRange
      <4>5. QED BY <4>4 DEF Explains
    <3>4. QED BY <3>2, <3>3
  <2>4. CASE ~(g = ch[c] /\ m = n)
    <3>1. In(g, m)' BY <1>1, <2>1, <2>4, TakeIn
    <3>2. QED BY <1>1, <2>2, <3>1, StaysOnWay DEF Explains
  <2>5. QED BY <2>3, <2>4
<1>6. CASE ~Moves
  <2>1. /\ UNCHANGED <<rx, tx>>
        /\ \A a \in thinking \ thinking' :
              ~Running(a.by.bot) \/ a.by.ch \notin open \/ a.msg \in failed'
        /\ \A x \in Chans : home[x] # NoResp => home'[x] = home[x]
        BY <1>6, OthersEffect DEF Traced
  <2>2. home'[g] = r BY <1>1, <2>1, ChannelsAssumption
  <2>3. CASE In(g, m)' BY <2>2, <2>3, StaysOnWay DEF Explains
  <2>4. CASE ~In(g, m)'
    <3>1. \E a \in thinking \ thinking' : a.msg = m BY <1>1, <2>1, <2>4 DEF In
    <3>2. QED BY <2>1, <3>1 DEF Explains
  <2>5. QED BY <2>3, <2>4
<1>7. QED BY <1>2, <1>3, <1>4, <1>5, <1>6 DEF Moves

\* An accepted message is lost with a stream whose client had left, with a
\* session whose instance was cancelled or whose dialog was cleaned, or by an error
\* of the session that was logged, never by a reconnect or a handler that failed.
THEOREM LossesExplained == Spec => LossExplained
<1>1. Traced /\ [Next]_vars => [\A r \in Resps : \A m \in OnWay(r) : Explains(r, m)]_vars
      BY LossStep
<1>2. (\A r \in Resps : \A m \in OnWay(r) : Explains(r, m))
      = (\A r \in Resps : \A m \in OnWay(r) :
             \/ m \in OnWay(r)'
             \/ m \in Range(seen'[r])
             \/ m \in failed'
             \/ \E c \in gone : At(c, "open") /\ m \in Range(tx[ch[c]])
             \/ \E a \in thinking : a.msg = m /\ (~Running(a.by.bot) \/ a.by.ch \notin open))
      BY DEF Explains
<1>3. Traced /\ [Next]_vars =>
      [\A r \in Resps : \A m \in OnWay(r) :
             \/ m \in OnWay(r)'
             \/ m \in Range(seen'[r])
             \/ m \in failed'
             \/ \E c \in gone : At(c, "open") /\ m \in Range(tx[ch[c]])
             \/ \E a \in thinking : a.msg = m /\ (~Running(a.by.bot) \/ a.by.ch \notin open)]_vars
      BY <1>1, <1>2
<1>4. QED BY <1>3, TracedAlways, PTL DEF Spec, LossExplained

-----------------------------------------------------------------------------
(* The refinement. *)

\* What is on the way of the respondents after a step, given what it is for each.
LEMMA WayChanges ==
    ASSUME NEW r \in Resps, \A q \in Resps \ {r} : OnWay(q)' = OnWay(q)
    PROVE  [q \in Resps |-> OnWay(q)]'
             = [[q \in Resps |-> OnWay(q)] EXCEPT ![r] = OnWay(r)']
  OBVIOUS

\* Where home does not change, neither does the way of a respondent none of
\* whose channels does.
LEMMA WayStays ==
    ASSUME NEW r \in Resps, home' = home,
           \A g \in Chans : home[g] = r => \A m : In(g, m)' <=> In(g, m)
    PROVE  OnWay(r)' = OnWay(r)
<1>1. ASSUME NEW m PROVE m \in OnWay(r)' <=> m \in OnWay(r) BY OnWayIn
<1>2. QED BY <1>1

LEMMA PostAsks ==
    ASSUME Traced, NEW r \in Resps, NEW m \in Msgs, PostMessage(r, m)
    PROVE  Talk!Ask(r, m)
<1>1. /\ chan[r] \in Chans /\ home[chan[r]] = r /\ home' = home /\ seen' = seen
      /\ asked' = [asked EXCEPT ![r] = asked[r] \cup {m}] /\ ~Accept(m)
      BY PostEffect DEF Traced
<1>2. ASSUME NEW q \in Resps \ {r} PROVE OnWay(q)' = OnWay(q)
  <2>1. \A g \in Chans : home[g] = q => \A n : In(g, n)' <=> In(g, n) BY <1>1, PostIn
  <2>2. QED BY <1>1, <2>1, WayStays
<1>3. OnWay(r)' = OnWay(r) \cup {m}
  <2>1. ASSUME NEW n PROVE n \in OnWay(r)' <=> n \in OnWay(r) \/ n = m
        BY <1>1, PostIn, OnWayIn
  <2>2. QED BY <2>1
<1>4. [q \in Resps |-> OnWay(q)]'
        = [[q \in Resps |-> OnWay(q)] EXCEPT ![r] = OnWay(r) \cup {m}]
      BY <1>2, <1>3, WayChanges
<1>5. [q \in Resps |-> OnWay(q)][r] = OnWay(r) OBVIOUS
<1>6. \A q \in Resps : m \notin asked[q] BY <1>1 DEF Accept
<1>7. QED BY <1>1, <1>4, <1>5, <1>6 DEF Talk!Ask

\* A step of the sessions moves a message within its channel.
LEMMA SessionStutters ==
    ASSUME Traced, \/ \E s \in sessions : Listen(s)
                   \/ \E a \in thinking : Reply(a)
    PROVE  UNCHANGED Talk!vars
<1>1. home' = home /\ asked' = asked /\ seen' = seen BY DEF Listen, Reply, router, log
<1>2. ASSUME NEW g \in Chans, NEW m PROVE In(g, m)' <=> In(g, m) BY ListenIn, ReplyIn
<1>3. \A q \in Resps : OnWay(q)' = OnWay(q) BY <1>1, <1>2, WayStays
<1>4. QED BY <1>1, <1>3 DEF Talk!vars

\* Messages of one respondent that are gone are lost.
LEMMA Loses ==
    ASSUME NEW r \in Resps, OnWay(r)' \subseteq OnWay(r),
           \A q \in Resps \ {r} : OnWay(q)' = OnWay(q),
           asked' = asked, seen' = seen
    PROVE  Talk!Next \/ UNCHANGED Talk!vars
<1> DEFINE lost == OnWay(r) \ OnWay(r)'
<1>1. CASE lost = {}
  <2>1. \A q \in Resps : OnWay(q)' = OnWay(q) BY <1>1
  <2>2. QED BY <2>1 DEF Talk!vars
<1>2. CASE lost # {}
  <2>1. [q \in Resps |-> OnWay(q)]'
          = [[q \in Resps |-> OnWay(q)] EXCEPT ![r] = OnWay(r) \ lost]
    <3>1. OnWay(r)' = OnWay(r) \ lost OBVIOUS
    <3>2. QED BY <3>1, WayChanges
  <2>2. [q \in Resps |-> OnWay(q)][r] = OnWay(r) OBVIOUS
  <2>3. lost \in SUBSET OnWay(r) OBVIOUS
  <2> HIDE DEF lost
  <2>4. Talk!Lose(r, lost) BY <1>2, <2>1, <2>2, <2>3 DEF Talk!Lose
  <2>5. QED BY <2>2, <2>3, <2>4 DEF Talk!Next
<1>3. QED BY <1>1, <1>2

LEMMA TakeAnswers ==
    ASSUME Traced, NEW c \in Conns, Take(c)
    PROVE  Talk!Next \/ UNCHANGED Talk!vars
<1>1. PICK m \in Msgs : Read(c, m) BY TakeEffect DEF Traced
<1>2. /\ At(c, "open") /\ ch[c] \in Chans /\ resp[c] \in Resps /\ home' = home
      /\ asked' = asked /\ Got(tx, tx', ch[c], m)
      BY <1>1 DEF Read
<1>3. PICK r \in Resps : r = resp[c] /\ home[ch[c]] = r BY <1>2 DEF Traced, Own
<1>4. ASSUME NEW q \in Resps \ {r} PROVE OnWay(q)' = OnWay(q)
  <2>1. \A g \in Chans : home[g] = q => \A n : In(g, n)' <=> In(g, n)
        BY <1>1, <1>3, TakeIn
  <2>2. QED BY <1>2, <2>1, WayStays
<1>5. ASSUME NEW n PROVE n \in OnWay(r)' <=> n \in OnWay(r) /\ n # m
  <2>1. ASSUME NEW g \in Chans, In(g, m) PROVE g = ch[c]
    <3>1. m \in Range(tx[ch[c]]) BY <1>2 DEF Got
    <3>2. QED BY <1>2, <2>1, <3>1 DEF Traced, Queued, Apart, Answered, In
  <2>2. \A g \in Chans : In(g, n)' <=> In(g, n) /\ n # m BY <1>1, <2>1, TakeIn
  <2>3. QED BY <1>2, <2>2, OnWayIn
<1>6. OnWay(r)' = OnWay(r) \ {m} BY <1>5
<1>7. m \in OnWay(r)
  <2>1. m \in Range(tx[ch[c]]) BY <1>2 DEF Got
  <2>2. QED BY <1>2, <1>3, <2>1, OnWayIn DEF In
<1>8. CASE c \in gone
  <2>1. seen' = seen BY <1>1, <1>8 DEF Read
  <2>2. QED BY <1>2, <1>4, <1>6, <2>1, Loses
<1>9. CASE c \notin gone
  <2>1. seen' = [seen EXCEPT ![r] = Append(seen[r], m)] BY <1>1, <1>3, <1>9 DEF Read
  <2>2. [q \in Resps |-> OnWay(q)]'
          = [[q \in Resps |-> OnWay(q)] EXCEPT ![r] = OnWay(r) \ {m}]
        BY <1>4, <1>6, WayChanges
  <2>3. [q \in Resps |-> OnWay(q)][r] = OnWay(r) OBVIOUS
  <2>4. Talk!Answer(r, m) BY <1>2, <1>7, <2>1, <2>2, <2>3 DEF Talk!Answer
  <2>5. QED BY <2>4 DEF Talk!Next
<1>10. QED BY <1>8, <1>9

\* The other steps lose what a session was working on, if anything.
LEMMA OthersLose ==
    ASSUME Traced, [Next]_vars, ~Moves
    PROVE  Talk!Next \/ UNCHANGED Talk!vars
<1>1. /\ UNCHANGED <<rx, tx, asked, seen>> /\ thinking' \subseteq thinking
      /\ \A g \in Chans : home[g] # NoResp => home'[g] = home[g]
      BY OthersEffect DEF Traced
<1>2. ASSUME NEW g \in Chans, NEW m, In(g, m)' PROVE home'[g] = home[g] /\ In(g, m)
  <2>1. In(g, m) BY <1>1, <1>2 DEF In
  <2>2. home[g] # NoResp BY <2>1 DEF Traced, Housed, In
  <2>3. QED BY <1>1, <2>1, <2>2
<1>3. \A q \in Resps : OnWay(q)' \subseteq OnWay(q)
  <2>1. ASSUME NEW q \in Resps, NEW m, m \in OnWay(q)' PROVE m \in OnWay(q)
        BY <1>2, <2>1, OnWayIn
  <2>2. QED BY <2>1
<1>4. ASSUME NEW q \in Resps, NEW m, m \in OnWay(q), m \notin OnWay(q)'
      PROVE  \E a \in thinking \ thinking' : home[a.by.ch] = q
  <2>1. PICK g \in Chans : home[g] = q /\ In(g, m) BY <1>4, OnWayIn
  <2>2. home'[g] = q BY <1>1, <2>1, ChannelsAssumption
  <2>3. ~In(g, m)' BY <1>4, <2>2, StaysOnWay
  <2>4. QED BY <1>1, <2>1, <2>3 DEF In
<1>5. \A a, b \in thinking \ thinking' : a.by = b.by BY OthersEffect DEF Traced
<1>6. CASE \A q \in Resps : OnWay(q)' = OnWay(q) BY <1>1, <1>6 DEF Talk!vars
<1>7. ASSUME NEW r \in Resps, OnWay(r)' # OnWay(r) PROVE Talk!Next \/ UNCHANGED Talk!vars
  <2>1. PICK m : m \in OnWay(r) /\ m \notin OnWay(r)' BY <1>3, <1>7
  <2>2. PICK a \in thinking \ thinking' : home[a.by.ch] = r BY <1>4, <2>1
  <2>3. ASSUME NEW q \in Resps \ {r} PROVE OnWay(q)' = OnWay(q)
    <3>1. \A b \in thinking \ thinking' : home[b.by.ch] = r BY <1>5, <2>2
    <3>2. \A n : n \in OnWay(q) => n \in OnWay(q)' BY <1>4, <3>1
    <3>3. QED BY <1>3, <3>2
  <2>4. QED BY <1>1, <1>3, <2>3, Loses
<1>8. QED BY <1>6, <1>7

\* A handler, whatever fails on its way, a reconnect, a stream that takes an
\* answer: each is a step of the conversation or none that shows.
THEOREM Conversing == Spec => ImplementsConversation
<1>1. ASSUME Init PROVE Talk!Init
  <2>1. ASSUME NEW r \in Resps PROVE OnWay(r) = {}
    <3>1. \A g \in Chans : home[g] # r BY <1>1, ChannelsAssumption DEF Init
    <3>2. \A m : m \notin OnWay(r) BY <3>1, OnWayIn
    <3>3. QED BY <3>2
  <2>2. QED BY <1>1, <2>1 DEF Init, Talk!Init
<1>2. Traced /\ [Next]_vars => [Talk!Next]_(Talk!vars)
  <2> SUFFICES ASSUME Traced, [Next]_vars PROVE Talk!Next \/ UNCHANGED Talk!vars
      OBVIOUS
  <2>1. ASSUME NEW r \in Resps, NEW m \in Msgs, PostMessage(r, m) PROVE Talk!Next
        BY <2>1, PostAsks DEF Talk!Next
  <2>2. QED BY <2>1, SessionStutters, TakeAnswers, OthersLose DEF Moves
<1>3. QED BY <1>1, <1>2, TracedAlways, PTL DEF Spec, Talk!Spec, ImplementsConversation
=============================================================================
