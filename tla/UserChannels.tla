---------------------------- MODULE UserChannels ----------------------------
(***************************************************************************)
(* The way of a message: the respondent's channel, which the model router  *)
(* creates on the first request; the session listening on it, started      *)
(* through StartCh by App.Starter; and the streams that read the answers   *)
(* from TxCh.  Handlers initialise channels concurrently, instances are    *)
(* replaced and stopped, timers clean channels that somebody still holds.  *)
(* Limits and counters of connections are in SSEStream, tokens in          *)
(* WidgetAuth, contacts and the CRM in FirstContact.                       *)
(***************************************************************************)
EXTENDS Integers, Sequences, FiniteSets, SequencesExt

CONSTANTS
    Resps,               \* respondents
    Conns,               \* handlers that may run at a time
    Watched,             \* those whose waits a run follows: all handlers are alike
    Bots,                \* instances of the user, in the order they are stored
    Chans,               \* *model.Ch objects, in the order they are made; both
                         \* sets bound a run
    Msgs,                \* messages (bounds a run)
    Ids,                 \* numbers that tell the starts apart that are queued or
                         \* running (bounds a run)
    NoResp, NoBot, NoCh,
    StartCap             \* capacity of StartCh

ASSUME ChannelsAssumption ==
    /\ Bots \subseteq Nat /\ Chans \subseteq Nat /\ Ids \subseteq Nat
    /\ Watched \subseteq Conns
    /\ NoResp \notin Resps /\ NoBot \notin Bots /\ NoCh \notin Chans
    /\ StartCap \in Nat \ {0}

VARIABLES
    inst, stage,         \* the stored instance; how far each instance has come
    chan, home, open,    \* what GetCh finds; whose a channel is; not closed
    startCh,             \* StartCh
    sessions, thinking,  \* running sessions; what they are answering
    rx, tx,              \* RxCh and TxCh of a channel
    pc, via, bot, resp, ch,  \* a handler: step, route, instance, respondent, channel
    gone,                \* streams whose client has left
    asked, seen,         \* messages accepted, answers a client got
    failed,              \* history: messages a session logged an error for
    due,                 \* history: accepted starts that should have a session
    excused              \* history: channels of which a client or the log knows better

instances == <<inst, stage>>
router    == <<chan, home, open>>
talk      == <<sessions, thinking>>
queues    == <<rx, tx>>
conn      == <<pc, via, bot, resp, ch>>
log       == <<asked, seen, failed>>
history   == <<due, excused>>
vars == <<instances, router, startCh, talk, queues, conn, gone, log, history>>

Starts == [ch : Chans \cup {NoCh}, bot : Bots, id : Ids]
Stages == {"new", "serving", "replaced", "shut", "killed"}
Steps  == {"idle", "model", "send", "again", "open"}

RouterTypes ==
    /\ inst \in Bots \cup {NoBot} /\ stage \in [Bots -> Stages]
    /\ chan \in [Resps -> Chans \cup {NoCh}]
    /\ home \in [Chans -> Resps \cup {NoResp}] /\ open \subseteq Chans

SessionTypes ==
    /\ startCh \in Seq(Starts) /\ Len(startCh) <= StartCap
    /\ sessions \subseteq Starts
    /\ thinking \subseteq [by : Starts, msg : Msgs]
    /\ rx \in [Chans -> Seq(Msgs)] /\ tx \in [Chans -> Seq(Msgs)]
    /\ asked \in [Resps -> SUBSET Msgs] /\ seen \in [Resps -> Seq(Msgs)]
    /\ failed \subseteq Msgs
    /\ due \subseteq Starts /\ excused \subseteq Chans

ConnTypes ==
    /\ pc \in [Conns -> Steps] /\ via \in [Conns -> {"dialog", "events"}]
    /\ bot \in [Conns -> Bots \cup {NoBot}]
    /\ resp \in [Conns -> Resps \cup {NoResp}]
    /\ ch \in [Conns -> Chans \cup {NoCh}]
    /\ gone \subseteq Conns
    /\ \A c \in Conns : pc[c] # "idle" => bot[c] \in Bots /\ resp[c] \in Resps
    /\ \A c \in Conns : pc[c] = "open" => ch[c] \in Chans

TypeOK == RouterTypes /\ SessionTypes /\ ConnTypes

Init ==
    /\ inst = NoBot /\ stage = [b \in Bots |-> "new"]
    /\ chan = [r \in Resps |-> NoCh]
    /\ home = [g \in Chans |-> NoResp] /\ open = {}
    /\ startCh = <<>> /\ sessions = {} /\ thinking = {}
    /\ rx = [g \in Chans |-> <<>>] /\ tx = [g \in Chans |-> <<>>]
    /\ pc = [c \in Conns |-> "idle"] /\ via = [c \in Conns |-> "dialog"]
    /\ bot = [c \in Conns |-> NoBot] /\ resp = [c \in Conns |-> NoResp]
    /\ ch = [c \in Conns |-> NoCh]
    /\ gone = {}
    /\ asked = [r \in Resps |-> {}] /\ seen = [r \in Resps |-> <<>>]
    /\ failed = {}
    /\ due = {} /\ excused = {}

At(c, step) == pc[c] = step

\* The handler is at step, with the channel g.
Goto(c, step, g) ==
    /\ pc' = [pc EXCEPT ![c] = step]
    /\ ch' = [ch EXCEPT ![c] = g]
    /\ UNCHANGED <<via, bot, resp>>

\* A handler of the route begins with the stored instance.
Begin(c, r, route, step, g) ==
    /\ At(c, "idle") /\ inst # NoBot
    /\ pc' = [pc EXCEPT ![c] = step]
    /\ via' = [via EXCEPT ![c] = route]
    /\ bot' = [bot EXCEPT ![c] = inst]
    /\ resp' = [resp EXCEPT ![c] = r]
    /\ ch' = [ch EXCEPT ![c] = g]

\* The handler has answered.
Finish(c) ==
    /\ pc' = [pc EXCEPT ![c] = "idle"]
    /\ via' = [via EXCEPT ![c] = "dialog"]
    /\ bot' = [bot EXCEPT ![c] = NoBot]
    /\ resp' = [resp EXCEPT ![c] = NoResp]
    /\ ch' = [ch EXCEPT ![c] = NoCh]

Running(b) == stage[b] \in {"serving", "shut"}   \* its context is not done
Told(b)    == stage[b] \in {"shut", "killed"}    \* its shutdownCh is closed

-----------------------------------------------------------------------------
(* Instances: a restart cancels the stored one and stores another; a stop  *)
(* takes it from the registry, tells its streams and cancels it later.     *)
(* Concurrent requests are in BotRegistry.                                 *)

others == <<router, startCh, talk, queues, conn, gone, log>>

\* The context of an instance is done; its sessions will end.
Cancelled(b) ==
    /\ due' = {s \in due : s.bot # b}
    /\ excused' = excused \cup {s.ch : s \in {x \in due : x.bot = b}}

CancelOld ==
    /\ inst # NoBot /\ stage[inst] = "serving"
    /\ stage' = [stage EXCEPT ![inst] = "replaced"]
    /\ Cancelled(inst)
    /\ UNCHANGED <<inst, others>>

Store(b) ==
    /\ inst # NoBot => stage[inst] = "replaced"
    /\ stage[b] = "new" /\ \A d \in Bots : d < b => stage[d] # "new"
    /\ inst' = b
    /\ stage' = [stage EXCEPT ![b] = "serving"]
    /\ UNCHANGED <<others, history>>

\* LoadAndDelete and close(shutdownCh).
StopBot ==
    /\ inst # NoBot
    /\ inst' = NoBot
    /\ stage' = [stage EXCEPT ![inst] = IF @ = "serving" THEN "shut" ELSE "killed"]
    /\ UNCHANGED <<others, history>>

\* bot.cancel, after the wait for the streams.
Kill(b) ==
    /\ stage[b] = "shut"
    /\ stage' = [stage EXCEPT ![b] = "killed"]
    /\ Cancelled(b)
    /\ UNCHANGED <<inst, others>>

-----------------------------------------------------------------------------
(* initializeUserChannels, called by handleReadDialog ("dialog") and again  *)
(* by handleEvents ("events") when GetCh finds nothing.                     *)

\* handleReadDialog: u.bot.Load finds an instance.
ReadDialog(c, r) ==
    /\ Begin(c, r, "dialog", "model", NoCh)
    /\ UNCHANGED <<instances, router, startCh, talk, queues, gone, log, history>>

\* GetOrSetTreadAndResponder, GetOrSetRespGPT: the channel of a respondent who
\* has none is created; "empty data" creates none and is not an error.
GetOrSetRespGPT(r) ==
    \/ /\ chan[r] = NoCh
       /\ \E g \in Chans :
              /\ home[g] = NoResp /\ \A h \in Chans : h < g => home[h] # NoResp
              /\ home' = [home EXCEPT ![g] = r]
              /\ chan' = [chan EXCEPT ![r] = g]
              /\ open' = open \cup {g}
    \/ UNCHANGED router

\* Then Mod.GetCh; without a channel the start goes on with nil.
Model(c) ==
    /\ At(c, "model")
    /\ GetOrSetRespGPT(resp[c])
    /\ Goto(c, "send", chan'[resp[c]])
    /\ UNCHANGED <<instances, startCh, talk, queues, gone, log, history>>

\* One of the three calls fails; the channel may have been created.
ModelFails(c) ==
    /\ At(c, "model")
    /\ GetOrSetRespGPT(resp[c])
    /\ excused' = excused \cup ({chan'[resp[c]]} \cap open')
    /\ Finish(c)
    /\ UNCHANGED <<due, instances, startCh, talk, queues, gone, log>>

\* What follows the send: handleReadDialog answers, handleEvents looks for the
\* channel again.
Sent(c) == IF via[c] = "dialog" THEN Finish(c) ELSE Goto(c, "again", NoCh)

\* A start due a session: one of a running instance for an open channel.
Accepted(s) ==
    /\ due' = due \cup (IF Running(s.bot) /\ s.ch \in open THEN {s} ELSE {})
    /\ excused' = excused \cup (IF Running(s.bot) THEN {} ELSE {s.ch} \cap open)

\* The start that a handler sends, with the first number that is free.
StartOf(c, n) == [ch |-> ch[c], bot |-> bot[c], id |-> n]
Taken == {s.id : s \in Range(startCh) \cup sessions}
Free(n) == n \notin Taken /\ \A k \in Ids : k < n => k \in Taken

\* Mutant: a full StartCh is skipped without an error.
Send_SkipFull(c) == \E n \in Ids :
    /\ At(c, "send") /\ Free(n)
    /\ IF Len(startCh) < StartCap
       THEN startCh' = Append(startCh, StartOf(c, n)) /\ Accepted(StartOf(c, n))
       ELSE UNCHANGED <<startCh, history>>
    /\ Sent(c)
    /\ UNCHANGED <<instances, router, talk, queues, gone, log>>

\* Mutant: a full StartCh gives up the start that waits for the newest one.
Send_Newest(c) == \E n \in Ids :
    /\ At(c, "send") /\ Free(n)
    /\ startCh' = Append(IF Len(startCh) < StartCap THEN startCh ELSE Tail(startCh), StartOf(c, n))
    /\ Accepted(StartOf(c, n))
    /\ Sent(c)
    /\ UNCHANGED <<instances, router, talk, queues, gone, log>>

\* Mutant: the queue of starts has no bound.
Send_Unbounded(c) == \E n \in Ids :
    /\ At(c, "send") /\ Free(n)
    /\ startCh' = Append(startCh, StartOf(c, n))
    /\ Accepted(StartOf(c, n))
    /\ Sent(c)
    /\ UNCHANGED <<instances, router, talk, queues, gone, log>>

\* select: StartCh takes the start.
Send(c) == \E n \in Ids :
    /\ At(c, "send") /\ Free(n) /\ Len(startCh) < StartCap
    /\ startCh' = Append(startCh, StartOf(c, n))
    /\ Accepted(StartOf(c, n))
    /\ Sent(c)
    /\ UNCHANGED <<instances, router, talk, queues, gone, log>>

\* select, default: StartCh is full, the request fails; the channel stays.
SendFails(c) ==
    /\ At(c, "send") /\ Len(startCh) = StartCap
    /\ excused' = excused \cup ({ch[c]} \cap open)
    /\ Finish(c)
    /\ UNCHANGED <<due, instances, router, startCh, talk, queues, gone, log>>

-----------------------------------------------------------------------------
(* App.Starter, and the sessions of the start point (external).  Nothing in  *)
(* src/ keeps a second session from the RxCh that a first one reads.         *)

\* A start without a channel gives a session that nothing reaches.
Begun(s) == IF s.ch = NoCh THEN {} ELSE {s}

\* Mutant: StartSession runs in the loop of Starter instead of a goroutine.
Starter_Inline ==
    /\ startCh # <<>> /\ sessions = {}
    /\ sessions' = sessions \cup Begun(Head(startCh))
    /\ startCh' = Tail(startCh)
    /\ UNCHANGED <<thinking, instances, router, queues, conn, gone, log, history>>

\* The loop receives a start; a goroutine of its own runs StartSession.
Starter ==
    /\ startCh # <<>>
    /\ sessions' = sessions \cup Begun(Head(startCh))
    /\ startCh' = Tail(startCh)
    /\ UNCHANGED <<thinking, instances, router, queues, conn, gone, log, history>>

\* A session takes a message from RxCh ...
Listen(s) ==
    /\ s \in sessions /\ \A a \in thinking : a.by # s
    /\ rx[s.ch] # <<>>
    /\ thinking' = thinking \cup {[by |-> s, msg |-> Head(rx[s.ch])]}
    /\ rx' = [rx EXCEPT ![s.ch] = Tail(@)]
    /\ UNCHANGED <<sessions, tx, instances, router, startCh, conn, gone, log, history>>

\* ... and puts the answer into TxCh,
Reply(a) ==
    /\ a \in thinking
    /\ thinking' = thinking \ {a}
    /\ tx' = [tx EXCEPT ![a.by.ch] = Append(@, a.msg)]
    /\ UNCHANGED <<sessions, rx, instances, router, startCh, conn, gone, log, history>>

\* or sends an error into errCh, which the goroutine logs, and goes on.
AnswerFails(a) ==
    /\ a \in thinking
    /\ thinking' = thinking \ {a}
    /\ failed' = failed \cup {a.msg}
    /\ UNCHANGED <<sessions, asked, seen, instances, router, startCh, queues, conn, gone, history>>

\* StartSession, or the session later on, fails: the error is logged and errCh
\* closed.  The channel stays open, and nobody else is told.
SessionFails(s) ==
    /\ s \in sessions
    /\ sessions' = sessions \ {s}
    /\ thinking' = {a \in thinking : a.by # s}
    /\ failed' = failed \cup {a.msg : a \in {x \in thinking : x.by = s}}
    /\ due' = due \ {s} /\ excused' = excused \cup ({s.ch} \cap open)
    /\ UNCHANGED <<asked, seen, instances, router, startCh, queues, conn, gone>>

\* Its context is done, or its channel was closed: what it worked on is lost.
EndSession(s) ==
    /\ s \in sessions
    /\ ~Running(s.bot) \/ s.ch \notin open
    /\ sessions' = sessions \ {s}
    /\ thinking' = {a \in thinking : a.by # s}
    /\ UNCHANGED <<instances, router, startCh, queues, conn, gone, log, history>>

-----------------------------------------------------------------------------
(* Messages and streams.                                                    *)

\* handleData: an instance is found, GetCh finds the channel, SendToRx takes
\* the message.  (Any error changes nothing here.)
PostMessage(r, m) ==
    LET g == chan[r] IN
    /\ inst # NoBot /\ g # NoCh
    /\ \A q \in Resps : m \notin asked[q]
    /\ asked' = [asked EXCEPT ![r] = @ \cup {m}]
    /\ rx' = [rx EXCEPT ![g] = Append(@, m)]
    /\ UNCHANGED <<seen, failed, tx, instances, router, startCh, talk, conn, gone, history>>

\* Mutant: a new stream throws away what the stream before it did not read.
Connect_Drain(c, r) ==
    /\ Begin(c, r, "events", IF chan[r] = NoCh THEN "model" ELSE "open", chan[r])
    /\ tx' = [g \in Chans |-> IF g = chan[r] THEN <<>> ELSE tx[g]]
    /\ UNCHANGED <<rx, instances, router, startCh, talk, gone, log, history>>

\* handleEvents, admitted: GetCh finds the channel, or it is initialised again.
Connect(c, r) ==
    /\ Begin(c, r, "events", IF chan[r] = NoCh THEN "model" ELSE "open", chan[r])
    /\ UNCHANGED <<instances, router, startCh, talk, queues, gone, log, history>>

\* The second GetCh; without a channel 500.
Again(c) ==
    /\ At(c, "again")
    /\ IF chan[resp[c]] = NoCh THEN Finish(c) ELSE Goto(c, "open", chan[resp[c]])
    /\ UNCHANGED <<instances, router, startCh, talk, queues, gone, log, history>>

\* The client of the stream gets the answer, unless it has left: then the write
\* fails, or goes into a dead connection.
Written(c, m) ==
    seen' = IF c \in gone THEN seen ELSE [seen EXCEPT ![resp[c]] = Append(@, m)]

\* Mutant: an answer is put back for the other tabs of the respondent.
Take_PutBack(c) ==
    /\ At(c, "open") /\ tx[ch[c]] # <<>>
    /\ tx' = [tx EXCEPT ![ch[c]] = Append(Tail(@), Head(@))]
    /\ Written(c, Head(tx[ch[c]]))
    /\ UNCHANGED <<asked, failed, rx, instances, router, startCh, talk, conn, gone, history>>

\* case msg := <-usrCh.TxCh, and the write.  A closed channel is still drained.
Take(c) ==
    /\ At(c, "open") /\ tx[ch[c]] # <<>>
    /\ tx' = [tx EXCEPT ![ch[c]] = Tail(@)]
    /\ Written(c, Head(tx[ch[c]]))
    /\ UNCHANGED <<asked, failed, rx, instances, router, startCh, talk, conn, gone, history>>

ClientGone(c) ==
    /\ At(c, "open") /\ c \notin gone
    /\ gone' = gone \cup {c}
    /\ UNCHANGED <<instances, router, startCh, talk, queues, conn, log, history>>

\* Mutant: the loop does not look at ok of the receive from TxCh.
MustLeave_IgnoreClosed(c) == c \in gone \/ Told(bot[c])

\* The reasons to leave the loop that stay once they are there: the request
\* context, shutdownCh, TxCh closed and drained.
MustLeave(c) ==
    \/ c \in gone
    \/ Told(bot[c])
    \/ ch[c] \notin open /\ tx[ch[c]] = <<>>

\* The handler returns, for one of these or LongPollingTimeout.
Leave(c) ==
    /\ At(c, "open")
    /\ Finish(c)
    /\ gone' = gone \ {c}
    /\ UNCHANGED <<instances, router, startCh, talk, queues, log, history>>

\* CleanDialogData, by a timer of a stream that ended: the channel which the
\* respondent has now is closed.  When it fires is in SSEStream; here it may
\* at any time.
Clean(r) ==
    /\ chan[r] # NoCh
    /\ open' = open \ {chan[r]}
    /\ chan' = [chan EXCEPT ![r] = NoCh]
    /\ due' = {s \in due : s.ch # chan[r]}
    /\ excused' = excused \ {chan[r]}
    /\ UNCHANGED <<home, instances, startCh, talk, queues, conn, gone, log>>

-----------------------------------------------------------------------------
Handler(c) == \/ Model(c) \/ ModelFails(c) \/ Send(c) \/ SendFails(c) \/ Again(c)

Session(s) ==
    Listen(s) \/ \E a \in thinking : a.by = s /\ (Reply(a) \/ AnswerFails(a))

Next ==
    \/ CancelOld \/ StopBot \/ \E b \in Bots : Store(b) \/ Kill(b)
    \/ \E c \in Conns :
          \/ \E r \in Resps : ReadDialog(c, r) \/ Connect(c, r)
          \/ Handler(c) \/ Take(c) \/ ClientGone(c) \/ Leave(c)
    \/ \E r \in Resps, m \in Msgs : PostMessage(r, m)
    \/ Starter
    \/ \E s \in sessions : Session(s) \/ SessionFails(s) \/ EndSession(s)
    \/ \E r \in Resps : Clean(r)

Spec == Init /\ [][Next]_vars

\* The scheduler runs the handlers and Starter; a session that took a message
\* ends with an answer or an error (the model has a timeout); a stream whose
\* client is there takes what is in TxCh, and leaves when it must: a select does
\* not pass over a case that stays ready.  Nobody has to connect, to go, to stop,
\* to post or to fail.  A subscript is what the action always changes.
Fairness ==
    /\ \A c \in Conns : /\ WF_pc(Handler(c) \/ (At(c, "open") /\ MustLeave(c) /\ Leave(c)))
                        /\ WF_tx(Take(c))
    /\ WF_startCh(Starter)
    /\ \A n \in Ids : WF_thinking(\E s \in sessions : s.id = n /\ Session(s))

FairSpec == Spec /\ Fairness

-----------------------------------------------------------------------------
(* What must hold. *)

\* A start that StartCh took is never lost: as long as its instance runs and
\* its channel is open, it is in the queue or a session, or its session has
\* failed and Starter has logged that.
StartsServed == due \subseteq Range(startCh) \cup sessions

\* A channel that GetCh finds is due a session, unless the handler that made it
\* is under way, a client was told of an error, its instance was cancelled, or a
\* session failed, of which only the log knows: clients still get 200 for their
\* messages there and an open stream.
SilentExplained == \A r \in Resps :
    chan[r] # NoCh => \/ \E s \in due : s.ch = chan[r]
                      \/ chan[r] \in excused
                      \/ \E c \in Conns : At(c, "send") /\ ch[c] = chan[r]

MsgsOf(g) == Range(rx[g]) \cup Range(tx[g])
                \cup {a.msg : a \in {x \in thinking : x.by.ch = g}}

\* Messages whose answer may still reach the respondent.
OnWay(r) == UNION {MsgsOf(g) : g \in {x \in Chans : home[x] = r}}

Talk == INSTANCE Conversation WITH
    pending <- [r \in Resps |-> OnWay(r)], answered <- seen

\* Two tabs, overlapping streams and replaced channels notwithstanding, an
\* answer goes to the respondent who asked, to one stream, once.
ImplementsConversation == Talk!Spec

\* An accepted message is lost only with a stream whose client had left, with a
\* session whose instance was cancelled or whose dialog was cleaned, or by an
\* error that was logged while it was answered.  A reconnect alone loses nothing.
LossExplained == [][\A r \in Resps : \A m \in OnWay(r) :
    \/ m \in OnWay(r)'
    \/ m \in Range(seen'[r])
    \/ m \in failed'
    \/ \E c \in gone : At(c, "open") /\ m \in Range(tx[ch[c]])
    \/ \E a \in thinking : a.msg = m /\ (~Running(a.by.bot) \/ a.by.ch \notin open)]_vars

\* A running instance has started a session on the channel, of no error there a
\* client was told or the log, and the stream c is there to read.
Waiting(m, c) ==
    /\ At(c, "open") /\ c \notin gone /\ ch[c] \notin excused
    /\ \E s \in due : s.ch = ch[c] /\ m \in MsgsOf(s.ch)

\* A message is not left waiting for ever where everything is there to answer
\* it: however many sessions run, Starter begins the next one.
MessageAnswered == \A m \in Msgs, c \in Watched : Waiting(m, c) ~> ~Waiting(m, c)

OnClosed(c) == At(c, "open") /\ ch[c] \notin open

\* A stream does not stay on a channel that was cleaned under it: it ends, and
\* its client may come back to the channel the respondent has then.
ClosedChannelLeft == \A c \in Watched : OnClosed(c) ~> ~OnClosed(c)
=============================================================================
