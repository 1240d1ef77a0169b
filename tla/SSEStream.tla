------------------------------ MODULE SSEStream ------------------------------
(***************************************************************************)
(* GET /widget/events: handleEvents, one goroutine per connection, and the *)
(* timer it leaves behind when the last connection of an instance closes.  *)
(* The instances themselves come and go as BotInstances says (BotRegistry  *)
(* implements it); the respondents' channels live in the model router of   *)
(* air-common, of which only their presence is kept.                       *)
(***************************************************************************)
EXTENDS Integers, FiniteSets, Sequences

CONSTANTS
    Users, Bots, NoUser,   \* as in BotInstances
    Resps,                 \* respondents: RespId of a token
    Conns,                 \* connections that may be open at a time
    NoBot, NoResp,
    UserOf,                \* UserOf[r]: UserId of the token of r
    Limit,                 \* Bot.maxConnections
    EndCap,                \* capacity of User.endDialogCh
    Grace,                 \* reconnectGracePeriod, in ticks
    GaugeBound,            \* bound of a run: SSEConnections only grows when a
                           \* failed reconnect leaks, see Release
    Room                   \* bound of a run: instances built, and respondents
                           \* that have anything on the server, at a time

ASSUME StreamAssumption ==
    /\ NoUser \notin Users /\ NoBot \notin Bots /\ NoResp \notin Resps
    /\ UserOf \in [Resps -> Users]
    /\ Limit \in 0..255          \* a uint8
    /\ EndCap \in Nat /\ Grace \in Nat /\ GaugeBound \in Nat /\ Room \in Nat
    /\ IsFiniteSet(Conns)

VARIABLES
    owner, stage,  \* of BotInstances
    active,        \* Bot.activeConnections
    gauge,         \* metrics.SSEConnections of a user
    chans,         \* respondents Mod.GetCh finds a channel for
    endCh,         \* User.endDialogCh: the dialogs to be saved
    pc,            \* what the goroutine, or its timer, does next
    bot, resp,     \* its instance and its respondent
    left           \* ticks until the timer fires

life  == <<owner, stage>>
conn  == <<pc, bot, resp, left>>
vars  == <<life, active, gauge, chans, endCh, conn>>

Life == INSTANCE BotInstances

\* Between activeConnections++ and decrementConnection.
Holding == {"count", "attach", "init", "again", "release",
            "serving", "writing", "closing"}
\* Between the Inc and the Dec of SSEConnections, on the paths that reach Dec.
Counted == {"attach", "init", "again", "release", "serving", "writing", "closing"}
Streaming == {"serving", "writing"}
Steps == {"idle", "found", "settle", "grace", "end", "clean"} \cup Holding

SharedTypes ==
    /\ active \in [Bots -> 0..255]
    /\ gauge \in [Users -> Int]
    /\ chans \in SUBSET Resps
    /\ endCh \in Seq(Resps) /\ Len(endCh) <= EndCap

ConnTypes ==
    /\ pc \in [Conns -> Steps]
    /\ bot \in [Conns -> Bots \cup {NoBot}]
    /\ resp \in [Conns -> Resps \cup {NoResp}]
    /\ left \in [Conns -> 0..Grace]
    /\ \A c \in Conns : pc[c] # "idle" => bot[c] \in Bots /\ resp[c] \in Resps

TypeOK == Life!TypeOK /\ SharedTypes /\ ConnTypes

Known == chans \cup {resp[c] : c \in Conns} \cup {endCh[i] : i \in DOMAIN endCh}

Fits == Cardinality({b \in Bots : owner[b] # NoUser}) + Cardinality(Known \ {NoResp}) <= Room

Init ==
    /\ Life!Init
    /\ active = [b \in Bots |-> 0]
    /\ gauge = [u \in Users |-> 0]
    /\ chans \in SUBSET Resps
    /\ endCh = <<>>
    /\ pc = [c \in Conns |-> "idle"]
    /\ bot = [c \in Conns |-> NoBot]
    /\ resp = [c \in Conns |-> NoResp]
    /\ left = [c \in Conns |-> 0]
    /\ Fits

-----------------------------------------------------------------------------
(* Helpers of the actions. *)

At(c, step) == pc[c] = step

Goto(c, step) ==
    /\ pc' = [pc EXCEPT ![c] = step]
    /\ UNCHANGED <<bot, resp, left>>

\* The handler, or its timer, is over.
Finish(c) ==
    /\ pc' = [pc EXCEPT ![c] = "idle"]
    /\ bot' = [bot EXCEPT ![c] = NoBot]
    /\ resp' = [resp EXCEPT ![c] = NoResp]
    /\ left' = [left EXCEPT ![c] = 0]

\* decrementConnection, under the mutex.
decrementConnection(b) ==
    active' = [active EXCEPT ![b] = IF @ > 0 THEN @ - 1 ELSE @]

outside == <<chans, endCh>>

-----------------------------------------------------------------------------
(* Opening a stream. *)

\* The token is valid and u.bot.Load finds the instance now stored.  (With a
\* bad token, a foreign origin or no instance nothing changes.)  GaugeBound
\* and Room bound a run.
Open(c, r) ==
    /\ At(c, "idle") /\ gauge[UserOf[r]] < GaugeBound
    /\ \E b \in Life!Serving(UserOf[r]) :
           /\ bot' = [bot EXCEPT ![c] = b]
           /\ resp' = [resp EXCEPT ![c] = r]
    /\ pc' = [pc EXCEPT ![c] = "found"]
    /\ UNCHANGED <<life, active, gauge, outside, left>>
    /\ Fits'

\* Below the limit, under the mutex.
Admit(c) ==
    /\ At(c, "found") /\ active[bot[c]] < Limit
    /\ active' = [active EXCEPT ![bot[c]] = (@ + 1) % 256]
    /\ pc' = [pc EXCEPT ![c] = "count"]
    /\ UNCHANGED <<life, gauge, outside, bot, resp, left>>

\* At the limit: 429.
Refuse(c) ==
    /\ At(c, "found") /\ active[bot[c]] >= Limit
    /\ Finish(c)
    /\ UNCHANGED <<life, active, gauge, outside>>

\* SSEConnections.Inc, after the unlock.
Count(c) ==
    /\ At(c, "count")
    /\ gauge' = [gauge EXCEPT ![UserOf[resp[c]]] = @ + 1]
    /\ pc' = [pc EXCEPT ![c] = "attach"]
    /\ UNCHANGED <<life, active, outside, bot, resp, left>>

\* Mod.GetCh: with a channel the handshake follows, without one the channels
\* are initialised again.
Attach(c) ==
    /\ At(c, "attach")
    /\ Goto(c, IF resp[c] \in chans THEN "serving" ELSE "init")
    /\ UNCHANGED <<life, active, gauge, outside>>

\* initializeUserChannels succeeds: the channel exists, StartCh took it.
InitChannels(c) ==
    /\ At(c, "init")
    /\ chans' = chans \cup {resp[c]}
    /\ Goto(c, "again")
    /\ UNCHANGED <<life, active, gauge, endCh>>

\* It fails, before the model created the channel or after (StartCh full).
InitFails(c) ==
    /\ At(c, "init")
    /\ chans' \in {chans, chans \cup {resp[c]}}
    /\ Goto(c, "release")
    /\ UNCHANGED <<life, active, gauge, endCh>>

\* Mutant: a reconnect that succeeds is counted once more.
AttachAgain_CountAgain(c) ==
    /\ At(c, "again")
    /\ IF resp[c] \in chans
       THEN gauge' = [gauge EXCEPT ![UserOf[resp[c]]] = @ + 1] /\ Goto(c, "serving")
       ELSE Goto(c, "release") /\ UNCHANGED gauge
    /\ UNCHANGED <<life, active, outside>>

\* The second GetCh: the channel may be gone again.
AttachAgain(c) ==
    /\ At(c, "again")
    /\ Goto(c, IF resp[c] \in chans THEN "serving" ELSE "release")
    /\ UNCHANGED <<life, active, gauge, outside>>

\* Mutant: the error exit returns without decrementConnection.
Release_NoDecrement(c) ==
    /\ At(c, "release")
    /\ Finish(c)
    /\ UNCHANGED <<life, active, gauge, outside>>

\* An error exit: decrementConnection and 500; the deferred function that
\* counts SSEConnections down is not registered yet.
Release(c) ==
    /\ At(c, "release")
    /\ decrementConnection(bot[c])
    /\ Finish(c)
    /\ UNCHANGED <<life, gauge, outside>>

-----------------------------------------------------------------------------
(* The loop.  A message of TxCh or a ping is written to the client; nothing *)
(* bounds the write if the client does not read.                            *)

Write(c) ==
    /\ At(c, "serving")
    /\ Goto(c, "writing")
    /\ UNCHANGED <<life, active, gauge, outside>>

WriteReturns(c) ==
    /\ At(c, "writing")
    /\ Goto(c, "serving")
    /\ UNCHANGED <<life, active, gauge, outside>>

\* Mutant: the loop does not select on bot.shutdownCh.
ShutdownSeen_Never(c) ==
    /\ At(c, "serving") /\ stage[bot[c]] = "shut"
    /\ UNCHANGED vars

\* bot.shutdownCh is closed: the client is told and the handler returns.
ShutdownSeen(c) ==
    /\ At(c, "serving") /\ stage[bot[c]] = "shut"
    /\ Goto(c, "closing")
    /\ UNCHANGED <<life, active, gauge, outside>>

\* LongPollingTimeout.
TimedOut(c) ==
    /\ At(c, "serving")
    /\ Goto(c, "closing")
    /\ UNCHANGED <<life, active, gauge, outside>>

\* The request context is done, TxCh is closed, or a write failed.
ClientGone(c) ==
    /\ pc[c] \in Streaming
    /\ Goto(c, "closing")
    /\ UNCHANGED <<life, active, gauge, outside>>

-----------------------------------------------------------------------------
(* The deferred function. *)

\* SSEConnections.Dec, decrementConnection.
Disconnect(c) ==
    /\ At(c, "closing")
    /\ gauge' = [gauge EXCEPT ![UserOf[resp[c]]] = @ - 1]
    /\ decrementConnection(bot[c])
    /\ Goto(c, "settle")
    /\ UNCHANGED <<life, outside>>

\* remainingConnections is read: the timer is started only at 0.
Settle(c) ==
    /\ At(c, "settle")
    /\ IF active[bot[c]] = 0
       THEN /\ pc' = [pc EXCEPT ![c] = "grace"]
            /\ left' = [left EXCEPT ![c] = Grace]
            /\ UNCHANGED <<bot, resp>>
       ELSE Finish(c)
    /\ UNCHANGED <<life, active, gauge, outside>>

\* A tick of the clock.
Tick ==
    /\ \E c \in Conns : left[c] > 0
    /\ left' = [c \in Conns |-> IF left[c] > 0 THEN left[c] - 1 ELSE 0]
    /\ UNCHANGED <<life, active, gauge, outside, pc, bot, resp>>

\* Mutant: the timer ends the dialog without looking for a reconnect.
Expire_NoCheck(c) ==
    /\ At(c, "grace") /\ left[c] = 0
    /\ Goto(c, "end")
    /\ UNCHANGED <<life, active, gauge, outside>>

\* Mutant: stillDisconnected is negated.
Expire_Inverted(c) ==
    /\ At(c, "grace") /\ left[c] = 0
    /\ IF active[bot[c]] = 0 THEN Finish(c) ELSE Goto(c, "end")
    /\ UNCHANGED <<life, active, gauge, outside>>

\* The timer fires: the dialog ends unless the instance has a connection.
Expire(c) ==
    /\ At(c, "grace") /\ left[c] = 0
    /\ IF active[bot[c]] = 0 THEN Goto(c, "end") ELSE Finish(c)
    /\ UNCHANGED <<life, active, gauge, outside>>

\* Mutant: the dialogs to be saved are collected without a bound.
End_Unbounded(c) ==
    /\ At(c, "end")
    /\ endCh' = Append(endCh, resp[c])
    /\ Goto(c, "clean")
    /\ UNCHANGED <<life, active, gauge, chans>>

\* The dialog is handed over for saving, unless endDialogCh is full.
End(c) ==
    /\ At(c, "end")
    /\ endCh' = IF Len(endCh) < EndCap THEN Append(endCh, resp[c]) ELSE endCh
    /\ Goto(c, "clean")
    /\ UNCHANGED <<life, active, gauge, chans>>

\* CleanDialogData: the channel of the respondent is gone.
Clean(c) ==
    /\ At(c, "clean")
    /\ chans' = chans \ {resp[c]}
    /\ Finish(c)
    /\ UNCHANGED <<life, active, gauge, endCh>>

-----------------------------------------------------------------------------
(* The other goroutines. *)

\* handleReadDialog: a page that opens initialises the respondent's channel.
ReadDialog(r) ==
    /\ Life!Serving(UserOf[r]) # {}
    /\ chans' = chans \cup {r}
    /\ UNCHANGED <<life, active, gauge, endCh, conn>>
    /\ Fits'

\* The receiver of endDialogCh takes a dialog to save it.
SaveDialog ==
    /\ endCh # <<>>
    /\ endCh' = Tail(endCh)
    /\ UNCHANGED <<life, active, gauge, chans, conn>>

\* An instance is built, published, withdrawn or shut.
Lifecycle ==
    /\ Life!Next
    /\ UNCHANGED <<active, gauge, outside, conn>>
    /\ Fits'

HandlerStep(c) ==
    \/ Admit(c) \/ Refuse(c) \/ Count(c) \/ Attach(c)
    \/ InitChannels(c) \/ InitFails(c) \/ AttachAgain(c) \/ Release(c)
    \/ Disconnect(c) \/ Settle(c)
    \/ Expire(c) \/ End(c) \/ Clean(c)

Next ==
    \/ \E c \in Conns : \/ \E r \in Resps : Open(c, r)
                        \/ HandlerStep(c)
                        \/ Write(c) \/ WriteReturns(c)
                        \/ ShutdownSeen(c) \/ TimedOut(c) \/ ClientGone(c)
    \/ Tick
    \/ \E r \in Resps : ReadDialog(r)
    \/ SaveDialog
    \/ Lifecycle

Spec == Init /\ [][Next]_vars

\* The scheduler runs every goroutine and timer, and a client reads what is
\* written to it.  A select with several ready cases picks one at random, so a
\* stream that keeps looping picks the closed shutdownCh in the end (SF).  A
\* client that leaves and LongPollingTimeout are not relied upon.
Fairness ==
    /\ \A c \in Conns : /\ WF_vars(HandlerStep(c))
                        /\ WF_vars(WriteReturns(c))
                        /\ SF_vars(ShutdownSeen(c))
    /\ WF_vars(Tick)

FairSpec == Spec /\ Fairness

-----------------------------------------------------------------------------
(* What must hold. *)

\* The handlers that hold a slot of an instance, the streams of a respondent,
\* and the handlers of a user that SSEConnections counts.
Holders(b) == {c \in Conns : pc[c] \in Holding /\ bot[c] = b}
StreamsOf(r) == {c \in Conns : pc[c] \in Streaming /\ resp[c] = r}
CountedOf(u) == {c \in Conns : pc[c] \in Counted /\ UserOf[resp[c]] = u}

\* The counter of an instance is the number of goroutines between its
\* increment and its decrement, on every exit path, and stays within the
\* limit: no slot is lost or given back twice, and the uint8 never wraps.
SlotAccounting == \A b \in Bots :
    active[b] = Cardinality(Holders(b)) /\ active[b] <= Limit

\* The help text of the gauge: "Current active SSE connections."  An error exit
\* leaves it one too high for good; as long as no handler takes one, it is
\* exactly the number of handlers between their Inc and their Dec, over
\* restarts, stops and every way a stream ends.
NoErrorExit == \A c \in Conns : pc[c] # "release"
GaugeExact == \A u \in Users : gauge[u] = Cardinality(CountedOf(u))
GaugeRight == []NoErrorExit => []GaugeExact

\* The log of the timer says that a dialog stays active after a reconnect: the
\* timer goes on to end a dialog only if its respondent has no open stream.
ReconnectKeepsDialog == [][\A c \in Conns :
    (At(c, "grace") /\ pc'[c] = "end") => StreamsOf(resp[c]) = {}]_vars

\* As long as no restart comes between: the timer ends no dialog whose
\* respondent is back on the instance the timer belongs to, whichever other
\* connections of that instance opened and closed meanwhile.
ReconnectToSameBot == [][\A c \in Conns :
    (At(c, "grace") /\ pc'[c] = "end") =>
        \A d \in StreamsOf(resp[c]) : bot[d] # bot[c]]_vars

\* Once shutdownCh is closed the instance drains for good, although handlers
\* that found it before the stop may still be admitted afterwards, and without
\* waiting for LongPollingTimeout.
ShutDrains == \A b \in Bots : (stage[b] = "shut") ~> [](active[b] = 0)

\* The connection of r was the last of b: the counter its handler is about to
\* read is 0.  (Every other visitor of the widget has a connection there too.)
LastLeft(b, r) == active[b] = 0 /\ \E c \in Conns :
    At(c, "settle") /\ bot[c] = b /\ resp[c] = r

\* The respondent whose connection was the last of its instance loses the
\* channel after the grace period, unless somebody connects to the instance
\* first, the respondent or another visitor, even with an attempt that fails.
DialogEnds == \A b \in Bots, r \in Resps :
    LastLeft(b, r) ~> (r \notin chans \/ Holders(b) # {})

-----------------------------------------------------------------------------
(* The connections, as StreamSlots sees them. *)

PhaseOf(c) ==
    CASE pc[c] \in Holding             -> "in"
      [] pc[c] \in {"settle", "grace"} -> "left"
      [] pc[c] \in {"end", "clean"}    -> "ending"
      [] OTHER                         -> "out"

Slots == INSTANCE StreamSlots WITH
    phase <- [c \in Conns |-> PhaseOf(c)],
    at    <- [c \in Conns |-> IF PhaseOf(c) = "out" THEN NoBot ELSE bot[c]]

\* The counter, the exits and the timers implement the promise of the slots.
ImplementsSlots == Slots!Spec
=============================================================================
