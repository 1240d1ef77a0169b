---------------------------- MODULE OperatorMode ----------------------------
(***************************************************************************)
(* Dialogs that a human operator has taken over: the flag of each dialog,  *)
(* the gauge that counts the flags, and DisableOperatorMode, which gives   *)
(* the dialog back to the model in several steps that may fail.  The       *)
(* methods are called by air-common from goroutines of its own, so calls   *)
(* overlap.  The streams of the operators are kept by the service that     *)
(* CloseOperatorSSE calls, and are not part of the state.                  *)
(***************************************************************************)
EXTENDS Integers, Sequences, FiniteSets

CONSTANTS
    Dialogs,
    Calls,        \* calls that may run at a time
    NoDialog,
    RxCap,        \* messages a channel holds unread (bounds a run)
    MaxSets       \* times a dialog is taken over (bounds a run)

ASSUME OperatorAssumption ==
    /\ IsFiniteSet(Dialogs) /\ NoDialog \notin Dialogs
    /\ RxCap \in Nat /\ MaxSets \in Nat

VARIABLES
    on,           \* operatorModeByDialog
    gauge,        \* OperatorModeDialogs
    taken,        \* how often a dialog was taken over (SetOperatorMode(d, true))
    rx,           \* RxCh of a dialog: messages of DisableOperatorMode, each the
                  \* number of the take-over it ends
    pc, op, arg,  \* a call: step, method, dialog
    start,        \* taken, when a disable cleared the flag
    first, seen,  \* a Range in progress: keys at its begin, keys visited
    alone,        \* history: calls no other call has overlapped up to now
    exact         \* history: the last call that set the gauge was alone

flags == <<on, taken>>
args  == <<op, arg>>
vars == <<flags, gauge, rx, pc, args, start, first, seen, alone, exact>>

Steps   == {"idle", "flag", "count", "set", "find", "notice", "resume", "close"}
Methods == {"on", "off", "disable"}

TypeOK ==
    /\ on \subseteq Dialogs /\ gauge \in 0..Cardinality(Dialogs)
    /\ taken \in [Dialogs -> Nat]
    /\ rx \in [Dialogs -> Seq(Nat)] /\ \A d \in Dialogs : Len(rx[d]) <= RxCap
    /\ pc \in [Calls -> Steps] /\ op \in [Calls -> Methods]
    /\ arg \in [Calls -> Dialogs \cup {NoDialog}]
    /\ \A c \in Calls : pc[c] # "idle" => arg[c] \in Dialogs
    /\ start \in [Calls -> Nat]
    /\ first \in [Calls -> SUBSET Dialogs] /\ seen \in [Calls -> SUBSET Dialogs]
    /\ alone \subseteq Calls /\ exact \in BOOLEAN

Init ==
    /\ on = {} /\ gauge = 0 /\ taken = [d \in Dialogs |-> 0]
    /\ rx = [d \in Dialogs |-> <<>>]
    /\ pc = [c \in Calls |-> "idle"] /\ op = [c \in Calls |-> "off"]
    /\ arg = [c \in Calls |-> NoDialog]
    /\ start = [c \in Calls |-> 0]
    /\ first = [c \in Calls |-> {}] /\ seen = [c \in Calls |-> {}]
    /\ alone = {} /\ exact = TRUE

At(c, step) == pc[c] = step

\* The calls that are in SetOperatorMode.
Setting == {c \in Calls : pc[c] \in {"flag", "count", "set"}}

TakingOver(d) == {c \in Calls : pc[c] = "flag" /\ op[c] = "on" /\ arg[c] = d}

Goto(c, step) == pc' = [pc EXCEPT ![c] = step]

Forget(c) ==
    /\ Goto(c, "idle")
    /\ op' = [op EXCEPT ![c] = "off"]
    /\ arg' = [arg EXCEPT ![c] = NoDialog]
    /\ start' = [start EXCEPT ![c] = 0]

-----------------------------------------------------------------------------
(* What air-common does: channels are cleaned, sessions read RxCh.         *)

Clean(d) ==
    /\ rx[d] # <<>>
    /\ rx' = [rx EXCEPT ![d] = <<>>]
    /\ UNCHANGED <<flags, gauge, pc, args, start, first, seen, alone, exact>>

Read(d) ==
    /\ rx[d] # <<>>
    /\ rx' = [rx EXCEPT ![d] = Tail(@)]
    /\ UNCHANGED <<flags, gauge, pc, args, start, first, seen, alone, exact>>

-----------------------------------------------------------------------------
(* SetOperatorMode, called for itself or by DisableOperatorMode.           *)

Call(c, m, d) ==
    /\ At(c, "idle")
    /\ m = "on" => taken[d] + Cardinality(TakingOver(d)) < MaxSets
    /\ Goto(c, "flag")
    /\ op' = [op EXCEPT ![c] = m]
    /\ arg' = [arg EXCEPT ![c] = d]
    /\ alone' = IF Setting = {} THEN {c} ELSE {}
    /\ UNCHANGED <<flags, gauge, rx, start, first, seen, exact>>

\* Mutant: the keys are counted before the flag is written.
Flag_CountFirst(c) ==
    /\ At(c, "flag")
    /\ IF op[c] = "on"
       THEN on' = on \cup {arg[c]} /\ taken' = [taken EXCEPT ![arg[c]] = @ + 1]
       ELSE on' = on \ {arg[c]} /\ UNCHANGED taken
    /\ start' = [start EXCEPT ![c] = taken'[arg[c]]]
    /\ Goto(c, "set")
    /\ first' = [first EXCEPT ![c] = {}]
    /\ seen' = [seen EXCEPT ![c] = on]
    /\ UNCHANGED <<gauge, rx, args, alone, exact>>

\* Mutant: DisableOperatorMode leaves the flag to its caller.
Flag_NotByDisable(c) ==
    /\ At(c, "flag")
    /\ CASE op[c] = "on"  -> /\ on' = on \cup {arg[c]}
                             /\ taken' = [taken EXCEPT ![arg[c]] = @ + 1]
         [] op[c] = "off" -> on' = on \ {arg[c]} /\ UNCHANGED taken
         [] OTHER         -> UNCHANGED flags
    /\ start' = [start EXCEPT ![c] = taken'[arg[c]]]
    /\ Goto(c, "count")
    /\ first' = [first EXCEPT ![c] = on']
    /\ seen' = [seen EXCEPT ![c] = {}]
    /\ UNCHANGED <<gauge, rx, args, alone, exact>>

\* Store or Delete; then Range begins to count.
Flag(c) ==
    /\ At(c, "flag")
    /\ IF op[c] = "on"
       THEN on' = on \cup {arg[c]} /\ taken' = [taken EXCEPT ![arg[c]] = @ + 1]
       ELSE on' = on \ {arg[c]} /\ UNCHANGED taken
    /\ start' = [start EXCEPT ![c] = taken'[arg[c]]]
    /\ Goto(c, "count")
    /\ first' = [first EXCEPT ![c] = on']
    /\ seen' = [seen EXCEPT ![c] = {}]
    /\ UNCHANGED <<gauge, rx, args, alone, exact>>

\* operatorModeDialogsCount: Range visits a key once, if it is there then, in
\* no order; a key written or deleted meanwhile may be visited or not.
Visit(c) == \E d \in on \ seen[c] :
    /\ At(c, "count")
    /\ seen' = [seen EXCEPT ![c] = @ \cup {d}]
    /\ UNCHANGED <<flags, gauge, rx, pc, args, start, first, alone, exact>>

Counted(c) ==
    /\ At(c, "count")
    /\ on \cap first[c] \subseteq seen[c]
    /\ Goto(c, "set")
    /\ UNCHANGED <<flags, gauge, rx, args, start, first, seen, alone, exact>>

\* TrackOperatorModeDialogs; SetOperatorMode returns.
SetGauge(c) ==
    /\ At(c, "set")
    /\ gauge' = Cardinality(seen[c])
    /\ exact' = (c \in alone)
    /\ alone' = alone \ {c}
    /\ first' = [first EXCEPT ![c] = {}]
    /\ seen' = [seen EXCEPT ![c] = {}]
    /\ IF op[c] = "disable"
       THEN Goto(c, "find") /\ UNCHANGED <<args, start>>
       ELSE Forget(c)
    /\ UNCHANGED <<flags, rx>>

-----------------------------------------------------------------------------
(* The rest of DisableOperatorMode.                                        *)

unset == <<flags, gauge, first, seen, alone, exact>>

Continue(c, step) ==
    /\ Goto(c, step)
    /\ UNCHANGED <<args, start, unset>>

\* GetRespIdByDialogID and u.bot.Load; a silent call leaves out the notice.
Find(c) ==
    /\ At(c, "find")
    /\ \E step \in {"notice", "resume"} : Continue(c, step)
    /\ UNCHANGED rx

\* No respondent, no instance, or no channel for the message to the model: an
\* error is returned with the flag cleared, the model is not told, and the
\* stream of the operator is not closed.
NotFound(c) ==
    /\ pc[c] \in {"find", "resume"}
    /\ Forget(c)
    /\ UNCHANGED <<rx, unset>>

\* Mutant: the channel takes any number of messages.
Sent_Unbounded(c) == rx' = [rx EXCEPT ![arg[c]] = Append(@, start[c])]

\* trySendToRxCh: SendToRx; it may fail, and RxCh may be full.
Sent(c) ==
    \/ /\ Len(rx[arg[c]]) < RxCap
       /\ rx' = [rx EXCEPT ![arg[c]] = Append(@, start[c])]
    \/ UNCHANGED rx

\* The message for the respondent; without a channel, or if the send fails, an
\* error is only logged.
Notice(c) ==
    /\ At(c, "notice")
    /\ Sent(c)
    /\ Continue(c, "resume")

\* The message for the model; a failed send is only logged.
Resume(c) ==
    /\ At(c, "resume")
    /\ Sent(c)
    /\ Continue(c, "close")

\* CloseOperatorSSE, if there is an operator service; its error is only logged,
\* so that the call returns nil either way.
Close(c) ==
    /\ At(c, "close")
    /\ Forget(c)
    /\ UNCHANGED <<rx, unset>>

-----------------------------------------------------------------------------
Next ==
    \/ \E d \in Dialogs : Clean(d) \/ Read(d)
    \/ \E c \in Calls :
          \/ \E m \in Methods, d \in Dialogs : Call(c, m, d)
          \/ Flag(c) \/ Visit(c) \/ Counted(c) \/ SetGauge(c)
          \/ Find(c) \/ NotFound(c) \/ Notice(c) \/ Resume(c)
          \/ Close(c)

Spec == Init /\ [][Next]_vars

-----------------------------------------------------------------------------
(* What must hold. *)

\* The gauge is right whenever no SetOperatorMode is under way, if the last one
\* was not overlapped by another: a count that went wrong in a race is repaired
\* by the next quiet call.  Overlapping calls may leave it wrong until then,
\* though the gauge's help text ("Current number of dialogs in operator mode.")
\* knows no such exception; SerialCallsCount (OperatorModeProofs) says that the
\* overlap is the only way there.
QuietGauge == Setting = {} /\ exact => gauge = Cardinality(on)

\* The model is never told to resume while the flag of that very take-over is
\* still set: if a message of a disable waits in RxCh of a dialog with the flag,
\* the dialog was taken over again since.
ResumeHeard == \A d \in on : \A i \in DOMAIN rx[d] : rx[d][i] < taken[d]
=============================================================================
