----------------------------- MODULE StreamSlots -----------------------------
(***************************************************************************)
(* What GET /widget/events promises about the connections of an instance.  *)
(* A connection takes one of the Limit slots of the instance it found, at  *)
(* once and for good, and gives it back once.  One that was a stream       *)
(* leaves a timer behind, and the timer may end a dialog only while nobody *)
(* holds a slot of that instance.  SSEStream, with its counter, its exits  *)
(* and its gaps between check and use, implements this specification.      *)
(***************************************************************************)
EXTENDS Integers, FiniteSets

CONSTANTS Bots, Conns,  \* instances, connections
          NoBot,
          Limit         \* slots of an instance

VARIABLES phase,  \* of a connection: without a slot, with one, a timer, or
                  \* a timer that ends the dialog
          at      \* the instance whose slot it has, or had

vars == <<phase, at>>

Init ==
    /\ phase = [c \in Conns |-> "out"]
    /\ at = [c \in Conns |-> NoBot]

Inside(b) == {c \in Conns : phase[c] = "in" /\ at[c] = b}

Enter(c, b) ==
    /\ phase[c] = "out" /\ Cardinality(Inside(b)) < Limit
    /\ phase' = [phase EXCEPT ![c] = "in"]
    /\ at' = [at EXCEPT ![c] = b]

\* The stream has ended: its timer remains.
Leave(c) ==
    /\ phase[c] = "in"
    /\ phase' = [phase EXCEPT ![c] = "left"]
    /\ UNCHANGED at

\* The timer fires, and nobody is connected.
EndDialog(c) ==
    /\ phase[c] = "left" /\ Inside(at[c]) = {}
    /\ phase' = [phase EXCEPT ![c] = "ending"]
    /\ UNCHANGED at

\* An error exit, a timer that is not needed, or one that has ended a dialog.
Part(c) ==
    /\ phase[c] # "out"
    /\ phase' = [phase EXCEPT ![c] = "out"]
    /\ at' = [at EXCEPT ![c] = NoBot]

Next == \E c \in Conns :
    \/ \E b \in Bots : Enter(c, b)
    \/ Leave(c) \/ EndDialog(c) \/ Part(c)

Spec == Init /\ [][Next]_vars
=============================================================================
