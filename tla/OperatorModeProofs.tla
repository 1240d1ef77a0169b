-------------------------- MODULE OperatorModeProofs --------------------------
(* Theorems about OperatorMode, for any finite set of dialogs and any calls. *)
EXTENDS OperatorMode, FiniteSetTheorems, SequenceTheorems, TLAPS

LEMMA TypeInit == Init => TypeOK
<1>1. Cardinality(Dialogs) \in Nat BY OperatorAssumption, FS_CardinalityType
<1>2. QED BY <1>1, OperatorAssumption DEF Init, TypeOK, Steps, Methods

\* What a call that is not idle refers to.
LEMMA Refers == ASSUME TypeOK, NEW c \in Calls, pc[c] # "idle"
                PROVE  /\ arg[c] \in Dialogs /\ start[c] \in Nat
                       /\ rx[arg[c]] \in Seq(Nat)
  BY DEF TypeOK

CallTypes ==
    /\ pc \in [Calls -> Steps] /\ op \in [Calls -> Methods]
    /\ arg \in [Calls -> Dialogs \cup {NoDialog}] /\ start \in [Calls -> Nat]
    /\ \A c \in Calls : pc[c] # "idle" => arg[c] \in Dialogs

\* A call that returns.
LEMMA ForgetTypes == ASSUME TypeOK, NEW c \in Calls, Forget(c) PROVE CallTypes'
  BY DEF Forget, Goto, TypeOK, CallTypes, Steps, Methods

\* What the flag of a call does to the dialogs.
LEMMA FlagTypes == ASSUME TypeOK, NEW c \in Calls, Flag(c)
                   PROVE  on' \subseteq Dialogs /\ taken' \in [Dialogs -> Nat]
<1>1. arg[c] \in Dialogs BY Refers DEF Flag, At
<1>2. CASE op[c] = "on"
  <2>1. on' = on \cup {arg[c]} /\ taken' = [taken EXCEPT ![arg[c]] = taken[arg[c]] + 1]
        BY <1>2 DEF Flag
  <2>2. taken \in [Dialogs -> Nat] /\ on \subseteq Dialogs BY DEF TypeOK
  <2>3. QED BY ONLY <1>1, <2>1, <2>2
<1>3. CASE op[c] # "on"
      BY <1>1, <1>3 DEF Flag, TypeOK
<1>4. QED BY <1>2, <1>3

\* A message goes into RxCh only below its capacity.
LEMMA SentTypes == ASSUME TypeOK, NEW c \in Calls, pc[c] # "idle", Sent(c)
                   PROVE  /\ rx' \in [Dialogs -> Seq(Nat)]
                          /\ \A d \in Dialogs : Len(rx'[d]) <= RxCap
<1>1. arg[c] \in Dialogs /\ start[c] \in Nat /\ rx[arg[c]] \in Seq(Nat) BY Refers
<1>2. CASE UNCHANGED rx BY <1>2 DEF TypeOK
<1>3. CASE /\ Len(rx[arg[c]]) < RxCap
           /\ rx' = [rx EXCEPT ![arg[c]] = Append(rx[arg[c]], start[c])]
  <2>1. /\ Append(rx[arg[c]], start[c]) \in Seq(Nat)
        /\ Len(Append(rx[arg[c]], start[c])) <= RxCap
        BY <1>1, <1>3, AppendProperties, LenProperties, OperatorAssumption
  <2>2. QED BY <1>1, <1>3, <2>1 DEF TypeOK
<1>4. QED BY <1>2, <1>3 DEF Sent

LEMMA TypeStep == TypeOK /\ [Next]_vars => TypeOK'
<1> SUFFICES ASSUME TypeOK, [Next]_vars PROVE TypeOK'
    OBVIOUS
<1> USE OperatorAssumption DEF flags, args
<1>1. ASSUME NEW d \in Dialogs, Clean(d) PROVE TypeOK'
      BY <1>1 DEF Clean, TypeOK
<1>2. ASSUME NEW d \in Dialogs, Read(d) PROVE TypeOK'
  <2>1. Tail(rx[d]) \in Seq(Nat) /\ Len(Tail(rx[d])) <= RxCap
        BY <1>2, HeadTailProperties, LenProperties DEF Read, TypeOK
  <2>2. QED BY <1>2, <2>1 DEF Read, TypeOK
<1>3. ASSUME NEW c \in Calls, NEW m \in Methods, NEW d \in Dialogs, Call(c, m, d)
      PROVE  TypeOK'
  <2>1. alone' \subseteq Calls BY <1>3 DEF Call
  <2>2. QED BY <1>3, <2>1 DEF Call, Goto, TypeOK, Steps
<1>4. ASSUME NEW c \in Calls, Flag(c) PROVE TypeOK'
  <2>1. on' \subseteq Dialogs /\ taken' \in [Dialogs -> Nat] BY <1>4, FlagTypes
  <2>2. arg[c] \in Dialogs /\ taken'[arg[c]] \in Nat BY <1>4, <2>1, Refers DEF Flag, At
  <2>3. QED BY <1>4, <2>1, <2>2 DEF Flag, Goto, At, TypeOK, Steps
<1>5. ASSUME NEW c \in Calls, Visit(c) PROVE TypeOK'
      BY <1>5 DEF Visit, TypeOK
<1>6. ASSUME NEW c \in Calls, Counted(c) PROVE TypeOK'
      BY <1>6 DEF Counted, Goto, At, TypeOK, Steps
<1>7. ASSUME NEW c \in Calls, SetGauge(c) PROVE TypeOK'
  <2>1. /\ IsFiniteSet(seen[c]) /\ Cardinality(seen[c]) <= Cardinality(Dialogs)
        /\ Cardinality(seen[c]) \in Nat /\ Cardinality(Dialogs) \in Nat
        BY FS_Subset, FS_CardinalityType DEF TypeOK
  <2>2. gauge' \in 0..Cardinality(Dialogs) BY <1>7, <2>1 DEF SetGauge
  <2>3. /\ first' \in [Calls -> SUBSET Dialogs] /\ seen' \in [Calls -> SUBSET Dialogs]
        /\ alone' \subseteq Calls /\ exact' \in BOOLEAN
        BY <1>7 DEF SetGauge, TypeOK
  <2>4. UNCHANGED <<on, taken, rx>> BY <1>7 DEF SetGauge
  <2>5. CallTypes'
    <3>1. CASE op[c] = "disable"
          BY <1>7, <3>1 DEF SetGauge, Goto, At, TypeOK, CallTypes, Steps
    <3>2. CASE op[c] # "disable"
          BY <1>7, <3>2, ForgetTypes DEF SetGauge
    <3>3. QED BY <3>1, <3>2
  <2>6. QED BY <2>2, <2>3, <2>4, <2>5 DEF TypeOK, CallTypes
<1>8. ASSUME NEW c \in Calls, Find(c) PROVE TypeOK'
      BY <1>8 DEF Find, Continue, Goto, At, TypeOK, Steps, unset
<1>9. ASSUME NEW c \in Calls, NotFound(c) \/ Close(c) PROVE TypeOK'
  <2>1. Forget(c) /\ UNCHANGED <<rx, unset>> BY <1>9 DEF NotFound, Close
  <2>2. CallTypes' BY <2>1, ForgetTypes
  <2>3. QED BY <2>1, <2>2 DEF TypeOK, CallTypes, unset
<1>10. ASSUME NEW c \in Calls, Notice(c) \/ Resume(c) PROVE TypeOK'
  <2>1. pc[c] # "idle" /\ Sent(c) BY <1>10 DEF Notice, Resume, At
  <2>2. /\ rx' \in [Dialogs -> Seq(Nat)]
        /\ \A d \in Dialogs : Len(rx'[d]) <= RxCap
        BY <2>1, SentTypes
  <2>3. Continue(c, "resume") \/ Continue(c, "close")
        BY <1>10 DEF Notice, Resume
  <2>4. QED BY <2>1, <2>2, <2>3 DEF Continue, Goto, TypeOK, Steps, unset
<1>11. CASE UNCHANGED vars BY <1>11 DEF vars, TypeOK
<1>12. QED BY <1>1, <1>2, <1>3, <1>4, <1>5, <1>6, <1>7, <1>8, <1>9, <1>10, <1>11
           DEF Next

\* The flags, the count and every call keep their types, and RxCh its capacity.
THEOREM TypeCorrect == Spec => []TypeOK
<1>1. QED BY TypeInit, TypeStep, PTL DEF Spec

-----------------------------------------------------------------------------
(* The gauge. *)

\* A call no other has overlapped is the only one in SetOperatorMode, so what
\* it counts is what is there.
Alone ==
    /\ \A c \in alone : Setting = {c}
    /\ \A c \in alone : /\ pc[c] = "count" => first[c] = on /\ seen[c] \subseteq on
                        /\ pc[c] = "set" => seen[c] = on

\* A step outside SetOperatorMode.
LEMMA AloneStays ==
    ASSUME Alone, QuietGauge, UNCHANGED <<on, gauge, first, seen, alone, exact>>,
           \A c \in Calls : \/ pc'[c] = pc[c]
                          \/ {pc[c], pc'[c]} \cap {"flag", "count", "set"} = {}
    PROVE  Alone' /\ QuietGauge'
<1>1. Setting' = Setting BY DEF Setting
<1>2. Alone' BY <1>1 DEF Alone, Setting
<1>3. QED BY <1>1, <1>2 DEF QuietGauge

LEMMA AloneStep == TypeOK /\ Alone /\ QuietGauge /\ [Next]_vars => Alone' /\ QuietGauge'
<1> SUFFICES ASSUME TypeOK, Alone, QuietGauge, [Next]_vars PROVE Alone' /\ QuietGauge'
    OBVIOUS
<1> USE DEF At, Goto, flags, args
<1>0. /\ pc \in [Calls -> Steps] /\ alone \subseteq Calls
      /\ first \in [Calls -> SUBSET Dialogs] /\ seen \in [Calls -> SUBSET Dialogs]
      BY DEF TypeOK
<1>1. ASSUME NEW d \in Dialogs, Clean(d) \/ Read(d) PROVE Alone' /\ QuietGauge'
      BY <1>1, AloneStays DEF Clean, Read
<1>2. ASSUME NEW c \in Calls, NEW m \in Methods, NEW d \in Dialogs, Call(c, m, d)
      PROVE  Alone' /\ QuietGauge'
  <2>1. Setting' = Setting \cup {c} BY <1>0, <1>2 DEF Call, Setting
  <2>2. Alone' BY <1>0, <1>2, <2>1 DEF Call, Alone
  <2>3. QED BY <2>1, <2>2 DEF QuietGauge
<1>3. ASSUME NEW c \in Calls, Flag(c) PROVE Alone' /\ QuietGauge'
  <2>1. Setting' = Setting /\ c \in Setting BY <1>0, <1>3 DEF Flag, Setting
  <2>2. ASSUME NEW d \in alone PROVE d = c BY <2>1 DEF Alone
  <2>3. first'[c] = on' /\ seen'[c] = {} /\ pc'[c] = "count" /\ alone' = alone
        BY <1>0, <1>3 DEF Flag
  <2>4. Alone' BY <2>1, <2>2, <2>3 DEF Alone
  <2>5. QED BY <2>1, <2>4 DEF QuietGauge
<1>4. ASSUME NEW c \in Calls, Visit(c) PROVE Alone' /\ QuietGauge'
  <2>1. Setting' = Setting /\ c \in Setting BY <1>0, <1>4 DEF Visit, Setting
  <2>2. ASSUME NEW d \in alone PROVE d = c BY <2>1 DEF Alone
  <2>3. /\ UNCHANGED <<on, pc, first, alone>> /\ pc[c] = "count"
        /\ \E d \in on : seen'[c] = seen[c] \cup {d}
        BY <1>0, <1>4 DEF Visit
  <2>4. Alone' BY <2>1, <2>2, <2>3 DEF Alone
  <2>5. QED BY <2>1, <2>4 DEF QuietGauge
<1>5. ASSUME NEW c \in Calls, Counted(c) PROVE Alone' /\ QuietGauge'
  <2>1. Setting' = Setting /\ c \in Setting BY <1>0, <1>5 DEF Counted, Setting
  <2>2. ASSUME NEW d \in alone PROVE d = c BY <2>1 DEF Alone
  <2>3. /\ UNCHANGED <<on, seen, first, alone>> /\ pc[c] = "count" /\ pc'[c] = "set"
        /\ on \cap first[c] \subseteq seen[c]
        BY <1>0, <1>5 DEF Counted
  <2>4. Alone' BY <2>1, <2>2, <2>3 DEF Alone
  <2>5. QED BY <2>1, <2>4 DEF QuietGauge
<1>6. ASSUME NEW c \in Calls, SetGauge(c) PROVE Alone' /\ QuietGauge'
  <2>1. /\ pc[c] = "set" /\ pc'[c] \in {"find", "idle"}
        /\ \A d \in Calls \ {c} : pc'[d] = pc[d]
        BY <1>0, <1>6 DEF SetGauge, Forget
  <2>2. c \in Setting BY <2>1 DEF Setting
  <2>3. alone' = {} BY <1>6, <2>2 DEF SetGauge, Alone
  <2>4. /\ on' = on /\ gauge' = Cardinality(seen[c]) /\ exact' = (c \in alone)
        BY <1>6 DEF SetGauge
  <2>5. exact' => seen[c] = on BY <2>1, <2>4 DEF Alone
  <2>6. QuietGauge' BY <2>4, <2>5 DEF QuietGauge
  <2>7. QED BY <2>3, <2>6 DEF Alone
<1>7. ASSUME NEW c \in Calls, Find(c) \/ Notice(c) \/ Resume(c) PROVE Alone' /\ QuietGauge'
      BY <1>0, <1>7, AloneStays DEF Find, Notice, Resume, Continue, unset
<1>8. ASSUME NEW c \in Calls, NotFound(c) \/ Close(c)
      PROVE  Alone' /\ QuietGauge'
      BY <1>0, <1>8, AloneStays DEF NotFound, Close, Forget, unset
<1>9. CASE UNCHANGED vars BY <1>9, AloneStays DEF vars
<1>10. QED BY <1>1, <1>2, <1>3, <1>4, <1>5, <1>6, <1>7, <1>8, <1>9 DEF Next

\* After a call that no other overlapped the gauge is the number of dialogs in
\* operator mode, whatever calls went before, until the next call begins.
THEOREM QuietCallsCount == Spec => []QuietGauge
<1>1. Init => Alone /\ QuietGauge
      BY FS_EmptySet DEF Init, Alone, QuietGauge
<1>2. TypeOK /\ Alone /\ QuietGauge /\ [Next]_vars => Alone' /\ QuietGauge' BY AloneStep
<1>3. QED BY <1>1, <1>2, TypeCorrect, PTL DEF Spec

\* Without an overlap, each call is the only one from its begin to its count.
OneSets == \A c, d \in Setting : c = d
Gauge   == Setting = {} => gauge = Cardinality(on)
Counts  == Setting \subseteq alone /\ exact

LEMMA CountsStep == TypeOK /\ Counts /\ OneSets' /\ [Next]_vars => Counts'
<1> SUFFICES ASSUME TypeOK, Counts, OneSets', [Next]_vars PROVE Counts'
    OBVIOUS
<1> USE DEF At, Goto, flags, args
<1>0. pc \in [Calls -> Steps] BY DEF TypeOK
<1>1. ASSUME UNCHANGED <<alone, exact>>, Setting' \subseteq Setting PROVE Counts'
      BY <1>1 DEF Counts
<1>2. ASSUME NEW d \in Dialogs, Clean(d) \/ Read(d) PROVE Counts'
      BY <1>1, <1>2 DEF Clean, Read, Setting
<1>3. ASSUME NEW c \in Calls, NEW m \in Methods, NEW d \in Dialogs, Call(c, m, d)
      PROVE  Counts'
  <2>1. Setting' = Setting \cup {c} /\ c \notin Setting
        BY <1>0, <1>3 DEF Call, Setting
  <2>2. Setting = {} BY <2>1 DEF OneSets
  <2>3. QED BY <1>3, <2>1, <2>2 DEF Call, Counts
<1>4. ASSUME NEW c \in Calls, Flag(c) \/ Visit(c) \/ Counted(c) PROVE Counts'
  <2>1. Setting' = Setting BY <1>0, <1>4 DEF Flag, Visit, Counted, Setting
  <2>2. QED BY <1>1, <1>4, <2>1 DEF Flag, Visit, Counted
<1>5. ASSUME NEW c \in Calls, SetGauge(c) PROVE Counts'
  <2>1. /\ pc[c] = "set" /\ pc'[c] \in {"find", "idle"}
        /\ \A d \in Calls \ {c} : pc'[d] = pc[d]
        BY <1>0, <1>5 DEF SetGauge, Forget
  <2>2. c \in Setting /\ Setting' = Setting \ {c} BY <2>1 DEF Setting
  <2>3. QED BY <1>5, <2>2 DEF SetGauge, Counts
<1>6. ASSUME NEW c \in Calls, Find(c) \/ Notice(c) \/ Resume(c) PROVE Counts'
  <2>1. Setting' = Setting BY <1>0, <1>6 DEF Find, Notice, Resume, Continue, Setting
  <2>2. QED BY <1>1, <1>6, <2>1 DEF Find, Notice, Resume, Continue, unset
<1>7. ASSUME NEW c \in Calls, NotFound(c) \/ Close(c) PROVE Counts'
  <2>1. Setting' = Setting
        BY <1>0, <1>7 DEF NotFound, Close, Forget, Setting
  <2>2. QED BY <1>1, <1>7, <2>1 DEF NotFound, Close, unset
<1>8. CASE UNCHANGED vars BY <1>1, <1>8 DEF vars, Setting
<1>9. QED BY <1>2, <1>3, <1>4, <1>5, <1>6, <1>7, <1>8 DEF Next

\* Where air-common lets no two calls of SetOperatorMode overlap, the gauge is
\* the number of dialogs in operator mode between the calls, with no exception:
\* the overlap is the only way to a wrong gauge.
THEOREM SerialCallsCount == Spec /\ []OneSets => []Gauge
<1>1. Init => Counts BY DEF Init, Counts, Setting
<1>2. TypeOK /\ Counts /\ OneSets' /\ [Next]_vars => Counts' BY CountsStep
<1>3. Counts /\ QuietGauge => Gauge BY DEF Counts, QuietGauge, Gauge
<1>4. QED BY <1>1, <1>2, <1>3, TypeCorrect, QuietCallsCount, PTL DEF Spec

-----------------------------------------------------------------------------
(* The messages for the model. *)

\* n is the number of a take-over of d that has ended.
Past(n, d) == n <= taken[d] /\ (d \in on => n < taken[d])

Ended ==
    /\ \A d \in Dialogs : \A i \in DOMAIN rx[d] : Past(rx[d][i], d)
    /\ \A c \in Calls : op[c] = "disable" /\ pc[c] \notin {"idle", "flag"} =>
           Past(start[c], arg[c])
    /\ \A c \in Calls : pc[c] \in {"find", "notice", "resume", "close"} =>
           op[c] = "disable"

\* A step that neither takes over nor gives back a dialog.
LEMMA EndedStays ==
    ASSUME Ended, UNCHANGED <<on, taken>>,
           \A d \in Dialogs : \A i \in DOMAIN rx'[d] : Past(rx'[d][i], d),
           \A c \in Calls :
              /\ \/ op'[c] = "off" /\ pc'[c] = "idle"
                 \/ pc'[c] = "flag"
                 \/ /\ op'[c] = op[c] /\ arg'[c] = arg[c] /\ start'[c] = start[c]
                    /\ pc'[c] # pc[c] => pc[c] \notin {"idle", "flag"}
                    /\ pc'[c] # pc[c] =>
                          op[c] = "disable" \/ pc'[c] \in {"idle", "count", "set"}
    PROVE  Ended'
<1>1. \A n, d : Past(n, d)' <=> Past(n, d) BY DEF Past
<1>2. QED BY <1>1 DEF Ended, Past

\* The elements of a queue that grows or shrinks by one.
LEMMA AppendElements ==
    ASSUME NEW S, NEW s \in Seq(S), NEW e \in S
    PROVE  \A i \in DOMAIN Append(s, e) :
              \/ Append(s, e)[i] = e
              \/ i \in DOMAIN s /\ Append(s, e)[i] = s[i]
<1>1. /\ Append(s, e) \in Seq(S) /\ Len(Append(s, e)) = Len(s) + 1
      /\ \A i \in 1..Len(s) : Append(s, e)[i] = s[i]
      /\ Append(s, e)[Len(s) + 1] = e
      BY AppendProperties
<1>2. /\ DOMAIN Append(s, e) = 1..(Len(s) + 1) /\ DOMAIN s = 1..Len(s) /\ Len(s) \in Nat
      BY <1>1, LenProperties
<1>3. QED BY ONLY <1>1, <1>2

LEMMA TailElements ==
    ASSUME NEW S, NEW s \in Seq(S), s # <<>>
    PROVE  \A i \in DOMAIN Tail(s) : i + 1 \in DOMAIN s /\ Tail(s)[i] = s[i + 1]
<1>1. /\ Tail(s) \in Seq(S) /\ Len(Tail(s)) = Len(s) - 1 /\ Len(s) \in Nat
      /\ \A i \in 1..Len(Tail(s)) : Tail(s)[i] = s[i + 1]
      BY HeadTailProperties, LenProperties
<1>2. DOMAIN Tail(s) = 1..(Len(s) - 1) /\ DOMAIN s = 1..Len(s) BY <1>1, LenProperties
<1>3. QED BY ONLY <1>1, <1>2

\* What is sent is the number that the disable noted.
LEMMA SentEnded == ASSUME TypeOK, Ended, NEW c \in Calls, Sent(c),
                          pc[c] \in {"notice", "resume"}
                   PROVE  \A d \in Dialogs : \A i \in DOMAIN rx'[d] : Past(rx'[d][i], d)
<1>1. arg[c] \in Dialogs /\ start[c] \in Nat /\ rx[arg[c]] \in Seq(Nat) BY Refers
<1>2. Past(start[c], arg[c]) BY DEF Ended
<1>3. rx \in [Dialogs -> Seq(Nat)] BY DEF TypeOK
<1>4. CASE UNCHANGED rx BY <1>4 DEF Ended
<1>5. CASE rx' = [rx EXCEPT ![arg[c]] = Append(rx[arg[c]], start[c])]
  <2>1. rx'[arg[c]] = Append(rx[arg[c]], start[c]) BY <1>1, <1>3, <1>5
  <2>2. \A i \in DOMAIN rx'[arg[c]] :
           \/ rx'[arg[c]][i] = start[c]
           \/ i \in DOMAIN rx[arg[c]] /\ rx'[arg[c]][i] = rx[arg[c]][i]
        BY <1>1, <2>1, AppendElements
  <2>3. \A i \in DOMAIN rx'[arg[c]] : Past(rx'[arg[c]][i], arg[c])
        BY <1>1, <1>2, <2>2 DEF Ended
  <2>4. \A d \in Dialogs \ {arg[c]} : rx'[d] = rx[d] BY <1>3, <1>5
  <2>5. QED BY <2>3, <2>4 DEF Ended
<1>6. QED BY <1>4, <1>5 DEF Sent

LEMMA EndedStep == TypeOK /\ Ended /\ [Next]_vars => Ended'
<1> SUFFICES ASSUME TypeOK, Ended, [Next]_vars PROVE Ended'
    OBVIOUS
<1> USE DEF At, Goto, flags, args
<1>1. CallTypes BY DEF TypeOK, CallTypes
<1>2. \A d \in Dialogs : \A i \in DOMAIN rx[d] : Past(rx[d][i], d) BY DEF Ended
<1>3. ASSUME NEW d \in Dialogs, Clean(d) PROVE Ended'
  <2>1. \A q \in Dialogs : \A i \in DOMAIN rx'[q] : Past(rx'[q][i], q)
        BY <1>2, <1>3 DEF Clean, TypeOK
  <2>2. QED BY <1>3, <2>1, EndedStays DEF Clean
<1>4. ASSUME NEW d \in Dialogs, Read(d) PROVE Ended'
  <2>1. /\ rx[d] \in Seq(Nat) /\ rx[d] # <<>> /\ rx'[d] = Tail(rx[d])
        /\ \A q \in Dialogs \ {d} : rx'[q] = rx[q]
        BY <1>4 DEF Read, TypeOK
  <2>2. \A i \in DOMAIN Tail(rx[d]) : i + 1 \in DOMAIN rx[d] /\ Tail(rx[d])[i] = rx[d][i + 1]
        BY <2>1, TailElements
  <2>3. \A i \in DOMAIN rx'[d] : Past(rx'[d][i], d) BY <1>2, <2>1, <2>2
  <2>4. \A q \in Dialogs \ {d} : \A i \in DOMAIN rx'[q] : Past(rx'[q][i], q)
        BY <1>2, <2>1
  <2>5. \A q \in Dialogs : \A i \in DOMAIN rx'[q] : Past(rx'[q][i], q)
        BY <2>3, <2>4
  <2>6. QED BY <1>4, <2>5, EndedStays DEF Read
<1>5. ASSUME NEW c \in Calls, NEW m \in Methods, NEW d \in Dialogs, Call(c, m, d)
      PROVE  Ended'
  <2>1. /\ pc'[c] = "flag" /\ UNCHANGED <<on, taken, rx, start>>
        /\ \A q \in Calls \ {c} : pc'[q] = pc[q] /\ op'[q] = op[q] /\ arg'[q] = arg[q]
        BY <1>1, <1>5 DEF Call, CallTypes
  <2>2. QED BY <1>2, <2>1, EndedStays
<1>6. ASSUME NEW c \in Calls, Flag(c) PROVE Ended'
  <2>1. /\ pc'[c] = "count" /\ UNCHANGED <<rx, op, arg>> /\ arg[c] \in Dialogs
        /\ start'[c] = taken'[arg[c]]
        /\ \A q \in Calls \ {c} : pc'[q] = pc[q] /\ start'[q] = start[q]
        BY <1>1, <1>6, Refers DEF Flag, CallTypes
  <2>2. taken \in [Dialogs -> Nat] BY DEF TypeOK
  <2>3. CASE op[c] = "on"
    <3>1. on' = on \cup {arg[c]} /\ taken' = [taken EXCEPT ![arg[c]] = taken[arg[c]] + 1]
          BY <1>6, <2>3 DEF Flag
    <3>2. taken'[arg[c]] = taken[arg[c]] + 1 /\ \A d \in Dialogs \ {arg[c]} : taken'[d] = taken[d]
          BY <2>1, <2>2, <3>1
    <3>3. \A n \in Nat, d \in Dialogs : Past(n, d) =>
              n <= taken'[d] /\ (d \in on' => n < taken'[d])
          BY <2>1, <2>2, <3>1, <3>2 DEF Past
    <3>4. \A d \in Dialogs : \A i \in DOMAIN rx[d] : rx[d][i] \in Nat
          BY DEF TypeOK
    <3>5. \A q \in Calls : start[q] \in Nat /\ (pc[q] # "idle" => arg[q] \in Dialogs)
          BY <1>1 DEF CallTypes
    <3>6. QED BY <2>1, <2>3, <3>3, <3>4, <3>5 DEF Ended, Past
  <2>4. CASE op[c] # "on"
    <3>1. on' = on \ {arg[c]} /\ taken' = taken BY <1>6, <2>4 DEF Flag
    <3>2. taken[arg[c]] \in Nat BY <2>1, <2>2
    <3>3. QED BY <2>1, <3>1, <3>2 DEF Ended, Past
  <2>5. QED BY <2>3, <2>4
<1>7. ASSUME NEW c \in Calls, Visit(c) PROVE Ended'
      BY <1>2, <1>7, EndedStays DEF Visit
<1>8. ASSUME NEW c \in Calls, Counted(c) PROVE Ended'
      BY <1>1, <1>2, <1>8, EndedStays DEF Counted, CallTypes
<1>9. ASSUME NEW c \in Calls, SetGauge(c) PROVE Ended'
  <2>1. CASE op[c] = "disable"
        BY <1>1, <1>2, <1>9, <2>1, EndedStays DEF SetGauge, CallTypes
  <2>2. CASE op[c] # "disable"
        BY <1>1, <1>2, <1>9, <2>2, EndedStays DEF SetGauge, Forget, CallTypes
  <2>3. QED BY <2>1, <2>2
<1>10. ASSUME NEW c \in Calls, Find(c) PROVE Ended'
  <2>1. op[c] = "disable" BY <1>10 DEF Find, Ended
  <2>2. QED BY <1>1, <1>2, <1>10, <2>1, EndedStays DEF Find, Continue, CallTypes, unset
<1>11. ASSUME NEW c \in Calls, Notice(c) \/ Resume(c) PROVE Ended'
  <2>1. op[c] = "disable" /\ Sent(c) /\ pc[c] \in {"notice", "resume"}
        BY <1>11 DEF Notice, Resume, Ended
  <2>2. \A d \in Dialogs : \A i \in DOMAIN rx'[d] : Past(rx'[d][i], d) BY <2>1, SentEnded
  <2>3. QED BY <1>1, <1>11, <2>1, <2>2, EndedStays
            DEF Notice, Resume, Continue, CallTypes, unset
<1>12. ASSUME NEW c \in Calls, NotFound(c) \/ Close(c) PROVE Ended'
      BY <1>1, <1>2, <1>12, EndedStays
      DEF NotFound, Close, Forget, CallTypes, unset
<1>13. CASE UNCHANGED vars BY <1>2, <1>13, EndedStays DEF vars
<1>14. QED BY <1>3, <1>4, <1>5, <1>6, <1>7, <1>8, <1>9, <1>10, <1>11, <1>12,
              <1>13 DEF Next

\* While a dialog is in operator mode no message of the disable that ends this
\* very take-over waits for the model, for any number of take-overs and of
\* overlapping calls.
THEOREM ResumesHeard == Spec => []ResumeHeard
<1>1. Init => Ended BY DEF Init, Ended
<1>2. TypeOK /\ Ended /\ [Next]_vars => Ended' BY EndedStep
<1>3. TypeOK /\ Ended => ResumeHeard BY DEF TypeOK, Ended, Past, ResumeHeard
<1>4. QED BY <1>1, <1>2, <1>3, TypeCorrect, PTL DEF Spec
=============================================================================
