--------------------------- MODULE WidgetAuthProofs ---------------------------
(* Theorems about WidgetAuth, for any users, requests, lifetimes and clock. *)
EXTENDS WidgetAuth, TLAPS

Pending == ClaimsOf(Jtis \cup {NoJti})

\* A request that renews or uses a token has the claim of one that was signed.
Carried(c) == step[c] # "idle" /\ route[c] # "exam" => \E t \in tokens : t.claim = claim[c]

\* An exam signs what its code admits.
Admitted(c) == step[c] # "idle" /\ route[c] = "exam" =>
    /\ claim[c] \in Pending /\ code[c] \in Codes
    /\ code[c].user = claim[c].user /\ claim[c].origin \in code[c].urls

Distinct == \A e, f \in exams : e.claim.jti = f.claim.jti => f = e

\* The inductive invariant of the sessions.
Rooted ==
    /\ TypeOK
    /\ \A c \in Conns : Carried(c) /\ Admitted(c)
    /\ Distinct /\ SessionRooted

Same(d) == /\ step'[d] = step[d] /\ route'[d] = route[d]
           /\ claim'[d] = claim[d] /\ code'[d] = code[d] /\ met'[d] = met[d]

RequestTypes ==
    /\ step \in [Conns -> Steps] /\ route \in [Conns -> Routes]
    /\ claim \in [Conns -> Pending \cup {NoClaim}]
    /\ code \in [Conns -> Codes \cup {NoCode}]
    /\ met \in [Conns -> SUBSET Facts]

LEMMA HoldsFacts == /\ \A u, en, ru, pd : Holds(u, en, ru, pd) \subseteq Facts
                    /\ \A b, exp : Given(b, exp) \subseteq Facts
  BY DEF Holds, Given, Facts

\* What the three kinds of step do to the requests.
LEMMA BeginEffect ==
    ASSUME RequestTypes, NEW c \in Conns, NEW r \in Routes, NEW s \in Steps,
           NEW cl \in Pending, NEW k \in Codes \cup {NoCode}, NEW g \in SUBSET Facts,
           Begin(c, r, s, cl, k, g)
    PROVE  /\ RequestTypes' /\ step[c] = "idle"
           /\ step'[c] = s /\ route'[c] = r /\ claim'[c] = cl /\ code'[c] = k
           /\ met'[c] = g \cup Holds(cl.user, enabled, running, paid)
           /\ \A d \in Conns \ {c} : Same(d)
           /\ UNCHANGED <<now, codes, world, tokens, exams>>
  BY HoldsFacts DEF RequestTypes, Begin, At, Same

LEMMA GotoEffect ==
    ASSUME RequestTypes, NEW c \in Conns, NEW s \in Steps, Goto(c, s)
    PROVE  /\ RequestTypes' /\ step'[c] = s
           /\ \A d \in Conns \ {c} : Same(d)
           /\ UNCHANGED <<now, codes, world, route, claim, code, met>>
  BY DEF RequestTypes, Goto, Same

LEMMA AnswerEffect ==
    ASSUME RequestTypes, NEW c \in Conns, Answer(c)
    PROVE  /\ RequestTypes' /\ step'[c] = "idle"
           /\ \A d \in Conns \ {c} : Same(d)
           /\ UNCHANGED <<now, codes, world>>
  BY DEF RequestTypes, Answer, Same, Steps, Routes, Facts

\* What a step inside a handler does, apart from signing.
Moves(c) == \/ \E s \in Steps \ {"idle"} : Goto(c, s) /\ UNCHANGED <<tokens, exams>>
            \/ Refuse(c)

LEMMA Handlers ==
    ASSUME NEW c \in Conns
    PROVE  CheckRow(c) \/ CheckBot(c) \/ CheckBalance(c) \/ Serve(c) \/ CallFails(c)
              => step[c] # "idle" /\ Moves(c)
  BY DEF CheckRow, CheckBot, CheckBalance, Serve, CallFails, Moves, At, AfterBot, Steps

-----------------------------------------------------------------------------
(* The sessions. *)

LEMMA RootedInit == Init => Rooted
  BY DEF Init, Rooted, TypeOK, Carried, Admitted, Distinct, SessionRooted, Steps, Routes,
         Facts

\* A step that signs nothing, and leaves every request it does not end or begin
\* as it is.
LEMMA RootedStays ==
    ASSUME Rooted, UNCHANGED <<tokens, exams>>, TypeOK',
           \A c \in Conns :
              \/ step'[c] = "idle"
              \/ /\ step[c] # "idle" /\ route'[c] = route[c]
                 /\ claim'[c] = claim[c] /\ code'[c] = code[c]
              \/ Carried(c)' /\ Admitted(c)'
    PROVE  Rooted'
  BY DEF Rooted, Carried, Admitted, Distinct, SessionRooted

LEMMA BeginRooted ==
    ASSUME Rooted, NEW c \in Conns, NEW r \in Routes, NEW s \in Steps,
           NEW cl \in Pending, NEW k \in Codes \cup {NoCode}, NEW g \in SUBSET Facts,
           Begin(c, r, s, cl, k, g),
           r # "exam" => \E t \in tokens : t.claim = cl,
           r = "exam" => k \in Codes /\ k.user = cl.user /\ cl.origin \in k.urls
    PROVE  Rooted'
<1>1. RequestTypes BY DEF Rooted, TypeOK, RequestTypes, Pending
<1>2. /\ RequestTypes' /\ UNCHANGED <<now, codes, world, tokens, exams>>
      /\ \A d \in Conns \ {c} : Same(d)
      /\ route'[c] = r /\ claim'[c] = cl /\ code'[c] = k
      BY <1>1, BeginEffect
<1>3. TypeOK' BY <1>2 DEF Rooted, TypeOK, RequestTypes, world, Pending
<1>4. Carried(c)' /\ Admitted(c)' BY <1>2 DEF Carried, Admitted
<1>5. ASSUME NEW d \in Conns \ {c} PROVE Carried(d)' /\ Admitted(d)'
      BY <1>2, <1>5 DEF Rooted, Carried, Admitted, Same
<1>6. QED BY <1>2, <1>3, <1>4, <1>5 DEF Rooted, Distinct, SessionRooted

\* A token that was signed has the type of a token.
LEMMA TokenClaim == ASSUME Rooted, NEW t \in tokens
                    PROVE  t.claim \in Claims /\ t.claim \in Pending
  BY DEF Rooted, TypeOK, Tokens, Claims, ClaimsOf, Pending

LEMMA ExamRooted ==
    ASSUME Rooted, NEW c \in Conns, NEW origin \in Origins, NEW k \in codes,
           NEW r \in Resps, Exam(c, k, r, origin)
    PROVE  Rooted'
<1> DEFINE cl == [user |-> k.user, resp |-> r, origin |-> origin, jti |-> NoJti]
<1>1. k \in Codes BY DEF Rooted, TypeOK
<1>2. cl \in Pending BY <1>1 DEF Codes, Pending, ClaimsOf
<1>3. PICK g \in SUBSET Facts : origin \in k.urls /\ Begin(c, "exam", "row", cl, k, g)
      BY HoldsFacts DEF Exam
<1>4. cl.user = k.user /\ cl.origin = origin OBVIOUS
<1> HIDE DEF cl
<1>5. QED BY <1>1, <1>2, <1>3, <1>4, BeginRooted DEF Routes, Steps

LEMMA TokenRooted ==
    ASSUME Rooted, NEW c \in Conns, NEW origin \in Origins, NEW t \in tokens,
           \/ Refresh(c, t, origin) \/ Ticket(c, t, origin) \/ Look(c, t, origin)
           \/ \E r \in Uses : Use(c, t, origin, r)
    PROVE  Rooted'
<1>1. PICK r \in Routes \ {"exam"}, s \in Steps : BeginWith(c, r, s, t, origin)
      BY DEF Refresh, Ticket, Look, Use, Uses, Routes, Steps
<1>2. t.claim \in Pending BY TokenClaim
<1>3. QED BY <1>1, <1>2, BeginRooted, HoldsFacts DEF BeginWith

LEMMA WithJti == ASSUME NEW cl \in Pending, NEW j \in Jtis
                 PROVE  /\ [cl EXCEPT !.jti = j] \in Claims
                        /\ [cl EXCEPT !.jti = j].jti = j
                        /\ [cl EXCEPT !.jti = j].user = cl.user
                        /\ [cl EXCEPT !.jti = j].origin = cl.origin
  BY DEF Pending, Claims, ClaimsOf

\* The exam signs the first token of a session no other has the jti of.
LEMMA ExamUserRooted ==
    ASSUME Rooted, NEW c \in Conns, ExamUser(c)
    PROVE  Rooted'
<1>1. PICK j \in Jtis :
         /\ step[c] = "sign" /\ route[c] = "exam" /\ Fresh(j)
         /\ tokens' = tokens \cup {NewToken([claim[c] EXCEPT !.jti = j])}
         /\ exams' = exams \cup {[claim |-> [claim[c] EXCEPT !.jti = j],
                                  code |-> code[c], met |-> met[c]]}
         /\ Answer(c)
      BY DEF ExamUser, At
<1>2. /\ claim[c] \in Pending /\ code[c] \in Codes
      /\ code[c].user = claim[c].user /\ claim[c].origin \in code[c].urls
      BY <1>1 DEF Rooted, Admitted
<1>3. PICK cl \in Claims : /\ cl = [claim[c] EXCEPT !.jti = j] /\ cl.jti = j
                           /\ cl.user = claim[c].user /\ cl.origin = claim[c].origin
      BY <1>2, WithJti
<1>4. met[c] \in SUBSET Facts BY DEF Rooted, TypeOK
<1>5. PICK e \in [claim : Claims, code : Codes, met : SUBSET Facts] :
         e.claim = cl /\ e.code = code[c] /\ exams' = exams \cup {e}
      BY <1>1, <1>2, <1>3, <1>4
<1>6. PICK t \in Tokens : t.claim = cl /\ tokens' = tokens \cup {t}
  <2>1. now + TTL \in Int BY AuthAssumption DEF Rooted, TypeOK
  <2>2. NewToken(cl) \in Tokens /\ NewToken(cl).claim = cl BY <1>3, <2>1 DEF NewToken, Tokens
  <2>3. QED BY <1>1, <1>3, <2>2
<1>7. RequestTypes BY DEF Rooted, TypeOK, RequestTypes, Pending
<1>8. /\ RequestTypes' /\ step'[c] = "idle" /\ \A d \in Conns \ {c} : Same(d)
      /\ UNCHANGED <<now, codes, world>>
      BY <1>1, <1>7, AnswerEffect
<1>9. TypeOK' BY <1>5, <1>6, <1>8 DEF Rooted, TypeOK, RequestTypes, world, Pending
<1>10. ASSUME NEW d \in Conns PROVE Carried(d)' /\ Admitted(d)'
       BY <1>6, <1>8, <1>10 DEF Rooted, Carried, Admitted, Same
<1>11. \A f \in exams : f.claim.jti # j BY <1>1 DEF Fresh
<1>12. Distinct'
  <2>1. e.claim.jti = j BY <1>3, <1>5
  <2>2. Distinct BY DEF Rooted
  <2>3. QED BY ONLY <1>5, <1>11, <2>1, <2>2 DEF Distinct
<1>13. SessionRooted'
  <2>1. ASSUME NEW s \in tokens
        PROVE  \E g \in exams' : /\ g.claim = s.claim
                                 /\ g.code.user = s.claim.user /\ s.claim.origin \in g.code.urls
        BY <1>5 DEF Rooted, SessionRooted
  <2>2. /\ e \in exams' /\ e.claim = t.claim /\ e.code.user = t.claim.user
        /\ t.claim.origin \in e.code.urls
        BY <1>2, <1>3, <1>5, <1>6
  <2>3. ASSUME NEW s \in tokens'
        PROVE  \E g \in exams' : /\ g.claim = s.claim
                                 /\ g.code.user = s.claim.user /\ s.claim.origin \in g.code.urls
        BY <1>6, <2>1, <2>2
  <2>4. QED BY <1>12, <2>3 DEF Distinct, SessionRooted
<1>14. QED BY <1>9, <1>10, <1>12, <1>13 DEF Rooted

\* A renewal signs a claim that was signed before.
LEMMA UpdateRooted ==
    ASSUME Rooted, NEW c \in Conns, UpdateToken(c)
    PROVE  Rooted'
<1>1. PICK s \in tokens : s.claim = claim[c]
      BY DEF UpdateToken, At, Rooted, Carried
<1>2. PICK t \in Tokens : t.claim = s.claim /\ tokens' = tokens \cup {t}
  <2>1. now + TTL \in Int BY AuthAssumption DEF Rooted, TypeOK
  <2>2. s.claim \in Claims BY TokenClaim
  <2>3. NewToken(s.claim) \in Tokens /\ NewToken(s.claim).claim = s.claim
        BY <2>1, <2>2 DEF NewToken, Tokens
  <2>4. QED BY <1>1, <2>3 DEF UpdateToken
<1>3. RequestTypes BY DEF Rooted, TypeOK, RequestTypes, Pending
<1>4. /\ RequestTypes' /\ step'[c] = "idle" /\ \A d \in Conns \ {c} : Same(d)
      /\ UNCHANGED <<now, codes, world, exams>>
      BY <1>3, AnswerEffect DEF UpdateToken
<1>5. TypeOK' BY <1>2, <1>4 DEF Rooted, TypeOK, RequestTypes, world, Pending
<1>6. ASSUME NEW d \in Conns PROVE Carried(d)' /\ Admitted(d)'
      BY <1>2, <1>4, <1>6 DEF Rooted, Carried, Admitted, Same
<1>7. SessionRooted' BY <1>2, <1>4 DEF Rooted, SessionRooted
<1>8. QED BY <1>4, <1>5, <1>6, <1>7 DEF Rooted, Distinct

LEMMA RootedStep == Rooted /\ [Next]_vars => Rooted'
<1> SUFFICES ASSUME Rooted, [Next]_vars PROVE Rooted'
    OBVIOUS
<1>1. TypeOK /\ RequestTypes BY DEF Rooted, TypeOK, RequestTypes, Pending
<1>2. CASE Tick
  <2>0. now' \in Nat BY <1>1, <1>2 DEF Tick, TypeOK
  <2>1. TypeOK' BY <1>1, <1>2, <2>0 DEF Tick, TypeOK, world, requests
  <2>2. QED BY <1>2, <2>1, RootedStays DEF Tick, requests
<1>3. ASSUME NEW u \in Users, World(u) PROVE Rooted'
  <2>1. met' \in [Conns -> SUBSET Facts]
        BY <1>1, <1>3, HoldsFacts DEF World, Note, RequestTypes
  <2>2. enabled' \subseteq Users /\ running' \subseteq Users /\ paid' \subseteq Users
        BY <1>1, <1>3 DEF World, Flip, TypeOK
  <2>3. TypeOK' BY <1>1, <1>3, <2>1, <2>2 DEF World, TypeOK, requests
  <2>4. QED BY <1>3, <2>3, RootedStays DEF World, requests
<1>4. ASSUME NEW u \in Users, NEW urls \in SUBSET Origins,
             NEW exp \in 1..MaxNow \cup {Never}, GenerateWidgetCode(u, urls, exp)
      PROVE  Rooted'
  <2>1. [user |-> u, urls |-> urls, exp |-> exp] \in Codes BY DEF Codes
  <2>2. TypeOK' BY <1>1, <1>4, <2>1 DEF GenerateWidgetCode, TypeOK, world, requests
  <2>3. QED BY <1>4, <2>2, RootedStays DEF GenerateWidgetCode, requests
<1>5. ASSUME NEW c \in Conns, step[c] # "idle", Moves(c) PROVE Rooted'
  <2>1. ASSUME NEW s \in Steps \ {"idle"}, Goto(c, s), UNCHANGED <<tokens, exams>>
        PROVE  Rooted'
    <3>1. RequestTypes' /\ UNCHANGED <<now, codes, world, route, claim, code, met>>
          BY <1>1, <2>1, GotoEffect
    <3>2. TypeOK' BY <1>1, <2>1, <3>1 DEF TypeOK, RequestTypes, world, Pending
    <3>3. \A d \in Conns \ {c} : step'[d] = step[d] BY <1>1, <2>1, GotoEffect DEF Same
    <3>4. QED BY <1>5, <2>1, <3>1, <3>2, <3>3, RootedStays
  <2>2. CASE Refuse(c)
    <3>1. /\ RequestTypes' /\ step'[c] = "idle" /\ \A d \in Conns \ {c} : Same(d)
          /\ UNCHANGED <<now, codes, world, tokens, exams>>
          BY <1>1, <2>2, AnswerEffect DEF Refuse
    <3>2. TypeOK' BY <1>1, <3>1 DEF TypeOK, RequestTypes, world, Pending
    <3>3. QED BY <3>1, <3>2, RootedStays DEF Same
  <2>3. QED BY <1>5, <2>1, <2>2 DEF Moves
<1>6. CASE UNCHANGED vars
  <2>1. TypeOK' BY <1>1, <1>6 DEF vars, TypeOK, world, requests
  <2>2. QED BY <1>6, <2>1, RootedStays DEF vars, requests
<1>7. QED BY <1>2, <1>3, <1>4, <1>5, <1>6, ExamRooted, TokenRooted, ExamUserRooted,
             UpdateRooted, Handlers DEF Next

\* The clock, the codes, the tokens and the requests keep their types: no token
\* is signed without a jti.
THEOREM TypeCorrect == Spec => []TypeOK
<1>1. Rooted => TypeOK BY DEF Rooted
<1>2. QED BY <1>1, RootedInit, RootedStep, PTL DEF Spec

\* Every token, after any number of renewals on any interleaving of requests,
\* belongs to exactly one session, begun with a code that admits it.
THEOREM SessionsRooted == Spec => []SessionRooted
<1>1. Rooted => SessionRooted BY DEF Rooted
<1>2. QED BY <1>1, RootedInit, RootedStep, PTL DEF Spec

-----------------------------------------------------------------------------
(* What was granted. *)

\* What a request has seen so far, by the step it is at.
Backed(c) ==
    /\ step[c] # "idle" => Holds(claim[c].user, enabled, running, paid) \subseteq met[c]
    /\ step[c] # "idle" /\ route[c] = "exam" =>
          /\ step[c] \in {"row", "bot", "balance", "sign"}
          /\ {"origin", "unexpired"} \subseteq met[c]
          /\ step[c] \in {"bot", "balance", "sign"} => "row" \in met[c]
          /\ step[c] \in {"balance", "sign"} => "bot" \in met[c]
          /\ step[c] = "sign" => "balance" \in met[c]
    /\ step[c] # "idle" /\ route[c] # "exam" =>
          /\ step[c] \in {"bot", "sign", "serve"}
          /\ Asked(route[c]) \ {"bot"} \subseteq met[c]
          /\ step[c] \in {"sign", "serve"} /\ "bot" \in Asked(route[c]) => "bot" \in met[c]

Granted == /\ \A c \in Conns : Backed(c)
           /\ \A e \in exams : e.met = Facts

\* What a request has shown when it begins.
Shown(r, s, g) ==
    \/ r = "exam" /\ s = "row" /\ {"origin", "unexpired"} \subseteq g
    \/ /\ r # "exam" /\ s \in {"bot", "sign", "serve"}
       /\ Asked(r) \ {"bot"} \subseteq g
       /\ s # "bot" => "bot" \notin Asked(r)

\* A step of one request that begins no session.
LEMMA GrantedStays ==
    ASSUME Granted, NEW c \in Conns, Backed(c)', UNCHANGED <<world, exams>>,
           \A d \in Conns \ {c} : Same(d)
    PROVE  Granted'
  BY DEF Granted, Backed, Same, world

LEMMA AnswerGranted ==
    ASSUME TypeOK, Granted, NEW c \in Conns, Answer(c),
           \A e \in exams' : e.met = Facts
    PROVE  Granted'
<1>1. RequestTypes BY DEF TypeOK, RequestTypes, Pending
<1>2. /\ step'[c] = "idle" /\ route'[c] = "exam"
      /\ \A d \in Conns \ {c} : Same(d) /\ UNCHANGED world
      BY <1>1, AnswerEffect DEF RequestTypes, Answer
<1>3. Backed(c)' BY <1>2 DEF Backed, Uses
<1>4. QED BY <1>2, <1>3 DEF Granted, Backed, Same, world

LEMMA BeginGranted ==
    ASSUME TypeOK, Granted, NEW c \in Conns, NEW r \in Routes, NEW s \in Steps,
           NEW cl \in Pending, NEW k \in Codes \cup {NoCode}, NEW g \in SUBSET Facts,
           Begin(c, r, s, cl, k, g), Shown(r, s, g)
    PROVE  Granted'
<1>1. RequestTypes BY DEF TypeOK, RequestTypes, Pending
<1>2. /\ step'[c] = s /\ route'[c] = r /\ claim'[c] = cl
      /\ met'[c] = g \cup Holds(cl.user, enabled, running, paid)
      /\ UNCHANGED <<world, exams>>
      /\ \A d \in Conns \ {c} : Same(d)
      BY <1>1, BeginEffect
<1>3. met'[c] = g \cup Holds(cl.user, enabled, running, paid)' BY <1>2 DEF Holds, world
<1>4. Backed(c)' BY <1>2, <1>3 DEF Backed, Shown, world
<1>5. QED BY <1>2, <1>4, GrantedStays

LEMMA GotoGranted ==
    ASSUME TypeOK, Granted, NEW c \in Conns, NEW s \in Steps, Goto(c, s), exams' = exams,
           \/ step[c] = "row" /\ s = "bot" /\ claim[c].user \in enabled
           \/ step[c] = "bot" /\ s = AfterBot(c) /\ claim[c].user \in running
           \/ step[c] = "balance" /\ s = "sign" /\ claim[c].user \in paid
    PROVE  Granted'
<1>1. RequestTypes BY DEF TypeOK, RequestTypes, Pending
<1>2. /\ step'[c] = s /\ UNCHANGED <<route, claim, met, world>>
      /\ \A d \in Conns \ {c} : Same(d)
      BY <1>1, GotoEffect
<1>3. Holds(claim[c].user, enabled, running, paid) \subseteq met[c] /\ Backed(c)
      BY DEF Granted, Backed
<1>4. /\ claim[c].user \in enabled => "row" \in met[c]
      /\ claim[c].user \in running => "bot" \in met[c]
      /\ claim[c].user \in paid => "balance" \in met[c]
      BY <1>3 DEF Holds
<1>5. Holds(claim[c].user, enabled, running, paid)' \subseteq met'[c]
      BY <1>2, <1>3 DEF Holds, world
<1>6. Backed(c)' BY <1>1, <1>2, <1>3, <1>4, <1>5
                 DEF Backed, AfterBot, Asked, Uses, Routes, RequestTypes
<1>7. QED BY <1>2, <1>6, GrantedStays

LEMMA WorldGranted == ASSUME TypeOK, Granted, NEW u \in Users, World(u)
                      PROVE  Granted'
<1>1. UNCHANGED <<step, route, claim, exams>> BY DEF World, requests
<1>2. \A c \in Conns : step[c] # "idle" =>
         met'[c] = met[c] \cup Holds(claim[c].user, enabled', running', paid')
      BY DEF World, Note
<1>3. \A c \in Conns : step[c] # "idle" =>
         /\ met[c] \subseteq met'[c]
         /\ Holds(claim[c].user, enabled, running, paid)' \subseteq met'[c]
      BY <1>1, <1>2 DEF Holds
<1>4. QED BY <1>1, <1>3 DEF Granted, Backed

LEMMA GrantedStep == Rooted /\ Granted /\ [Next]_vars => Granted'
<1> SUFFICES ASSUME Rooted, Granted, [Next]_vars PROVE Granted'
    OBVIOUS
<1>1. TypeOK BY DEF Rooted
<1>2. CASE UNCHANGED <<step, route, claim, met, world, exams>>
      BY <1>2 DEF Granted, Backed, Holds, world
<1>3. CASE Tick \/ UNCHANGED vars
      BY <1>2, <1>3 DEF Tick, vars, requests
<1>4. ASSUME NEW u \in Users, NEW urls \in SUBSET Origins,
             NEW exp \in 1..MaxNow \cup {Never}, GenerateWidgetCode(u, urls, exp)
      PROVE  Granted'
      BY <1>2, <1>4 DEF GenerateWidgetCode, requests
<1>5. ASSUME NEW c \in Conns, NEW origin \in Origins, NEW k \in codes, NEW r \in Resps,
             Exam(c, k, r, origin)
      PROVE  Granted'
  <2>1. k \in Codes BY <1>1 DEF TypeOK
  <2>2. [user |-> k.user, resp |-> r, origin |-> origin, jti |-> NoJti] \in Pending
        BY <2>1 DEF Codes, Pending, ClaimsOf
  <2>3. PICK g \in SUBSET Facts :
           /\ Begin(c, "exam", "row",
                    [user |-> k.user, resp |-> r, origin |-> origin, jti |-> NoJti], k, g)
           /\ Shown("exam", "row", g)
        BY <1>5, HoldsFacts DEF Exam, Given, Shown, WidgetParseCode
  <2>4. QED BY <1>1, <2>1, <2>2, <2>3, BeginGranted DEF Routes, Steps
<1>6. ASSUME NEW c \in Conns, NEW origin \in Origins, NEW t \in tokens,
             \/ Refresh(c, t, origin) \/ Ticket(c, t, origin) \/ Look(c, t, origin)
             \/ \E r \in Uses : Use(c, t, origin, r)
      PROVE  Granted'
  <2>1. PICK r \in Routes, s \in Steps, g \in SUBSET Facts :
           Begin(c, r, s, t.claim, NoCode, g) /\ Shown(r, s, g)
    <3>1. PICK r \in Routes, s \in Steps :
             /\ BeginWith(c, r, s, t, origin)
             /\ Shown(r, s, Given(origin = t.claim.origin, t.exp))
          BY <1>6 DEF Refresh, Ticket, Look, Use, Uses, Routes, Steps, Shown, Asked, Given,
                      ParseToken, tokenOriginAllowed
    <3>2. QED BY <3>1, HoldsFacts DEF BeginWith
  <2>2. t.claim \in Pending BY TokenClaim
  <2>3. QED BY <1>1, <2>1, <2>2, BeginGranted
<1>7. ASSUME NEW c \in Conns, Refuse(c) PROVE Granted'
      BY <1>1, <1>7, AnswerGranted DEF Refuse, Granted
<1>8. ASSUME NEW c \in Conns,
             CheckRow(c) \/ CheckBot(c) \/ CheckBalance(c) \/ Serve(c) \/ CallFails(c)
      PROVE  Granted'
  <2>1. "bot" \in Steps /\ "sign" \in Steps /\ AfterBot(c) \in Steps
        BY DEF Steps, AfterBot
  <2>2. QED BY <1>1, <1>7, <1>8, <2>1, GotoGranted
            DEF CheckRow, CheckBot, CheckBalance, Serve, CallFails, At, botIsRunning
<1>9. ASSUME NEW c \in Conns, ExamUser(c) PROVE Granted'
  <2>1. {"row", "bot", "balance", "origin", "unexpired"} \subseteq met[c]
        BY <1>9 DEF ExamUser, At, Granted, Backed
  <2>2. met[c] = Facts BY <1>1, <2>1 DEF TypeOK, Facts
  <2>3. \A e \in exams' : e.met = Facts BY <1>9, <2>2 DEF ExamUser, Granted
  <2>4. QED BY <1>1, <1>9, <2>3, AnswerGranted DEF ExamUser
<1>10. ASSUME NEW c \in Conns, UpdateToken(c) PROVE Granted'
       BY <1>1, <1>10, AnswerGranted DEF UpdateToken, Granted
<1>11. QED BY <1>3, <1>4, <1>5, <1>6, <1>8, <1>9, <1>10, WorldGranted, <1>1 DEF Next

\* No session, renewal or request is granted without what its route asks for and
\* an exam behind it that was backed in full, however the row, the instance and
\* the subscription change in between.
THEOREM GrantsAreBacked == Spec => []GrantsBacked
<1>1. Init => Granted BY DEF Init, Granted, Backed, Uses
<1>2. Rooted /\ Granted /\ [Next]_vars => Granted' BY GrantedStep
<1>3. Rooted /\ Granted => GrantsBacked
  <2> SUFFICES ASSUME Rooted, Granted PROVE GrantsBacked
      OBVIOUS
  <2>1. \A e \in exams : e.met = Facts BY DEF Granted
  <2>2. ASSUME NEW c \in Conns, step[c] \in {"sign", "serve"}, route[c] # "exam"
        PROVE  (\E e \in exams : e.claim = claim[c]) /\ Asked(route[c]) \subseteq met[c]
    <3>1. \E e \in exams : e.claim = claim[c]
          BY <2>2 DEF Rooted, Carried, SessionRooted
    <3>2. Backed(c) BY DEF Granted
    <3>3. QED BY <2>2, <3>1, <3>2 DEF Backed
  <2>3. QED BY <2>1, <2>2 DEF GrantsBacked
<1>4. QED BY <1>1, <1>2, <1>3, RootedInit, RootedStep, PTL DEF Spec
=============================================================================
