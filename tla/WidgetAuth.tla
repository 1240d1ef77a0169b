----------------------------- MODULE WidgetAuth -----------------------------
(***************************************************************************)
(* Widget codes, sessions and tokens.  A user generates a code; the exam   *)
(* turns a code into the first token of a session; the ticket and the      *)
(* refresh routes renew it; the other routes serve its holder.  A request  *)
(* takes several steps, and what it has checked may change before it       *)
(* answers.  The orchestrator signs and reads codes and tokens by RPC; it  *)
(* is external.  What a code admits is in WidgetConfig, what the served    *)
(* requests do in UserChannels, SSEStream and FirstContact.                *)
(***************************************************************************)
EXTENDS Integers, FiniteSets

CONSTANTS
    Users, Resps, Origins,
    Jtis,               \* values of rand.Read for sessions (bounds a run)
    Conns,              \* requests that may run at a time
    TTL,                \* AuthTokenTTL, in units of the clock
    Never,              \* the expiry of a code with neverExpires
    NoJti, NoCode, NoClaim,
    MaxNow, MaxCodes    \* bounds of a run

ASSUME AuthAssumption ==
    /\ TTL \in Nat \ {0} /\ MaxNow \in Nat /\ MaxCodes \in Nat
    /\ Never \notin Int /\ NoJti \notin Jtis

VARIABLES
    now,
    codes,              \* codes generated
    enabled,            \* users whose row in MySQL says enabled
    running,            \* users with an instance in u.bot
    paid,               \* users whose subscription is good
    tokens,             \* tokens signed; clients may keep every one
    step, route,        \* of a request: where it is, the handler
    claim,              \* its parsed token, or what exam will sign
    code,               \* the code an exam was made with
    exams,              \* history: the sessions begun
    met                 \* history: what held at some time of the request

world    == <<enabled, running, paid>>
requests == <<step, route, claim, code>>
vars == <<now, codes, world, tokens, requests, exams, met>>

Codes  == [user : Users, urls : SUBSET Origins, exp : Int \cup {Never}]
ClaimsOf(jtis) == [user : Users, resp : Resps, origin : Origins, jti : jtis]
Claims == ClaimsOf(Jtis)
Tokens == [claim : Claims, exp : Int]
Facts  == {"row", "bot", "balance", "origin", "unexpired"}
Steps  == {"idle", "row", "bot", "balance", "sign", "serve"}
Uses   == {"data", "dialog", "events"}
Routes == {"exam", "ticket", "refresh", "look"} \cup Uses

TypeOK ==
    /\ now \in Nat /\ codes \subseteq Codes
    /\ enabled \subseteq Users /\ running \subseteq Users /\ paid \subseteq Users
    /\ tokens \subseteq Tokens
    /\ step \in [Conns -> Steps] /\ route \in [Conns -> Routes]
    /\ claim \in [Conns -> ClaimsOf(Jtis \cup {NoJti}) \cup {NoClaim}]
    /\ code \in [Conns -> Codes \cup {NoCode}]
    /\ exams \subseteq [claim : Claims, code : Codes, met : SUBSET Facts]
    /\ met \in [Conns -> SUBSET Facts]

Init ==
    /\ now = 0 /\ codes = {} /\ tokens = {} /\ exams = {}
    /\ enabled = {} /\ running = {} /\ paid = {}
    /\ step = [c \in Conns |-> "idle"] /\ route = [c \in Conns |-> "exam"]
    /\ claim = [c \in Conns |-> NoClaim] /\ code = [c \in Conns |-> NoCode]
    /\ met = [c \in Conns |-> {}]

At(c, s) == step[c] = s

\* What holds for the user u in the given world.
Holds(u, en, run, pd) == (IF u \in en THEN {"row"} ELSE {})
                    \cup (IF u \in run THEN {"bot"} ELSE {})
                    \cup (IF u \in pd THEN {"balance"} ELSE {})

-----------------------------------------------------------------------------
(* The rest of the world: the clock, the row, the registry, the balance.   *)

Note(en, run, pd) ==
    met' = [c \in Conns |-> IF step[c] = "idle" THEN {}
                            ELSE met[c] \cup Holds(claim[c].user, en, run, pd)]

Tick ==
    /\ now < MaxNow
    /\ now' = now + 1
    /\ UNCHANGED <<codes, world, tokens, requests, exams, met>>

\* The row is written, an instance stored or taken out, a subscription begins
\* or lapses.
Flip(set, u) == IF u \in set THEN set \ {u} ELSE set \cup {u}

World(u) ==
    /\ \/ enabled' = Flip(enabled, u) /\ UNCHANGED <<running, paid>>
       \/ running' = Flip(running, u) /\ UNCHANGED <<enabled, paid>>
       \/ paid' = Flip(paid, u) /\ UNCHANGED <<enabled, running>>
    /\ Note(enabled', running', paid')
    /\ UNCHANGED <<now, codes, tokens, requests, exams>>

\* handleWidgetCode, generateWidgetCode: a valid configuration becomes a code.
GenerateWidgetCode(u, urls, exp) ==
    /\ Cardinality(codes) < MaxCodes
    /\ exp # Never => exp > now
    /\ codes' = codes \cup {[user |-> u, urls |-> urls, exp |-> exp]}
    /\ UNCHANGED <<now, world, tokens, requests, exams, met>>

-----------------------------------------------------------------------------
(* A request begins: what the orchestrator reads from the code or token,   *)
(* and the origin of the request.                                          *)

\* What holds of the origin of the request, and of its code or token.
Given(admitted, exp) == (IF admitted THEN {"origin"} ELSE {})
                   \cup (IF exp = Never \/ now < exp THEN {"unexpired"} ELSE {})

Begin(c, r, s, cl, k, given) ==
    /\ At(c, "idle")
    /\ step' = [step EXCEPT ![c] = s]
    /\ route' = [route EXCEPT ![c] = r]
    /\ claim' = [claim EXCEPT ![c] = cl]
    /\ code' = [code EXCEPT ![c] = k]
    /\ met' = [met EXCEPT ![c] = given \cup Holds(cl.user, enabled, running, paid)]
    /\ UNCHANGED <<now, codes, world, tokens, exams>>

Goto(c, s) ==
    /\ step' = [step EXCEPT ![c] = s]
    /\ UNCHANGED <<now, codes, world, route, claim, code, met>>

\* The handler answers.
Answer(c) ==
    /\ step' = [step EXCEPT ![c] = "idle"]
    /\ route' = [route EXCEPT ![c] = "exam"]
    /\ claim' = [claim EXCEPT ![c] = NoClaim]
    /\ code' = [code EXCEPT ![c] = NoCode]
    /\ met' = [met EXCEPT ![c] = {}]
    /\ UNCHANGED <<now, codes, world>>

Refuse(c) == Answer(c) /\ UNCHANGED <<tokens, exams>>

\* WidgetParseCode reads a code that has not expired.
WidgetParseCode(k) == k.exp # Never => now < k.exp

\* handleExam: originAllowed finds the origin of the request in the
\* code; the respondent is what the client says.
Exam(c, k, r, origin) ==
    /\ WidgetParseCode(k) /\ origin \in k.urls
    /\ Begin(c, "exam", "row",
             [user |-> k.user, resp |-> r, origin |-> origin, jti |-> NoJti], k,
             Given(origin \in k.urls, k.exp))

\* ParseToken reads a token that has not expired.
ParseToken(t) == now < t.exp

\* The origin of the request is the one in the token.
tokenOriginAllowed(t, origin) == origin = t.claim.origin

\* A request that brings the token t.
BeginWith(c, r, s, t, origin) ==
    Begin(c, r, s, t.claim, NoCode, Given(origin = t.claim.origin, t.exp))

\* handleTokenRefresh: ParseExpiredToken reads an expired token too;
\* tokenOriginAllowed.  Nothing else is checked.
Refresh(c, t, origin) ==
    /\ tokenOriginAllowed(t, origin)
    /\ BeginWith(c, "refresh", "sign", t, origin)

\* handleEventsTicket.
Ticket(c, t, origin) ==
    /\ ParseToken(t) /\ tokenOriginAllowed(t, origin)
    /\ BeginWith(c, "ticket", "bot", t, origin)

\* handleTokenValidate and handleGetUsername: no instance is needed.
Look(c, t, origin) ==
    /\ ParseToken(t) /\ tokenOriginAllowed(t, origin)
    /\ BeginWith(c, "look", "serve", t, origin)

\* handleData and handleEvents; handleReadDialog does not look at the origin.
Use(c, t, origin, r) ==
    /\ ParseToken(t) /\ (r # "dialog" => tokenOriginAllowed(t, origin))
    /\ BeginWith(c, r, "bot", t, origin)

-----------------------------------------------------------------------------
(* ... and goes on, step by step.                                          *)

\* GetWidgetBotUser: 404 without an enabled row.
CheckRow(c) ==
    /\ At(c, "row")
    /\ IF claim[c].user \in enabled
       THEN Goto(c, "bot") /\ UNCHANGED <<tokens, exams>>
       ELSE Refuse(c)

botIsRunning(u) == u \in running

\* What follows a look into u.bot.
AfterBot(c) == CASE route[c] = "exam"   -> "balance"
                 [] route[c] = "ticket" -> "sign"
                 [] OTHER               -> "serve"

\* Mutant: an exam that finds the row enabled does not look for an instance.
CheckBot_TrustRow(c) ==
    /\ At(c, "bot")
    /\ IF botIsRunning(claim[c].user) \/ route[c] = "exam"
       THEN Goto(c, AfterBot(c)) /\ UNCHANGED <<tokens, exams>>
       ELSE Refuse(c)

\* botIsRunning or u.bot.Load: 503 or 404 without an instance.
CheckBot(c) ==
    /\ At(c, "bot")
    /\ IF botIsRunning(claim[c].user)
       THEN Goto(c, AfterBot(c)) /\ UNCHANGED <<tokens, exams>>
       ELSE Refuse(c)

\* CheckUserSubscription: 402.
CheckBalance(c) ==
    /\ At(c, "balance")
    /\ IF claim[c].user \in paid
       THEN Goto(c, "sign") /\ UNCHANGED <<tokens, exams>>
       ELSE Refuse(c)

\* WidgetNewToken.
NewToken(cl) == [claim |-> cl, exp |-> now + TTL]

Fresh(j) == \A e \in exams : e.claim.jti # j

\* Mutant: the token is signed with the jti of a Req that has none.
ExamUser_NoJti(c) ==
    /\ At(c, "sign") /\ route[c] = "exam"
    /\ tokens' = tokens \cup {NewToken(claim[c])}
    /\ exams' = exams \cup {[claim |-> claim[c], code |-> code[c], met |-> met[c]]}
    /\ Answer(c)

\* ExamUser: a fresh jti, a token with the origin of the request.
ExamUser(c) == \E j \in Jtis :
    LET cl == [claim[c] EXCEPT !.jti = j] IN
    /\ At(c, "sign") /\ route[c] = "exam" /\ Fresh(j)
    /\ tokens' = tokens \cup {NewToken(cl)}
    /\ exams' = exams \cup {[claim |-> cl, code |-> code[c], met |-> met[c]]}
    /\ Answer(c)

\* Mutant: a renewed token gets a jti of its own, as ExamUser gives it.
UpdateToken_FreshJti(c) == \E j \in Jtis :
    /\ At(c, "sign") /\ route[c] # "exam" /\ Fresh(j)
    /\ tokens' = tokens \cup {NewToken([claim[c] EXCEPT !.jti = j])}
    /\ UNCHANGED exams
    /\ Answer(c)

\* UpdateToken: everything but the expiry is kept.
UpdateToken(c) ==
    /\ At(c, "sign") /\ route[c] # "exam"
    /\ tokens' = tokens \cup {NewToken(claim[c])}
    /\ UNCHANGED exams
    /\ Answer(c)

\* The rest of the handler, in the other modules.
Serve(c) == At(c, "serve") /\ Refuse(c)

\* A call to MySQL or to the orchestrator fails.
CallFails(c) == step[c] \in {"row", "balance", "sign"} /\ Refuse(c)

-----------------------------------------------------------------------------
Next ==
    \/ Tick
    \/ \E u \in Users : World(u)
    \/ \E u \in Users, urls \in SUBSET Origins, exp \in 1..MaxNow \cup {Never} :
          GenerateWidgetCode(u, urls, exp)
    \/ \E c \in Conns, origin \in Origins :
          \/ \E k \in codes, r \in Resps : Exam(c, k, r, origin)
          \/ \E t \in tokens :
                \/ Refresh(c, t, origin) \/ Ticket(c, t, origin) \/ Look(c, t, origin)
                \/ \E r \in Uses : Use(c, t, origin, r)
    \/ \E c \in Conns : \/ CheckRow(c) \/ CheckBot(c) \/ CheckBalance(c)
                        \/ ExamUser(c) \/ UpdateToken(c) \/ Serve(c) \/ CallFails(c)

Spec == Init /\ [][Next]_vars

-----------------------------------------------------------------------------
(* What must hold. *)

\* However often it was renewed, by whichever route, a token belongs to one
\* session: an exam for the same user, respondent and origin, made with a code
\* of that user that admits the origin.
SessionRooted == \A t \in tokens : \E e \in exams :
    /\ e.claim = t.claim
    /\ e.code.user = t.claim.user /\ t.claim.origin \in e.code.urls
    /\ \A f \in exams : f.claim.jti = t.claim.jti => f = e

\* What the holder of a token must show, by route.  A renewal needs no good
\* subscription here: the API description has a 402 for both routes, and the
\* handlers answer "Low balance" when the orchestrator does not sign, but no
\* handler looks at the subscription after the exam.
Asked(r) == CASE r = "refresh" -> {"origin"}
              [] r = "look"    -> {"origin", "unexpired"}
              [] r = "dialog"  -> {"bot", "unexpired"}
              [] OTHER         -> {"bot", "origin", "unexpired"}

\* Whatever is granted, on every route and after any number of renewals, goes
\* back to one exam, for which the code admitted the origin and had not expired,
\* the row was enabled, an instance ran and the subscription was good, each at
\* some time of that request; and the request itself met what its route asks
\* for.  (Nothing need hold any more when the answer is given: the row and the
\* subscription are never looked at again.)
GrantsBacked ==
    /\ \A e \in exams : e.met = Facts
    /\ \A c \in Conns : step[c] \in {"sign", "serve"} /\ route[c] # "exam" =>
          /\ \E e \in exams : e.claim = claim[c]
          /\ Asked(route[c]) \subseteq met[c]
=============================================================================
