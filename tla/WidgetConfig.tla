---------------------------- MODULE WidgetConfig ----------------------------
(***************************************************************************)
(* The configuration of a widget: the loop of ParseWidgetConfigForGenera-  *)
(* tion over the allowed origins, and the three calls it has: handleWid-   *)
(* getCode, which puts the origins into a widget code, and createBot and   *)
(* maxConnect, which read the stored row one after the other               *)
(* (internal/widget/helpers.go, web-handlers.go, widget.go).               *)
(*                                                                         *)
(* An origin is what NormalizeOrigin tells apart: a host (with its scheme  *)
(* and port), whether it has upper-case letters, what surrounds it, and    *)
(* whether it is bare or has a part that is refused (a path, a query,      *)
(* credentials, a wildcard, another scheme).                               *)
(***************************************************************************)
EXTENDS Naturals, Sequences, FiniteSets

CONSTANTS
    RawOrigins,  \* origins as they are written in requests and rows
    UrlLists,    \* lists of allowed origins that are sent or stored
    MaxTime      \* bound: the clock stops there

Pads == {"", "space", "slash", "slash space", "space slash"}
OriginForms == [host : Nat, upper : BOOLEAN, pad : Pads, bare : BOOLEAN]

ASSUME RawAssumption == RawOrigins \subseteq OriginForms
ASSUME ListsAssumption == UrlLists \subseteq Seq(RawOrigins)
ASSUME TimeAssumption == MaxTime \in Nat

Callers == {"handleWidgetCode", "createBot", "maxConnect"}
NoTime == MaxTime + 1            \* ExpiresAt is nil
Configs == [urls : UrlLists, expires : 0 .. NoTime, never : BOOLEAN]

VARIABLES
    now,         \* time.Now()
    given,       \* the configuration as it was sent or stored
    caller,      \* who is parsing it
    pc,          \* "idle", "check", "loop", "valid", "done" or "failed"
    urls,        \* AllowedUrls: the slice the caller and the parser share
    index,       \* the loop variable
    seen,        \* origins met by the loop
    code,        \* origins of the widget code that was issued
    limit        \* maxConnections of the bot that was started, 0 before

vars == <<now, given, caller, pc, urls, index, seen, code, limit>>

-----------------------------------------------------------------------------
\* NormalizeOrigin: spaces are trimmed before slashes, so that a space in front
\* of the last slash stays, and no host has one.
IsOrigin(o) == o.bare /\ o.pad # "space slash"
NormalizeOrigin(o) == [o EXCEPT !.upper = FALSE, !.pad = ""]

\* The list is compared as it is, only the origin of the request is normalised.
originAllowed(o, allowed) ==
    /\ IsOrigin(o)
    /\ \E i \in DOMAIN allowed : allowed[i] = NormalizeOrigin(o)

\* The product of ints is cut to a uint8.
maxConnect(n) == (2 * n) % 256

\* A parse of the given configuration begins; JSON that is read again is a new
\* slice.
Start(who) ==
    /\ caller' = who /\ pc' = "check"
    /\ urls' = given'.urls /\ index' = 1 /\ seen' = {}

Init ==
    /\ now = 0 /\ pc = "idle" /\ caller = "createBot"
    /\ given = [urls |-> <<>>, expires |-> NoTime, never |-> TRUE]
    /\ urls = <<>> /\ index = 1 /\ seen = {} /\ code = <<>> /\ limit = 0

Tick ==
    /\ now < MaxTime
    /\ now' = now + 1
    /\ UNCHANGED <<given, caller, pc, urls, index, seen, code, limit>>

\* A request for a widget code, or the start of the bot of a stored row.
Request ==
    /\ pc = "idle"
    /\ \E who \in Callers \ {"maxConnect"}, config \in Configs :
         given' = config /\ Start(who)
    /\ UNCHANGED <<now, code, limit>>

\* The conditions in front of the loop.
Checked ==
    /\ given.urls # <<>>
    /\ given.never <=> given.expires = NoTime
    /\ given.expires > now

Check ==
    /\ pc = "check"
    /\ pc' = IF Checked THEN "loop" ELSE "failed"
    /\ UNCHANGED <<now, given, caller, urls, index, seen, code, limit>>

\* Mutant: the parser works on a copy of the slice.
Iterate_Copy ==
    /\ pc = "loop" /\ index <= Len(urls)
    /\ IsOrigin(urls[index])
    /\ NormalizeOrigin(urls[index]) \notin seen
    /\ seen' = seen \cup {NormalizeOrigin(urls[index])}
    /\ index' = index + 1
    /\ UNCHANGED <<now, given, caller, pc, urls, code, limit>>

\* Mutant: the duplicates are looked for among the origins as written.
Iterate_RawSeen ==
    /\ pc = "loop" /\ index <= Len(urls)
    /\ IsOrigin(urls[index])
    /\ urls[index] \notin seen
    /\ seen' = seen \cup {urls[index]}
    /\ urls' = [urls EXCEPT ![index] = NormalizeOrigin(urls[index])]
    /\ index' = index + 1
    /\ UNCHANGED <<now, given, caller, pc, code, limit>>

\* Mutant: a duplicate is skipped instead of refused.
Iterate_Skip ==
    /\ pc = "loop" /\ index <= Len(urls)
    /\ IsOrigin(urls[index])
    /\ seen' = seen \cup {NormalizeOrigin(urls[index])}
    /\ urls' = [urls EXCEPT ![index] = NormalizeOrigin(urls[index])]
    /\ index' = index + 1
    /\ UNCHANGED <<now, given, caller, pc, code, limit>>

\* One origin: it is written back into the slice of the caller.
Iterate ==
    /\ pc = "loop" /\ index <= Len(urls)
    /\ IsOrigin(urls[index])
    /\ LET normalized == NormalizeOrigin(urls[index])
       IN  /\ normalized \notin seen
           /\ seen' = seen \cup {normalized}
           /\ urls' = [urls EXCEPT ![index] = normalized]
    /\ index' = index + 1
    /\ UNCHANGED <<now, given, caller, pc, code, limit>>

\* An origin that is not one, or that was met before, ends the parse.
Reject ==
    /\ pc = "loop" /\ index <= Len(urls)
    /\ IsOrigin(urls[index]) => NormalizeOrigin(urls[index]) \in seen
    /\ pc' = "failed"
    /\ UNCHANGED <<now, given, caller, urls, index, seen, code, limit>>

LoopEnds ==
    /\ pc = "loop" /\ index > Len(urls)
    /\ pc' = "valid"
    /\ UNCHANGED <<now, given, caller, urls, index, seen, code, limit>>

\* handleWidgetCode drops the configuration that the parser returns, and passes
\* its own to generateWidgetCode: the origins are those of the shared slice.
GenerateCode ==
    /\ pc = "valid" /\ caller = "handleWidgetCode"
    /\ code' = urls /\ pc' = "done"
    /\ UNCHANGED <<now, given, caller, urls, index, seen, limit>>

\* createBot only validates, and maxConnect parses the same row once more, at a
\* later time: it may have expired in between.
ParseAgain ==
    /\ pc = "valid" /\ caller = "createBot"
    /\ UNCHANGED given
    /\ Start("maxConnect")
    /\ UNCHANGED <<now, code, limit>>

CountSlots ==
    /\ pc = "valid" /\ caller = "maxConnect"
    /\ limit' = maxConnect(Len(urls)) /\ pc' = "done"
    /\ UNCHANGED <<now, given, caller, urls, index, seen, code>>

Next ==
    \/ Tick \/ Request \/ Check \/ Iterate \/ Reject \/ LoopEnds
    \/ GenerateCode \/ ParseAgain \/ CountSlots

Spec == Init /\ [][Next]_vars

-----------------------------------------------------------------------------
\* Every variable has its type; the loop has met one origin per step, so none
\* of them twice.
TypeOK ==
    /\ now \in 0 .. MaxTime
    /\ given.urls \in Seq(RawOrigins)
    /\ given.expires \in 0 .. NoTime /\ given.never \in BOOLEAN
    /\ caller \in Callers
    /\ pc \in {"idle", "check", "loop", "valid", "done", "failed"}
    /\ urls \in Seq(OriginForms) /\ Len(urls) = Len(given.urls)
    /\ index \in 1 .. Len(urls) + 1
    /\ seen \subseteq OriginForms /\ Cardinality(seen) = index - 1
    /\ code \in Seq(OriginForms)
    /\ limit \in 0 .. 255

\* The origins a list means, once normalised.
Meant(list) == {NormalizeOrigin(list[i]) : i \in DOMAIN list}

\* A widget code admits exactly the origins that were asked for, however they
\* were written there and however a browser writes them: /exam compares with
\* the list in the code without normalising it, so this rests on the slice
\* handleWidgetCode shares with the parser.
CodeAdmits ==
    pc = "done" /\ caller = "handleWidgetCode" =>
        \A o \in RawOrigins :
            originAllowed(o, code) <=> IsOrigin(o) /\ NormalizeOrigin(o) \in Meant(given.urls)

\* The connections of so many origins fit the limit, a uint8.
FitsLimit(n) == 2 * n <= 255

\* A bot has two connections for each origin its row allows, duplicates refused
\* ("depending on the allowed urls, x2": the comment of maxConnect), as long as
\* the number fits the limit.  The comment makes no such exception, and nothing
\* in the code refuses a longer list: LimitLost (WidgetConfigProofs) is what
\* happens then.
TwoPerOrigin ==
    LET allowed == Cardinality(Meant(given.urls))
    IN  pc = "done" /\ caller = "maxConnect" /\ FitsLimit(allowed) => limit = 2 * allowed

=============================================================================
