-------------------------- MODULE WidgetConfigProofs --------------------------
(* Theorems about WidgetConfig, for lists of any length. *)
EXTENDS WidgetConfig, FiniteSetTheorems, SequenceTheorems, TLAPS

Written == given.urls

\* The list that is parsed, position by position: the loop has normalised what
\* is before its index, every origin once, and has not touched the rest.
Normalised ==
    /\ TypeOK /\ IsFiniteSet(seen)
    /\ \A i \in 1..Len(urls) : i < index =>
          /\ IsOrigin(Written[i]) /\ urls[i] = NormalizeOrigin(Written[i])
          /\ urls[i] \in seen
    /\ \A o \in seen : \E i \in 1..Len(urls) : i < index /\ o = urls[i]
    /\ \A i \in 1..Len(urls) : i >= index => urls[i] = Written[i]
    /\ pc \in {"idle", "check"} => index = 1 /\ urls = Written
    /\ pc \in {"valid", "done"} => index = Len(urls) + 1

\* A list of origins is one of forms.
LEMMA Widened == ASSUME NEW S, NEW T, S \subseteq T, NEW s \in Seq(S)
                 PROVE  s \in Seq(T)
  OBVIOUS

LEMMA ListForms == ASSUME NEW l \in Seq(RawOrigins) PROVE l \in Seq(OriginForms)
  BY RawAssumption, Widened

\* Normalising gives a form again.
LEMMA NormalForm == ASSUME NEW o \in OriginForms
                    PROVE  NormalizeOrigin(o) \in OriginForms
  BY DEF OriginForms, NormalizeOrigin, Pads

LEMMA NormalisedInit == Init => Normalised
  BY TimeAssumption, FS_EmptySet
  DEF Init, Normalised, TypeOK, Callers, NoTime, Written

\* A parse begins with the list as it was written.
LEMMA StartNormalised ==
    ASSUME Normalised, NEW who \in Callers, Start(who), UNCHANGED <<now, code, limit>>,
           given'.urls \in Seq(RawOrigins) /\ given'.urls \in Seq(OriginForms),
           given'.expires \in 0 .. NoTime /\ given'.never \in BOOLEAN
    PROVE  Normalised'
<1>1. Len(urls') \in Nat /\ urls' = given'.urls /\ index' = 1 /\ seen' = {} /\ pc' = "check"
      BY LenProperties DEF Start
<1>2. TypeOK'
  <2>1. 1 \in 1 .. Len(urls') + 1 BY <1>1
  <2>2. Cardinality(seen') = index' - 1 BY <1>1, FS_EmptySet
  <2>3. QED BY <1>1, <2>1, <2>2 DEF Normalised, TypeOK, Start
<1>3. IsFiniteSet(seen') BY <1>1, FS_EmptySet
<1>4. QED BY <1>1, <1>2, <1>3 DEF Normalised, Written

\* One turn of the loop.
LEMMA IterateNormalised == ASSUME Normalised, Iterate PROVE Normalised'
<1>1. /\ urls \in Seq(OriginForms) /\ Len(urls) \in Nat /\ index \in 1..Len(urls)
      /\ DOMAIN urls = 1..Len(urls) /\ Len(urls) = Len(given.urls)
      BY LenProperties DEF Normalised, TypeOK, Iterate
<1>2. PICK o \in OriginForms : o = NormalizeOrigin(urls[index])
      BY <1>1, ElementOfSeq, NormalForm
<1>3. /\ o \notin seen /\ seen' = seen \cup {o} /\ index' = index + 1
      /\ urls' = [urls EXCEPT ![index] = o] /\ IsOrigin(urls[index])
      /\ pc = "loop" /\ UNCHANGED <<now, given, caller, pc, code, limit>>
      BY <1>2 DEF Iterate
<1>4. /\ urls' \in Seq(OriginForms) /\ Len(urls') = Len(urls) /\ urls'[index] = o
      /\ \A i \in 1..Len(urls) : i # index => urls'[i] = urls[i]
      BY <1>1, <1>2, <1>3, ExceptSeq
<1>5. IsFiniteSet(seen') /\ Cardinality(seen') = index' - 1
  <2>1. IsFiniteSet(seen) /\ Cardinality(seen) = index - 1 BY DEF Normalised, TypeOK
  <2>2. Cardinality(seen') = Cardinality(seen) + 1 /\ IsFiniteSet(seen')
        BY <1>3, <2>1, FS_AddElement
  <2>3. QED BY <1>1, <1>3, <2>1, <2>2
<1>6. TypeOK'
  <2>1. index' \in 1 .. Len(urls') + 1 BY <1>1, <1>3, <1>4
  <2>2. seen' \subseteq OriginForms BY <1>3 DEF Normalised, TypeOK
  <2>3. QED BY <1>1, <1>3, <1>4, <1>5, <2>1, <2>2 DEF Normalised, TypeOK
<1>7. urls[index] = Written[index] BY <1>1 DEF Normalised
<1>8. \A i \in 1..Len(urls') : i < index' =>
          /\ IsOrigin(Written[i]) /\ urls'[i] = NormalizeOrigin(Written[i])
          /\ urls'[i] \in seen'
  <2>1. ASSUME NEW i \in 1..Len(urls), i < index
        PROVE  /\ IsOrigin(Written[i]) /\ urls'[i] = NormalizeOrigin(Written[i])
               /\ urls'[i] \in seen'
        BY <1>1, <1>3, <1>4, <2>1 DEF Normalised
  <2>2. /\ IsOrigin(Written[index]) /\ urls'[index] = NormalizeOrigin(Written[index])
        /\ urls'[index] \in seen'
        BY <1>2, <1>3, <1>4, <1>7
  <2>3. \A i \in 1..Len(urls') : i < index' => i < index \/ i = index
        BY <1>1, <1>3, <1>4
  <2>4. QED BY <1>4, <2>1, <2>2, <2>3
<1>9. \A p \in seen' : \E i \in 1..Len(urls') : i < index' /\ p = urls'[i]
  <2>1. ASSUME NEW p \in seen PROVE \E i \in 1..Len(urls') : i < index' /\ p = urls'[i]
    <3>1. PICK i \in 1..Len(urls) : i < index /\ p = urls[i] BY DEF Normalised
    <3>2. i < index' /\ urls'[i] = p BY <1>1, <1>3, <1>4, <3>1
    <3>3. QED BY <1>4, <3>2
  <2>2. index \in 1..Len(urls') /\ index < index' /\ o = urls'[index] BY <1>1, <1>3, <1>4
  <2>3. QED BY <1>3, <2>1, <2>2
<1>10. \A i \in 1..Len(urls') : i >= index' => urls'[i] = Written[i]
       BY <1>1, <1>3, <1>4 DEF Normalised
<1>11. Written' = Written BY <1>3 DEF Written
<1>12. QED BY <1>3, <1>5, <1>6, <1>8, <1>9, <1>10, <1>11 DEF Normalised

\* A step that leaves the parse where it is, or ends it.
LEMMA NormalisedStays ==
    ASSUME Normalised, TypeOK', UNCHANGED <<given, urls, index, seen>>,
           \/ pc' = pc \/ pc' \in {"loop", "failed"}
           \/ pc' = "valid" /\ index = Len(urls) + 1
           \/ pc' = "done" /\ pc = "valid"
    PROVE  Normalised'
  BY DEF Normalised, Written

LEMMA NormalisedStep == Normalised /\ [Next]_vars => Normalised'
<1> SUFFICES ASSUME Normalised, [Next]_vars PROVE Normalised'
    OBVIOUS
<1>1. TypeOK BY DEF Normalised
<1>2. CASE Tick
  <2>1. now' \in 0 .. MaxTime BY <1>1, <1>2, TimeAssumption DEF Tick, TypeOK
  <2>2. TypeOK' BY <1>1, <1>2, <2>1 DEF Tick, TypeOK
  <2>3. QED BY <1>2, <2>2, NormalisedStays DEF Tick
<1>3. CASE Request
  <2>1. PICK who \in Callers, config \in Configs : given' = config /\ Start(who)
        BY <1>3 DEF Request
  <2>2. given'.urls \in UrlLists /\ given'.expires \in 0 .. NoTime /\ given'.never \in BOOLEAN
        BY <2>1 DEF Configs
  <2>3. QED BY <1>3, <2>1, <2>2, ListsAssumption, ListForms, StartNormalised DEF Request
<1>4. CASE Check
  <2>1. TypeOK' BY <1>1, <1>4 DEF Check, TypeOK
  <2>2. QED BY <1>4, <2>1, NormalisedStays DEF Check
<1>5. CASE Reject
  <2>1. TypeOK' BY <1>1, <1>5 DEF Reject, TypeOK
  <2>2. QED BY <1>5, <2>1, NormalisedStays DEF Reject
<1>6. CASE LoopEnds
  <2>1. TypeOK' BY <1>1, <1>6 DEF LoopEnds, TypeOK
  <2>2. Len(urls) \in Nat /\ index \in 1..Len(urls) + 1 /\ index > Len(urls)
        BY <1>1, <1>6, LenProperties DEF TypeOK, LoopEnds
  <2>3. index = Len(urls) + 1 BY ONLY <2>2
  <2>4. QED BY <1>6, <2>1, <2>3, NormalisedStays DEF LoopEnds
<1>7. CASE GenerateCode
  <2>1. TypeOK' BY <1>1, <1>7 DEF GenerateCode, TypeOK
  <2>2. QED BY <1>7, <2>1, NormalisedStays DEF GenerateCode
<1>8. CASE ParseAgain
  <2>1. given'.urls \in Seq(RawOrigins) /\ given'.urls \in Seq(OriginForms)
        BY <1>1, <1>8, ListForms DEF ParseAgain, TypeOK
  <2>2. QED BY <1>1, <1>8, <2>1, StartNormalised DEF ParseAgain, TypeOK, Callers
<1>9. CASE CountSlots
  <2>1. limit' \in 0..255
    <3>1. \A n \in Nat : n % 256 \in 0..255 OBVIOUS
    <3>2. 2 * Len(urls) \in Nat BY <1>1, LenProperties DEF TypeOK
    <3>3. QED BY <1>9, <3>1, <3>2 DEF CountSlots, maxConnect
  <2>2. TypeOK' BY <1>1, <1>9, <2>1 DEF CountSlots, TypeOK
  <2>3. QED BY <1>9, <2>2, NormalisedStays DEF CountSlots
<1>10. CASE UNCHANGED vars
  <2>1. TypeOK' BY <1>1, <1>10 DEF vars, TypeOK
  <2>2. QED BY <1>10, <2>1, NormalisedStays DEF vars
<1>11. QED BY <1>2, <1>3, <1>4, <1>5, <1>6, <1>7, <1>8, <1>9, <1>10, IterateNormalised
           DEF Next

\* Every variable of the parser keeps its type, and the loop meets as many
\* different origins as it takes turns.
THEOREM TypeCorrect == Spec => []TypeOK
<1>1. Normalised => TypeOK BY DEF Normalised
<1>2. QED BY <1>1, NormalisedInit, NormalisedStep, PTL DEF Spec

-----------------------------------------------------------------------------
(* What a finished parse has read. *)

\* A code is issued with the list as the loop has left it, and maxConnect counts
\* that list.
Issued ==
    /\ pc = "done" /\ caller = "handleWidgetCode" => code = urls
    /\ pc = "done" /\ caller = "maxConnect" => limit = maxConnect(Len(urls))

LEMMA IssuedStep == Issued /\ [Next]_vars => Issued'
  BY DEF Issued, Next, vars, Tick, Request, Check, Iterate, Reject, LoopEnds,
         GenerateCode, ParseAgain, CountSlots, Start

\* The list of a finished parse, normalised, is what was meant.
LEMMA ReadAll ==
    ASSUME Normalised, pc = "done"
    PROVE  /\ DOMAIN urls = DOMAIN Written /\ DOMAIN urls = 1..Len(urls)
           /\ \A i \in DOMAIN urls : urls[i] = NormalizeOrigin(Written[i])
           /\ seen = Meant(Written) /\ Cardinality(seen) = Len(urls)
<1>1. /\ urls \in Seq(OriginForms) /\ Written \in Seq(RawOrigins)
      /\ Len(urls) = Len(Written) /\ index = Len(urls) + 1
      /\ Cardinality(seen) = index - 1
      BY DEF Normalised, TypeOK, Written
<1>2. /\ DOMAIN urls = 1..Len(urls) /\ DOMAIN Written = 1..Len(urls) /\ Len(urls) \in Nat
      BY <1>1, LenProperties
<1>3. \A i \in 1..Len(urls) : /\ i < index /\ urls[i] \in seen
                              /\ urls[i] = NormalizeOrigin(Written[i])
      BY <1>1, <1>2 DEF Normalised
<1>4. \A o \in seen : \E i \in 1..Len(urls) : o = urls[i] BY DEF Normalised
<1>5. seen = Meant(Written) BY <1>2, <1>3, <1>4 DEF Meant
<1>6. QED BY <1>1, <1>2, <1>3, <1>5

\* A code admits exactly the origins that were asked for, for lists of every
\* length and origins in every form.
THEOREM CodesAdmit == Spec => []CodeAdmits
<1>1. Init => Issued BY DEF Init, Issued
<1>2. Normalised /\ Issued => CodeAdmits
  <2> SUFFICES ASSUME Normalised, Issued, pc = "done", caller = "handleWidgetCode",
                      NEW o \in RawOrigins
               PROVE  originAllowed(o, code) <=>
                          IsOrigin(o) /\ NormalizeOrigin(o) \in Meant(Written)
      BY DEF CodeAdmits, Written
  <2>1. code = urls BY DEF Issued
  <2>2. QED BY <2>1, ReadAll DEF originAllowed, Meant
<1>3. QED BY <1>1, <1>2, NormalisedInit, NormalisedStep, IssuedStep, PTL DEF Spec

Allowed == Cardinality(Meant(given.urls))

LEMMA CountedSlots ==
    ASSUME Normalised, Issued, pc = "done", caller = "maxConnect"
    PROVE  Allowed \in Nat /\ limit = (2 * Allowed) % 256
<1>1. Len(urls) \in Nat BY LenProperties DEF Normalised, TypeOK
<1>2. Allowed = Len(urls) BY ReadAll DEF Allowed, Written
<1>3. QED BY <1>1, <1>2 DEF Issued, maxConnect

\* The bot has two slots for each distinct origin of its row, for lists of every
\* length whose slots fit a uint8.
THEOREM TwoSlotsEach == Spec => []TwoPerOrigin
<1>1. Init => Issued BY DEF Init, Issued
<1>2. Normalised /\ Issued => TwoPerOrigin
  <2> SUFFICES ASSUME Normalised, Issued, pc = "done", caller = "maxConnect",
                      FitsLimit(Allowed)
               PROVE  limit = 2 * Allowed
      BY DEF TwoPerOrigin, Allowed
  <2>1. \A n \in Nat : 2 * n <= 255 => (2 * n) % 256 = 2 * n OBVIOUS
  <2>2. QED BY <2>1, CountedSlots DEF FitsLimit
<1>3. QED BY <1>1, <1>2, NormalisedInit, NormalisedStep, IssuedStep, PTL DEF Spec

\* The row of 128 distinct origins, which every check admits, gives its bot no slot
\* at all, where the comment of maxConnect promises 256: every stream is refused.
NoSlotAt128 == pc = "done" /\ caller = "maxConnect" /\ Allowed = 128 => limit = 0

THEOREM LimitLost == Spec => []NoSlotAt128
<1>1. Init => Issued BY DEF Init, Issued
<1>2. Normalised /\ Issued => NoSlotAt128
  <2>1. (2 * 128) % 256 = 0 OBVIOUS
  <2>2. QED BY <2>1, CountedSlots DEF NoSlotAt128
<1>3. QED BY <1>1, <1>2, NormalisedInit, NormalisedStep, IssuedStep, PTL DEF Spec
=============================================================================
