--------------------------- MODULE Suggestions_proofs ---------------------------
(* Proofs about the suggestions: whatever the names and the order of the answers *)
(* all completions are offered, and what is shown at rest is for the name typed. *)
EXTENDS Suggestions, TLAPS

(* What a lookup has left or found are the candidates for its input.             *)
ForInput(l) == l.for \in Inputs /\ l.left \cup l.connections \cup l.creations = Candidates(l.for)
LookupsAreComplete ==
    /\ \A l \in lookup : ForInput(l)
    /\ shown # Nothing =>
          shown.for \in Inputs /\ shown.connections \cup shown.creations = Candidates(shown.for)

(* Until two lookups overlap there is one at most, for the input of the moment   *)
(* unless a timer runs that will start another.                                  *)
OneAtATime ==
    /\ ~overlapped => \A l, m \in lookup : l = m
    /\ ~overlapped /\ ~failed =>
        /\ timer # NoInput => timer = input
        /\ timer = NoInput => \A l \in lookup : l.for = input
        /\ timer = NoInput /\ lookup = {} => shown.for = input /\ ~busy

IInv == TypeOK /\ LookupsAreComplete /\ OneAtATime

--------------------------------------------------------------------------------
(* getSuggestions: a domain the typed text can be completed to is a candidate,   *)
(* and unless three letters of the last label are typed nothing else is.         *)
LEMMA CandidatesAreCompletions ==
    ASSUME NEW i \in Inputs, i.tld \notin LongTlds
    PROVE  /\ \A d \in Domains : CompletedBy(i, d) => InDomain(i.node, d) \in Candidates(i)
           /\ Candidates(i) \subseteq ForNode(i)
<1>1. ASSUME NEW d \in Domains, CompletedBy(i, d)
      PROVE  InDomain(i.node, d) \in Candidates(i)
  <2>1. InDomain(i.node, d) \in ForNode(i)
    BY DEF ForNode
  <2>2. ~i.more /\ i.node \notin BadNodes
    BY <1>1 DEF CompletedBy
  <2>3. CASE i.sld = NoPart
    <3>1. i.tld = NoPart /\ NoPart \notin BadSlds
      BY <2>3, SuggestionsAssumption
    <3>2. isCorrectPrefix(i)
      BY <2>2, <2>3, <3>1 DEF isCorrectPrefix
    <3>3. QED
      BY <2>1, <2>3, <3>2 DEF Candidates
  <2>4. CASE i.sld # NoPart /\ i.tld = NoPart
    <3>1. d \in WithPrefix(i.sld)
      BY <1>1, <2>4 DEF CompletedBy, WithPrefix
    <3>2. isCorrectPrefix(i)
      BY <2>2, <2>4, <3>1 DEF isCorrectPrefix, isCorrectDomainPrefix
    <3>3. QED
      BY <2>4, <3>1, <3>2 DEF Candidates, ForNodeAndSld
  <2>5. CASE i.sld # NoPart /\ i.tld # NoPart
    <3>1. i.sld = d.sld /\ <<i.tld, d.tld>> \in Begins
      BY <1>1, <2>5 DEF CompletedBy
    <3>2. d \in WithPrefix(i.sld) /\ i.sld # ""
      BY <3>1, SuggestionsAssumption DEF WithPrefix
    <3>3. isCorrectTld(i.tld)
      <4> DEFINE b == <<i.tld, d.tld>>
      <4>1. b \in Begins /\ b[1] = i.tld /\ b[2] = d.tld
        BY <3>1
      <4> HIDE DEF b
      <4>2. QED
        BY <4>1, SuggestionsAssumption DEF isCorrectTld
    <3>4. isCorrectPrefix(i) /\ isCorrectWholeDomain(i.sld)
      BY <2>2, <2>5, <3>1, <3>2, <3>3
      DEF isCorrectPrefix, isCorrectDomainPrefix, isCorrectWholeDomain
    <3>5. QED
      BY <2>5, <3>2, <3>3, <3>4 DEF Candidates, ForNodeAndSld
  <2>6. QED
    BY <2>3, <2>4, <2>5
<1>2. Candidates(i) \subseteq ForNode(i)
  BY DEF Candidates, ForNode, ForNodeAndSld, WithPrefix
<1>3. QED
  BY <1>1, <1>2

--------------------------------------------------------------------------------
LEMMA CandidatesAreNames == \A i \in Inputs : Candidates(i) \subseteq Names
BY DEF Names

LEMMA InitHolds == Init => IInv
<1> SUFFICES ASSUME Init PROVE IInv
  OBVIOUS
<1>0. MaxTyped \in Nat
  BY SuggestionsAssumption
<1>1. TypeOK
  <2>1. shown.for = NoInput /\ shown.connections = {} /\ shown.creations = {}
    BY DEF Init, Nothing
  <2>2. /\ shown.for \in Inputs \cup {NoInput}
        /\ shown.connections \subseteq Names /\ shown.creations \subseteq Names
    BY <2>1
  <2>3. typed \in 0..MaxTyped
    BY <1>0 DEF Init
  <2>4. lookup \subseteq Lookup /\ exists \subseteq Names
    BY DEF Init
  <2>5. QED
    BY <2>2, <2>3, <2>4, Zenon DEF Init, TypeOK
<1>2. LookupsAreComplete /\ OneAtATime
  BY DEF Init, LookupsAreComplete, OneAtATime, Nothing
<1>3. QED
  BY <1>1, <1>2 DEF IInv

LEMMA TypeHolds ==
    ASSUME IInv, NEW i \in Inputs, Type(i)
    PROVE  IInv'
<1> USE DEF IInv, Type
<1>0. MaxTyped \in Nat
  BY SuggestionsAssumption
<1>1. TypeOK'
  BY <1>0 DEF TypeOK
<1>2. LookupsAreComplete'
  BY DEF LookupsAreComplete, ForInput, Candidates, isCorrectPrefix
<1>3. OneAtATime'
  BY SuggestionsAssumption DEF OneAtATime
<1>4. QED
  BY <1>1, <1>2, <1>3

LEMMA DoGetSuggestionsHolds ==
    ASSUME IInv, DoGetSuggestions
    PROVE  IInv'
<1> DEFINE new == [for |-> timer, left |-> Candidates(timer), connections |-> {}, creations |-> {}]
<1>1. timer \in Inputs /\ new \in Lookup /\ new.for = timer /\ ForInput(new)
  BY CandidatesAreNames DEF IInv, TypeOK, DoGetSuggestions, Lookup, ForInput
<1>2. lookup' = lookup \cup {new}
  BY DEF DoGetSuggestions
<1> HIDE DEF new
<1>3. TypeOK'
  BY <1>1, <1>2 DEF IInv, TypeOK, DoGetSuggestions
<1>4. LookupsAreComplete'
  BY <1>1, <1>2 DEF IInv, LookupsAreComplete, DoGetSuggestions
<1>5. OneAtATime'
  BY <1>1, <1>2 DEF IInv, OneAtATime, DoGetSuggestions
<1>6. QED
  BY <1>3, <1>4, <1>5 DEF IInv

LEMMA SplitByExistenceHolds ==
    ASSUME IInv, NEW l \in lookup, SplitByExistence(l)
    PROVE  IInv'
<1>1. PICK n \in l.left :
        /\ lookup' = (lookup \ {l}) \cup
              {IF n \in exists THEN [l EXCEPT !.left = @ \ {n}, !.connections = @ \cup {n}]
                               ELSE [l EXCEPT !.left = @ \ {n}, !.creations = @ \cup {n}]}
        /\ UNCHANGED <<input, busy, shown, timer, typed, exists, overlapped, failed>>
  BY DEF SplitByExistence
<1>2. l \in Lookup /\ ForInput(l)
  BY DEF IInv, TypeOK, LookupsAreComplete
<1>3. PICK m : /\ lookup' = (lookup \ {l}) \cup {m} /\ m \in Lookup /\ m.for = l.for
               /\ m.left \cup m.connections \cup m.creations
                    = l.left \cup l.connections \cup l.creations
  <2>1. CASE n \in exists
    <3> DEFINE m == [l EXCEPT !.left = @ \ {n}, !.connections = @ \cup {n}]
    <3>1. /\ m \in Lookup /\ m.for = l.for /\ m.left = l.left \ {n}
          /\ m.connections = l.connections \cup {n} /\ m.creations = l.creations
      BY <1>2 DEF Lookup
    <3>2. lookup' = (lookup \ {l}) \cup {m}
      BY <1>1, <2>1
    <3> HIDE DEF m
    <3>3. QED
      BY <3>1, <3>2
  <2>2. CASE n \notin exists
    <3> DEFINE m == [l EXCEPT !.left = @ \ {n}, !.creations = @ \cup {n}]
    <3>1. /\ m \in Lookup /\ m.for = l.for /\ m.left = l.left \ {n}
          /\ m.connections = l.connections /\ m.creations = l.creations \cup {n}
      BY <1>2 DEF Lookup
    <3>2. lookup' = (lookup \ {l}) \cup {m}
      BY <1>1, <2>2
    <3> HIDE DEF m
    <3>3. QED
      BY <3>1, <3>2
  <2>3. QED
    BY <2>1, <2>2
<1>4. TypeOK'
  BY <1>1, <1>3 DEF IInv, TypeOK
<1>5. ForInput(m)
  BY <1>2, <1>3 DEF ForInput
<1>6. LookupsAreComplete'
  BY <1>1, <1>3, <1>5 DEF IInv, LookupsAreComplete
<1>7. OneAtATime'
  BY <1>1, <1>3 DEF IInv, OneAtATime
<1>8. QED
  BY <1>4, <1>6, <1>7 DEF IInv

LEMMA AnswerHolds ==
    ASSUME IInv, NEW l \in lookup, Answer(l)
    PROVE  IInv'
<1>1. /\ l \in Lookup /\ l.for \in Inputs /\ l.left = {}
      /\ l.connections \cup l.creations = Candidates(l.for)
  BY DEF IInv, TypeOK, LookupsAreComplete, ForInput, Answer
<1>2. /\ shown'.for = l.for /\ shown'.connections = l.connections
      /\ shown'.creations = l.creations
      /\ lookup' = lookup \ {l} /\ busy' = FALSE
      /\ UNCHANGED <<input, timer, typed, exists, overlapped, failed>>
  BY DEF Answer
<1>3. TypeOK'
  BY <1>1, <1>2 DEF IInv, TypeOK, Lookup
<1>4. LookupsAreComplete'
  BY <1>1, <1>2 DEF IInv, LookupsAreComplete
<1>5. OneAtATime'
  BY <1>1, <1>2 DEF IInv, OneAtATime
<1>6. QED
  BY <1>3, <1>4, <1>5 DEF IInv

LEMMA OthersHold ==
    ASSUME IInv,
           \/ \E l \in lookup : LookupThrows(l)
           \/ \E n \in Names : Register(n)
           \/ UNCHANGED vars
    PROVE  IInv'
<1>1. /\ lookup' \subseteq lookup /\ UNCHANGED <<input, busy, shown, timer, typed, overlapped>>
      /\ exists' \subseteq Names /\ failed' \in BOOLEAN
      /\ (lookup' = lookup /\ failed' = failed) \/ failed' = TRUE
  BY DEF IInv, TypeOK, LookupThrows, Register, vars
<1>2. TypeOK'
  BY <1>1 DEF IInv, TypeOK
<1>3. LookupsAreComplete'
  BY <1>1 DEF IInv, LookupsAreComplete
<1>4. OneAtATime'
  BY <1>1 DEF IInv, OneAtATime
<1>5. QED
  BY <1>2, <1>3, <1>4 DEF IInv

(* The types, that lookups keep all candidates, and that one at a time is for    *)
(* the input of the moment, are inductive (SuggestionsService.ts:17-29,          *)
(* WalletSelectionService.ts:19-58).                                             *)
THEOREM SuggestionsInvariant == Spec => []IInv
<1>1. Init => IInv
  BY InitHolds
<1>2. IInv /\ [Next]_vars => IInv'
  BY TypeHolds, DoGetSuggestionsHolds, SplitByExistenceHolds, AnswerHolds, OthersHold
  DEF Next, Proceed
<1>3. QED
  BY <1>1, <1>2, PTL DEF Spec

(* The input, the lookups and what is shown keep their types.                    *)
THEOREM SuggestionsTypes == Spec => []TypeOK
<1>1. IInv => TypeOK
  BY DEF IInv
<1>2. QED
  BY <1>1, SuggestionsInvariant, PTL

(* The names shown are the completions of the input they are shown for, all of   *)
(* them and no others, however the lookups were interleaved with registrations   *)
(* and typing (WalletSelectionService.ts:76-96).                                 *)
THEOREM AllCompletionsAreOffered == Spec => []OffersComplete
<1>1. IInv => OffersComplete
  <2> SUFFICES ASSUME IInv, shown.for.tld \notin LongTlds, shown # Nothing
               PROVE  LET offered == shown.connections \cup shown.creations
                      IN  /\ \A d \in Domains : CompletedBy(shown.for, d)
                                => InDomain(shown.for.node, d) \in offered
                          /\ offered \subseteq ForNode(shown.for)
    BY DEF OffersComplete
  <2>1. /\ shown.for \in Inputs
        /\ shown.connections \cup shown.creations = Candidates(shown.for)
    BY DEF IInv, LookupsAreComplete
  <2>2. QED
    BY <2>1, CandidatesAreCompletions
<1>2. QED
  BY <1>1, SuggestionsInvariant, PTL

(* Unless lookups overlapped or one threw, at rest the suggestions are those for *)
(* the name in the box and the indicator is off (SuggestionsService.ts:22-29).   *)
THEOREM ShownAtRestIsCurrent == Spec => []ShownIsCurrent
<1>1. IInv => ShownIsCurrent
  BY DEF IInv, OneAtATime, ShownIsCurrent
<1>2. QED
  BY <1>1, SuggestionsInvariant, PTL
================================================================================
