------------------------------- MODULE Suggestions -------------------------------
(* The names a client offers while its user types: which names are offered      *)
(* (WalletSelectionService), the debounce before they are looked up and the      *)
(* lookups, which overlap and answer in any order.  The web wallet and the       *)
(* example have a copy each; a name is its labels, and which label begins with   *)
(* which is given by a constant.                                                 *)
EXTENDS Naturals, FiniteSets

CONSTANTS
    Inputs,      \* what may be typed: [node, sld, tld, more], NoPart for a missing part,
                 \* and whether a fourth part follows
    Domains,     \* the domains of the service: [sld, tld]
    Begins,      \* {<<prefix, label>>}: reflexive, and "" begins every label
    CorrectTlds, \* the prefixes of test, eth and xyz
    LongTlds,    \* the labels of three letters or more
    BadNodes,    \* the labels that are refused as a node: among others those with a dash first
    BadSlds,     \* those that no second label may look like
    MaxTyped     \* bound: changes of the input

NoPart == "no part"
NoInput == [node |-> NoPart, sld |-> NoPart, tld |-> NoPart, more |-> FALSE]
InDomain(node, d) == [node |-> node, sld |-> d.sld, tld |-> d.tld, more |-> FALSE]

(* The parts of what is typed come from the left; the domains of the service     *)
(* have a label and end in test, eth or xyz, as WalletSelectionService requires. *)
ASSUME SuggestionsAssumption ==
    /\ \A i \in Inputs : i # NoInput /\ (i.sld = NoPart => i.tld = NoPart)
    /\ NoPart \notin BadSlds
    /\ \A d \in Domains :
          /\ d.sld # "" /\ <<d.sld, d.sld>> \in Begins
          /\ \A b \in Begins : b[2] = d.tld => b[1] \in CorrectTlds
    /\ MaxTyped \in Nat

--------------------------------------------------------------------------------
(* getSuggestions, before it asks for each name whether it exists.               *)
WithPrefix(sld) == {d \in Domains : <<sld, d.sld>> \in Begins}
isCorrectDomainPrefix(sld) == WithPrefix(sld) # {}
isCorrectWholeDomain(sld) == \E d \in Domains : d.sld = sld
isCorrectTld(tld) == tld \in CorrectTlds

isCorrectPrefix(i) ==
    /\ ~i.more /\ i.node \notin BadNodes
    /\ IF i.sld \in BadSlds THEN isCorrectDomainPrefix(i.sld)
       ELSE i.tld # NoPart => i.sld # "" /\ isCorrectTld(i.tld)

ForNode(i) == {InDomain(i.node, d) : d \in Domains}
ForNodeAndSld(i) == {InDomain(i.node, d) : d \in WithPrefix(i.sld)}

(* Mutant: the domain must be whole before its end is typed.                     *)
CandidatesWhole(i) ==
    IF ~isCorrectPrefix(i) THEN {}
    ELSE IF i.sld = NoPart THEN ForNode(i)
    ELSE IF ~isCorrectWholeDomain(i.sld) \/ ~isCorrectTld(i.tld) THEN {}
    ELSE IF i.tld \notin LongTlds THEN ForNodeAndSld(i) ELSE {i}

(* A domain that begins with "my." is one whose label is "my".                   *)
Candidates(i) ==
    IF ~isCorrectPrefix(i) THEN {}
    ELSE IF i.sld = NoPart THEN ForNode(i)
    ELSE IF i.tld = NoPart THEN ForNodeAndSld(i)
    ELSE IF ~isCorrectWholeDomain(i.sld) \/ ~isCorrectTld(i.tld) THEN {}
    ELSE IF i.tld \notin LongTlds THEN ForNodeAndSld(i) ELSE {i}

(* The names that matter: any that may be looked up.                             *)
Names == UNION {Candidates(i) : i \in Inputs}

--------------------------------------------------------------------------------
VARIABLES
    input,      \* the text in the box
    busy,       \* whether the indicator is shown instead of suggestions
    shown,      \* the suggestions: for which input, and the two lists
    timer,      \* the input whose lookup the debounce holds back
    lookup,     \* the lookups that were started: their input, what is left, what was found
    typed,      \* how often the input changed
    exists,     \* the names of wallets that exist
    overlapped, \* whether a lookup was started before the last one answered
    failed      \* whether a lookup threw

vars == <<input, busy, shown, timer, lookup, typed, exists, overlapped, failed>>

Nothing == [for |-> NoInput, connections |-> {}, creations |-> {}]
Lookup == [for : Inputs, left : SUBSET Names, connections : SUBSET Names,
           creations : SUBSET Names]

Init ==
    /\ input = NoInput /\ busy = FALSE /\ shown = Nothing /\ timer = NoInput
    /\ lookup = {} /\ typed = 0 /\ exists = {} /\ overlapped = FALSE /\ failed = FALSE

(* update: the timer that runs is cleared, the lookups that run are not.         *)
Type(i) ==
    /\ typed < MaxTyped /\ typed' = typed + 1
    /\ i # input /\ input' = i /\ busy' = TRUE /\ timer' = i
    /\ UNCHANGED <<shown, lookup, exists, overlapped, failed>>

DoGetSuggestions ==
    /\ timer # NoInput /\ timer' = NoInput
    /\ lookup' = lookup \cup
          {[for |-> timer, left |-> Candidates(timer), connections |-> {}, creations |-> {}]}
    /\ overlapped' = (overlapped \/ lookup # {})
    /\ UNCHANGED <<input, busy, shown, typed, exists, failed>>

(* splitByExistence: one name after the other, an await for each.                *)
SplitByExistence(l) ==
    \E n \in l.left :
        /\ lookup' = (lookup \ {l}) \cup
              {IF n \in exists THEN [l EXCEPT !.left = @ \ {n}, !.connections = @ \cup {n}]
                               ELSE [l EXCEPT !.left = @ \ {n}, !.creations = @ \cup {n}]}
        /\ UNCHANGED <<input, busy, shown, timer, typed, exists, overlapped, failed>>

(* Mutants: the indicator waits for the next key; an older answer is kept.       *)
AnswerBusy(l) ==
    /\ l.left = {} /\ lookup' = lookup \ {l}
    /\ shown' = [for |-> l.for, connections |-> l.connections, creations |-> l.creations]
    /\ UNCHANGED <<input, busy, timer, typed, exists, overlapped, failed>>

AnswerOnce(l) ==
    /\ l.left = {} /\ lookup' = lookup \ {l}
    /\ busy' = FALSE
    /\ shown' = IF shown = Nothing
                  THEN [for |-> l.for, connections |-> l.connections, creations |-> l.creations]
                  ELSE shown
    /\ UNCHANGED <<input, timer, typed, exists, overlapped, failed>>

(* The callback, whatever has been typed or looked up meanwhile.                 *)
Answer(l) ==
    /\ l.left = {} /\ lookup' = lookup \ {l}
    /\ busy' = FALSE
    /\ shown' = [for |-> l.for, connections |-> l.connections, creations |-> l.creations]
    /\ UNCHANGED <<input, timer, typed, exists, overlapped, failed>>

(* The node rejects a call: nobody catches it and the callback is not called.    *)
LookupThrows(l) ==
    /\ l.left # {} /\ lookup' = lookup \ {l} /\ failed' = TRUE
    /\ UNCHANGED <<input, busy, shown, timer, typed, exists, overlapped>>

(* Somebody creates a wallet.                                                    *)
Register(n) ==
    /\ n \notin exists /\ exists' = exists \cup {n}
    /\ UNCHANGED <<input, busy, shown, timer, lookup, typed, overlapped, failed>>

Proceed ==
    DoGetSuggestions \/ \E l \in lookup : SplitByExistence(l) \/ Answer(l)

Next ==
    \/ \E i \in Inputs : Type(i)
    \/ Proceed
    \/ \E l \in lookup : LookupThrows(l)
    \/ \E n \in Names : Register(n)

(* Timers ring and the node answers.                                             *)
Spec == Init /\ [][Next]_vars /\ WF_vars(Proceed)

--------------------------------------------------------------------------------
(* Every value is of its type.                                                   *)
TypeOK ==
    /\ input \in Inputs \cup {NoInput} /\ timer \in Inputs \cup {NoInput}
    /\ busy \in BOOLEAN /\ overlapped \in BOOLEAN /\ failed \in BOOLEAN
    /\ shown.connections \subseteq Names /\ shown.creations \subseteq Names
    /\ shown.for \in Inputs \cup {NoInput}
    /\ lookup \subseteq Lookup /\ typed \in 0..MaxTyped /\ exists \subseteq Names

(* Every name the typed text can be completed to is offered, and each one offered*)
(* is one the service can give, unless three letters of the last label are there *)
(* ("a.my.tes" and "a.my.xyz" are then offered as they are) or the node is no    *)
(* label (WalletSelectionService.ts:76-96).                                      *)
CompletedBy(i, d) ==
    /\ ~i.more /\ i.node \notin BadNodes
    /\ i.sld # NoPart => IF i.tld = NoPart THEN <<i.sld, d.sld>> \in Begins ELSE i.sld = d.sld
    /\ i.tld # NoPart => <<i.tld, d.tld>> \in Begins
OffersComplete ==
    shown.for.tld \notin LongTlds /\ shown # Nothing =>
        LET offered == shown.connections \cup shown.creations
        IN  /\ \A d \in Domains :
                  CompletedBy(shown.for, d) => InDomain(shown.for.node, d) \in offered
            /\ offered \subseteq ForNode(shown.for)

(* When all is quiet and each lookup has answered before the next was started,   *)
(* what is shown is shown for the name in the box, even if an answer came between*)
(* two keys and took the indicator away.  Once two overlap, the answer that comes*)
(* last stays, for whatever name it is (SuggestionsService.ts:22-29,             *)
(* WalletSelector.tsx:21-30).                                                    *)
ShownIsCurrent ==
    timer = NoInput /\ lookup = {} /\ ~overlapped /\ ~failed => shown.for = input /\ ~busy

(* The indicator goes away in the end, unless a lookup threw.                    *)
BusyEnds == busy ~> (~busy \/ failed)
================================================================================
