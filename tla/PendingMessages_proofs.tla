------------------------- MODULE PendingMessages_proofs -------------------------
(* Proofs about PendingMessages: the types, that what a client is told is kept,  *)
(* that sufficient signatures are queued and that what is queued can be executed.*)
EXTENDS PendingMessages, WalletOps_proofs, SequenceTheorems, TLAPS

(* Handlers that have not stored their signature yet, those that have counted    *)
(* enough signatures, and of these the ones that hold the sorted signatures.     *)
Early == {"isPresent", "add", "get", "containSignature", "ensureKey", "addSignature"}
Holding == {"ensureNotSent", "recount", "recheck", "enqueue"}
Enough == {"collect"} \cup Holding

(* Nothing in this module sends a message.                                       *)
NothingSent == transactionHash = {}

(* A handler that got a row finds it again, and only such messages are queued.   *)
RowsArePresent ==
    /\ Queued \subseteq messages
    /\ \A r \in Requests :
          request[r].pc \in {"containSignature", "ensureKey", "addSignature", "count", "isEnough",
                             "collecting", "queued"} \cup Enough
              => MsgOf[r] \in messages

(* The primary key of the queue.                                                 *)
QueuedOnce ==
    \A i, j \in DOMAIN finalMessages : finalMessages[i].message = finalMessages[j].message => i = j

(* What a handler stored, it finds; what it collected, it queues.                *)
SignatureIsKept ==
    \A r \in Requests :
        /\ request[r].pc \in {"count", "isEnough", "collecting", "queued"} \cup Enough
              => KeyOf[r] \in ToSet(pairs[MsgOf[r]])
        /\ request[r].pc \in Holding => KeyOf[r] \in ToSet(request[r].sigs)
        /\ request[r].pc = "queued" =>
              \E i \in DOMAIN finalMessages :
                  finalMessages[i].message = MsgOf[r] /\ KeyOf[r] \in ToSet(finalMessages[i].sigs)

(* No handler counts a signature that is not there, and while the wallet is      *)
(* unchanged one that found enough still has enough.                             *)
CountsAreTrue ==
    \A r \in Requests :
        /\ request[r].total <= Len(pairs[MsgOf[r]])
        /\ wallet = FirstWallet /\ request[r].pc \in Enough
              => request[r].total >= FirstWallet.requiredSignatures

(* A handler that will have all signatures so far queued, or has seen that they  *)
(* are too few.                                                                  *)
Covers(r) ==
    \/ request[r].pc \in {"count"} \cup Enough
    \/ request[r].pc \in {"isEnough", "collecting"} /\ request[r].total = Len(pairs[MsgOf[r]])

(* Every message with signatures is queued or covered: the handler of the last   *)
(* signature, if nobody else, sees them all.                                     *)
AllCovered ==
    wallet = FirstWallet =>
        /\ \A m \in Messages : pairs[m] # <<>> /\ m \notin Queued
              => \E r \in Requests : MsgOf[r] = m /\ Covers(r)
        /\ \A r \in Requests : request[r].pc = "collecting"
              => request[r].total < FirstWallet.requiredSignatures

CollectionInv == TypeOK /\ NothingSent /\ RowsArePresent /\ QueuedOnce /\ SignatureIsKept
CoveredInv == CollectionInv /\ CountsAreTrue /\ AllCovered

(* The hypothesis of the theorems about an unchanged wallet: a wallet that has   *)
(* been changed does not become again what it was at the start.                  *)
NeverAgain == wallet' = FirstWallet => wallet = FirstWallet

--------------------------------------------------------------------------------
(* The requests carry different signatures, and the keys with a purpose are the  *)
(* wallet's (addKey and removeKey change both at once, KeyHolder.sol:52-83).     *)
DifferentSignatures ==
    \A r, q \in Requests : MsgOf[r] = MsgOf[q] /\ KeyOf[r] = KeyOf[q] => r = q
PurposeIsOwned == \A a \in Addr : FirstWallet.purpose[a] # 0 => a \in FirstWallet.owned

(* Each signature comes from one request, which has stored it, and its key had a *)
(* purpose.                                                                      *)
SignaturesAreOwned ==
    /\ \A m \in Messages : \A i \in DOMAIN pairs[m] :
          \E r \in Requests : MsgOf[r] = m /\ KeyOf[r] = pairs[m][i] /\ request[r].pc \notin Early
    /\ \A m \in Messages : \A i, j \in DOMAIN pairs[m] : pairs[m][i] = pairs[m][j] => i = j
    /\ wallet = FirstWallet =>
          /\ \A r \in Requests : request[r].pc = "addSignature" => KeyOf[r] \in FirstWallet.owned
          /\ \A m \in Messages : ToSet(pairs[m]) \subseteq FirstWallet.owned

(* Signatures that the unchanged wallet accepts.                                 *)
Acceptable(sigs) ==
    Len(sigs) >= FirstWallet.requiredSignatures /\ areSignaturesValid(FirstWallet, sigs)
HeldIsAcceptable ==
    wallet = FirstWallet =>
        /\ \A r \in Requests : request[r].pc \in Holding => Acceptable(request[r].sigs)
        /\ \A i \in DOMAIN finalMessages : Acceptable(finalMessages[i].sigs)

ExecutableInv == CoveredInv /\ SignaturesAreOwned /\ HeldIsAcceptable

--------------------------------------------------------------------------------
(* Sorting: the same keys, as many, and in strict order if none is there twice.  *)
LEMMA SortedIsTheSame ==
    ASSUME NEW S \in SUBSET Nat, NEW s \in Seq(S), NEW t \in SortedByKey(s)
    PROVE  /\ t \in Seq(S) /\ Len(t) = Len(s) /\ ToSet(t) = ToSet(s)
           /\ (\A i, j \in DOMAIN s : s[i] = s[j] => i = j)
                 => \A i, j \in DOMAIN t : i < j => t[i] < t[j]
<1>0. DOMAIN s = 1..Len(s) /\ Len(s) \in Nat /\ \A i \in DOMAIN s : s[i] \in S /\ s[i] \in Nat
  BY LenProperties, ElementOfSeq
<1>1. PICK p \in Bijection(DOMAIN s, DOMAIN s) :
        t = [i \in DOMAIN s |-> s[p[i]]] /\ \A i, j \in DOMAIN s : i < j => t[i] <= t[j]
  BY DEF SortedByKey
<1>2. /\ p \in [DOMAIN s -> DOMAIN s]
      /\ \A i, j \in DOMAIN s : p[i] = p[j] => i = j
      /\ \A j \in DOMAIN s : \E i \in DOMAIN s : p[i] = j
  BY DEF Bijection, Injection, Surjection, IsInjective
<1>3. t \in [1..Len(s) -> S] /\ DOMAIN t = DOMAIN s
  BY <1>0, <1>1, <1>2
<1>4. t \in Seq(S) /\ Len(t) = Len(s)
  BY <1>0, <1>3, SeqDef, LenProperties
<1>5. ToSet(t) = ToSet(s)
  BY <1>1, <1>2, <1>3 DEF ToSet
<1>6. ASSUME \A i, j \in DOMAIN s : s[i] = s[j] => i = j, NEW i \in DOMAIN t, NEW j \in DOMAIN t, i < j
      PROVE  t[i] < t[j]
  <2>0. i \in DOMAIN s /\ j \in DOMAIN s /\ i # j
    BY ONLY <1>0, <1>3, <1>6
  <2>1. t[i] <= t[j] /\ p[i] # p[j]
    BY ONLY <1>1, <1>2, <1>6, <2>0
  <2>2. t[i] # t[j]
    BY <1>1, <1>2, <1>3, <1>6, <2>1
  <2>3. t[i] \in Nat /\ t[j] \in Nat
    BY <1>0, <1>1, <1>2, <1>3
  <2>4. QED
    BY <2>1, <2>2, <2>3
<1>7. QED
  BY <1>4, <1>5, <1>6

(* What a row of the queue and the signatures of a message become when one more  *)
(* is added.                                                                     *)
LEMMA OneMoreSignature ==
    ASSUME NEW s \in Seq(Signer), NEW k \in Signer
    PROVE  LET t == Append(s, k)
           IN  /\ t \in Seq(Signer) /\ Len(t) = Len(s) + 1 /\ t # <<>>
               /\ ToSet(t) = ToSet(s) \cup {k}
               /\ DOMAIN t = DOMAIN s \cup {Len(s) + 1} /\ Len(s) + 1 \notin DOMAIN s
               /\ t[Len(s) + 1] = k /\ \A i \in DOMAIN s : t[i] = s[i]
<1> DEFINE t == Append(s, k)
<1>1. /\ t \in Seq(Signer) /\ Len(t) = Len(s) + 1 /\ t[Len(s) + 1] = k
      /\ \A i \in 1..Len(s) : t[i] = s[i]
  BY AppendProperties
<1>2. DOMAIN s = 1..Len(s) /\ DOMAIN t = 1..Len(t) /\ Len(s) \in Nat
  BY <1>1, LenProperties
<1>3. DOMAIN t = DOMAIN s \cup {Len(s) + 1} /\ Len(s) + 1 \notin DOMAIN s
  BY <1>1, <1>2
<1>4. t # <<>>
  BY <1>3, EmptySeq
<1> HIDE DEF t
<1>5. ToSet(t) = ToSet(s) \cup {k}
  BY <1>1, <1>2, <1>3 DEF ToSet
<1>6. QED
  BY <1>1, <1>2, <1>3, <1>4, <1>5 DEF t

(* How a handler goes on.                                                        *)
HandlerPcs == Early \cup {"count", "isEnough"} \cup Enough \cup Final

LEMMA HandlerGoes ==
    ASSUME request \in [Requests -> Handler], NEW r \in Requests, NEW pc \in HandlerPcs, GoTo(r, pc)
    PROVE  /\ request' \in [Requests -> Handler]
           /\ request'[r].pc = pc /\ request'[r].total = request[r].total
           /\ request'[r].sigs = request[r].sigs
           /\ \A q \in Requests : q # r => request'[q] = request[q]
BY DEF GoTo, Handler, HandlerPcs, Early, Enough, Holding, Final

LEMMA HandlerCounts ==
    ASSUME request \in [Requests -> Handler], NEW r \in Requests, NEW pc \in HandlerPcs, NEW n \in Nat,
           request' = [request EXCEPT ![r].pc = pc, ![r].total = n]
    PROVE  /\ request' \in [Requests -> Handler]
           /\ request'[r].pc = pc /\ request'[r].total = n /\ request'[r].sigs = request[r].sigs
           /\ \A q \in Requests : q # r => request'[q] = request[q]
BY DEF Handler, HandlerPcs, Early, Enough, Holding, Final

LEMMA HandlerCollects ==
    ASSUME request \in [Requests -> Handler], NEW r \in Requests, NEW sigs \in Seq(Signer),
           request' = [request EXCEPT ![r].pc = "ensureNotSent", ![r].sigs = sigs]
    PROVE  /\ request' \in [Requests -> Handler]
           /\ request'[r].pc = "ensureNotSent" /\ request'[r].total = request[r].total
           /\ request'[r].sigs = sigs
           /\ \A q \in Requests : q # r => request'[q] = request[q]
BY DEF Handler

(* What a handler that moves has found; the rest of its state stays.             *)
Moves(r) ==
    LET old == request[r]
        new == request'[r]
        signatures == pairs[MsgOf[r]]
        enough == old.total >= wallet.requiredSignatures
    IN  /\ request' \in [Requests -> Handler]
        /\ \A q \in Requests : q # r => request'[q] = request[q]
        /\ old.pc \in Early =>
              /\ new.total = old.total /\ new.sigs = old.sigs
              /\ \/ new.pc \in {"add", "get", "ensureKey", "rejected", "failed"} /\ old.pc # "addSignature"
                 \/ old.pc = "get" /\ new.pc = "containSignature" /\ MsgOf[r] \in messages
                 \/ old.pc = "ensureKey" /\ new.pc = "addSignature" /\ HasPurpose(KeyOf[r])
                 \/ AddSignature(r) /\ new.pc = "count"
              /\ new.pc = "ensureKey" => old.pc = "containSignature"
              /\ old.pc # "addSignature" => UNCHANGED pairs
              /\ UNCHANGED finalMessages
        /\ old.pc \notin Early => UNCHANGED <<messages, pairs>>
        /\ old.pc = "count" =>
              /\ new.pc = "isEnough" /\ new.total = Len(signatures) /\ new.sigs = old.sigs
              /\ UNCHANGED finalMessages
        /\ old.pc = "isEnough" =>
              /\ new.pc = IF enough THEN "collect" ELSE "collecting"
              /\ new.total = old.total /\ new.sigs = old.sigs /\ UNCHANGED finalMessages
        /\ old.pc = "collect" =>
              /\ new.pc = "ensureNotSent" /\ new.total = old.total
              /\ new.sigs \in SortedByKey(signatures) /\ UNCHANGED finalMessages
        /\ old.pc = "ensureNotSent" =>
              /\ new.pc = IF MsgOf[r] \in transactionHash THEN "rejected" ELSE "recount"
              /\ new.total = old.total /\ new.sigs = old.sigs /\ UNCHANGED finalMessages
        /\ old.pc = "recount" =>
              /\ new.pc = "recheck" /\ new.total = Len(signatures) /\ new.sigs = old.sigs
              /\ UNCHANGED finalMessages
        /\ old.pc = "recheck" =>
              /\ new.pc = IF enough THEN "enqueue" ELSE "rejected"
              /\ new.total = old.total /\ new.sigs = old.sigs /\ UNCHANGED finalMessages
        /\ old.pc = "enqueue" =>
              /\ new.total = old.total /\ new.sigs = old.sigs
              /\ \/ MsgOf[r] \in Queued /\ new.pc = "failed" /\ UNCHANGED finalMessages
                 \/ /\ MsgOf[r] \notin Queued /\ new.pc = "queued"
                    /\ finalMessages' = Append(finalMessages, NewRow(MsgOf[r], old.sigs))
        /\ old.pc \notin Final
        /\ messages' \in {messages, messages \cup {MsgOf[r]}} /\ UNCHANGED <<transactionHash, wallet>>

LEMMA HandlerMoves ==
    ASSUME TypeOK, NEW r \in Requests, Handle(r)
    PROVE  Moves(r)
<1>0. /\ request \in [Requests -> Handler] /\ MsgOf[r] \in Messages
      /\ pairs[MsgOf[r]] \in Seq(Signer) /\ Len(pairs[MsgOf[r]]) \in Nat
  BY RequestsAssumption, LenProperties DEF TypeOK
<1>1. \A pc \in HandlerPcs : GoTo(r, pc) =>
         /\ request' \in [Requests -> Handler]
         /\ request'[r].pc = pc /\ request'[r].total = request[r].total
         /\ request'[r].sigs = request[r].sigs
         /\ \A q \in Requests : q # r => request'[q] = request[q]
  BY <1>0, HandlerGoes
<1> USE DEF HandlerPcs, Early, Enough, Holding, Final, Moves, At, tables
<1>2. CASE IsPresent(r) \/ Add(r) \/ Get(r) \/ ContainSignature(r)
  BY <1>1, <1>2 DEF IsPresent, Add, Get, ContainSignature
<1>3. CASE EnsureCorrectKeyPurpose(r)
  BY <1>1, <1>3 DEF EnsureCorrectKeyPurpose
<1>4. CASE AddSignature(r)
  BY <1>1, <1>4 DEF AddSignature
<1>5. CASE CountSignatures(r, "count", "isEnough") \/ CountSignatures(r, "recount", "recheck")
  <2>1. \A pc \in HandlerPcs, n \in Nat :
           request' = [request EXCEPT ![r].pc = pc, ![r].total = n] =>
              /\ request' \in [Requests -> Handler]
              /\ request'[r].pc = pc /\ request'[r].total = n /\ request'[r].sigs = request[r].sigs
              /\ \A q \in Requests : q # r => request'[q] = request[q]
    BY <1>0, HandlerCounts
  <2>2. CASE CountSignatures(r, "count", "isEnough")
    BY <1>0, <2>1, <2>2 DEF CountSignatures
  <2>3. CASE CountSignatures(r, "recount", "recheck")
    BY <1>0, <2>1, <2>3 DEF CountSignatures
  <2>4. QED
    BY <1>5, <2>2, <2>3
<1>6. CASE \/ IsEnoughSignatures(r, "isEnough", "collect", "collecting")
           \/ IsEnoughSignatures(r, "recheck", "enqueue", "rejected")
  BY <1>1, <1>6 DEF IsEnoughSignatures
<1>7. CASE GetMessageWithSignatures(r)
  <2>1. PICK sigs \in SortedByKey(pairs[MsgOf[r]]) :
          request' = [request EXCEPT ![r].pc = "ensureNotSent", ![r].sigs = sigs]
    BY <1>7 DEF GetMessageWithSignatures
  <2>2. sigs \in Seq(Signer)
    <3>1. Signer \in SUBSET Nat
      BY RequestsAssumption DEF Signer
    <3>2. QED
      BY <1>0, <2>1, <3>1, SortedIsTheSame
  <2>3. QED
    BY <1>0, <1>7, <2>1, <2>2, HandlerCollects DEF GetMessageWithSignatures
<1>8. CASE EnsureNotSent(r) \/ Enqueue(r)
  BY <1>1, <1>8 DEF EnsureNotSent, Enqueue
<1>9. QED
  BY <1>2, <1>3, <1>4, <1>5, <1>6, <1>7, <1>8 DEF Handle

LEMMA SignatureIsAdded ==
    ASSUME pairs \in [Messages -> Seq(Signer)], NEW r \in Requests, AddSignature(r)
    PROVE  /\ MsgOf[r] \in Messages /\ KeyOf[r] \in Signer /\ pairs' \in [Messages -> Seq(Signer)]
           /\ \A m \in Messages : m # MsgOf[r] => pairs'[m] = pairs[m]
           /\ LET s == pairs[MsgOf[r]]
                  t == pairs'[MsgOf[r]]
              IN  /\ Len(t) = Len(s) + 1 /\ t # <<>> /\ ToSet(t) = ToSet(s) \cup {KeyOf[r]}
                  /\ DOMAIN t = DOMAIN s \cup {Len(s) + 1} /\ Len(s) + 1 \notin DOMAIN s
                  /\ t[Len(s) + 1] = KeyOf[r] /\ \A i \in DOMAIN s : t[i] = s[i]
<1>1. MsgOf[r] \in Messages /\ KeyOf[r] \in Signer
  BY RequestsAssumption DEF Signer
<1>2. Append(pairs[MsgOf[r]], KeyOf[r]) \in Seq(Signer)
  BY <1>1, AppendProperties
<1>3. /\ pairs' \in [Messages -> Seq(Signer)] /\ pairs'[MsgOf[r]] = Append(pairs[MsgOf[r]], KeyOf[r])
      /\ \A m \in Messages : m # MsgOf[r] => pairs'[m] = pairs[m]
  BY <1>1, <1>2 DEF AddSignature
<1>4. pairs[MsgOf[r]] \in Seq(Signer)
  BY <1>1
<1>5. QED
  BY <1>1, <1>3, <1>4, OneMoreSignature

LEMMA MessageIsQueued ==
    ASSUME finalMessages \in Seq(Row), NEW m \in Messages, NEW sigs \in Seq(Signer),
           finalMessages' = Append(finalMessages, NewRow(m, sigs))
    PROVE  LET n == Len(finalMessages) + 1
           IN  /\ finalMessages' \in Seq(Row) /\ n \notin DOMAIN finalMessages
               /\ DOMAIN finalMessages' = DOMAIN finalMessages \cup {n}
               /\ \A i \in DOMAIN finalMessages : finalMessages'[i] = finalMessages[i]
               /\ finalMessages'[n].message = m /\ finalMessages'[n].sigs = sigs
               /\ Queued' = Queued \cup {m}
<1> DEFINE row == NewRow(m, sigs)
<1>1. row \in Row /\ row.message = m /\ row.sigs = sigs
  BY DEF Row, NewRow
<1>2. finalMessages' = Append(finalMessages, row)
  OBVIOUS
<1> HIDE DEF row
<1>3. /\ finalMessages' \in Seq(Row) /\ Len(finalMessages') = Len(finalMessages) + 1
      /\ \A i \in 1..Len(finalMessages) : finalMessages'[i] = finalMessages[i]
      /\ finalMessages'[Len(finalMessages) + 1] = row
  BY <1>1, <1>2, AppendProperties
<1>4. /\ DOMAIN finalMessages = 1..Len(finalMessages) /\ DOMAIN finalMessages' = 1..Len(finalMessages')
      /\ Len(finalMessages) \in Nat
  BY <1>3, LenProperties
<1>5. DOMAIN finalMessages' = DOMAIN finalMessages \cup {Len(finalMessages) + 1}
      /\ Len(finalMessages) + 1 \notin DOMAIN finalMessages
  BY <1>3, <1>4
<1>6. Queued' = Queued \cup {m}
  BY <1>1, <1>3, <1>4, <1>5 DEF Queued
<1>7. QED
  BY <1>1, <1>3, <1>4, <1>5, <1>6

--------------------------------------------------------------------------------
(* Each part of the invariant is kept by every handler.                          *)
LEMMA WalletKeepsItsType ==
    ASSUME TypeOK, WalletChanges
    PROVE  wallet' \in Storage
BY WalletAssumption, EffectIsSound DEF WalletChanges, TypeOK

LEMMA TypesAreKept ==
    ASSUME TypeOK, NEW r \in Requests, Handle(r)
    PROVE  TypeOK'
<1>0. Moves(r) /\ MsgOf[r] \in Messages
  BY HandlerMoves, RequestsAssumption
<1>1. request[r] \in Handler
  BY DEF TypeOK
<1>2. finalMessages' \in Seq(Row)
  <2>1. CASE UNCHANGED finalMessages
    BY <2>1 DEF TypeOK
  <2>2. CASE finalMessages' = Append(finalMessages, NewRow(MsgOf[r], request[r].sigs))
    BY <1>0, <1>1, <2>2, MessageIsQueued DEF TypeOK, Handler
  <2>3. QED
    BY <1>0, <1>1, <2>1, <2>2 DEF Moves, Handler, Early, Enough, Holding, Final
<1>3. pairs' \in [Messages -> Seq(Signer)]
  <2>1. UNCHANGED pairs \/ AddSignature(r)
    BY <1>0 DEF Moves
  <2>2. QED
    BY <2>1, SignatureIsAdded DEF TypeOK
<1>4. QED
  BY <1>0, <1>2, <1>3 DEF Moves, TypeOK

LEMMA RowsStayPresent ==
    ASSUME TypeOK, RowsArePresent, NEW r \in Requests, Handle(r)
    PROVE  RowsArePresent'
<1>0. Moves(r) /\ MsgOf[r] \in Messages /\ request[r] \in Handler
  BY HandlerMoves, RequestsAssumption DEF TypeOK
<1>1. messages \subseteq messages'
  BY <1>0 DEF Moves
<1> USE DEF Early, Enough, Holding, Final
<1>2. Queued' \subseteq messages'
  <2>1. CASE UNCHANGED finalMessages
    BY <1>1, <2>1 DEF RowsArePresent, Queued
  <2>2. CASE finalMessages' = Append(finalMessages, NewRow(MsgOf[r], request[r].sigs)) /\ At(r, "enqueue")
    <3>1. Queued' = Queued \cup {MsgOf[r]}
      BY <1>0, <2>2, MessageIsQueued DEF TypeOK, Handler
    <3>2. QED
      BY <1>1, <2>2, <3>1 DEF RowsArePresent, At
  <2>3. QED
    BY <1>0, <2>1, <2>2 DEF Moves, Handler, At
<1>3. \A q \in Requests : q # r => request'[q] = request[q]
  BY <1>0 DEF Moves
<1>4. request'[r].pc \in {"containSignature", "ensureKey", "addSignature", "count", "isEnough",
                          "collecting", "queued"} \cup Enough => MsgOf[r] \in messages'
  BY <1>0, <1>1 DEF Moves, RowsArePresent, Handler, AddSignature, At
<1>5. QED
  BY <1>1, <1>2, <1>3, <1>4 DEF RowsArePresent

LEMMA StillQueuedOnce ==
    ASSUME TypeOK, QueuedOnce, NEW r \in Requests, Handle(r)
    PROVE  QueuedOnce'
<1>0. Moves(r) /\ MsgOf[r] \in Messages /\ request[r] \in Handler
  BY HandlerMoves, RequestsAssumption DEF TypeOK
<1>1. CASE UNCHANGED finalMessages
  BY <1>1 DEF QueuedOnce
<1>2. CASE finalMessages' = Append(finalMessages, NewRow(MsgOf[r], request[r].sigs)) /\ MsgOf[r] \notin Queued
  BY <1>0, <1>2, MessageIsQueued DEF TypeOK, Handler, QueuedOnce, Queued
<1>3. QED
  BY <1>0, <1>1, <1>2 DEF Moves, Handler, Early, Enough, Holding, Final

LEMMA SignatureStaysKept ==
    ASSUME TypeOK, SignatureIsKept, NEW r \in Requests, Handle(r)
    PROVE  SignatureIsKept'
<1>0. /\ Moves(r) /\ \A q \in Requests : MsgOf[q] \in Messages /\ request[q] \in Handler
      /\ \A m \in Messages : pairs[m] \in Seq(Signer)
  BY HandlerMoves, RequestsAssumption DEF TypeOK
<1>1. \A m \in Messages : ToSet(pairs[m]) \subseteq ToSet(pairs'[m])
  <2>1. CASE UNCHANGED pairs
    BY <2>1
  <2>2. CASE AddSignature(r)
    <3>1. /\ ToSet(pairs'[MsgOf[r]]) = ToSet(pairs[MsgOf[r]]) \cup {KeyOf[r]}
          /\ \A m \in Messages : m # MsgOf[r] => pairs'[m] = pairs[m]
      BY <2>2, SignatureIsAdded DEF TypeOK
    <3>2. QED
      BY <3>1
  <2>3. QED
    BY <1>0, <2>1, <2>2 DEF Moves
<1>2. /\ DOMAIN finalMessages \subseteq DOMAIN finalMessages'
      /\ \A i \in DOMAIN finalMessages : finalMessages'[i] = finalMessages[i]
      /\ request'[r].pc = "queued" => \E i \in DOMAIN finalMessages' :
            finalMessages'[i].message = MsgOf[r] /\ finalMessages'[i].sigs = request[r].sigs
  <2>1. CASE UNCHANGED finalMessages /\ request'[r].pc # "queued"
    BY <2>1
  <2>2. CASE finalMessages' = Append(finalMessages, NewRow(MsgOf[r], request[r].sigs))
    BY <1>0, <2>2, MessageIsQueued DEF TypeOK, Handler
  <2>3. QED
    BY <1>0, <2>1, <2>2 DEF Moves, Handler, Early, Enough, Holding, Final, At, AddSignature
<1>3. /\ request'[r].pc = "count" => KeyOf[r] \in ToSet(pairs'[MsgOf[r]])
      /\ request'[r].pc = "ensureNotSent" => ToSet(request'[r].sigs) = ToSet(pairs[MsgOf[r]])
  <2>1. Signer \in SUBSET Nat
    BY RequestsAssumption DEF Signer
  <2>2. AddSignature(r) => KeyOf[r] \in ToSet(pairs'[MsgOf[r]])
    BY SignatureIsAdded DEF TypeOK
  <2>3. request'[r].sigs \in SortedByKey(pairs[MsgOf[r]])
           => ToSet(request'[r].sigs) = ToSet(pairs[MsgOf[r]])
    BY <1>0, <2>1, SortedIsTheSame
  <2>4. QED
    BY <1>0, <2>2, <2>3 DEF Moves, Handler, Early, Enough, Holding, Final
<1>4. ASSUME NEW q \in Requests, q # r
      PROVE  /\ request'[q].pc \in {"count", "isEnough", "collecting", "queued"} \cup Enough
                   => KeyOf[q] \in ToSet(pairs'[MsgOf[q]])
             /\ request'[q].pc \in Holding => KeyOf[q] \in ToSet(request'[q].sigs)
             /\ request'[q].pc = "queued" =>
                   \E i \in DOMAIN finalMessages' :
                       finalMessages'[i].message = MsgOf[q] /\ KeyOf[q] \in ToSet(finalMessages'[i].sigs)
  <2>1. request'[q] = request[q]
    BY <1>0, <1>4 DEF Moves
  <2>2. QED
    BY <1>0, <1>1, <1>2, <2>1 DEF SignatureIsKept
<1>5. request'[r].pc \in {"count", "isEnough", "collecting", "queued"} \cup Enough
         => KeyOf[r] \in ToSet(pairs'[MsgOf[r]])
  BY <1>0, <1>1, <1>3 DEF Moves, SignatureIsKept, Handler, Early, Enough, Holding, Final
<1>6. request'[r].pc \in Holding => KeyOf[r] \in ToSet(request'[r].sigs)
  BY <1>0, <1>3 DEF Moves, SignatureIsKept, Handler, Early, Enough, Holding, Final
<1>7. request'[r].pc = "queued" => At(r, "enqueue")
  BY <1>0 DEF Moves, Handler, Early, Enough, Holding, Final, At
<1>8. request'[r].pc = "queued" => \E i \in DOMAIN finalMessages' :
         finalMessages'[i].message = MsgOf[r] /\ KeyOf[r] \in ToSet(finalMessages'[i].sigs)
  BY <1>2, <1>7 DEF SignatureIsKept, Holding, At
<1>9. QED
  BY <1>4, <1>5, <1>6, <1>8 DEF SignatureIsKept

LEMMA CountsStayTrue ==
    ASSUME TypeOK, CountsAreTrue, NEW r \in Requests, Handle(r)
    PROVE  CountsAreTrue'
<1>0. /\ Moves(r) /\ \A q \in Requests : MsgOf[q] \in Messages /\ request[q] \in Handler
      /\ FirstWallet.requiredSignatures \in Nat
  BY HandlerMoves, RequestsAssumption, WalletAssumption DEF TypeOK, Storage
<1>1. \A m \in Messages :
         /\ Len(pairs[m]) \in Nat /\ Len(pairs'[m]) \in Nat
         /\ Len(pairs[m]) <= Len(pairs'[m])
  <2>1. \A m \in Messages : Len(pairs[m]) \in Nat
    BY LenProperties DEF TypeOK
  <2>2. CASE UNCHANGED pairs
    BY <2>1, <2>2
  <2>3. CASE AddSignature(r)
    <3>1. /\ Len(pairs'[MsgOf[r]]) = Len(pairs[MsgOf[r]]) + 1
          /\ \A m \in Messages : m # MsgOf[r] => pairs'[m] = pairs[m]
      BY <2>3, SignatureIsAdded DEF TypeOK
    <3>2. QED
      BY <2>1, <3>1
  <2>4. QED
    BY <1>0, <2>2, <2>3 DEF Moves
<1>2. ASSUME NEW q \in Requests, q # r
      PROVE  /\ request'[q].total <= Len(pairs'[MsgOf[q]])
             /\ wallet' = FirstWallet /\ request'[q].pc \in Enough
                   => request'[q].total >= FirstWallet.requiredSignatures
  <2>1. request'[q] = request[q] /\ wallet' = wallet
    BY <1>0, <1>2 DEF Moves
  <2>2. request[q].total \in Nat
    BY <1>0 DEF Handler
  <2>3. QED
    BY <1>0, <1>1, <2>1, <2>2 DEF CountsAreTrue
<1>3. /\ \/ request'[r].total = request[r].total
         \/ request'[r].total = Len(pairs[MsgOf[r]])
      /\ request[r].total \in Nat /\ wallet' = wallet
  <2>1. request[r].pc \in Early \cup {"count", "isEnough"} \cup Enough
    BY <1>0 DEF Moves, Handler, Early, Enough, Holding, Final
  <2>2. request[r].pc \notin {"count", "recount"} => request'[r].total = request[r].total
    BY <1>0, <2>1 DEF Moves, Enough, Holding
  <2>3. request[r].pc \in {"count", "recount"} => request'[r].total = Len(pairs[MsgOf[r]])
    BY <1>0 DEF Moves
  <2>4. request[r].total \in Nat /\ wallet' = wallet
    BY <1>0 DEF Moves, Handler
  <2>5. QED
    BY <2>2, <2>3, <2>4
<1>4. request[r].total <= Len(pairs[MsgOf[r]])
  BY DEF CountsAreTrue
<1>5. request'[r].total <= Len(pairs'[MsgOf[r]])
  BY <1>0, <1>1, <1>3, <1>4
<1>6. ASSUME wallet' = FirstWallet, request'[r].pc \in Enough
      PROVE  request'[r].total >= FirstWallet.requiredSignatures
  <2>1. CASE request[r].pc \in Enough
    <3>1. request[r].total >= FirstWallet.requiredSignatures
      BY <1>3, <1>6, <2>1 DEF CountsAreTrue
    <3>2. request'[r].total >= request[r].total
      BY <1>0, <1>1, <1>3, <1>4
    <3>3. request'[r].total \in Nat
      BY <1>0, <1>1, <1>3
    <3>4. QED
      BY <1>0, <1>3, <3>1, <3>2, <3>3
  <2>2. CASE request[r].pc \notin Enough
    BY <1>0, <1>6, <2>2 DEF Moves, Handler, Early, Enough, Holding, Final
  <2>3. QED
    BY <2>1, <2>2
<1>7. QED
  BY <1>2, <1>5, <1>6 DEF CountsAreTrue

LEMMA StillCovered ==
    ASSUME TypeOK, NothingSent, CountsAreTrue, AllCovered, NEW r \in Requests, Handle(r)
    PROVE  AllCovered'
<1> SUFFICES ASSUME wallet = FirstWallet
             PROVE  /\ \A m \in Messages : pairs'[m] # <<>> /\ m \notin Queued'
                          => \E q \in Requests : MsgOf[q] = m /\ Covers(q)'
                    /\ \A q \in Requests : request'[q].pc = "collecting"
                          => request'[q].total < FirstWallet.requiredSignatures
  <2>1. wallet' = wallet
    BY HandlerMoves DEF Moves
  <2>2. QED
    BY <2>1 DEF AllCovered
<1>0. /\ Moves(r) /\ \A q \in Requests : MsgOf[q] \in Messages /\ request[q] \in Handler
      /\ FirstWallet.requiredSignatures \in Nat /\ \A q \in Requests : request[q].total \in Nat
  BY HandlerMoves, RequestsAssumption, WalletAssumption DEF TypeOK, Storage, Handler
<1>1. \A q \in Requests : q # r => request'[q] = request[q]
  BY <1>0 DEF Moves
<1>2. request'[r].pc = "collecting" => request'[r].total < FirstWallet.requiredSignatures
  BY <1>0 DEF Moves, Handler, Early, Enough, Holding, Final, AddSignature, GoTo, At
<1>3. /\ request[r].pc = "enqueue" => MsgOf[r] \in Queued'
      /\ Queued \subseteq Queued'
  <2>1. CASE UNCHANGED finalMessages
    BY <1>0, <2>1 DEF Moves, Queued, Early
  <2>2. CASE finalMessages' = Append(finalMessages, NewRow(MsgOf[r], request[r].sigs))
    BY <1>0, <2>2, MessageIsQueued DEF TypeOK, Handler
  <2>3. QED
    BY <1>0, <2>1, <2>2 DEF Moves, Handler, Early, Enough, Holding, Final
<1>4. Covers(r) => MsgOf[r] \in Queued' \/ Covers(r)'
  <2>1. CASE request[r].pc \in {"count", "isEnough", "collect", "ensureNotSent", "recount"}
    BY <1>0, <2>1 DEF Moves, Covers, NothingSent, Early, Enough, Holding, Final
  <2>2. CASE request[r].pc = "recheck"
    <3>1. request[r].total >= FirstWallet.requiredSignatures
      BY <2>2 DEF CountsAreTrue, Enough, Holding
    <3>2. QED
      BY <1>0, <2>2, <3>1 DEF Moves, Covers, Early, Enough, Holding, Final
  <2>3. CASE request[r].pc = "enqueue"
    BY <1>3, <2>3
  <2>4. QED
    BY <1>0, <2>1, <2>2, <2>3 DEF Covers, Moves, Enough, Holding, Final
<1>5. CASE UNCHANGED pairs
  <2>1. ASSUME NEW m \in Messages, pairs'[m] # <<>>, m \notin Queued'
        PROVE  \E q \in Requests : MsgOf[q] = m /\ Covers(q)'
    <3>1. PICK q \in Requests : MsgOf[q] = m /\ Covers(q)
      BY <1>3, <1>5, <2>1 DEF AllCovered
    <3>2. CASE q = r
      BY <1>4, <2>1, <3>1, <3>2
    <3>3. CASE q # r
      BY <1>1, <1>5, <3>1, <3>3 DEF Covers
    <3>4. QED
      BY <3>2, <3>3
  <2>2. QED
    BY <1>1, <1>2, <2>1 DEF AllCovered
<1>6. CASE AddSignature(r)
  <2>1. request'[r].pc = "count" /\ Covers(r)'
    BY <1>0, <1>6 DEF Moves, Covers, AddSignature, At, Early, GoTo, TypeOK
  <2>2. ASSUME NEW m \in Messages, pairs'[m] # <<>>, m \notin Queued'
        PROVE  \E q \in Requests : MsgOf[q] = m /\ Covers(q)'
    <3>1. CASE m = MsgOf[r]
      BY <2>1, <3>1
    <3>2. CASE m # MsgOf[r]
      <4>1. pairs'[m] = pairs[m]
        BY <1>6, <3>2, SignatureIsAdded DEF TypeOK
      <4>2. PICK q \in Requests : MsgOf[q] = m /\ Covers(q)
        BY <1>3, <2>2, <4>1 DEF AllCovered
      <4>3. QED
        BY <1>1, <3>2, <4>1, <4>2 DEF Covers
    <3>3. QED
      BY <3>1, <3>2
  <2>3. QED
    BY <1>1, <1>2, <2>2 DEF AllCovered
<1>7. QED
  BY <1>0, <1>5, <1>6 DEF Moves

LEMMA SignaturesStayOwned ==
    ASSUME DifferentSignatures, PurposeIsOwned, TypeOK, SignaturesAreOwned,
           NEW r \in Requests, Handle(r)
    PROVE  SignaturesAreOwned'
<1>0. /\ Moves(r) /\ \A q \in Requests : MsgOf[q] \in Messages /\ request[q] \in Handler
      /\ wallet' = wallet /\ \A q \in Requests : q # r => request'[q] = request[q]
  BY HandlerMoves, RequestsAssumption DEF TypeOK, Moves
<1>1. \A q \in Requests : request[q].pc \notin Early => request'[q].pc \notin Early
  BY <1>0 DEF Moves, Handler, Early, Enough, Holding, Final
<1>2. ASSUME wallet = FirstWallet, NEW q \in Requests, request'[q].pc = "addSignature"
      PROVE  KeyOf[q] \in FirstWallet.owned
  <2>1. CASE q # r
    BY <1>0, <1>2, <2>1 DEF SignaturesAreOwned
  <2>2. CASE q = r
    <3>1. HasPurpose(KeyOf[r])
      BY <1>0, <1>2, <2>2 DEF Moves, Handler, Early, Enough, Holding, Final
    <3>2. QED
      BY <1>2, <2>2, <3>1 DEF HasPurpose, PurposeIsOwned
  <2>3. QED
    BY <2>1, <2>2
<1>3. CASE UNCHANGED pairs
  <2>1. ASSUME NEW m \in Messages, NEW i \in DOMAIN pairs[m]
        PROVE  \E q \in Requests : MsgOf[q] = m /\ KeyOf[q] = pairs[m][i] /\ request'[q].pc \notin Early
    BY <1>1 DEF SignaturesAreOwned
  <2>2. QED
    BY <1>0, <1>2, <1>3, <2>1 DEF SignaturesAreOwned
<1>4. CASE AddSignature(r)
  <2> DEFINE M == MsgOf[r]
             n == Len(pairs[M]) + 1
  <2>0. /\ M \in Messages
        /\ \A m \in Messages : m # M => pairs'[m] = pairs[m]
        /\ DOMAIN pairs'[M] = DOMAIN pairs[M] \cup {n} /\ n \notin DOMAIN pairs[M]
        /\ pairs'[M][n] = KeyOf[r] /\ \A i \in DOMAIN pairs[M] : pairs'[M][i] = pairs[M][i]
        /\ ToSet(pairs'[M]) = ToSet(pairs[M]) \cup {KeyOf[r]}
    BY <1>4, SignatureIsAdded DEF TypeOK
  <2>1. request[r].pc = "addSignature" /\ request'[r].pc \notin Early
    BY <1>0, <1>4 DEF Moves, AddSignature, At, Early
  <2> HIDE DEF n
  <2>2. ASSUME NEW m \in Messages, NEW i \in DOMAIN pairs'[m]
        PROVE  \E q \in Requests : MsgOf[q] = m /\ KeyOf[q] = pairs'[m][i] /\ request'[q].pc \notin Early
    <3>1. CASE m = M /\ i = n
      BY <2>0, <2>1, <3>1
    <3>2. CASE ~(m = M /\ i = n)
      <4>1. i \in DOMAIN pairs[m] /\ pairs'[m][i] = pairs[m][i]
        BY <2>0, <2>2, <3>2
      <4>2. PICK q \in Requests : MsgOf[q] = m /\ KeyOf[q] = pairs[m][i] /\ request[q].pc \notin Early
        BY <4>1 DEF SignaturesAreOwned
      <4>3. QED
        BY <1>1, <4>1, <4>2
    <3>3. QED
      BY <3>1, <3>2
  <2>3. \A i \in DOMAIN pairs[M] : pairs[M][i] # KeyOf[r]
    <3> SUFFICES ASSUME NEW i \in DOMAIN pairs[M], pairs[M][i] = KeyOf[r] PROVE FALSE
      OBVIOUS
    <3>1. PICK q \in Requests : MsgOf[q] = M /\ KeyOf[q] = pairs[M][i] /\ request[q].pc \notin Early
      BY <2>0 DEF SignaturesAreOwned
    <3>2. q = r
      BY <3>1 DEF DifferentSignatures
    <3>3. QED
      BY <2>1, <3>1, <3>2 DEF Early
  <2>4. ASSUME NEW m \in Messages, NEW i \in DOMAIN pairs'[m], NEW j \in DOMAIN pairs'[m],
               pairs'[m][i] = pairs'[m][j]
        PROVE  i = j
    <3>1. CASE m # M
      BY <2>0, <2>4, <3>1 DEF SignaturesAreOwned
    <3>2. CASE m = M
      BY <2>0, <2>3, <2>4, <3>2 DEF SignaturesAreOwned
    <3>3. QED
      BY <3>1, <3>2
  <2>5. ASSUME wallet = FirstWallet, NEW m \in Messages PROVE ToSet(pairs'[m]) \subseteq FirstWallet.owned
    <3>1. KeyOf[r] \in FirstWallet.owned /\ ToSet(pairs[m]) \subseteq FirstWallet.owned
      BY <2>1, <2>5 DEF SignaturesAreOwned
    <3>2. QED
      BY <2>0, <3>1
  <2>6. QED
    BY <1>0, <1>2, <2>2, <2>4, <2>5 DEF SignaturesAreOwned
<1>5. QED
  BY <1>0, <1>3, <1>4 DEF Moves

LEMMA HeldStaysAcceptable ==
    ASSUME TypeOK, CountsAreTrue, SignaturesAreOwned, HeldIsAcceptable, NEW r \in Requests, Handle(r)
    PROVE  HeldIsAcceptable'
<1> SUFFICES ASSUME wallet = FirstWallet
             PROVE  /\ \A q \in Requests : request'[q].pc \in Holding => Acceptable(request'[q].sigs)
                    /\ \A i \in DOMAIN finalMessages' : Acceptable(finalMessages'[i].sigs)
  <2>1. wallet' = wallet
    BY HandlerMoves DEF Moves
  <2>2. QED
    BY <2>1 DEF HeldIsAcceptable, Acceptable, areSignaturesValid
<1>0. /\ Moves(r) /\ MsgOf[r] \in Messages /\ request[r] \in Handler
      /\ \A q \in Requests : q # r => request'[q] = request[q]
      /\ FirstWallet.requiredSignatures \in Nat /\ request[r].total \in Nat
  BY HandlerMoves, RequestsAssumption, WalletAssumption DEF TypeOK, Moves, Handler, Storage
<1>1. CASE request[r].pc = "collect"
  <2> DEFINE s == pairs[MsgOf[r]]
             t == request'[r].sigs
  <2>1. s \in Seq(Signer) /\ Signer \in SUBSET Nat /\ Len(s) \in Nat
    BY <1>0, RequestsAssumption, LenProperties DEF TypeOK, Signer
  <2>2. t \in SortedByKey(s) /\ UNCHANGED finalMessages
    BY <1>0, <1>1 DEF Moves
  <2>3. \A i, j \in DOMAIN s : s[i] = s[j] => i = j
    BY <1>0 DEF SignaturesAreOwned
  <2>4. Len(s) >= FirstWallet.requiredSignatures
    <3>1. request[r].total <= Len(s) /\ request[r].total >= FirstWallet.requiredSignatures
      BY <1>1 DEF CountsAreTrue, Enough
    <3>2. QED
      BY <1>0, <2>1, <3>1
  <2>5. ToSet(s) \subseteq FirstWallet.owned
    BY <1>0 DEF SignaturesAreOwned
  <2> HIDE DEF s, t
  <2>6. /\ t \in Seq(Signer) /\ Len(t) = Len(s) /\ ToSet(t) = ToSet(s)
        /\ \A i, j \in DOMAIN t : i < j => t[i] < t[j]
    BY <2>1, <2>2, <2>3, SortedIsTheSame
  <2>7. Acceptable(t)
    <3>1. DOMAIN t = 1..Len(t) /\ Len(t) \in Nat
      BY <2>6, LenProperties
    <3>2. \A i \in 1..Len(t) : t[i] \in FirstWallet.owned
      BY <2>5, <2>6, <3>1 DEF ToSet
    <3>3. \A i \in 1..Len(t) : i > 1 => t[i - 1] < t[i]
      BY <2>6, <3>1
    <3>4. QED
      BY <2>4, <2>6, <3>2, <3>3 DEF Acceptable, areSignaturesValid
  <2>8. QED
    BY <1>0, <2>2, <2>7 DEF t, HeldIsAcceptable
<1>2. CASE request[r].pc # "collect"
  <2>1. request'[r].pc \in Holding => request[r].pc \in Holding /\ request'[r].sigs = request[r].sigs
    BY <1>0, <1>2 DEF Moves, Handler, Early, Enough, Holding, Final
  <2>2. CASE UNCHANGED finalMessages
    BY <1>0, <2>1, <2>2 DEF HeldIsAcceptable
  <2>3. CASE request[r].pc = "enqueue" /\ finalMessages' = Append(finalMessages, NewRow(MsgOf[r], request[r].sigs))
    <3>1. Acceptable(request[r].sigs)
      BY <2>3 DEF HeldIsAcceptable, Holding
    <3> DEFINE n == Len(finalMessages) + 1
    <3>2. /\ DOMAIN finalMessages' = DOMAIN finalMessages \cup {n}
          /\ \A i \in DOMAIN finalMessages : finalMessages'[i] = finalMessages[i]
          /\ finalMessages'[n].sigs = request[r].sigs
      BY <1>0, <2>3, MessageIsQueued DEF TypeOK, Handler
    <3> HIDE DEF n
    <3>3. \A i \in DOMAIN finalMessages' : Acceptable(finalMessages'[i].sigs)
      BY <3>1, <3>2 DEF HeldIsAcceptable
    <3>4. QED
      BY <1>0, <2>1, <3>3 DEF HeldIsAcceptable
  <2>4. QED
    BY <1>0, <2>2, <2>3 DEF Moves, Handler, Early, Enough, Holding, Final
<1>3. QED
  BY <1>1, <1>2

--------------------------------------------------------------------------------
(* The invariants hold at the start, and no step breaks them: a change of the    *)
(* wallet leaves the tables and the handlers alone.                              *)
LEMMA CollectionStarts ==
    Init => CollectionInv /\ CountsAreTrue /\ AllCovered /\ SignaturesAreOwned /\ HeldIsAcceptable
<1> SUFFICES ASSUME Init
             PROVE  CollectionInv /\ CountsAreTrue /\ AllCovered /\ SignaturesAreOwned /\ HeldIsAcceptable
  OBVIOUS
<1>1. /\ \A r \in Requests : request[r] = [pc |-> "isPresent", total |-> 0, sigs |-> <<>>]
      /\ \A m \in Messages : pairs[m] = <<>> /\ DOMAIN pairs[m] = {} /\ Len(pairs[m]) = 0
      /\ finalMessages = <<>> /\ DOMAIN finalMessages = {}
      /\ \A r \in Requests : MsgOf[r] \in Messages
  BY EmptySeq, RequestsAssumption DEF Init
<1>2. TypeOK
  BY <1>1, EmptySeq, WalletAssumption DEF Init, TypeOK, Handler
<1>3. NothingSent /\ RowsArePresent /\ QueuedOnce /\ SignatureIsKept
  BY <1>1 DEF Init, NothingSent, RowsArePresent, QueuedOnce, SignatureIsKept, Queued, Enough, Holding
<1>4. CountsAreTrue /\ AllCovered
  BY <1>1 DEF CountsAreTrue, AllCovered, Enough, Holding
<1>5. SignaturesAreOwned
  BY <1>1 DEF SignaturesAreOwned, ToSet
<1>6. HeldIsAcceptable
  BY <1>1 DEF HeldIsAcceptable, Holding
<1>7. QED
  BY <1>2, <1>3, <1>4, <1>5, <1>6 DEF CollectionInv

LEMMA CollectionStep == CollectionInv /\ [Next]_vars => CollectionInv'
<1> SUFFICES ASSUME CollectionInv, [Next]_vars PROVE CollectionInv'
  OBVIOUS
<1> USE DEF CollectionInv
<1>1. CASE UNCHANGED <<tables, request>> /\ wallet' \in Storage
  BY <1>1 DEF tables, TypeOK, NothingSent, RowsArePresent, QueuedOnce, SignatureIsKept, Queued
<1>2. CASE WalletChanges
  BY <1>1, <1>2, WalletKeepsItsType DEF WalletChanges
<1>3. CASE UNCHANGED vars
  BY <1>1, <1>3 DEF vars, tables, TypeOK
<1>4. ASSUME NEW r \in Requests, Handle(r) PROVE CollectionInv'
  <2>1. NothingSent'
    BY <1>4, HandlerMoves DEF Moves, NothingSent
  <2>2. QED
    BY <1>4, <2>1, TypesAreKept, RowsStayPresent, StillQueuedOnce, SignatureStaysKept
<1>5. QED
  BY <1>2, <1>3, <1>4 DEF Next

(* A wallet that is what it was at the start has not been changed.               *)
LEMMA UnchangedWallet ==
    ASSUME [Next]_vars, NeverAgain, ~\E r \in Requests : Handle(r)
    PROVE  UNCHANGED <<tables, request>> /\ (wallet' = FirstWallet => wallet = FirstWallet)
BY DEF Next, WalletChanges, vars, tables, NeverAgain

LEMMA CoveredStep == CoveredInv /\ [Next]_vars /\ NeverAgain => CoveredInv'
<1> SUFFICES ASSUME CoveredInv, [Next]_vars, NeverAgain PROVE CoveredInv'
  OBVIOUS
<1>1. CollectionInv'
  BY CollectionStep DEF CoveredInv
<1>2. ASSUME NEW r \in Requests, Handle(r) PROVE CountsAreTrue' /\ AllCovered'
  BY <1>2, CountsStayTrue, StillCovered DEF CoveredInv, CollectionInv
<1>3. CASE ~\E r \in Requests : Handle(r)
  <2>1. UNCHANGED <<tables, request>> /\ (wallet' = FirstWallet => wallet = FirstWallet)
    BY <1>3, UnchangedWallet
  <2>2. CountsAreTrue'
    BY <2>1 DEF CoveredInv, CountsAreTrue, tables
  <2>3. Queued' = Queued /\ \A r \in Requests : Covers(r)' <=> Covers(r)
    BY <2>1 DEF Covers, Queued, tables
  <2>4. AllCovered'
    BY <2>1, <2>3 DEF CoveredInv, AllCovered, tables
  <2>5. QED
    BY <1>1, <2>2, <2>4 DEF CoveredInv
<1>4. QED
  BY <1>1, <1>2, <1>3 DEF CoveredInv

LEMMA ExecutableStep ==
    ASSUME DifferentSignatures, PurposeIsOwned
    PROVE  ExecutableInv /\ [Next]_vars /\ NeverAgain => ExecutableInv'
<1> SUFFICES ASSUME ExecutableInv, [Next]_vars, NeverAgain PROVE ExecutableInv'
  OBVIOUS
<1>1. CoveredInv'
  BY CoveredStep DEF ExecutableInv
<1>2. ASSUME NEW r \in Requests, Handle(r) PROVE SignaturesAreOwned' /\ HeldIsAcceptable'
  BY <1>2, SignaturesStayOwned, HeldStaysAcceptable DEF ExecutableInv, CoveredInv, CollectionInv
<1>3. CASE ~\E r \in Requests : Handle(r)
  <2>1. UNCHANGED <<tables, request>> /\ (wallet' = FirstWallet => wallet = FirstWallet)
    BY <1>3, UnchangedWallet
  <2>2. SignaturesAreOwned'
    BY <2>1 DEF ExecutableInv, SignaturesAreOwned, tables
  <2>3. HeldIsAcceptable'
    BY <2>1 DEF ExecutableInv, HeldIsAcceptable, tables
  <2>4. QED
    BY <1>1, <2>2, <2>3 DEF ExecutableInv
<1>4. QED
  BY <1>1, <1>2, <1>3 DEF ExecutableInv

(* Every value is of its type (PendingMessages.ts:17-84), whatever the keys of   *)
(* the wallet do to it.                                                          *)
THEOREM CollectionTypes == Spec => []TypeOK
<1>1. Init => CollectionInv
  BY CollectionStarts
<1>2. CollectionInv => TypeOK
  BY DEF CollectionInv
<1>3. QED
  BY <1>1, <1>2, CollectionStep, PTL DEF Spec

(* Whatever the interleaving of the requests, one that is answered "collecting"  *)
(* or "queued" finds its signature in the store, and a row that it queued        *)
(* carries it (PendingMessages.ts:17-30, 54-84).                                 *)
THEOREM AcceptedStaysKept == Spec => []AcceptedIsKept
<1>1. Init => CollectionInv
  BY CollectionStarts
<1>2. CollectionInv => AcceptedIsKept
  BY DEF CollectionInv, SignatureIsKept, AcceptedIsKept
<1>3. QED
  BY <1>1, <1>2, CollectionStep, PTL DEF Spec

(* While the wallet is unchanged, once every request for a message is answered   *)
(* and the signatures suffice, the message is queued: whoever stores the last    *)
(* one counts after it (PendingMessages.ts:24-28).                               *)
THEOREM SufficientGetsQueued == Spec /\ [][NeverAgain]_vars => []SufficientIsQueued
<1>1. Init => CoveredInv
  BY CollectionStarts DEF CoveredInv
<1>2. CoveredInv /\ [Next]_vars /\ [NeverAgain]_vars => CoveredInv'
  <2>1. CASE UNCHANGED vars
    BY <2>1, CoveredStep DEF vars, NeverAgain
  <2>2. QED
    BY <2>1, CoveredStep
<1>3. CoveredInv => SufficientIsQueued
  <2> SUFFICES ASSUME CoveredInv, NEW m \in Messages, wallet = FirstWallet, AllAnswered(m),
                      Len(pairs[m]) >= wallet.requiredSignatures, Len(pairs[m]) > 0, m \notin Queued
               PROVE  FALSE
    BY DEF SufficientIsQueued
  <2>1. pairs[m] # <<>> /\ Len(pairs[m]) \in Nat /\ FirstWallet.requiredSignatures \in Nat
    BY EmptySeq, LenProperties, WalletAssumption DEF CoveredInv, CollectionInv, TypeOK, Storage
  <2>2. PICK r \in Requests : MsgOf[r] = m /\ Covers(r)
    BY <2>1 DEF CoveredInv, AllCovered
  <2>3. request[r].pc = "collecting" /\ request[r].total = Len(pairs[m])
    BY <2>2 DEF AllAnswered, Answered, Covers, Final, Enough, Holding
  <2>4. request[r].total < FirstWallet.requiredSignatures
    BY <2>3 DEF CoveredInv, AllCovered
  <2>5. QED
    BY <2>1, <2>3, <2>4
<1>4. QED
  BY <1>1, <1>2, <1>3, PTL DEF Spec

(* If the requests carry different signatures, what is queued is executable on   *)
(* the unchanged wallet: as many signatures as it requires, of keys it owns, in  *)
(* strict order (PendingMessages.ts:61-67 against ERC1077.sol:151-176).          *)
THEOREM QueuedCanBeExecuted ==
    ASSUME DifferentSignatures, PurposeIsOwned
    PROVE  Spec /\ [][NeverAgain]_vars => []QueuedIsExecutable
<1>1. Init => ExecutableInv
  BY CollectionStarts DEF CoveredInv, ExecutableInv
<1>2. ExecutableInv /\ [Next]_vars /\ [NeverAgain]_vars => ExecutableInv'
  <2>1. CASE UNCHANGED vars
    BY <2>1, ExecutableStep DEF vars, NeverAgain
  <2>2. QED
    BY <2>1, ExecutableStep
<1>3. ExecutableInv => QueuedIsExecutable
  BY DEF ExecutableInv, HeldIsAcceptable, Acceptable, QueuedIsExecutable
<1>4. QED
  BY <1>1, <1>2, <1>3, PTL DEF Spec
================================================================================
