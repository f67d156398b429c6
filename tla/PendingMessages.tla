----------------------------- MODULE PendingMessages -----------------------------
(* The collection of signatures in the relayer (PendingMessages.add): each HTTP *)
(* request POST /wallet/execution runs concurrently with the others, and every  *)
(* await of its handler is a point where another one may run.  The tables are   *)
(* `messages`, `signature_key_pairs` and `finalMessages`; the first and the     *)
(* last have the message hash as primary key.                                   *)
EXTENDS WalletOps, SequencesExt

CONSTANTS
    Messages,        \* message hashes
    Requests,        \* the HTTP requests; each carries one signature for one message
    MsgOf, KeyOf,    \* [Requests -> Messages], [Requests -> Nat]: the recovered signer
    FirstWallet,     \* the storage of the wallet at the start
    WalletCalls      \* the calls its keys may make to it meanwhile

VARIABLES
    messages,        \* the hashes with a row in `messages`
    transactionHash, \* those whose row has a transactionHash
    pairs,           \* signature_key_pairs: the keys collected for each message
    finalMessages,   \* the queue: its rows, oldest first
    request,         \* the handler of each request
    wallet           \* the wallet contract the messages are from

tables == <<messages, transactionHash, pairs, finalMessages>>
vars == <<messages, transactionHash, pairs, finalMessages, request, wallet>>

ASSUME RequestsAssumption ==
    MsgOf \in [Requests -> Messages] /\ KeyOf \in [Requests -> Nat \ {0}]
ASSUME WalletAssumption == FirstWallet \in Storage /\ WalletCalls \subseteq Call

Signer == {KeyOf[r] : r \in Requests}

(* transactionHash and error are null in a row that waits to be executed;       *)
(* `tx` is the number of the transaction, 0 for null.                           *)
Row == [message: Messages, sigs: Seq(Signer), tx: Nat, error: BOOLEAN]
NewRow(m, sigs) == [message |-> m, sigs |-> sigs, tx |-> 0, error |-> FALSE]
Queued == {finalMessages[i].message : i \in DOMAIN finalMessages}

Final == {"collecting", "queued", "rejected", "failed", "lost"}
Handler == [pc: {"isPresent", "add", "get", "containSignature", "ensureKey", "addSignature",
                 "count", "isEnough", "collect", "ensureNotSent", "recount", "recheck",
                 "enqueue"} \cup Final,
            total: Nat, sigs: Seq(Signer)]

Init ==
    /\ messages = {} /\ transactionHash = {} /\ finalMessages = <<>>
    /\ pairs = [m \in Messages |-> <<>>]
    /\ request = [r \in Requests |-> [pc |-> "isPresent", total |-> 0, sigs |-> <<>>]]
    /\ wallet = FirstWallet

At(r, pc) == request[r].pc = pc
GoTo(r, pc) == request' = [request EXCEPT ![r].pc = pc]

IsPresent(r) ==
    /\ At(r, "isPresent")
    /\ GoTo(r, IF MsgOf[r] \in messages \/ pairs[MsgOf[r]] # <<>> THEN "get" ELSE "add")
    /\ UNCHANGED <<tables, wallet>>

(* The insert fails on the primary key if another request was faster.           *)
Add(r) ==
    /\ At(r, "add")
    /\ GoTo(r, IF MsgOf[r] \in messages THEN "failed" ELSE "get")
    /\ messages' = messages \cup {MsgOf[r]}
    /\ UNCHANGED <<transactionHash, pairs, finalMessages, wallet>>

Get(r) ==
    /\ At(r, "get")
    /\ GoTo(r, IF MsgOf[r] \in messages \ transactionHash THEN "containSignature" ELSE "rejected")
    /\ UNCHANGED <<tables, wallet>>

ContainSignature(r) ==
    /\ At(r, "containSignature")
    /\ GoTo(r, IF KeyOf[r] \in ToSet(pairs[MsgOf[r]]) THEN "rejected" ELSE "ensureKey")
    /\ UNCHANGED <<tables, wallet>>

(* getKeyPurpose of the signer, read from the chain.                            *)
HasPurpose(k) == k \in Addr /\ wallet.purpose[k] # 0
EnsureCorrectKeyPurpose(r) ==
    /\ At(r, "ensureKey")
    /\ GoTo(r, IF HasPurpose(KeyOf[r]) THEN "addSignature" ELSE "rejected")
    /\ UNCHANGED <<tables, wallet>>

(* Mutant: the signature overwrites those that are there.                       *)
AddOnlySignature(r) ==
    /\ At(r, "addSignature")
    /\ pairs' = [pairs EXCEPT ![MsgOf[r]] = <<KeyOf[r]>>]
    /\ GoTo(r, "count")
    /\ UNCHANGED <<messages, transactionHash, finalMessages, wallet>>

(* Mutant: the key is not recovered from the signature.                         *)
AddSignatureOfNobody(r) ==
    /\ At(r, "addSignature")
    /\ pairs' = [pairs EXCEPT ![MsgOf[r]] = Append(@, 0)]
    /\ GoTo(r, "count")
    /\ UNCHANGED <<messages, transactionHash, finalMessages, wallet>>

(* signature_key_pairs has no unique key: the insert always succeeds.           *)
AddSignature(r) ==
    /\ At(r, "addSignature")
    /\ pairs' = [pairs EXCEPT ![MsgOf[r]] = Append(@, KeyOf[r])]
    /\ GoTo(r, "count")
    /\ UNCHANGED <<messages, transactionHash, finalMessages, wallet>>

(* getStatus: the signatures are counted, then requiredSignatures is read from  *)
(* the chain.  It runs once for add, and again in ensureCorrectExecution.       *)
CountSignatures(r, here, next) ==
    /\ At(r, here)
    /\ request' = [request EXCEPT ![r].pc = next, ![r].total = Len(pairs[MsgOf[r]])]
    /\ UNCHANGED <<tables, wallet>>

(* Mutant: > for >=.                                                            *)
IsMoreThanEnough(r, here, enough, short) ==
    /\ At(r, here)
    /\ GoTo(r, IF request[r].total > wallet.requiredSignatures THEN enough ELSE short)
    /\ UNCHANGED <<tables, wallet>>

IsEnoughSignatures(r, here, enough, short) ==
    /\ At(r, here)
    /\ GoTo(r, IF request[r].total >= wallet.requiredSignatures THEN enough ELSE short)
    /\ UNCHANGED <<tables, wallet>>

(* sortSignatureKeyPairsByKey: the same signatures, in the order of their keys  *)
(* as numbers.                                                                  *)
SortedByKey(sigs) ==
    {t \in {[i \in DOMAIN sigs |-> sigs[p[i]]] : p \in Bijection(DOMAIN sigs, DOMAIN sigs)} :
        \A i, j \in DOMAIN sigs : i < j => t[i] <= t[j]}

(* Mutant: the signatures in the order of their arrival.                        *)
GetMessageUnsorted(r) ==
    /\ At(r, "collect")
    /\ request' = [request EXCEPT ![r].pc = "ensureNotSent", ![r].sigs = pairs[MsgOf[r]]]
    /\ UNCHANGED <<tables, wallet>>

GetMessageWithSignatures(r) ==
    /\ At(r, "collect")
    /\ \E sigs \in SortedByKey(pairs[MsgOf[r]]) :
          request' = [request EXCEPT ![r].pc = "ensureNotSent", ![r].sigs = sigs]
    /\ UNCHANGED <<tables, wallet>>

EnsureNotSent(r) ==
    /\ At(r, "ensureNotSent")
    /\ GoTo(r, IF MsgOf[r] \in transactionHash THEN "rejected" ELSE "recount")
    /\ UNCHANGED <<tables, wallet>>

(* messageQueue.add: the insert fails if the message has ever been queued.      *)
Enqueue(r) ==
    /\ At(r, "enqueue")
    /\ IF MsgOf[r] \in Queued
         THEN GoTo(r, "failed") /\ UNCHANGED finalMessages
         ELSE /\ GoTo(r, "queued")
              /\ finalMessages' = Append(finalMessages, NewRow(MsgOf[r], request[r].sigs))
    /\ UNCHANGED <<messages, transactionHash, pairs, wallet>>

Handle(r) ==
    \/ IsPresent(r) \/ Add(r) \/ Get(r) \/ ContainSignature(r)
    \/ EnsureCorrectKeyPurpose(r) \/ AddSignature(r)
    \/ CountSignatures(r, "count", "isEnough")
    \/ IsEnoughSignatures(r, "isEnough", "collect", "collecting")
    \/ GetMessageWithSignatures(r) \/ EnsureNotSent(r)
    \/ CountSignatures(r, "recount", "recheck")
    \/ IsEnoughSignatures(r, "recheck", "enqueue", "rejected")
    \/ Enqueue(r)

(* The keys of the wallet, or messages relayed by others, change it meanwhile.  *)
WalletChanges ==
    /\ \E sender \in Addr \cup {This}, c \in WalletCalls :
          Allowed(wallet, sender, c) /\ wallet' = Effect(wallet, c)
    /\ UNCHANGED <<tables, request>>

Next == (\E r \in Requests : Handle(r)) \/ WalletChanges

(* Node runs every handler on: the store and the node answer in the end.        *)
Spec == Init /\ [][Next]_vars /\ \A r \in Requests : WF_vars(Handle(r))

--------------------------------------------------------------------------------
(* Every value is of its type.                                                  *)
TypeOK ==
    /\ messages \subseteq Messages /\ transactionHash \subseteq Messages
    /\ pairs \in [Messages -> Seq(Signer)]
    /\ finalMessages \in Seq(Row)
    /\ request \in [Requests -> Handler]
    /\ wallet \in Storage

Answered(r) == request[r].pc \in Final
AllAnswered(m) == \A r \in Requests : MsgOf[r] = m => Answered(r)

(* Requests that carry different signatures never block each other out: while   *)
(* the wallet is unchanged, once all requests for a message are answered and the*)
(* signatures they left suffice, the message is in the queue (PendingMessages.  *)
(* ts:24-28: each handler counts after it has added, the last one sees all).    *)
SufficientIsQueued ==
    \A m \in Messages :
        wallet = FirstWallet /\ AllAnswered(m)
            /\ Len(pairs[m]) >= wallet.requiredSignatures /\ Len(pairs[m]) > 0
            => m \in Queued

(* What is queued is executable on the unchanged wallet: distinct keys, sorted, *)
(* as many as required (PendingMessages.ts:61-67, utils.ts:24-37 against        *)
(* ERC1077.sol:151-176).                                                        *)
QueuedIsExecutable ==
    \A i \in DOMAIN finalMessages : wallet = FirstWallet =>
        /\ Len(finalMessages[i].sigs) >= wallet.requiredSignatures
        /\ areSignaturesValid(wallet, finalMessages[i].sigs)

(* A client that is told its message is waiting for signatures or queued left   *)
(* its own signature with the relayer, and a queued message carries the         *)
(* signature of the request that queued it.                                     *)
AcceptedIsKept ==
    \A r \in Requests :
        /\ request[r].pc \in {"collecting", "queued"} => KeyOf[r] \in ToSet(pairs[MsgOf[r]])
        /\ request[r].pc = "queued" =>
              \E i \in DOMAIN finalMessages :
                  finalMessages[i].message = MsgOf[r] /\ KeyOf[r] \in ToSet(finalMessages[i].sigs)

(* "should not accept same signature twice"                                     *)
(* (test/integration/core/services/messages/PendingMessages.ts:100).            *)
NoSignatureTwice == \A m \in Messages : IsInjective(pairs[m])
================================================================================
