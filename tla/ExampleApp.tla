------------------------------- MODULE ExampleApp -------------------------------
(* The example application on each device: the wallet service, the views, and   *)
(* the flows that a click starts and that go on, await by await, whatever the   *)
(* user does meanwhile.  A device creates a wallet, asks the owner of one to    *)
(* add its key, recovers one with a backup code, and answers the requests of    *)
(* others.  Every flow is known by the key it generates.  A call whose answer   *)
(* only ends its handler is one step with the click; the denials whose answer   *)
(* leads to another view are under way for a while.                             *)
EXTENDS Connection

CONSTANT MaxDenials     \* bound: denials that a page has under way at once
ASSUME DenialsAssumption == MaxDenials \in Nat

VARIABLES
    view,       \* the view of the ContentContainer, or "closed"
    memory,     \* the fields of each WalletService
    stored,     \* what each StorageService keeps
    listeners,  \* the rows whose KeyAdded each device listens for
    shown,      \* the requests that the badge or the list shows, and of which wallet
    awaits,     \* what each device awaits apart from its flows
    denials,    \* the denials that each page awaits, and where they lead
    flow,       \* the flow that generates each key, and the page that is part of it
    tangled     \* history: whether flows have overlapped on each device

page == <<view, memory, listeners, shown, awaits, denials>>
vars == <<connection, page, stored, flow, tangled>>

View == {"Login", "CreatingID", "Failure", "Greeting", "MainScreen", "Account",
         "Backup", "ApproveConnection", "PendingAuthorizations", "RecoverAccount"}
Badged == {"MainScreen", "PendingAuthorizations"}
NoRow == <<Nobody, NoKey>>
NoWallet == [wallet |-> Nobody, key |-> NoKey]
WalletInfo == [wallet : Wallets, key : Keys] \cup {NoWallet}
Fresh == [contract |-> NoWallet, privateKey |-> NoKey, device |-> NoKey, subscription |-> NoRow]
Denial == [n : 1..MaxDenials, row : (Wallets \cup {Nobody}) \X Keys,
           to : {"Login", "RecoverAccount"}]
Unshown == [wallet |-> Nobody, list |-> {}]
NoFlow == [dev |-> Nobody, kind |-> "none", wallet |-> Nobody, pc |-> "none"]

AppInit ==
    /\ view = [d \in Devices |-> "closed"] /\ memory = [d \in Devices |-> Fresh]
    /\ listeners = [d \in Devices |-> {}] /\ shown = [d \in Devices |-> Unshown]
    /\ awaits = [d \in Devices |-> {}] /\ denials = [d \in Devices |-> {}]
    /\ tangled = [d \in Devices |-> FALSE]
    /\ added = {} /\ RelayerInit /\ ObserverInit

(* Nothing has happened yet, or a device has created a wallet on an earlier page,*)
(* any of those that are alike, and may have set its backup codes.              *)
Init ==
    /\ AppInit
    /\ \/ /\ owned = [w \in Wallets |-> {}] /\ flow = [k \in Keys |-> NoFlow]
          /\ stored = [d \in Devices |-> NoWallet] /\ nonce = [w \in Wallets |-> 0]
       \/ \E d \in Devices, keys \in {{1}, {1, Code}} : LET w == CHOOSE w \in Wallets : TRUE IN
            /\ owned = [v \in Wallets |-> IF v = w THEN keys ELSE {}]
            /\ nonce = [v \in Wallets |-> IF v = w /\ Code \in keys THEN 1 ELSE 0]
            /\ flow = [k \in Keys |-> IF k = 1 THEN [NoFlow EXCEPT !.kind = "next", !.pc = "over"] ELSE NoFlow]
            /\ stored = [e \in Devices |-> IF e = d THEN [wallet |-> w, key |-> 1] ELSE NoWallet]

Pending(d) == {k \in Keys : flow[k].dev = d /\ flow[k].pc # "over"}
Unused == {k \in Keys : flow[k].kind = "none"}
(* The next key to be generated.                                                *)
NextKey == CHOOSE k \in Unused : \A j \in Unused : k <= j
(* Whether a call of d, a listener or loadWallet may still act.                 *)
Calling(d) == Pending(d) # {} \/ denials[d] # {}
Busy(d) == Calling(d) \/ listeners[d] # {} \/ "storage" \in awaits[d]

(* setView, with what the new view does when it is mounted on wallet w: the     *)
(* badge takes the list that the observer remembers and subscribes.             *)
SetView(d, v, w) ==
    /\ view' = [view EXCEPT ![d] = v]
    /\ shown' = [shown EXCEPT ![d] =
          IF v \in Badged THEN [wallet |-> w, list |-> last[d]] ELSE Unshown]
    /\ IF v \in Badged THEN Watch(d, w) ELSE UNCHANGED observer
Turn(d, from, to) == view[d] = from /\ SetView(d, to, memory[d].contract.wallet)
Tangle(d, busy) == tangled' = [tangled EXCEPT ![d] = @ \/ busy]
(* Calls overlap: a click while others are under way.                           *)
Overlap(d, busy) == Tangle(d, busy) /\ (IF busy THEN Upset ELSE UNCHANGED upsets)
Over(k) == flow' = [flow EXCEPT ![k].pc = "over"]
(* The page is no part of the flow any more; its request may still arrive.      *)
Lost(d, k) == flow' = [flow EXCEPT ![k].dev = IF @ = d THEN Nobody ELSE @]
Await(k, pc) == flow' = [flow EXCEPT ![k].pc = pc]
In(k, kind, pc) == flow[k].kind = kind /\ flow[k].pc = pc

--------------------------------------------------------------------------------
(* The page is opened, or opened again: its memory is new and what its flows    *)
(* awaited is lost, though a posted request still arrives.                      *)
Open(d) ==
    /\ view' = [view EXCEPT ![d] = "Login"] /\ memory' = [memory EXCEPT ![d] = Fresh]
    /\ listeners' = [listeners EXCEPT ![d] = {}] /\ shown' = [shown EXCEPT ![d] = Unshown]
    /\ awaits' = [awaits EXCEPT ![d] = {"storage"}] /\ denials' = [denials EXCEPT ![d] = {}]
    /\ flow' = [k \in Keys |->
          IF flow[k].dev = d THEN [flow[k] EXCEPT !.dev = Nobody] ELSE flow[k]]
    /\ ResetObservers(d) /\ UNCHANGED <<chain, relayer, stored, tangled>>

(* loadWallet                                                                   *)
LoadWallet(d) ==
    /\ "storage" \in awaits[d] /\ awaits' = [awaits EXCEPT ![d] = @ \ {"storage"}]
    /\ IF stored[d] = NoWallet
         THEN UNCHANGED <<view, memory, shown, observer>>
         ELSE /\ memory' = [memory EXCEPT ![d].contract = stored[d]]
              /\ SetView(d, "MainScreen", stored[d].wallet)
    /\ UNCHANGED <<chain, relayer, stored, listeners, denials, flow, tangled>>

(* Login: a click on Next or on the recovery of a name starts to resolve it.    *)
Click(d, kind, w) ==
    /\ view[d] = "Login" /\ Unused # {}
    /\ flow' = [flow EXCEPT ![NextKey] = [dev |-> d, kind |-> kind, wallet |-> w, pc |-> "resolving"]]
    /\ Overlap(d, Busy(d))
    /\ UNCHANGED <<chain, relayer, filters, turn, last, polling, passed, page, stored>>

(* Login.onNextClick: an existing wallet is connected, another one created.     *)
Resolved(k) ==
    LET d == flow[k].dev
        w == flow[k].wallet
    IN  /\ In(k, "next", "resolving") /\ d \in Devices
        /\ IF owned[w] # {}
             THEN /\ memory' = [memory EXCEPT ![d].contract = [wallet |-> w, key |-> NoKey]]
                  /\ SetView(d, "ApproveConnection", w) /\ Await(k, "posting")
             ELSE SetView(d, "CreatingID", w) /\ Await(k, "creating") /\ UNCHANGED memory
        /\ UNCHANGED <<chain, relayer, stored, listeners, awaits, denials, tangled>>

(* The relayer deploys the wallet, or refuses because its name is taken.        *)
Created(k) ==
    LET w == flow[k].wallet IN
    /\ In(k, "next", "creating")
    /\ IF owned[w] = {}
         THEN owned' = [owned EXCEPT ![w] = {k}] /\ Await(k, "created")
         ELSE Await(k, "refused") /\ UNCHANGED owned
    /\ UNCHANGED <<nonce, added, relayer, observer, page, stored, tangled>>

CreateAnswered(k) ==
    LET d == flow[k].dev
        new == [wallet |-> flow[k].wallet, key |-> k]
    IN  /\ d \in Devices /\ Over(k)
        /\ \/ /\ In(k, "next", "created") /\ SetView(d, "Greeting", Nobody)
              /\ memory' = [memory EXCEPT ![d].contract = new]
              /\ stored' = [stored EXCEPT ![d] = new]
           \/ /\ In(k, "next", "refused") /\ SetView(d, "Failure", Nobody)
              /\ UNCHANGED <<memory, stored>>
        /\ UNCHANGED <<chain, relayer, listeners, awaits, denials, tangled>>

(* sdk.connect: the request reaches the relayer.                                *)
RequestArrives(k) ==
    /\ In(k, "next", "posting") /\ Await(k, "posted")
    /\ AddRequest(flow[k].wallet, k)
    /\ UNCHANGED <<chain, observer, page, stored, tangled>>

(* A listener for the key on the wallet of the moment; a former subscription is *)
(* forgotten but goes on listening.                                             *)
Subscribe(d, k) ==
    LET row == <<memory'[d].contract.wallet, k>> IN
    listeners' = [listeners EXCEPT ![d] = @ \cup {row}]
Keep(d, k, m) ==
    [m EXCEPT !.privateKey = k, !.subscription = <<m.contract.wallet, k>>]

(* WalletService.connect goes on.                                               *)
ConnectAnswered(k) ==
    LET d == flow[k].dev IN
    /\ In(k, "next", "posted") /\ d \in Devices /\ Over(k)
    /\ memory' = [memory EXCEPT ![d] = Keep(d, k, @)] /\ Subscribe(d, k)
    /\ UNCHANGED <<connection, view, shown, awaits, denials, stored, tangled>>

(* A call of the flow is rejected, whether or not the relayer got it.  Only the *)
(* creation catches that; the others end where they are.                        *)
Rejected(k) ==
    LET d == flow[k].dev
        fails == flow[k].pc \in {"creating", "created", "refused"}
    IN  /\ Upset /\ d \in Devices /\ k \in Pending(d) /\ Lost(d, k)
        /\ view' = IF fails THEN [view EXCEPT ![d] = "Failure"] ELSE view
        /\ shown' = IF fails THEN [shown EXCEPT ![d] = Unshown] ELSE shown
        /\ UNCHANGED <<chain, relayer, filters, turn, last, polling, passed, memory, listeners,
                       awaits, denials, stored, tangled>>

(* Mounting RecoverAccount: WalletService.recover, with a new key.              *)
Recover(d, k, m) == [Keep(d, k, m) EXCEPT !.device = k]
MountRecovery(d, k, m) ==
    /\ memory' = [memory EXCEPT ![d] = Recover(d, k, m)] /\ Subscribe(d, k)
    /\ SetView(d, "RecoverAccount", Nobody)

(* Login.onAccountRecoveryClick: a name that does not exist is not noticed.  A   *)
(* view that is shown already is not mounted again.                             *)
RecoveryResolved(k) ==
    LET d == flow[k].dev
        w == flow[k].wallet
        m == IF owned[w] # {}
               THEN [memory[d] EXCEPT !.contract = [wallet |-> w, key |-> NoKey]]
               ELSE memory[d]
    IN  /\ In(k, "recover", "resolving") /\ d \in Devices /\ Over(k)
        /\ IF view[d] = "RecoverAccount"
             THEN memory' = [memory EXCEPT ![d] = m] /\ UNCHANGED <<view, shown, listeners, observer>>
             ELSE MountRecovery(d, k, m)
        /\ UNCHANGED <<chain, relayer, stored, awaits, denials, tangled>>

--------------------------------------------------------------------------------
(* Mutant: the subscription is forgotten but not removed.                       *)
CancelledNot(d) == listeners[d]
(* Mutant: nothing is denied.                                                   *)
DenyNothing(r) == UNCHANGED relayer

(* cancelSubscription, and a denial that reaches the relayer.                   *)
Cancelled(d) == listeners[d] \ {memory[d].subscription}
Deny(r) == RemoveRequest(r[1], r[2])
OwnRow(d) == <<memory[d].contract.wallet, memory[d].privateKey>>

(* The buttons of ApproveConnection, onCancelClick and onAccountRecoveryClick:  *)
(* the subscription goes at once; without a key, removeRequest throws then.     *)
FreeDenials(d) == {n \in 1..MaxDenials : \A x \in denials[d] : x.n # n}
CancelConnection(d, to) ==
    /\ view[d] = "ApproveConnection"
    /\ listeners' = [listeners EXCEPT ![d] = Cancelled(d)]
    /\ memory' = [memory EXCEPT ![d].subscription = NoRow]
    /\ IF memory[d].privateKey = NoKey
         THEN UNCHANGED <<denials, tangled, upsets>>
         ELSE /\ \E n \in FreeDenials(d) :
                    /\ \A i \in FreeDenials(d) : n <= i
                    /\ denials' = [denials EXCEPT ![d] = @ \cup {[n |-> n, row |-> OwnRow(d), to |-> to]}]
              /\ Overlap(d, Calling(d))
    /\ UNCHANGED <<chain, relayer, filters, turn, last, polling, passed, view, shown, awaits,
                   stored, flow>>

(* The answer leads to the view of the button, whatever the view is by now.     *)
DenialAnswered(d, x) ==
    LET k == NextKey IN
    /\ x \in denials[d] /\ denials' = [denials EXCEPT ![d] = @ \ {x}] /\ Deny(x.row)
    /\ IF x.to = "RecoverAccount" /\ view[d] # x.to
         THEN /\ Unused # {} /\ MountRecovery(d, k, memory[d])
              /\ flow' = [flow EXCEPT ![k] =
                    [dev |-> d, kind |-> "recover", wallet |-> memory[d].contract.wallet, pc |-> "over"]]
         ELSE SetView(d, x.to, Nobody) /\ UNCHANGED <<memory, listeners, flow>>
    /\ UNCHANGED <<chain, stored, awaits, tangled>>

(* The denial is rejected: the view stays, and the request without a listener.  *)
DenialRejected(d, x) ==
    /\ x \in denials[d] /\ denials' = [denials EXCEPT ![d] = @ \ {x}] /\ Lost(d, x.row[2]) /\ Upset
    /\ UNCHANGED <<chain, relayer, filters, turn, last, polling, passed, view, memory, listeners,
                   shown, awaits, stored, tangled>>

(* RecoverAccount.onCancelClick leads back at once; its denial may fail.        *)
Recovering(d) == view[d] = "RecoverAccount"
CancelRecovery(d) ==
    /\ Recovering(d) /\ SetView(d, "Login", Nobody)
    /\ listeners' = [listeners EXCEPT ![d] = Cancelled(d)]
    /\ memory' = [memory EXCEPT ![d].subscription = NoRow]
    /\ \/ Deny(OwnRow(d)) /\ UNCHANGED flow
       \/ UNCHANGED relayer /\ Lost(d, memory[d].privateKey)
    /\ UNCHANGED <<chain, stored, awaits, denials, tangled>>

(* RecoverAccount.onRecoverClick with the right code; a refusal is only shown.  *)
RecoverClick(d) ==
    /\ Recovering(d) /\ memory[d].contract.wallet \in Wallets
    /\ PostMessage(MessageOf(memory[d].contract.wallet, memory[d].device, Code))
    /\ UNCHANGED <<chain, observer, page, stored, flow, tangled>>

(* WalletService.onKeyAdded: the key and the wallet of the moment are stored.   *)
OnKeyAdded(d) ==
    LET new == [wallet |-> memory[d].contract.wallet, key |-> memory[d].privateKey] IN
    /\ listeners' = [listeners EXCEPT ![d] = Cancelled(d)]
    /\ memory' = [memory EXCEPT ![d].contract = new, ![d].subscription = NoRow]
    /\ stored' = [stored EXCEPT ![d] = new]
    /\ view' = [view EXCEPT ![d] = "Greeting"] /\ shown' = [shown EXCEPT ![d] = Unshown]

(* Events that nobody listens for, nor will, pass unseen.                       *)
KeyAdded(d, r) ==
    /\ r \in listeners[d] \/ r[2] \in Pending(d)
    /\ Pass(d, r)
    /\ IF r \in listeners[d] THEN OnKeyAdded(d) ELSE UNCHANGED <<view, memory, listeners, shown, stored>>
    /\ UNCHANGED <<chain, relayer, awaits, denials, flow, tangled>>

--------------------------------------------------------------------------------
(* The buttons that only lead on.                                               *)
ShowLogin(d) == Turn(d, "Failure", "Login")
ShowMainScreen(d) == Turn(d, "Greeting", "MainScreen")
AccountLink(d) == Turn(d, "MainScreen", "Account")
BackToApp(d) == Turn(d, "Account", "MainScreen")
GenerateCodes(d) == Turn(d, "Account", "Backup")
CancelBackup(d) == Turn(d, "Backup", "Account")
RequestsBadge(d) == shown[d].list # {} /\ Turn(d, "MainScreen", "PendingAuthorizations")
Back(d) == Turn(d, "PendingAuthorizations", "MainScreen")
Walk(d) ==
    /\ \/ ShowLogin(d) \/ ShowMainScreen(d) \/ AccountLink(d) \/ BackToApp(d) \/ GenerateCodes(d)
       \/ CancelBackup(d) \/ RequestsBadge(d) \/ Back(d)
    /\ UNCHANGED <<chain, relayer, memory, listeners, awaits, denials, stored, flow, tangled>>

(* The button of the current device; those of other devices do nothing yet.     *)
DisconnectClick(d) == Turn(d, "Account", "Login")

(* Mutant: the storage is not cleared.                                          *)
DisconnectKeepsStorage(d) ==
    /\ DisconnectClick(d)
    /\ UNCHANGED <<chain, relayer, stored, memory, listeners, awaits, denials, flow, tangled>>

(* Account.onDisconnectClick clears the storage and keeps the memory.           *)
Disconnect(d) ==
    /\ DisconnectClick(d) /\ stored' = [stored EXCEPT ![d] = NoWallet]
    /\ UNCHANGED <<chain, relayer, memory, listeners, awaits, denials, flow, tangled>>

OwnMessage(d, k) == MessageOf(memory[d].contract.wallet, k, memory[d].contract.key)

(* Backup.setBackupCodes goes on once its message is executed or fails; by then *)
(* the user may have left the view.  A failure, or no outcome in time, throws.  *)
SetBackupCodes(d) ==
    LET m == OwnMessage(d, Code) IN
    /\ view[d] = "Backup" /\ PostMessage(m)
    /\ awaits' = IF Accepts(m) THEN [awaits EXCEPT ![d] = @ \cup {"codes"}] ELSE awaits
    /\ UNCHANGED <<chain, observer, view, memory, listeners, shown, denials, stored, flow, tangled>>
BackupCodesSet(d) ==
    /\ "codes" \in awaits[d] /\ awaits' = [awaits EXCEPT ![d] = @ \ {"codes"}]
    /\ \/ /\ hook.key # Code /\ \A i \in DOMAIN queue : queue[i].key # Code
          /\ SetView(d, "Greeting", Nobody)
       \/ UNCHANGED <<view, shown, observer>>
    /\ UNCHANGED <<chain, relayer, memory, listeners, denials, stored, flow, tangled>>

(* PendingAuthorizations.onAcceptClick and onDenyClick, for a row of the list.  *)
Listed(d, r) == view[d] = "PendingAuthorizations" /\ r \in shown[d].list
AcceptClick(d, r) == Listed(d, r) /\ PostMessage(OwnMessage(d, r[2]))
DenyClick(d, r) == Listed(d, r) /\ RemoveRequest(memory[d].contract.wallet, r[2])
Answer(d, r) ==
    /\ AcceptClick(d, r) \/ DenyClick(d, r)
    /\ UNCHANGED <<chain, observer, page, stored, flow, tangled>>

(* The listeners of a filter are told when the memory of the observer changes;  *)
(* an empty list closes the view.                                               *)
AuthorisationsChanged(d) ==
    LET told == Changed(d) /\ shown[d].wallet = Asked(d)
        new == RowsOf(Asked(d))
    IN  /\ Poll(d)
        /\ shown' = IF told THEN [shown EXCEPT ![d].list = new] ELSE shown
        /\ view' = IF told /\ new = {} /\ view[d] = "PendingAuthorizations"
                     THEN [view EXCEPT ![d] = "MainScreen"] ELSE view
        /\ UNCHANGED <<chain, relayer, memory, listeners, awaits, denials, stored, flow, tangled>>

PollRejected(d) ==
    PollFails(d) /\ UNCHANGED <<chain, relayer, page, stored, flow, tangled>>

--------------------------------------------------------------------------------
(* Another client of the relayer, on a page of its own: it creates a wallet, or *)
(* asks for a key on one, accepts a request with a key that it generated, or    *)
(* denies one, which anybody may.                                               *)
Elsewhere(w) ==
    flow' = [flow EXCEPT ![NextKey] = [dev |-> Nobody, kind |-> "other", wallet |-> w, pc |-> "over"]]
OtherCreates(w) ==
    /\ Unused # {} /\ owned[w] = {} /\ owned' = [owned EXCEPT ![w] = {NextKey}]
    /\ Elsewhere(w) /\ UNCHANGED <<nonce, added, relayer, observer>>
OtherRequests(w) ==
    /\ Unused # {} /\ AddRequest(w, NextKey) /\ Elsewhere(w) /\ UNCHANGED <<chain, observer>>
OtherAnswers(r) ==
    /\ r \in requests
    /\ \/ \E k \in owned[r[1]] \cap {k \in Keys : flow[k].kind = "other"} :
             PostMessage(MessageOf(r[1], r[2], k))
       \/ RemoveRequest(r[1], r[2])
    /\ UNCHANGED <<chain, observer, flow>>
Other ==
    /\ \/ \E w \in Wallets : OtherCreates(w) \/ OtherRequests(w)
       \/ \E r \in Rows : OtherAnswers(r)
    /\ UNCHANGED <<page, stored, tangled>>

App(d) ==
    \/ Open(d)
    \/ \E w \in Wallets : Click(d, "next", w) \/ Click(d, "recover", w)
    \/ CancelConnection(d, "Login") \/ CancelConnection(d, "RecoverAccount")
    \/ CancelRecovery(d) \/ RecoverClick(d)
    \/ Walk(d) \/ Disconnect(d) \/ SetBackupCodes(d) \/ PollRejected(d)
    \/ \E r \in Rows : Answer(d, r)

(* What goes on without a user.                                                 *)
FlowStep(k) ==
    \/ Resolved(k) \/ Created(k) \/ CreateAnswered(k) \/ RequestArrives(k)
    \/ ConnectAnswered(k) \/ RecoveryResolved(k) \/ Rejected(k)
DenialStep(d) == \E x \in denials[d] : DenialAnswered(d, x) \/ DenialRejected(d, x)
Relayer == (Relay \/ RelayFails) /\ UNCHANGED <<page, stored, flow, tangled>>

Next ==
    \/ \E d \in Devices :
        \/ App(d) \/ LoadWallet(d) \/ BackupCodesSet(d) \/ DenialStep(d)
        \/ AuthorisationsChanged(d) \/ \E r \in Rows : KeyAdded(d, r)
    \/ \E k \in Keys : FlowStep(k)
    \/ Relayer \/ Other

(* Timers fire and polls are answered, or rejected.                             *)
Spec == Init /\ [][Next]_vars /\ \A d \in Devices : WF_vars(AuthorisationsChanged(d))

--------------------------------------------------------------------------------
(* Every value is of its type.                                                  *)
TypeOK ==
    /\ ConnectionType /\ view \in [Devices -> View \cup {"closed"}]
    /\ \A d \in Devices :
        /\ memory[d].contract \in [wallet : Wallets \cup {Nobody}, key : Keys \cup {NoKey}]
        /\ memory[d].subscription[2] # NoKey => memory[d].subscription \in listeners[d]
        /\ shown[d] = Unshown \/ (shown[d].wallet \in Wallets /\ shown[d].list \subseteq Rows)
    /\ stored \in [Devices -> WalletInfo] /\ awaits \in [Devices -> SUBSET {"storage", "codes"}]
    /\ denials \in [Devices -> SUBSET Denial]

(* The wallet that a device stores is one its key is on, whichever way it came  *)
(* by it: a creation, a connection or a recovery, cancelled and begun again, on *)
(* a page opened anew.  onKeyAdded stores the key and the wallet of the moment  *)
(* (WalletService.js:42-51), so this takes that no two flows overlapped: that   *)
(* nothing was begun while a call or a cancellation was under way.              *)
StoredKeyIsOwned ==
    \A d \in Devices : stored[d] # NoWallet /\ ~tangled[d] => stored[d].key \in owned[stored[d].wallet]

(* The key that a device stores, perhaps the only one of its wallet, is never   *)
(* overwritten with that of another wallet or flow: only Disconnect lets it go, *)
(* unless flows overlapped (WalletService.js:42-51, 68-78); a cancellation that *)
(* is not answered yet is one to overlap with (ApproveConnection.js:17-29).     *)
StoredKeyIsKept ==
    [][\A d \in Devices : stored[d] # NoWallet /\ stored'[d] # stored[d] /\ ~tangled[d]
          => stored'[d] = NoWallet /\ view[d] = "Account"]_vars

(* A request on offer to the owners of a wallet is known to the page that made  *)
(* it, as long as that is open: it awaits the answer to the request, listens    *)
(* for its key, or denies it, or the key is on the wallet already; so what is   *)
(* cancelled is denied before it is forgotten.  Rejected calls are excepted: a  *)
(* page forgets a request whose posting or denial was rejected, though it is    *)
(* there, and so are flows that overlapped (ApproveConnection.js:17-34,         *)
(* WalletService.js:25-32).                                                     *)
NoOrphanRequest ==
    \A d \in Devices, k \in Keys :
        LET r == <<flow[k].wallet, k>> IN
        flow[k].dev = d /\ r \in requests /\ ~tangled[d]
            => \/ k \in Pending(d) \/ r \in listeners[d] \/ r \in added
               \/ \E x \in denials[d] : x.row = r

(* The request of a key that the wallet has got is on its way out, unless the   *)
(* relayer died between the transaction and the hook, or the key begins with a  *)
(* zero byte: then it stays on offer for good (MessageExecutor.ts:13-20,        *)
(* MessageHandler.ts:35-55, relayer/lib/core/utils/utils.ts:16-21).             *)
AddedRequestGoes ==
    \A r \in requests \cap added :
        r \in lost \/ r[2] \in LeadingZero \/ <<hook.wallet, hook.key>> = r

(* The badge and the list come to show the requests of their wallet, unless the *)
(* view is left, a poll is rejected, which ends the loop, or the observer has   *)
(* the filter of a second wallet: the filters share one memory, and an emptied  *)
(* list may then never be told (RelayerObserver.ts:20-23).                      *)
ShownIsCurrent(d) == shown[d].wallet \in Wallets => shown[d].list = RowsOf(shown[d].wallet)
ListIsCurrent ==
    \A d \in Devices :
        (Len(filters[d]) = 1 /\ polling[d] /\ ~ShownIsCurrent(d))
            ~> (ShownIsCurrent(d) \/ ~polling[d] \/ Len(filters[d]) # 1)
================================================================================
