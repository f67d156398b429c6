---------------------------- MODULE WebWallet_proofs ----------------------------
(* Proofs about Deployment and WebWallet: a name is its wallet's, a future wallet*)
(* is not lost, and the screens show no more than is true, whatever the user     *)
(* clicks and wherever Back and Forward lead while the flows go on, and whatever *)
(* other clients do.                                                             *)
EXTENDS WebWallet, SequenceTheorems, TLAPS

(* Of a deployment: the types, and that what was sent stays as it was asked for. *)
DeploymentTypes ==
    /\ ensReady \in BOOLEAN /\ owner \in [Names -> Keys \cup {Nobody}] /\ code \subseteq Keys
    /\ funds \in [Keys -> SUBSET {"ether", "token"}] /\ request \in [Keys -> Request]
    /\ pending \in Seq(Keys) /\ outcome \in [Keys -> {"none", "ok", "reverted"}]
    /\ faults \in 0..MaxFaults
SentIsAsked ==
    /\ \A i \in DOMAIN pending : At(pending[i], "sent")
    /\ \A k \in code : At(k, "sent")
    /\ \A k \in Keys : ~At(k, "none") => request[k].name \in Names
DeploymentInv == DeploymentTypes /\ SentIsAsked /\ NamesAreOwned

(* Of the wallet: a future wallet belongs to the one creation that waits for it; *)
(* a connected one, unless the user strayed, to the flow that waits for its key, *)
(* and then no private screen is shown.                                          *)
WalletTypes ==
    /\ wallet \in [state : {"None", "Future", "Deployed"}, key : Own \cup {Nobody},
                   name : Names \cup {Nobody}]
    /\ screen \in Screens \cup {"blank"} /\ modal \in Blocking \cup Closable \cup {"none"}
    /\ transferring \in BOOLEAN /\ strayed \in BOOLEAN
    /\ flow \in [Own -> [kind : {"none", "create", "connect"}, name : Names \cup {Nobody},
                         pc : {"none", "creating", "balance", "posted", "observing", "connecting",
                               "subscribed", "done", "threw", "dead"}]]
    /\ requests \subseteq Own /\ added \subseteq Own
ScreensFollow == screen \in Private \cup {"approve"} => wallet.state = "Deployed"
FlowsOwnTheWallet ==
    /\ wallet.state # "None" => wallet.key \in Own /\ flow[wallet.key].pc # "none"
    /\ \A k \in Own :
          /\ flow[k].kind = "create" /\ flow[k].pc \in {"balance", "posted", "observing"}
                => wallet.state = "Future" /\ wallet.key = k
          /\ flow[k].pc = "subscribed" /\ ~strayed
                => wallet.state = "Deployed" /\ wallet.key = k /\ screen \notin Private
KeysAreAwaited ==
    wallet.state = "Deployed" =>
        wallet.key \in code \cup added \/ flow[wallet.key].pc = "subscribed"
FlowsAskedForTheirNames ==
    /\ wallet.state = "Deployed" => wallet.name \in Names
    /\ \A k \in Own :
          /\ flow[k].pc # "none" => flow[k].name \in Names
          /\ flow[k].kind = "create" /\ flow[k].pc \in {"posted", "observing"}
                => ~At(k, "none") /\ request[k].name = flow[k].name

WalletInv ==
    WalletTypes /\ ScreensFollow /\ FlowsOwnTheWallet /\ FlowsAskedForTheirNames
        /\ KeysAreAwaited /\ CreatedIsDeployed
WebWalletInv == DeploymentInv /\ WalletInv

--------------------------------------------------------------------------------
(* All that happens to deployments, whoever asks for them.                       *)
DeploymentNext ==
    \/ StartEns \/ Mine
    \/ \E k \in Keys : Serve(k) \/ RequestFails(k) \/ Grant(k)
    \/ \E k \in Keys, n \in Names : PostCreate(k, n) \/ PostDeploy(k, n)
    \/ \E k \in Keys, t \in {"ether", "token"} : Fund(k, t)

(* No step takes a contract or a name away, or changes what was asked for.       *)
DeploymentLasts ==
    /\ code \subseteq code'
    /\ \A n \in Names : owner[n] # Nobody => owner'[n] = owner[n]
    /\ \A k \in Keys : ~At(k, "none") => ~At(k, "none")' /\ request'[k].name = request[k].name

LEMMA RequestGoes ==
    ASSUME request \in [Keys -> Request], NEW k \in Keys,
           NEW pc \in {"none", "resolve", "balance", "send", "sent", "refused"}, GoTo(k, pc)
    PROVE  /\ request' \in [Keys -> Request]
           /\ request'[k].pc = pc /\ request'[k].name = request[k].name
           /\ \A j \in Keys : j # k => request'[j] = request[j]
BY DEF GoTo, Request

LEMMA RequestIsPosted ==
    ASSUME request \in [Keys -> Request], NEW k \in Keys, NEW n \in Names,
           NEW kind \in {"create", "deploy"}, NEW pc \in {"resolve", "send", "refused"},
           request' = [request EXCEPT ![k] = [kind |-> kind, name |-> n, pc |-> pc]]
    PROVE  /\ request' \in [Keys -> Request]
           /\ request'[k].pc = pc /\ request'[k].name = n
           /\ \A j \in Keys : j # k => request'[j] = request[j]
BY DEF Request

(* What a step does to the requests, if it leaves the chain alone.               *)
LEMMA RequestsAreKept ==
    ASSUME DeploymentInv, UNCHANGED <<owner, code, outcome>>, NEW k \in Keys,
           request' \in [Keys -> Request], UNCHANGED ensReady \/ ensReady',
           ensReady' \in BOOLEAN, funds' = funds, faults' \in 0..MaxFaults,
           \A j \in Keys : j # k => request'[j] = request[j],
           \/ ~At(k, "none") /\ ~At(k, "sent") /\ request'[k].name = request[k].name
           \/ At(k, "none") /\ request'[k].name \in Names,
           request'[k].pc # "none",
           \/ UNCHANGED pending
           \/ pending' = Append(pending, k) /\ request'[k].pc = "sent"
    PROVE  DeploymentInv' /\ DeploymentLasts
<1> USE DEF At
<1>0. \A j \in Keys : At(j, "sent") => request'[j] = request[j]
  OBVIOUS
<1>1. pending' \in Seq(Keys) /\ \A i \in DOMAIN pending' : request'[pending'[i]].pc = "sent"
  <2>1. pending \in Seq(Keys) /\ DOMAIN pending = 1..Len(pending) /\ Len(pending) \in Nat
        /\ \A i \in DOMAIN pending : pending[i] \in Keys /\ request[pending[i]].pc = "sent"
    BY LenProperties, ElementOfSeq DEF DeploymentInv, DeploymentTypes, SentIsAsked
  <2>2. CASE UNCHANGED pending
    BY <1>0, <2>1, <2>2
  <2>3. CASE pending' = Append(pending, k) /\ request'[k].pc = "sent"
    <3>1. /\ pending' \in Seq(Keys) /\ Len(pending') = Len(pending) + 1
          /\ \A i \in 1..Len(pending) : pending'[i] = pending[i]
          /\ pending'[Len(pending) + 1] = k
      BY <2>1, <2>3, AppendProperties
    <3>2. DOMAIN pending' = 1..(Len(pending) + 1)
      BY <3>1, LenProperties
    <3>3. QED
      BY <1>0, <2>1, <2>3, <3>1, <3>2
  <2>4. QED
    BY <2>2, <2>3
<1>2. DeploymentTypes'
  BY <1>1 DEF DeploymentInv, DeploymentTypes
<1>3. \A j \in Keys : request'[j].pc # "none" => request'[j].name \in Names
  BY DEF DeploymentInv, SentIsAsked
<1>4. \A j \in code : request'[j] = request[j]
  BY <1>0 DEF DeploymentInv, DeploymentTypes, SentIsAsked
<1>5. SentIsAsked'
  BY <1>1, <1>3, <1>4 DEF DeploymentInv, SentIsAsked
<1>6. NamesAreOwned'
  BY <1>4 DEF DeploymentInv, NamesAreOwned
<1>7. DeploymentLasts
  BY DEF DeploymentLasts
<1>8. QED
  BY <1>2, <1>5, <1>6, <1>7 DEF DeploymentInv

(* A deployment that is mined takes a name that is nobody's for a new contract.  *)
LEMMA MiningKeeps ==
    ASSUME DeploymentInv, Mine
    PROVE  DeploymentInv' /\ DeploymentLasts
<1> DEFINE k == Head(pending)
           n == request[k].name
<1>1. /\ pending \in Seq(Keys) /\ pending # <<>> /\ pending' = Tail(pending)
      /\ UNCHANGED <<ensReady, funds, request, faults>>
  BY DEF DeploymentInv, DeploymentTypes, Mine
<1>2. k \in Keys /\ At(k, "sent") /\ n \in Names
  <2>1. k = pending[1] /\ 1 \in DOMAIN pending /\ k \in Keys
    BY <1>1, EmptySeq, HeadTailProperties, LenProperties
  <2>2. QED
    BY <2>1 DEF DeploymentInv, SentIsAsked, At
<1>3. /\ pending' \in Seq(Keys) /\ \A i \in DOMAIN pending' : At(pending'[i], "sent")
  <2>1. /\ pending' \in Seq(Keys) /\ Len(pending') = Len(pending) - 1 /\ Len(pending) \in Nat
        /\ \A i \in 1..Len(pending') : pending'[i] = pending[i + 1] /\ i + 1 \in 1..Len(pending)
    BY <1>1, HeadTailProperties, LenProperties
  <2>2. DOMAIN pending' = 1..Len(pending') /\ DOMAIN pending = 1..Len(pending)
    BY <1>1, <2>1, LenProperties
  <2>3. QED
    BY <2>1, <2>2 DEF DeploymentInv, SentIsAsked
<1>4. CASE CreateContract(k)
  <2>1. /\ outcome' = [outcome EXCEPT ![k] = "ok"] /\ owner' = [owner EXCEPT ![n] = k]
        /\ code' = code \cup {k}
    BY <1>4 DEF Mine
  <2>2. k \notin code /\ owner[n] = Nobody
    BY <1>4 DEF CreateContract, SetMaster, InitializeWithENS, InitializeWithRefund, Registers
  <2>3. owner \in [Names -> Keys \cup {Nobody}]
    BY DEF DeploymentInv, DeploymentTypes
  <2> HIDE DEF k, n
  <2>4. DeploymentTypes'
    BY <1>1, <1>2, <1>3, <2>1 DEF DeploymentInv, DeploymentTypes
  <2>5. SentIsAsked'
    BY <1>1, <1>2, <1>3, <2>1 DEF DeploymentInv, SentIsAsked, At
  <2>6. owner'[n] = k /\ \A m \in Names : m # n => owner'[m] = owner[m]
    BY <1>2, <2>1, <2>3
  <2>7. \A m \in Names : owner'[m] # Nobody => owner'[m] \in code'
    BY <2>1, <2>6 DEF DeploymentInv, NamesAreOwned
  <2>8. ASSUME NEW j \in code' PROVE owner'[request'[j].name] = j
    <3>1. CASE j = k
      BY <1>1, <2>6, <3>1 DEF n
    <3>2. CASE j # k
      <4>1. j \in code /\ j \in Keys /\ owner[request[j].name] = j
        BY <2>1, <2>8, <3>2 DEF DeploymentInv, DeploymentTypes, NamesAreOwned
      <4>2. request[j].name \in Names /\ request[j].name # n
        BY <2>2, <4>1, KeysAssumption DEF DeploymentInv, SentIsAsked, At
      <4>3. QED
        BY <1>1, <2>6, <4>1, <4>2
    <3>3. QED
      BY <3>1, <3>2
  <2>9. DeploymentLasts
    BY <1>1, <2>1, <2>2, <2>6 DEF DeploymentLasts, At
  <2>10. QED
    BY <2>4, <2>5, <2>7, <2>8, <2>9 DEF DeploymentInv, NamesAreOwned
<1>5. CASE ~CreateContract(k)
  <2>1. outcome' = [outcome EXCEPT ![k] = "reverted"] /\ owner' = owner /\ code' = code
    BY <1>5 DEF Mine
  <2> HIDE DEF k, n
  <2>2. QED
    BY <1>1, <1>2, <1>3, <2>1
       DEF DeploymentInv, DeploymentTypes, SentIsAsked, NamesAreOwned, DeploymentLasts, At
<1>6. QED
  BY <1>4, <1>5

LEMMA DeploymentStep ==
    ASSUME DeploymentInv, DeploymentNext
    PROVE  DeploymentInv' /\ DeploymentLasts
<1>0. /\ request \in [Keys -> Request] /\ ensReady \in BOOLEAN /\ faults \in 0..MaxFaults
      /\ funds \in [Keys -> SUBSET {"ether", "token"}] /\ MaxFaults \in Nat
      /\ \A k \in Keys : ~At(k, "none") => request[k].name \in Names
  BY FaultsAssumption DEF DeploymentInv, DeploymentTypes, SentIsAsked
<1>1. CASE StartEns
  BY <1>1 DEF StartEns, ens, DeploymentInv, DeploymentTypes, SentIsAsked, NamesAreOwned,
              DeploymentLasts, At
<1>2. CASE Mine
  BY <1>2, MiningKeeps
<1>3. ASSUME NEW k \in Keys, NEW pc \in {"balance", "send", "sent", "refused"}, GoTo(k, pc),
             ~At(k, "none") /\ ~At(k, "sent"), faults' \in 0..MaxFaults,
             UNCHANGED <<ensReady, ens, funds, outcome>>,
             UNCHANGED pending \/ (pending' = Append(pending, k) /\ pc = "sent")
      PROVE  DeploymentInv' /\ DeploymentLasts
  <2>1. /\ request' \in [Keys -> Request]
        /\ request'[k].pc = pc /\ request'[k].name = request[k].name
        /\ \A j \in Keys : j # k => request'[j] = request[j]
    BY <1>0, <1>3, RequestGoes
  <2>2. QED
    BY <1>0, <1>3, <2>1, RequestsAreKept DEF ens
<1>4. ASSUME NEW k \in Keys, Serve(k) PROVE DeploymentInv' /\ DeploymentLasts
  BY <1>0, <1>3, <1>4 DEF Serve, ResolveName, CheckBalance, Send, At
<1>5. ASSUME NEW k \in Keys, RequestFails(k) PROVE DeploymentInv' /\ DeploymentLasts
  BY <1>0, <1>3, <1>5 DEF RequestFails, At
<1>6. ASSUME NEW k \in Keys, NEW n \in Names, PostCreate(k, n) \/ PostDeploy(k, n)
      PROVE  DeploymentInv' /\ DeploymentLasts
  <2>1. /\ request' \in [Keys -> Request]
        /\ request'[k].pc \in {"resolve", "send", "refused"} /\ request'[k].name = n
        /\ \A j \in Keys : j # k => request'[j] = request[j]
    <3>1. \A kind \in {"create", "deploy"}, pc \in {"resolve", "send", "refused"} :
            request' = [request EXCEPT ![k] = [kind |-> kind, name |-> n, pc |-> pc]] =>
               /\ request' \in [Keys -> Request]
               /\ request'[k].pc = pc /\ request'[k].name = n
               /\ \A j \in Keys : j # k => request'[j] = request[j]
      BY <1>0, <1>6, RequestIsPosted
    <3>2. QED
      BY <1>6, <3>1 DEF PostCreate, PostDeploy
  <2>2. At(k, "none") /\ UNCHANGED <<ensReady, ens, funds, pending, outcome, faults>>
    BY <1>6 DEF PostCreate, PostDeploy
  <2>3. QED
    BY <1>0, <1>6, <2>1, <2>2, RequestsAreKept DEF ens
<1>7. ASSUME NEW k \in Keys, NEW t \in {"ether", "token"}, Fund(k, t)
      PROVE  DeploymentInv' /\ DeploymentLasts
  <2>1. funds' \in [Keys -> SUBSET {"ether", "token"}]
    BY <1>0, <1>7 DEF Fund
  <2>2. QED
    BY <1>7, <2>1 DEF Fund, ens, DeploymentInv, DeploymentTypes, SentIsAsked, NamesAreOwned,
                      DeploymentLasts, At
<1>8. ASSUME NEW k \in Keys, Grant(k) PROVE DeploymentInv' /\ DeploymentLasts
  BY <1>7, <1>8 DEF Grant
<1>9. QED
  BY <1>1, <1>2, <1>4, <1>5, <1>6, <1>7, <1>8 DEF DeploymentNext

--------------------------------------------------------------------------------
(* Steps that leave the flows alone.                                             *)
LEMMA OthersKeepTheWallet ==
    ASSUME DeploymentInv, WalletInv, DeploymentLasts, UNCHANGED <<ui, flow>>,
           requests' \subseteq Own, added' \subseteq Own, added \subseteq added'
    PROVE  WalletInv'
<1> USE DEF ui, aside, WalletInv
<1>1. /\ WalletTypes' /\ ScreensFollow' /\ FlowsOwnTheWallet' /\ KeysAreAwaited'
  BY DEF WalletTypes, ScreensFollow, FlowsOwnTheWallet, KeysAreAwaited, DeploymentLasts
<1>2. FlowsAskedForTheirNames'
  BY DEF FlowsAskedForTheirNames, DeploymentLasts, Own, At
<1>3. CreatedIsDeployed'
  <2> SUFFICES ASSUME wallet.state = "Deployed", flow[wallet.key].kind = "create"
               PROVE  wallet.key \in code' /\ owner'[wallet.name] = wallet.key
    BY DEF CreatedIsDeployed
  <2>1. wallet.key \in code /\ owner[wallet.name] = wallet.key /\ wallet.key \in Keys
    BY DEF CreatedIsDeployed, FlowsOwnTheWallet, Own
  <2>2. wallet.name \in Names
    BY DEF FlowsAskedForTheirNames
  <2>3. QED
    BY <2>1, <2>2, KeysAssumption DEF DeploymentLasts
<1>4. QED
  BY <1>1, <1>2, <1>3

(* Steps that only move the user, open or close a modal or end a transfer.       *)
LEMMA MovesKeepTheWallet ==
    ASSUME WalletInv, UNCHANGED <<deployment, wallet, flow, device>>,
           screen' \in Screens \cup {"blank"}, modal' \in Blocking \cup Closable \cup {"none"},
           transferring' \in BOOLEAN, strayed' \in BOOLEAN, strayed => strayed',
           screen' \in Private \cup {"approve"} => wallet.state = "Deployed",
           screen' \in Private /\ screen \notin Private /\ ~strayed'
               => \A k \in Own : flow[k].pc # "subscribed"
    PROVE  WalletInv'
<1> USE DEF WalletInv, device, deployment, ens
<1>1. WalletTypes' /\ ScreensFollow'
  BY DEF WalletTypes, ScreensFollow
<1>2. FlowsOwnTheWallet'
  BY DEF FlowsOwnTheWallet, WalletTypes
<1>3. FlowsAskedForTheirNames' /\ KeysAreAwaited' /\ CreatedIsDeployed'
  BY DEF FlowsAskedForTheirNames, KeysAreAwaited, CreatedIsDeployed, At
<1>4. QED
  BY <1>1, <1>2, <1>3

LEMMA LinksKeepTheWallet ==
    ASSUME WalletInv, Recover \/ CancelRequest \/ \E s \in Private : Visit(s)
    PROVE  WalletInv'
<1>1. /\ UNCHANGED still /\ modal' \in {modal, "none"}
      /\ screen' \in Screens \cup {"blank"}
      /\ screen' \in Private \cup {"approve"} => wallet.state = "Deployed"
      /\ screen' \in Private => screen \in Private
  BY DEF Recover, CancelRequest, Visit, PrivateRoute, Push, Mount, WalletInv, ScreensFollow,
         Screens, Private
<1>2. QED
  BY <1>1, MovesKeepTheWallet DEF still, aside, WalletInv, WalletTypes

LEMMA BrowsingKeepsTheWallet ==
    ASSUME WalletInv, NEW s \in Screens, Browse(s)
    PROVE  WalletInv'
<1>1. /\ UNCHANGED <<deployment, wallet, transferring, flow, device>>
      /\ strayed' = (strayed \/ (screen' \in Private /\ \E k \in Own : flow[k].pc = "subscribed"))
  BY DEF Browse
<1>2. CASE s \in Private
  <2>1. /\ screen' \in Screens \cup {"blank"} /\ modal' \in {modal, "none"}
        /\ screen' \in Private \cup {"approve"} => wallet.state = "Deployed"
    BY <1>2 DEF Browse, PrivateRoute, Push, Mount, Screens, Private
  <2>2. QED
    BY <1>1, <2>1, MovesKeepTheWallet DEF WalletInv, WalletTypes
<1>3. CASE s \notin Private
  <2>1. screen' = (IF Shows(s) THEN s ELSE "blank") /\ modal' = "none"
    BY <1>3 DEF Browse
  <2>2. /\ screen' \in Screens \cup {"blank"} /\ screen' \notin Private
        /\ screen' = "approve" => wallet.state = "Deployed"
    BY <1>3, <2>1 DEF Shows, Private
  <2>3. QED
    BY <1>1, <2>1, <2>2, MovesKeepTheWallet DEF WalletInv, WalletTypes
<1>4. QED
  BY <1>2, <1>3

LEMMA ModalsKeepTheWallet ==
    ASSUME WalletInv, OpenModal \/ HideModal \/ TopUp \/ Transfer \/ TransferEnds
    PROVE  WalletInv'
<1>1. /\ UNCHANGED <<deployment, wallet, screen, strayed, flow, device>>
      /\ transferring' \in {transferring, TRUE, FALSE}
  BY DEF OpenModal, HideModal, TopUp, Address, Safello, Transfer, TransferEnds, Show, still, aside
<1>2. modal' \in Blocking \cup Closable \cup {"none"}
  BY DEF OpenModal, HideModal, TopUp, Address, Safello, Transfer, TransferEnds, Show, ShowModal,
         Blocking, Closable, WalletInv, WalletTypes
<1>3. QED
  BY <1>1, <1>2, MovesKeepTheWallet DEF WalletInv, WalletTypes, ScreensFollow

LEMMA DisconnectKeepsTheWallet ==
    ASSUME WalletInv, Disconnect
    PROVE  WalletInv'
<1> USE DEF WalletInv, device
<1>1. /\ wallet' = NoWallet /\ screen \in Private /\ screen' = "login" /\ modal' = "none"
      /\ UNCHANGED <<deployment, aside, flow, device>> /\ wallet.state = "Deployed"
  BY DEF Disconnect, Push, Mount, Private, ScreensFollow
<1>2. WalletTypes'
  BY <1>1 DEF WalletTypes, NoWallet, Screens, aside
<1>3. ScreensFollow' /\ KeysAreAwaited' /\ CreatedIsDeployed'
  BY <1>1 DEF ScreensFollow, KeysAreAwaited, CreatedIsDeployed, NoWallet, Private
<1>4. FlowsOwnTheWallet'
  BY <1>1 DEF FlowsOwnTheWallet, NoWallet, aside
<1>5. FlowsAskedForTheirNames'
  BY <1>1 DEF FlowsAskedForTheirNames, deployment, At, NoWallet
<1>6. QED
  BY <1>2, <1>3, <1>4, <1>5

(* Steps of one flow: what a flow may become, if it goes on and the wallet and   *)
(* the screens with it.                                                          *)
Pcs == {"none", "creating", "balance", "posted", "observing", "connecting", "subscribed", "done",
        "threw", "dead"}

LEMMA FlowGoes ==
    ASSUME WalletTypes, NEW k \in Own, NEW pc \in Pcs, Continue(k, pc)
    PROVE  /\ flow' \in [Own -> [kind : {"none", "create", "connect"}, name : Names \cup {Nobody}, pc : Pcs]]
           /\ flow'[k].pc = pc /\ flow'[k].kind = flow[k].kind /\ flow'[k].name = flow[k].name
           /\ \A j \in Own : j # k => flow'[j] = flow[j]
BY DEF Continue, WalletTypes, Pcs

LEMMA FlowBegins ==
    ASSUME WalletTypes, NEW k \in Own, NEW n \in Names, NEW kind \in {"create", "connect"},
           NEW pc \in {"creating", "connecting"}, Begin(k, kind, n, pc)
    PROVE  /\ flow' \in [Own -> [kind : {"none", "create", "connect"}, name : Names \cup {Nobody}, pc : Pcs]]
           /\ flow'[k].pc = pc /\ flow'[k].kind = kind /\ flow'[k].name = n
           /\ \A j \in Own : j # k => flow'[j] = flow[j]
BY DEF Begin, WalletTypes, Pcs

(* A flow that goes on without the user noticing.                                *)
LEMMA FlowGoesAlone ==
    ASSUME WalletInv, NEW k \in Own, NEW pc \in {"posted", "observing", "threw", "dead"}, Continue(k, pc),
           flow[k].pc \notin {"none", "subscribed"},
           flow[k].kind = "create" /\ pc \in {"posted", "observing"} => flow[k].pc = "posted",
           UNCHANGED <<ui, owner, code, request, added>>, requests' \subseteq Own
    PROVE  WalletInv'
<1> USE DEF WalletInv, ui, aside
<1>1. /\ flow' \in [Own -> [kind : {"none", "create", "connect"}, name : Names \cup {Nobody}, pc : Pcs]]
      /\ flow'[k].pc = pc /\ flow'[k].kind = flow[k].kind /\ flow'[k].name = flow[k].name
      /\ \A j \in Own : j # k => flow'[j] = flow[j]
  BY FlowGoes DEF Pcs
<1>2. WalletTypes' /\ ScreensFollow' /\ KeysAreAwaited'
  BY <1>1 DEF WalletTypes, ScreensFollow, KeysAreAwaited, FlowsOwnTheWallet, Pcs
<1>3. FlowsOwnTheWallet'
  BY <1>1 DEF FlowsOwnTheWallet
<1>4. FlowsAskedForTheirNames'
  BY <1>1 DEF FlowsAskedForTheirNames, At
<1>5. CreatedIsDeployed'
  BY <1>1 DEF CreatedIsDeployed, FlowsOwnTheWallet
<1>6. QED
  BY <1>2, <1>3, <1>4, <1>5

LEMMA ClickBegins ==
    ASSUME WalletInv, NEW k \in Own, NEW n \in Names, ClickCreate(k, n) \/ ClickConnect(k, n)
    PROVE  WalletInv'
<1> USE DEF WalletInv, ui, aside, device, deployment
<1>1. PICK kind \in {"create", "connect"}, pc \in {"creating", "connecting"} : Begin(k, kind, n, pc)
  BY DEF ClickCreate, ClickConnect
<1>2. flow[k].pc = "none" /\ UNCHANGED <<deployment, ui, device>>
  BY <1>1 DEF Begin, Fresh
<1>3. /\ flow' \in [Own -> [kind : {"none", "create", "connect"}, name : Names \cup {Nobody}, pc : Pcs]]
      /\ flow'[k].pc = pc /\ flow'[k].kind = kind /\ flow'[k].name = n
      /\ \A j \in Own : j # k => flow'[j] = flow[j]
  BY <1>1, FlowBegins
<1>4. WalletTypes' /\ ScreensFollow' /\ KeysAreAwaited'
  BY <1>2, <1>3 DEF WalletTypes, ScreensFollow, KeysAreAwaited, FlowsOwnTheWallet, Pcs, ens
<1>5. FlowsOwnTheWallet'
  BY <1>2, <1>3 DEF FlowsOwnTheWallet
<1>6. FlowsAskedForTheirNames'
  BY <1>2, <1>3 DEF FlowsAskedForTheirNames, At
<1>7. CreatedIsDeployed'
  BY <1>2, <1>3 DEF CreatedIsDeployed, FlowsOwnTheWallet
<1>8. QED
  BY <1>4, <1>5, <1>6, <1>7

(* The steps that set the wallet or move the user.                               *)
LEMMA FutureIsSet ==
    ASSUME WalletInv, NEW k \in Own, FutureWalletCreated(k)
    PROVE  WalletInv'
<1> USE DEF WalletInv, device, deployment
<1>0. In(k, "create", "creating") /\ UNCHANGED <<deployment, device>>
  BY DEF FutureWalletCreated
<1>1. CASE wallet.state # "None"
  BY <1>0, <1>1, FlowGoesAlone DEF FutureWalletCreated, SetFutureWallet, Throw, In, WalletTypes
<1>2. CASE wallet.state = "None"
  <2>1. /\ wallet' = [state |-> "Future", key |-> k, name |-> Nobody]
        /\ modal' \in {modal, "topUpAccount"} /\ Continue(k, "balance")
        /\ UNCHANGED <<screen, aside>> /\ screen \notin Private \cup {"approve"}
    BY <1>2 DEF FutureWalletCreated, SetFutureWallet, WalletOf, ShowModal, ScreensFollow
  <2>2. /\ flow' \in [Own -> [kind : {"none", "create", "connect"}, name : Names \cup {Nobody}, pc : Pcs]]
        /\ flow'[k].pc = "balance" /\ flow'[k].kind = flow[k].kind /\ flow'[k].name = flow[k].name
        /\ \A j \in Own : j # k => flow'[j] = flow[j]
    BY <2>1, FlowGoes DEF Pcs
  <2>3. WalletTypes'
    BY <1>0, <2>1, <2>2 DEF WalletTypes, Blocking, Pcs, aside
  <2>4. ScreensFollow' /\ KeysAreAwaited' /\ CreatedIsDeployed'
    BY <2>1 DEF ScreensFollow, KeysAreAwaited, CreatedIsDeployed
  <2>5. FlowsOwnTheWallet'
    BY <1>0, <1>2, <2>1, <2>2 DEF FlowsOwnTheWallet, In, aside
  <2>6. FlowsAskedForTheirNames'
    BY <1>0, <2>1, <2>2 DEF FlowsAskedForTheirNames, In, At
  <2>7. QED
    BY <2>3, <2>4, <2>5, <2>6
<1>3. QED
  BY <1>1, <1>2

LEMMA BalanceIsFound ==
    ASSUME DeploymentInv, WalletInv, NEW k \in Own, BalanceFound(k)
    PROVE  WalletInv'
<1> USE DEF WalletInv, device
<1>0. /\ In(k, "create", "balance") /\ PostDeploy(k, flow[k].name)
      /\ modal' \in {modal, "waitingForDeploy"}
      /\ Continue(k, "posted") /\ UNCHANGED <<wallet, screen, aside, device, owner, code>>
  BY DEF BalanceFound, PostDeploy, ShowModal, ens
<1>1. wallet.state = "Future" /\ wallet.key = k /\ flow[k].name \in Names /\ k \in Keys
  BY <1>0 DEF FlowsOwnTheWallet, FlowsAskedForTheirNames, In, Own
<1>2. /\ flow' \in [Own -> [kind : {"none", "create", "connect"}, name : Names \cup {Nobody}, pc : Pcs]]
      /\ flow'[k].pc = "posted" /\ flow'[k].kind = flow[k].kind /\ flow'[k].name = flow[k].name
      /\ \A j \in Own : j # k => flow'[j] = flow[j]
  BY <1>0, FlowGoes DEF Pcs
<1>3. /\ request'[k].pc = "resolve" /\ request'[k].name = flow[k].name
      /\ \A j \in Keys : j # k => request'[j] = request[j]
  <2>1. request \in [Keys -> Request]
    BY DEF DeploymentInv, DeploymentTypes
  <2>2. request' = [request EXCEPT ![k] = [kind |-> "deploy", name |-> flow[k].name, pc |-> "resolve"]]
    BY <1>0 DEF PostDeploy
  <2>3. QED
    BY <1>1, <2>1, <2>2
<1>4. WalletTypes' /\ ScreensFollow' /\ KeysAreAwaited' /\ CreatedIsDeployed'
  BY <1>0, <1>1, <1>2 DEF WalletTypes, ScreensFollow, KeysAreAwaited, CreatedIsDeployed, Blocking,
                          Pcs, aside
<1>5. FlowsOwnTheWallet'
  BY <1>0, <1>1, <1>2 DEF FlowsOwnTheWallet, aside
<1>6. FlowsAskedForTheirNames'
  BY <1>0, <1>1, <1>2, <1>3 DEF FlowsAskedForTheirNames, At, Own
<1>7. QED
  BY <1>4, <1>5, <1>6

LEMMA DeployedIsSet ==
    ASSUME DeploymentInv, WalletInv, NEW k \in Own, ContractDeployed(k)
    PROVE  WalletInv'
<1> USE DEF WalletInv, device, deployment
<1>0. In(k, "create", "observing") /\ k \in code /\ UNCHANGED <<deployment, device>>
  BY DEF ContractDeployed
<1>1. /\ wallet.state = "Future" /\ wallet.key = k /\ k \in Keys
      /\ ~At(k, "none") /\ request[k].name = flow[k].name /\ flow[k].name \in Names
  BY <1>0 DEF FlowsOwnTheWallet, FlowsAskedForTheirNames, In, Own
<1>2. /\ wallet' = [state |-> "Deployed", key |-> k, name |-> flow[k].name]
      /\ (\E s \in Private : Push(s)) /\ Continue(k, "done") /\ UNCHANGED aside
  BY <1>1 DEF ContractDeployed, WalletOf
<1>2a. screen' \in Private \cup {"blank"} /\ modal' \in {modal, "none"}
  BY <1>2 DEF Push, Mount
<1>3. /\ flow' \in [Own -> [kind : {"none", "create", "connect"}, name : Names \cup {Nobody}, pc : Pcs]]
      /\ flow'[k].pc = "done" /\ flow'[k].kind = flow[k].kind /\ flow'[k].name = flow[k].name
      /\ \A j \in Own : j # k => flow'[j] = flow[j]
  BY <1>2, FlowGoes DEF Pcs
<1>4. owner[flow[k].name] = k
  BY <1>0, <1>1 DEF DeploymentInv, NamesAreOwned
<1>5. WalletTypes'
  BY <1>0, <1>1, <1>2, <1>2a, <1>3 DEF WalletTypes, Pcs, Screens, aside
<1>6. ScreensFollow' /\ KeysAreAwaited' /\ CreatedIsDeployed'
  BY <1>0, <1>1, <1>2, <1>4 DEF ScreensFollow, KeysAreAwaited, CreatedIsDeployed
<1>7. FlowsOwnTheWallet'
  BY <1>0, <1>1, <1>2, <1>3 DEF FlowsOwnTheWallet, aside
<1>8. FlowsAskedForTheirNames'
  BY <1>0, <1>1, <1>2, <1>3 DEF FlowsAskedForTheirNames, At
<1>9. QED
  BY <1>5, <1>6, <1>7, <1>8

LEMMA ConnectedIsSet ==
    ASSUME WalletInv, NEW k \in Own, RequestAnswered(k)
    PROVE  WalletInv'
<1> USE DEF WalletInv, device, deployment
<1>0. In(k, "connect", "posted") /\ UNCHANGED <<deployment, device>>
  BY DEF RequestAnswered
<1>1. CASE wallet.state # "None"
  BY <1>0, <1>1, FlowGoesAlone DEF RequestAnswered, SetConnected, Throw, In, WalletTypes
<1>2. CASE wallet.state = "None"
  <2>1. /\ wallet' = [state |-> "Deployed", key |-> k, name |-> flow[k].name]
        /\ Push("approve") /\ Continue(k, "subscribed") /\ UNCHANGED aside
        /\ flow[k].name \in Names
    BY <1>0, <1>2 DEF RequestAnswered, SetConnected, WalletOf, In, FlowsAskedForTheirNames
  <2>1a. screen' \in {"approve", "blank"} /\ modal' \in {modal, "none"}
    BY <2>1 DEF Push, Mount
  <2>2. /\ flow' \in [Own -> [kind : {"none", "create", "connect"}, name : Names \cup {Nobody}, pc : Pcs]]
        /\ flow'[k].pc = "subscribed" /\ flow'[k].kind = "connect" /\ flow'[k].name = flow[k].name
        /\ \A j \in Own : j # k => flow'[j] = flow[j]
    BY <1>0, <2>1, FlowGoes DEF Pcs, In
  <2>3. WalletTypes'
    BY <1>0, <2>1, <2>1a, <2>2 DEF WalletTypes, Screens, Pcs, aside
  <2>4. ScreensFollow' /\ KeysAreAwaited' /\ CreatedIsDeployed'
    BY <2>1, <2>2 DEF ScreensFollow, KeysAreAwaited, CreatedIsDeployed
  <2>5. FlowsOwnTheWallet'
    BY <1>2, <2>1, <2>1a, <2>2 DEF FlowsOwnTheWallet, Private, aside
  <2>6. FlowsAskedForTheirNames'
    BY <1>0, <2>1, <2>2 DEF FlowsAskedForTheirNames, At
  <2>7. QED
    BY <2>3, <2>4, <2>5, <2>6
<1>3. QED
  BY <1>1, <1>2

LEMMA KeyIsAdded ==
    ASSUME WalletInv, NEW k \in Own, KeyAdded(k)
    PROVE  WalletInv'
<1> USE DEF WalletInv, device, deployment
<1>0. /\ In(k, "connect", "subscribed") /\ k \in added
      /\ (\E s \in Private : PrivateRoute(s)) /\ Continue(k, "done")
      /\ UNCHANGED <<deployment, wallet, aside, device>>
  BY DEF KeyAdded
<1>1. /\ screen' \in Screens \cup {"blank"} /\ modal' \in {modal, "none"}
      /\ screen' \in Private \cup {"approve"} => wallet.state = "Deployed"
  BY <1>0 DEF PrivateRoute, Push, Mount, Screens, Private
<1>2. /\ flow' \in [Own -> [kind : {"none", "create", "connect"}, name : Names \cup {Nobody}, pc : Pcs]]
      /\ flow'[k].pc = "done" /\ flow'[k].kind = flow[k].kind /\ flow'[k].name = flow[k].name
      /\ \A j \in Own : j # k => flow'[j] = flow[j]
  BY <1>0, FlowGoes DEF Pcs
<1>3. WalletTypes'
  BY <1>0, <1>1, <1>2 DEF WalletTypes, Pcs, aside
<1>4. ScreensFollow' /\ KeysAreAwaited' /\ CreatedIsDeployed'
  BY <1>0, <1>1, <1>2 DEF ScreensFollow, KeysAreAwaited, CreatedIsDeployed, FlowsOwnTheWallet
<1>5. FlowsOwnTheWallet'
  BY <1>0, <1>1, <1>2 DEF FlowsOwnTheWallet, In, aside
<1>6. FlowsAskedForTheirNames'
  BY <1>0, <1>2 DEF FlowsAskedForTheirNames, At, In
<1>7. QED
  BY <1>3, <1>4, <1>5, <1>6

--------------------------------------------------------------------------------
LEMMA WebWalletStarts == Init => WebWalletInv
<1> SUFFICES ASSUME Init PROVE WebWalletInv
  OBVIOUS
<1>1. DeploymentTypes
  <2>1. NoRequest \in Request
    BY DEF NoRequest, Request
  <2>2. pending \in Seq(Keys)
    BY EmptySeq DEF Init, DeploymentInit
  <2>3. /\ owner \in [Names -> Keys \cup {Nobody}] /\ code \subseteq Keys
        /\ funds \in [Keys -> SUBSET {"ether", "token"}] /\ faults \in 0..MaxFaults
        /\ outcome \in [Keys -> {"none", "ok", "reverted"}] /\ request \in [Keys -> Request]
    BY <2>1, FaultsAssumption DEF Init, DeploymentInit
  <2>4. ensReady \in BOOLEAN
    BY DEF Init, DeploymentInit
  <2>5. QED
    BY <2>2, <2>3, <2>4 DEF DeploymentTypes
<1>2. SentIsAsked /\ NamesAreOwned
  BY EmptySeq DEF Init, DeploymentInit, SentIsAsked, NamesAreOwned, NoRequest, At
<1>3. WalletTypes
  BY DEF Init, WalletTypes, NoWallet, NoFlow, Screens, Blocking, Closable
<1>4. ScreensFollow /\ KeysAreAwaited /\ CreatedIsDeployed
  BY DEF Init, ScreensFollow, KeysAreAwaited, CreatedIsDeployed, NoWallet, Private
<1>5. FlowsOwnTheWallet /\ FlowsAskedForTheirNames
  BY DEF Init, FlowsOwnTheWallet, FlowsAskedForTheirNames, NoWallet, NoFlow
<1>6. QED
  BY <1>1, <1>2, <1>3, <1>4, <1>5 DEF WebWalletInv, DeploymentInv, WalletInv

LEMMA DeploymentStands ==
    ASSUME DeploymentInv, UNCHANGED <<ensReady, ens, funds, request, pending, outcome>>,
           faults' \in 0..MaxFaults
    PROVE  DeploymentInv' /\ DeploymentLasts
BY DEF ens, DeploymentInv, DeploymentTypes, SentIsAsked, NamesAreOwned, DeploymentLasts, At

LEMMA WebWalletStep == WebWalletInv /\ [Next]_vars => WebWalletInv'
<1> SUFFICES ASSUME WebWalletInv, [Next]_vars PROVE WebWalletInv'
  OBVIOUS
<1>0. DeploymentInv /\ WalletInv /\ faults \in 0..MaxFaults /\ Own \subseteq Keys
  BY DEF WebWalletInv, DeploymentInv, DeploymentTypes, Own
<1>1. UNCHANGED deployment => DeploymentInv' /\ DeploymentLasts
  BY <1>0, DeploymentStands DEF deployment, ens
<1>2. ASSUME DeploymentNext, UNCHANGED <<ui, flow, device>> PROVE WebWalletInv'
  <2>1. DeploymentInv' /\ DeploymentLasts
    BY <1>0, <1>2, DeploymentStep
  <2>2. WalletInv'
    BY <1>0, <1>2, <2>1, OthersKeepTheWallet DEF device, WalletInv, WalletTypes
  <2>3. QED
    BY <2>1, <2>2 DEF WebWalletInv
<1>3. CASE \/ Backend /\ UNCHANGED <<ui, flow, device>>
           \/ (\E k \in Rivals : Rival(k)) /\ UNCHANGED <<ui, flow, device>>
           \/ (\E k \in Own : TopUpAccount(k)) /\ UNCHANGED <<ui, flow, device>>
  <2>1. CASE Backend \/ \E k \in Own : TopUpAccount(k)
    BY <1>0, <1>2, <1>3, <2>1 DEF Backend, TopUpAccount, DeploymentNext
  <2>2. CASE \E k \in Rivals : Rival(k)
    BY <1>2, <1>3, <2>2, RivalsAssumption DEF Rival, DeploymentNext
  <2>3. QED
    BY <1>3, <2>1, <2>2
<1>4. ASSUME NEW k \in Own, FlowStep(k) PROVE WebWalletInv'
  <2>1. DeploymentInv'
    <3>1. CASE BalanceFound(k)
      <4>1. PostDeploy(k, flow[k].name) /\ flow[k].name \in Names
        BY <1>0, <3>1 DEF BalanceFound, WalletInv, FlowsAskedForTheirNames, In
      <4>2. QED
        BY <1>0, <4>1, DeploymentStep DEF DeploymentNext
    <3>2. CASE ~BalanceFound(k)
      BY <1>1, <1>4, <3>2 DEF FlowStep, FutureWalletCreated, DeployAnswered, ContractDeployed,
                              PostRequest, RequestAnswered, KeyAdded
    <3>3. QED
      BY <3>1, <3>2
  <2>2. WalletInv'
    <3>1. CASE DeployAnswered(k)
      BY <1>0, <3>1, FlowGoesAlone
         DEF DeployAnswered, Throw, In, deployment, ens, device, WalletInv, WalletTypes
    <3>2. CASE PostRequest(k)
      <4>1. /\ Continue(k, "posted") /\ flow[k].kind = "connect" /\ flow[k].pc = "connecting"
            /\ UNCHANGED <<ui, owner, code, request, added>> /\ requests' \subseteq Own
        BY <1>0, <3>2 DEF PostRequest, In, deployment, WalletInv, WalletTypes
      <4>2. QED
        BY <1>0, <4>1, FlowGoesAlone
    <3>3. QED
      BY <1>0, <1>4, <3>1, <3>2, FutureIsSet, BalanceIsFound, DeployedIsSet, ConnectedIsSet, KeyIsAdded
         DEF FlowStep
  <2>3. QED
    BY <2>1, <2>2 DEF WebWalletInv
<1>5. ASSUME NEW k \in Own, ObserverDies(k) PROVE WebWalletInv'
  <2>1. /\ Continue(k, "dead") /\ flow[k].pc \in {"balance", "observing"} /\ faults' = faults + 1
        /\ faults < MaxFaults
        /\ UNCHANGED <<ensReady, ens, funds, request, pending, outcome, ui, device>>
    BY <1>5 DEF ObserverDies
  <2>2. DeploymentInv'
    BY <1>0, <2>1, FaultsAssumption, DeploymentStands
  <2>3. WalletInv'
    BY <1>0, <2>1, FlowGoesAlone DEF ens, device, WalletInv, WalletTypes
  <2>4. QED
    BY <2>2, <2>3 DEF WebWalletInv
<1>6. ASSUME NEW k \in Own, Approve(k) \/ Reject(k) PROVE WebWalletInv'
  <2>1. DeploymentInv' /\ DeploymentLasts /\ UNCHANGED <<ui, flow>>
    BY <1>1, <1>6 DEF Approve, Reject
  <2>2. requests' \subseteq Own /\ added' \subseteq Own /\ added \subseteq added'
    BY <1>0, <1>6 DEF Approve, Reject, WalletInv, WalletTypes
  <2>3. QED
    BY <1>0, <2>1, <2>2, OthersKeepTheWallet DEF WebWalletInv
<1>7. CASE User
  <2>1. UNCHANGED deployment
    BY <1>7 DEF User, ClickCreate, ClickConnect, Begin, Visit, Browse, Recover, CancelRequest,
                Disconnect, OpenModal, HideModal, TopUp, Address, Safello, Transfer, TransferEnds,
                Show, still
  <2>2. WalletInv'
    BY <1>0, <1>7, ClickBegins, LinksKeepTheWallet, BrowsingKeepsTheWallet, ModalsKeepTheWallet,
       DisconnectKeepsTheWallet DEF User
  <2>3. QED
    BY <1>1, <2>1, <2>2 DEF WebWalletInv
<1>8. CASE UNCHANGED vars
  <2>1. DeploymentInv' /\ DeploymentLasts /\ UNCHANGED <<ui, flow, device>>
    BY <1>1, <1>8 DEF vars
  <2>2. QED
    BY <1>0, <2>1, OthersKeepTheWallet DEF WebWalletInv, device, WalletInv, WalletTypes
<1>9. QED
  BY <1>3, <1>4, <1>5, <1>6, <1>7, <1>8 DEF Next

(* The invariant holds whatever users, owners and rivals do.                     *)
THEOREM WebWalletInvariant == Spec => []WebWalletInv
BY WebWalletStarts, WebWalletStep, PTL DEF Spec

(* A name resolves to a wallet that exists and that asked for it, although two   *)
(* requests for one name both pass the relayer's check (WalletService.ts:43-52). *)
THEOREM NamesHaveOwners == Spec => []NamesAreOwned
<1>1. WebWalletInv => NamesAreOwned
  BY DEF WebWalletInv, DeploymentInv
<1>2. QED
  BY <1>1, WebWalletInvariant, PTL

(* The private screens are shown only to a deployed wallet and, unless the user  *)
(* went Back or Forward to them while a request was waiting, only for a key that *)
(* the wallet contract has (storage/WalletService.ts:19-21, 46-50,               *)
(* PrivateRoute.tsx:9-25).                                                       *)
THEOREM HomeIsForHolders == Spec => []HomeHoldsKey
<1>1. WebWalletInv => HomeHoldsKey
  BY DEF WebWalletInv, WalletInv, ScreensFollow, KeysAreAwaited, FlowsOwnTheWallet, HomeHoldsKey
<1>2. QED
  BY <1>1, WebWalletInvariant, PTL

(* A wallet created here that counts as deployed has a contract and its name     *)
(* (storage/WalletService.ts:35-44).                                             *)
THEOREM CreatedWalletsAreDeployed == Spec => []CreatedIsDeployed
<1>1. WebWalletInv => CreatedIsDeployed
  BY DEF WebWalletInv, WalletInv
<1>2. QED
  BY <1>1, WebWalletInvariant, PTL

(* A future wallet becomes the deployed wallet of its key, with the contract and *)
(* the name its own, and nothing else replaces it: a second creation and a       *)
(* connection throw, the deployment that is awaited is its own, and Disconnect   *)
(* is out of reach (storage/WalletService.ts:23-50, Login.tsx:18-37).            *)
THEOREM FutureWalletsAreKept == Spec => FutureIsKept
<1> DEFINE Kept == wallet.state = "Future" /\ wallet' # wallet =>
                     /\ wallet'.state = "Deployed" /\ wallet'.key = wallet.key
                     /\ wallet.key \in code /\ owner[wallet'.name] = wallet.key
<1>1. WebWalletInv /\ [Next]_vars => Kept
  <2> SUFFICES ASSUME WebWalletInv, [Next]_vars, wallet.state = "Future", wallet' # wallet
               PROVE  /\ wallet'.state = "Deployed" /\ wallet'.key = wallet.key
                      /\ wallet.key \in code /\ owner[wallet'.name] = wallet.key
    OBVIOUS
  <2>1. PICK k \in Own : ContractDeployed(k)
    <3>1. ~Disconnect
      BY DEF Disconnect, WebWalletInv, WalletInv, ScreensFollow
    <3>2. ~User
      <4>1. ASSUME NEW s \in Private PROVE ~Visit(s)
        BY DEF Visit, still
      <4>2. ASSUME NEW s \in Screens PROVE ~Browse(s)
        BY DEF Browse
      <4>3. QED
        BY <3>1, <4>1, <4>2
           DEF User, ClickCreate, ClickConnect, Begin, ui, Recover, CancelRequest, OpenModal,
               HideModal, TopUp, Address, Safello, Show, still, Transfer, TransferEnds
    <3>3. ~UNCHANGED ui /\ ~UNCHANGED vars
      BY DEF ui, vars
    <3>4. PICK k \in Own : FlowStep(k)
      BY <3>2, <3>3 DEF Next, ObserverDies, Approve, Reject
    <3>5. ~FutureWalletCreated(k) /\ ~RequestAnswered(k)
      BY <3>3 DEF FutureWalletCreated, SetFutureWallet, RequestAnswered, SetConnected, Throw
    <3>6. ~BalanceFound(k) /\ ~PostRequest(k) /\ ~KeyAdded(k) /\ ~DeployAnswered(k)
      BY <3>3 DEF BalanceFound, PostRequest, KeyAdded, DeployAnswered, Throw, ui
    <3>7. QED
      BY <3>4, <3>5, <3>6 DEF FlowStep
  <2>2. In(k, "create", "observing") /\ k \in code
    BY <2>1 DEF ContractDeployed
  <2>3. wallet.key = k /\ request[k].name = flow[k].name
    BY <2>2 DEF WebWalletInv, WalletInv, FlowsOwnTheWallet, FlowsAskedForTheirNames, In
  <2>4. owner[flow[k].name] = k
    BY <2>2, <2>3 DEF WebWalletInv, DeploymentInv, NamesAreOwned
  <2>5. wallet' = [state |-> "Deployed", key |-> k, name |-> flow[k].name]
    BY <2>1, <2>3 DEF ContractDeployed, WalletOf
  <2>6. QED
    BY <2>2, <2>3, <2>4, <2>5
<1>2. QED
  BY <1>1, WebWalletInvariant, PTL DEF Spec, FutureIsKept
================================================================================
