-------------------------------- MODULE WebWallet --------------------------------
(* The web wallet: its wallet service (None, Future, Deployed), the screens and *)
(* modals that let its user act, and the flows that a click starts and that go  *)
(* on, await by await, whatever the user does meanwhile, the browser's Back and *)
(* Forward included.  A creation runs over FutureWalletFactory and the relayer  *)
(* of Deployment; a connection asks the owner of a wallet to add a key.  Other  *)
(* clients create wallets with rival keys and take names away.                  *)
EXTENDS Deployment

CONSTANT Rivals     \* keys of other clients; the others are generated in the wallet
ASSUME RivalsAssumption == Rivals \subseteq Keys

VARIABLES
    wallet,     \* walletService: state, the key of userWallet, its name
    screen,     \* what App renders: the screen of the path, or "blank" once a render threw
    modal,      \* what the Modal component of the screen shows
    transferring, \* whether the handler of a transfer awaits its end (bound: one at a time)
    strayed,    \* history: Back or Forward reached a private screen before the key was added
    flow,       \* the flow that generated each key
    requests,   \* the keys with an authorisation request at the relayer
    added       \* the keys that were added to a wallet

aside == <<transferring, strayed>>
ui == <<wallet, screen, modal, aside>>
device == <<requests, added>>
vars == <<deployment, ui, flow, device>>

Own == Keys \ Rivals
(* "settings" stands for the private screens that hold no Modal.                *)
Private == {"home", "settings"}
WithModal == {"login", "home"}
Screens == Private \cup {"login", "approve", "recovery"}
Blocking == {"topUpAccount", "address", "safello", "waitingForDeploy", "waitingForTransfer"}
Closable == {"transfer", "request"}
NoWallet == [state |-> "None", key |-> Nobody, name |-> Nobody]
WalletOf(state, k, n) == [state |-> state, key |-> k, name |-> n]
NoFlow == [kind |-> "none", name |-> Nobody, pc |-> "none"]

Init ==
    /\ DeploymentInit
    /\ wallet = NoWallet /\ screen = "login" /\ modal = "none"
    /\ transferring = FALSE /\ strayed = FALSE
    /\ flow = [k \in Own |-> NoFlow] /\ requests = {} /\ added = {}

In(k, kind, pc) == flow[k].kind = kind /\ flow[k].pc = pc
Continue(k, pc) == flow' = [flow EXCEPT ![k].pc = pc]
Throw(k) == Continue(k, "threw") /\ UNCHANGED ui
(* A screen is mounted, its Modal closed; nothing is, once the tree is gone.    *)
Mount(s) == IF screen = "blank" THEN UNCHANGED <<screen, modal>> ELSE screen' = s /\ modal' = "none"
(* history.push: the screen of the same path stays mounted.                     *)
Push(s) == IF s = screen THEN UNCHANGED <<screen, modal>> ELSE Mount(s)
(* PrivateRoute: App reads isAuthorized when it renders; the route that         *)
(* redirects takes the place of the screen, Login's too.                        *)
PrivateRoute(s) == IF wallet.state = "Deployed" THEN Push(s) ELSE Mount("login")
(* modalService.showModal: only a mounted Modal listens.                        *)
ShowModal(m) == modal' = IF screen \in WithModal THEN m ELSE modal
(* Each flow generates a fresh key; they are used in one order.                 *)
Fresh(k) == flow[k].pc = "none" /\ k = CHOOSE j \in Own : flow[j].pc = "none"
Begin(k, kind, n, pc) ==
    /\ screen = "login" /\ modal = "none" /\ Fresh(k)
    /\ flow' = [flow EXCEPT ![k] = [kind |-> kind, name |-> n, pc |-> pc]]
    /\ UNCHANGED <<deployment, ui, device>>

--------------------------------------------------------------------------------
(* Creating a wallet: Login.onCreateCLick.  Any name may be on offer: it may    *)
(* have been taken since it was suggested.                                      *)
ClickCreate(k, n) == Begin(k, "create", n, "creating")

(* Mutant: the ensure of setFutureWallet is left out.                           *)
SetFutureWalletAnyway(k) ==
    /\ wallet' = WalletOf("Future", k, Nobody) /\ ShowModal("topUpAccount")
    /\ Continue(k, "balance") /\ UNCHANGED <<screen, aside>>

(* setFutureWallet and the modal that asks for a balance, or WalletOverriden.   *)
SetFutureWallet(k) ==
    IF wallet.state = "None"
      THEN /\ wallet' = WalletOf("Future", k, Nobody) /\ ShowModal("topUpAccount")
           /\ Continue(k, "balance") /\ UNCHANGED <<screen, aside>>
      ELSE Throw(k)

FutureWalletCreated(k) ==
    /\ In(k, "create", "creating") /\ SetFutureWallet(k)
    /\ UNCHANGED <<deployment, device>>

(* The BalanceObserver finds a balance; deploy posts.                           *)
BalanceFound(k) ==
    /\ In(k, "create", "balance") /\ funds[k] # {}
    /\ PostDeploy(k, flow[k].name)
    /\ ShowModal("waitingForDeploy") /\ Continue(k, "posted")
    /\ UNCHANGED <<wallet, screen, aside, device>>

(* Mutant: a refusal is taken for an answer.                                    *)
DeployUnchecked(k) ==
    /\ In(k, "create", "posted") /\ request[k].pc \in {"sent", "refused"}
    /\ Continue(k, "observing") /\ UNCHANGED <<deployment, ui, device>>

(* The answer 201 starts a DeploymentObserver, which nothing ever stops; any    *)
(* other answer is thrown out of the flow.                                      *)
DeployAnswered(k) ==
    /\ In(k, "create", "posted") /\ request[k].pc \in {"sent", "refused"}
    /\ IF At(k, "sent") THEN Continue(k, "observing") /\ UNCHANGED ui ELSE Throw(k)
    /\ UNCHANGED <<deployment, device>>

(* The code is there: setDeployed, and to the screen the user came for, which   *)
(* may be any private one.                                                      *)
ContractDeployed(k) ==
    /\ In(k, "create", "observing") /\ k \in code
    /\ IF wallet.state = "Future"
         THEN /\ wallet' = WalletOf("Deployed", wallet.key, flow[k].name)
              /\ (\E s \in Private : Push(s)) /\ Continue(k, "done") /\ UNCHANGED aside
         ELSE Throw(k)
    /\ UNCHANGED <<deployment, device>>

(* A rejected call ends the loop of an observer; its promise never resolves.    *)
ObserverDies(k) ==
    /\ flow[k].pc \in {"balance", "observing"}
    /\ faults < MaxFaults /\ faults' = faults + 1
    /\ Continue(k, "dead")
    /\ UNCHANGED <<ensReady, ens, funds, request, pending, outcome, ui, device>>

--------------------------------------------------------------------------------
(* Connecting: Login.onConnectionClick with a name that was found to exist.     *)
ClickConnect(k, n) == owner[n] # Nobody /\ Begin(k, "connect", n, "connecting")

(* sdk.connect generates the key and posts the request before anybody has asked *)
(* whether the wallet can be set.                                               *)
PostRequest(k) ==
    /\ In(k, "connect", "connecting")
    /\ requests' = requests \cup {k} /\ Continue(k, "posted")
    /\ UNCHANGED <<deployment, ui, added>>

(* walletService.connect, the subscription and /approve, or WalletOverriden.    *)
SetConnected(k) ==
    IF wallet.state = "None"
      THEN /\ wallet' = WalletOf("Deployed", k, flow[k].name)
           /\ Push("approve") /\ Continue(k, "subscribed") /\ UNCHANGED aside
      ELSE Throw(k)

RequestAnswered(k) ==
    /\ In(k, "connect", "posted") /\ SetConnected(k)
    /\ UNCHANGED <<deployment, device>>

(* The owner confirms a request on another device, or rejects it.               *)
Approve(k) ==
    /\ k \in requests
    /\ requests' = requests \ {k} /\ added' = added \cup {k}
    /\ UNCHANGED <<deployment, ui, flow>>
Reject(k) ==
    /\ k \in requests /\ requests' = requests \ {k}
    /\ UNCHANGED <<deployment, ui, flow, added>>

(* loginAndChangeScreen on KeyAdded, wherever the user is by now: to the screen *)
(* the user came for.                                                           *)
KeyAdded(k) ==
    /\ In(k, "connect", "subscribed") /\ k \in added
    /\ (\E s \in Private : PrivateRoute(s)) /\ Continue(k, "done")
    /\ UNCHANGED <<deployment, wallet, aside, device>>

--------------------------------------------------------------------------------
(* The links: "Recover from backup" and "Cancel request", which changes the     *)
(* screen and nothing else; and the sidebar, whose screens are private.         *)
still == <<deployment, wallet, aside, flow, device>>
Recover == screen = "approve" /\ Push("recovery") /\ UNCHANGED still
(* Mutant: the link goes where the logo goes.                                   *)
CancelRequestHome == screen \in {"approve", "recovery"} /\ PrivateRoute("home") /\ UNCHANGED still
CancelRequest == screen \in {"approve", "recovery"} /\ Push("login") /\ UNCHANGED still
Visit(s) == screen \in Private \ {s} /\ modal = "none" /\ PrivateRoute(s) /\ UNCHANGED still

(* A wallet's name and address, without which ApproveScreen throws.             *)
Shows(s) == s = "approve" => wallet.state = "Deployed"

(* Back and Forward, which no modal covers.  The session history may hold any   *)
(* screen, also from before the page was loaded.                                *)
Browse(s) ==
    /\ screen \notin {"blank", s}
    /\ IF s \in Private THEN PrivateRoute(s)
       ELSE screen' = (IF Shows(s) THEN s ELSE "blank") /\ modal' = "none"
    /\ strayed' = (strayed \/ (screen' \in Private /\ \E k \in Own : flow[k].pc = "subscribed"))
    /\ UNCHANGED <<deployment, wallet, transferring, flow, device>>

Disconnect ==
    /\ screen \in Private /\ modal = "none"
    /\ wallet' = NoWallet /\ Push("login")
    /\ UNCHANGED <<deployment, aside, flow, device>>

(* The modals: those with ModalWrapperClosable can be closed.                   *)
Show(from, to) == modal \in from /\ ShowModal(to) /\ UNCHANGED <<screen, still>>
OpenModal == screen = "home" /\ \E m \in Closable : Show({"none"}, m)
HideModal == Show(Closable, "none")
Address == Show({"topUpAccount"}, "address")
Safello == Show({"topUpAccount"}, "safello")
TopUp == Address \/ Safello

(* A transfer hides, when it ends, whatever modal is shown by then; one that    *)
(* throws hides nothing.                                                        *)
Transfer ==
    /\ modal = "transfer" /\ ~transferring
    /\ ShowModal("waitingForTransfer") /\ transferring' = TRUE
    /\ UNCHANGED <<deployment, wallet, screen, strayed, flow, device>>
TransferEnds ==
    /\ transferring /\ transferring' = FALSE
    /\ ShowModal("none") \/ UNCHANGED modal
    /\ UNCHANGED <<deployment, wallet, screen, strayed, flow, device>>

--------------------------------------------------------------------------------
FlowStep(k) ==
    \/ FutureWalletCreated(k) \/ BalanceFound(k) \/ DeployAnswered(k) \/ ContractDeployed(k)
    \/ PostRequest(k) \/ RequestAnswered(k) \/ KeyAdded(k)

User ==
    \/ \E k \in Own, n \in Names : ClickCreate(k, n) \/ ClickConnect(k, n)
    \/ \E s \in Private : Visit(s)
    \/ \E s \in Screens : Browse(s)
    \/ Recover \/ CancelRequest \/ Disconnect
    \/ OpenModal \/ HideModal \/ TopUp \/ Transfer \/ TransferEnds

Backend ==
    \/ StartEns \/ Mine
    \/ \E k \in Keys : Serve(k) \/ RequestFails(k) \/ Grant(k)

(* The address of a future wallet is known once it is shown.                    *)
TopUpAccount(k) ==
    /\ flow[k].kind = "create" /\ flow[k].pc # "creating"
    /\ \E t \in {"ether", "token"} : Fund(k, t)
(* Rivals pay in ether, before they deploy.                                     *)
Rival(k) ==
    \/ At(k, "none") /\ Fund(k, "ether")
    \/ \E n \in Names : IF funds[k] = {} THEN PostCreate(k, n) ELSE PostDeploy(k, n)

Next ==
    \/ \E k \in Own : FlowStep(k) \/ ObserverDies(k) \/ Approve(k) \/ Reject(k)
    \/ User
    \/ Backend /\ UNCHANGED <<ui, flow, device>>
    \/ (\E k \in Rivals : Rival(k)) /\ UNCHANGED <<ui, flow, device>>
    \/ (\E k \in Own : TopUpAccount(k)) /\ UNCHANGED <<ui, flow, device>>

(* The browser and the relayer run on and transactions are mined, in any order; *)
(* users, owners and rivals do what they like.                                  *)
Due ==
    \/ \E k \in Own : FlowStep(k)
    \/ (Mine \/ \E k \in Keys : Serve(k)) /\ UNCHANGED <<ui, flow, device>>

Spec == Init /\ [][Next]_vars /\ WF_vars(Due)

--------------------------------------------------------------------------------
(* Every value is of its type.                                                  *)
TypeOK ==
    /\ ensReady \in BOOLEAN /\ owner \in [Names -> Keys \cup {Nobody}] /\ code \subseteq Keys
    /\ funds \in [Keys -> SUBSET {"ether", "token"}] /\ request \in [Keys -> Request]
    /\ pending \in Seq(Keys) /\ outcome \in [Keys -> {"none", "ok", "reverted"}]
    /\ faults \in 0..MaxFaults
    /\ wallet \in [state : {"None", "Future", "Deployed"}, key : Own \cup {Nobody},
                   name : Names \cup {Nobody}]
    /\ screen \in Screens \cup {"blank"} /\ modal \in Blocking \cup Closable \cup {"none"}
    /\ transferring \in BOOLEAN /\ strayed \in BOOLEAN
    /\ flow \in [Own -> [kind : {"none", "create", "connect"}, name : Names \cup {Nobody},
                         pc : {"none", "creating", "balance", "posted", "observing", "connecting",
                               "subscribed", "done", "threw", "dead"}]]
    /\ requests \subseteq Own /\ added \subseteq Own

(* The private screens are shown only to a deployed wallet and, unless the user *)
(* went Back or Forward to them while a request was waiting, only to one whose  *)
(* contract exists and has the key, although isAuthorized is true from          *)
(* connect() on, before the request is approved                                 *)
(* (storage/WalletService.ts:19-21, 46-50, PrivateRoute.tsx:9-25).              *)
HomeHoldsKey ==
    screen \in Private =>
        /\ wallet.state = "Deployed"
        /\ strayed \/ wallet.key \in code \cup added

(* A wallet that was created here and counts as deployed is deployed, under its *)
(* name, although setDeployed takes whatever userWallet is by then              *)
(* (storage/WalletService.ts:35-44).                                            *)
CreatedIsDeployed ==
    wallet.state = "Deployed" /\ flow[wallet.key].kind = "create"
        => wallet.key \in code /\ owner[wallet.name] = wallet.key

(* A future wallet, whose key exists nowhere else, is replaced by nothing but   *)
(* the deployed wallet of its key, with the contract there and the name its own:*)
(* not by a creation or a connection that was started before it or beside it,   *)
(* nor by a Disconnect, wherever Back and Forward take the user                 *)
(* (storage/WalletService.ts:23-50, Login.tsx:18-37).                           *)
FutureIsKept ==
    [][wallet.state = "Future" /\ wallet' # wallet =>
          /\ wallet'.state = "Deployed" /\ wallet'.key = wallet.key
          /\ wallet.key \in code /\ owner[wallet'.name] = wallet.key]_vars

NameLost(k) == \E n \in Names : flow[k].name = n /\ owner[n] \notin {Nobody, k}

(* A future wallet that holds ether is deployed and counted as deployed, or the *)
(* relayer refuses visibly, unless somebody else gets the name or a call of the *)
(* node fails (FutureWalletFactory.ts:40-50).  If the name is lost after the    *)
(* answer 201, or there are only tokens, the observer polls for ever.           *)
CreationEnds ==
    \A k \in Own :
        (In(k, "create", "balance") /\ "ether" \in funds[k])
            ~> (flow[k].pc \in {"done", "threw"} \/ NameLost(k) \/ faults > 0)
================================================================================
