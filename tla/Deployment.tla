------------------------------- MODULE Deployment -------------------------------
(* How a wallet contract comes to be.  POST /wallet deploys a proxy at once, at *)
(* the relayer's expense; POST /wallet/deploy has the factory create the proxy  *)
(* at the address its first key determines, once that address holds a balance.  *)
(* Either way the initialisation registers the ENS name and undoes everything   *)
(* if it cannot.  The relayer answers when the transaction is sent, not when it *)
(* is mined, and nobody reads the status of its receipt.                        *)
EXTENDS Naturals, Sequences, FiniteSets

CONSTANTS
    Keys,       \* first keys; a key determines the wallet, its address and its request
    Names,      \* ENS names of the domains the relayer registers in
    MaxFaults   \* bound: calls of the node that are rejected

VARIABLES
    ensReady,   \* whether ENSService.start has read the registrars
    owner,      \* the ENS: the wallet each name resolves to, or Nobody
    code,       \* the wallets with a contract
    funds,      \* what each address holds enough of: "ether", "token"
    request,    \* the request for each wallet
    pending,    \* the deployments sent and not mined, oldest first
    outcome,    \* of the deployment of each wallet: "none", "ok" or "reverted"
    faults

ens == <<owner, code>>
deployment == <<ensReady, owner, code, funds, request, pending, outcome, faults>>

Nobody == "nobody"
ASSUME KeysAssumption == Nobody \notin Keys
ASSUME FaultsAssumption == MaxFaults \in Nat

Request == [kind : {"none", "create", "deploy"}, name : Names \cup {Nobody},
            pc : {"none", "resolve", "balance", "send", "sent", "refused"}]
NoRequest == [kind |-> "none", name |-> Nobody, pc |-> "none"]

DeploymentInit ==
    /\ ensReady = FALSE /\ owner = [n \in Names |-> Nobody] /\ code = {}
    /\ funds = [k \in Keys |-> {}] /\ request = [k \in Keys |-> NoRequest]
    /\ pending = <<>> /\ outcome = [k \in Keys |-> "none"] /\ faults = 0

At(k, pc) == request[k].pc = pc
GoTo(k, pc) == request' = [request EXCEPT ![k].pc = pc]

--------------------------------------------------------------------------------
(* The server listens before ENSService.start has finished.                     *)
StartEns ==
    /\ ~ensReady /\ ensReady' = TRUE
    /\ UNCHANGED <<ens, funds, request, pending, outcome, faults>>

(* findRegistrar: no domain is known before the registrars are read.            *)
KnownDomain == ensReady

(* POST /wallet: argsFor and the sending follow without an await.               *)
PostCreate(k, n) ==
    /\ At(k, "none")
    /\ request' = [request EXCEPT ![k] =
          [kind |-> "create", name |-> n, pc |-> IF KnownDomain THEN "send" ELSE "refused"]]
    /\ UNCHANGED <<ensReady, ens, funds, pending, outcome, faults>>

(* POST /wallet/deploy, whose body is signed with the key.                      *)
PostDeploy(k, n) ==
    /\ At(k, "none")
    /\ request' = [request EXCEPT ![k] = [kind |-> "deploy", name |-> n, pc |-> "resolve"]]
    /\ UNCHANGED <<ensReady, ens, funds, pending, outcome, faults>>

(* EnsNameTaken, or InvalidENSDomain.                                           *)
ResolveName(k) ==
    /\ At(k, "resolve")
    /\ GoTo(k, IF owner[request[k].name] = Nobody /\ KnownDomain THEN "balance" ELSE "refused")
    /\ UNCHANGED <<ensReady, ens, funds, pending, outcome, faults>>

(* findTokenWithRequiredBalance: any supported token will do, or NotEnoughBalance. *)
CheckBalance(k) ==
    /\ At(k, "balance")
    /\ GoTo(k, IF funds[k] # {} THEN "send" ELSE "refused")
    /\ UNCHANGED <<ensReady, ens, funds, pending, outcome, faults>>

Send(k) ==
    /\ At(k, "send")
    /\ pending' = Append(pending, k) /\ GoTo(k, "sent")
    /\ UNCHANGED <<ensReady, ens, funds, outcome, faults>>

(* A call of the node is rejected: for one, two transactions sent at a time may *)
(* have been given one nonce.                                                   *)
RequestFails(k) ==
    /\ request[k].pc \in {"resolve", "balance", "send"}
    /\ faults < MaxFaults /\ faults' = faults + 1
    /\ GoTo(k, "refused")
    /\ UNCHANGED <<ensReady, ens, funds, pending, outcome>>

Serve(k) == ResolveName(k) \/ CheckBalance(k) \/ Send(k)

--------------------------------------------------------------------------------
(* Mutant: the registrar gives a name away that has an owner.                   *)
RegistersAnything(n) == TRUE

(* registerENS: the registrar serves the first to come.                         *)
Registers(n) == owner[n] = Nobody

(* initializeWithENS, and initializeWithRefund, which also pays the relayer, in *)
(* ether whatever token the balance was found in.                               *)
InitializeWithENS(k) == Registers(request[k].name)
InitializeWithRefund(k) == InitializeWithENS(k) /\ "ether" \in funds[k]
(* setMaster delegates to the initialisation and reverts if it does.            *)
SetMaster(k) == IF request[k].kind = "create" THEN InitializeWithENS(k) ELSE InitializeWithRefund(k)
(* create2 fails where a contract exists.                                       *)
CreateContract(k) == k \notin code /\ SetMaster(k)

(* A transaction is mined: all of it happens or nothing.                        *)
Mine ==
    /\ pending # <<>> /\ pending' = Tail(pending)
    /\ LET k == Head(pending)
           ok == CreateContract(k)
       IN  /\ outcome' = [outcome EXCEPT ![k] = IF ok THEN "ok" ELSE "reverted"]
           /\ owner' = IF ok THEN [owner EXCEPT ![request[k].name] = k] ELSE owner
           /\ code' = IF ok THEN code \cup {k} ELSE code
    /\ UNCHANGED <<ensReady, funds, request, faults>>

(* Somebody pays to an address.                                                 *)
Fund(k, token) ==
    /\ token \notin funds[k]
    /\ funds' = [funds EXCEPT ![k] = @ \cup {token}]
    /\ UNCHANGED <<ensReady, ens, request, pending, outcome, faults>>

(* The listeners of 'created' in the development relayers wait for the receipt  *)
(* and, here alone its status is read, grant tokens and then ether.             *)
Grant(k) ==
    /\ request[k].kind = "create" /\ outcome[k] = "ok"
    /\ Fund(k, IF "token" \in funds[k] THEN "ether" ELSE "token")

--------------------------------------------------------------------------------
(* A name resolves to a wallet that exists, and a wallet that exists has the    *)
(* name it was asked for, although two requests for one name both pass the      *)
(* check of the relayer and both are answered with 201 (WalletService.ts:43-52).*)
NamesAreOwned ==
    /\ \A n \in Names : owner[n] # Nobody => owner[n] \in code
    /\ \A k \in code : owner[request[k].name] = k
================================================================================
