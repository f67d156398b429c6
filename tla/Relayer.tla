--------------------------------- MODULE Relayer ---------------------------------
(* The relayer as a whole: the request handlers of PendingMessages and the loop  *)
(* of MessageQueue share the tables and the wallet they read.  One process runs  *)
(* both; when it dies, the requests in progress get no answer.                   *)
EXTENDS MessageQueue

CONSTANTS Requests, MsgOf, KeyOf    \* as in PendingMessages
ASSUME HandlersAssumption == MsgOf \in [Requests -> Messages] /\ KeyOf \in [Requests -> Nat \ {0}]

VARIABLES messages, pairs, request  \* as in PendingMessages

Collection == INSTANCE PendingMessages WITH WalletCalls <- {}

handlers == <<messages, pairs, request>>
allVars == <<vars, handlers>>

RelayerInit == Init /\ Collection!Init

Handle(r) ==
    /\ Collection!Handle(r)
    /\ UNCHANGED <<service, txs, hooked, bounded>>

RunLoop(l) == Step(l) /\ UNCHANGED handlers

(* Relayer.start: the service is started once per process.                       *)
StartService == FirstStart /\ UNCHANGED handlers

ProcessDies ==
    /\ Crash
    /\ request' = [r \in Requests |->
          IF request[r].pc \in Collection!Final \cup {"isPresent"} THEN request[r]
          ELSE [request[r] EXCEPT !.pc = "lost"]]
    /\ UNCHANGED <<messages, pairs>>

Environment ==
    /\ Mine \/ ForeignExecution \/ \E l \in Loops : Throws(l)
    /\ UNCHANGED handlers

(* All that goes on whether or not there are requests.                           *)
Backstage ==
    \/ \E l \in Loops : RunLoop(l)
    \/ StartService
    \/ ProcessDies
    \/ Environment

RelayerNext == (\E r \in Requests : Handle(r)) \/ Backstage

RelayerSpec ==
    /\ RelayerInit /\ [][RelayerNext]_allVars
    /\ \A r \in Requests : WF_allVars(Handle(r))
    /\ \A l \in Loops : WF_allVars(RunLoop(l))
    /\ WF_allVars(StartService) /\ WF_allVars(Mine /\ UNCHANGED handlers)

--------------------------------------------------------------------------------
(* Every value is of its type, in the shared tables too.                         *)
RelayerTypeOK == TypeOK /\ Collection!TypeOK

(* The status a client reads (MessageHandler.getStatus; an error comes first, as *)
(* in sdk.ts:166-169).                                                           *)
RowOf(m) == finalMessages[CHOOSE i \in DOMAIN finalMessages : finalMessages[i].message = m]
StatusOf(m) ==
    IF m \in Queued
      THEN IF RowOf(m).error THEN "error" ELSE IF RowOf(m).tx # 0 THEN "success" ELSE "queued"
      ELSE IF m \in messages THEN "awaitSignature" ELSE "absent"

(* Whatever the order of requests, the loop, crashes and foreign messages, a     *)
(* message goes through the life MessageLifecycle promises: queued once, ended   *)
(* once, never back.                                                             *)
Lifecycle == INSTANCE MessageLifecycle WITH status <- [m \in Messages |-> StatusOf(m)]
ImplementsLifecycle == Lifecycle!Spec

(* Of the messages that compete for a nonce at most one is ever executed, and    *)
(* while nobody else uses the wallet and the winner is not itself recorded as an *)
(* error the losers end in error, not in success (ERC1077.sol:127 against        *)
(* MessageExecutor.ts:14-16).                                                    *)
OneWinnerPerNonce ==
    \A m, n \in Messages :
        m # n /\ NonceOf[m] = NonceOf[n] /\ Executed(m) # {}
            => Executed(n) = {} /\ (foreign = 0 /\ StatusOf(m) # "error" => StatusOf(n) # "success")
================================================================================
