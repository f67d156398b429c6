-------------------------------- MODULE SdkExecute --------------------------------
(* Calls of sdk.execute, from the same device or from others, over the relayer:   *)
(* each reads the nonce of the wallet, signs, posts, and if the message is queued *)
(* polls for its outcome until it is there or too much time has passed.  A        *)
(* request that was posted is handled whether or not its caller still waits.      *)
EXTENDS Relayer

CONSTANTS
    Clients,    \* the calls of execute
    ContentOf,  \* what each asks the wallet to do
    Nonces,     \* bound: the nonces a call may read
    MaxPolls    \* how many polls fit into the timeout (5 of a second each in retry.ts)

VARIABLE call

(* The methods of the sdk for the keys of the wallet, the transfers of the web    *)
(* wallet, the transactions of SdkSigner and the clicks of the example all build a*)
(* message and end in execute.                                                    *)
KeyManagement == Call
Transfer == External
SendTransaction == External
Click == External

(* What a call posts, <<client, nonce>>, is a request; content and nonce make its *)
(* message.                                                                       *)
ASSUME CallsAssumption ==
    /\ Requests = Clients \X Nonces
    /\ ContentOf \in [Clients -> KeyManagement \cup {Transfer, SendTransaction, Click}]
    /\ \A r \in Requests :
          NonceOf[MsgOf[r]] = r[2] /\ CallOf[MsgOf[r]] = ContentOf[r[1]]
ASSUME PollsAssumption == MaxPolls \in Nat

sdkVars == <<allVars, call>>

Result == {"none", "success", "error", "timeout", "refused", "waiting", "lost"}
Execution == [pc : {"idle", "sign", "posted", "wait", "ended"},
              nonce : Nonces \cup {0}, polls : 0..MaxPolls, result : Result]
NotCalled == [pc |-> "idle", nonce |-> 0, polls |-> 0, result |-> "none"]

SdkInit == RelayerInit /\ call = [c \in Clients |-> NotCalled]

In(c, pc) == call[c].pc = pc
Proceed(c, pc) == call' = [call EXCEPT ![c].pc = pc]
End(c, result) ==
    call' = [call EXCEPT ![c] = [NotCalled EXCEPT !.pc = "ended", !.nonce = call[c].nonce,
                                                  !.result = result]]
Request(c) == <<c, call[c].nonce>>

--------------------------------------------------------------------------------
(* The nonce is read from the chain, not kept or reserved.                        *)
GetNonce(c) ==
    /\ In(c, "idle") /\ wallet.lastNonce \in Nonces
    /\ call' = [call EXCEPT ![c].pc = "sign", ![c].nonce = wallet.lastNonce]
    /\ UNCHANGED allVars

Post(c) == In(c, "sign") /\ Proceed(c, "posted") /\ UNCHANGED allVars

(* What execute does where the relayer did not queue the message.                 *)
Refusal ==
    [collecting |-> "waiting", rejected |-> "refused", failed |-> "refused", lost |-> "lost"]

(* Only an answer with a messageHash is waited for; an error is thrown.           *)
Answered(c) ==
    /\ In(c, "posted")
    /\ LET pc == request[Request(c)].pc
       IN  \/ pc = "queued" /\ Proceed(c, "wait")
           \/ pc \in DOMAIN Refusal /\ End(c, Refusal[pc])
    /\ UNCHANGED allVars

(* What the predicate of retry makes of a status.                                  *)
IsExecuted(status) == status \in {"success", "error"}

(* Mutant: the predicate is not negated: it goes on until there is no outcome.    *)
PollInverted(c) ==
    /\ In(c, "wait") /\ call[c].polls < MaxPolls
    /\ LET status == StatusOf(MsgOf[Request(c)])
       IN  IF IsExecuted(status) THEN call' = [call EXCEPT ![c].polls = @ + 1]
                                 ELSE End(c, "success")
    /\ UNCHANGED allVars

(* waitForStatus: a poll, and a sleep.                                            *)
Poll(c) ==
    /\ In(c, "wait") /\ call[c].polls < MaxPolls
    /\ LET status == StatusOf(MsgOf[Request(c)])
       IN  IF IsExecuted(status) THEN End(c, status)
                                 ELSE call' = [call EXCEPT ![c].polls = @ + 1]
    /\ UNCHANGED allVars

(* The deadline is looked at before each poll but the first, never during one, and*)
(* slow answers reach it after fewer polls.                                       *)
TimeOut(c) == In(c, "wait") /\ call[c].polls > 0 /\ End(c, "timeout") /\ UNCHANGED allVars

(* An answer does not come through; a request that does not is as if it were not  *)
(* made.                                                                          *)
FetchFails(c) ==
    /\ call[c].pc \in {"posted", "wait"} /\ End(c, "lost")
    /\ UNCHANGED allVars

Run(c) == Post(c) \/ Answered(c) \/ Poll(c) \/ TimeOut(c)

--------------------------------------------------------------------------------
HandlePosted == \E c \in Clients : call[c].pc \notin {"idle", "sign"} /\ Handle(Request(c))

SdkNext ==
    \/ \E c \in Clients : GetNonce(c) \/ Run(c) \/ FetchFails(c)
    \/ (HandlePosted \/ Backstage) /\ UNCHANGED call

(* The relayer is fair as in Relayer, and the timers of the clients ring.  Only   *)
(* the loop takes infinitely many steps, so for all others it is enough that one  *)
(* of them goes on.                                                               *)
Progress ==
    \/ \E c \in Clients : Run(c)
    \/ (HandlePosted \/ StartService) /\ UNCHANGED call
    \/ Mine /\ UNCHANGED <<handlers, call>>

SdkSpec ==
    /\ SdkInit /\ [][SdkNext]_sdkVars
    /\ WF_sdkVars(Progress)
    /\ \A l \in Loops : WF_sdkVars(RunLoop(l) /\ UNCHANGED call)

--------------------------------------------------------------------------------
(* Every value is of its type.                                                    *)
SdkTypeOK == call \in [Clients -> Execution]

(* Once a call has returned success, the nonce it signed is used up: the next     *)
(* call its caller makes reads another and cannot collide with it, unless the     *)
(* wallet is used through another relayer too (sdk.ts:177, MessageQueueService.   *)
(* ts:24-26, for the receipt is awaited but not read).                            *)
SuccessAdvancesNonce ==
    \A c \in Clients :
        call[c].result = "success" /\ foreign = 0 => wallet.lastNonce > call[c].nonce

(* Of two calls that read the same nonce for different messages only one is told  *)
(* success, over crashes too, and when nothing fails its message is executed      *)
(* (sdk.ts:173-187 has no lock around reading, signing and posting).              *)
OneSuccessPerNonce ==
    \A c, d \in Clients :
        /\ call[c].result = "success" /\ call[d].result = "success" /\ foreign = 0
              /\ call[c].nonce = call[d].nonce
              => MsgOf[Request(c)] = MsgOf[Request(d)]
        /\ call[c].result = "success" /\ crashes + faults + foreign = 0
              => Executed(MsgOf[Request(c)]) # {}

(* What a call was told of its message stays true of the tables for ever: an      *)
(* error a client has seen does not turn into a success after it has tried again. *)
(* A success stays one unless a store loses an answer (sdk.ts:163-171,            *)
(* MessageQueueService.ts:24-28).                                                 *)
ToldIsKept ==
    \A c \in Clients :
        LET status == StatusOf(MsgOf[Request(c)])
        IN  /\ call[c].result = "error" => status = "error"
            /\ call[c].result = "success" /\ faults = 0 => status = "success"

(* In the end every message with enough signatures is executed or fails visibly,  *)
(* unless the process died in the middle of one of its requests (from the route   *)
(* in wallet.ts:15-19 through the queue to its status).                           *)
SufficientIsResolved ==
    <>[](\A m \in Messages :
            /\ pairs[m] # <<>> /\ Len(pairs[m]) >= wallet.requiredSignatures
            /\ \A r \in Requests : MsgOf[r] = m => request[r].pc # "lost"
            => StatusOf(m) \in {"success", "error"})
================================================================================
