----------------------------- MODULE WalletContract -----------------------------
(* The wallet contract under the EVM: ERC1077.executeSigned checks a message,  *)
(* takes its nonce and calls out, records the execution and refunds its sender.*)
(* The contract it calls and the token it refunds with may relay further       *)
(* messages to the wallet, or use a key of their own, before they return.  A   *)
(* failed inner call is rolled back and recorded, a failed refund rolls back   *)
(* the whole executeSigned.                                                    *)
EXTENDS WalletOps

CONSTANTS
    FirstKeys,   \* the keys a wallet may be created with
    Signers,     \* the addresses ecrecover may return: accounts, not contracts
    Contracts,   \* addresses with code: what messages call, and gas tokens
    MsgCalls,    \* the calls to the wallet itself that messages carry
    MaxNonce, MaxDepth, MaxSigs   \* bounds: messages, nested executions, signatures

VARIABLES
    wallet,      \* the storage of the wallet, with its events
    stack        \* the executeSigned frames in progress, outermost first

vars == <<wallet, stack>>

ASSUME ActorsAssumption == FirstKeys \subseteq Addr /\ Contracts \subseteq Addr /\ MsgCalls \subseteq Call
ASSUME BoundsAssumption == MaxNonce \in Nat /\ MaxDepth \in Nat /\ MaxSigs \in Nat

(* gasToken = address(0): the refund is paid in ether, with too little gas for *)
(* the beneficiary to do anything.                                             *)
ETHER == 0

(* The call a message makes: to the wallet itself, or to another contract.  (To*)
(* call executeSigned of the wallet itself is to call a contract that does.)   *)
MsgCall == MsgCalls \cup [op: {"external"}, to: Contracts]

(* `before` is the storage the frame would be rolled back to by a revert;      *)
(* status is "calling" while to.call runs, then its result, and "refunding"    *)
(* once the event is emitted.                                                  *)
Frame == [nonce: Nat, call: MsgCall, token: Contracts \cup {ETHER}, sigs: Seq(Signers),
          before: Storage, status: {"calling", "ok", "failed", "refunding"}]

Top == stack[Len(stack)]
Below == SubSeq(stack, 1, Len(stack) - 1)
Calling == stack # <<>> /\ Top.status = "calling"
Refunding == stack # <<>> /\ Top.status = "refunding"
Returned(result) == [stack EXCEPT ![Len(stack)].status = result]

(* Code outside the wallet runs: between transactions, in the call of a message*)
(* or in the transfer of the token; in those, the contract that was called runs*)
(* and whatever contracts it calls.                                            *)
OutsideRuns ==
    \/ stack = <<>>
    \/ Calling /\ Top.call.op = "external"
    \/ Refunding /\ Top.token # ETHER

Init ==
    /\ \E k \in FirstKeys : wallet = Initialized(k)
    /\ stack = <<>>

(* A key calls a method of the wallet itself; within a transaction of the      *)
(* wallet's only a key that is a contract can.                                 *)
DirectCall(sender, c) ==
    /\ OutsideRuns /\ (stack # <<>> => sender \in Contracts)
    /\ Allowed(wallet, sender, c)
    /\ wallet' = Effect(wallet, c)
    /\ UNCHANGED stack

(* Mutant: the nonce is incremented after the external call.                   *)
EnterKeepsNonce(nonce, c, token, sigs) ==
    /\ OutsideRuns
    /\ ExecuteSignedAllowed(wallet, nonce, sigs)
    /\ wallet.lastNonce < MaxNonce /\ Len(stack) < MaxDepth
    /\ UNCHANGED wallet
    /\ stack' = Append(stack, [nonce |-> nonce, call |-> c, token |-> token, sigs |-> sigs,
                               before |-> wallet, status |-> "calling"])

(* executeSigned up to the external call: anybody may submit the message, and  *)
(* the nonce is taken before the call.                                         *)
EnterExecuteSigned(nonce, c, token, sigs) ==
    /\ OutsideRuns
    /\ ExecuteSignedAllowed(wallet, nonce, sigs)
    /\ wallet.lastNonce < MaxNonce /\ Len(stack) < MaxDepth
    /\ wallet' = IncrementNonce(wallet)
    /\ stack' = Append(stack, [nonce |-> nonce, call |-> c, token |-> token, sigs |-> sigs,
                               before |-> wallet, status |-> "calling"])

(* to = address(this): the wallet runs a method of its own, as sender This.    *)
SelfCall ==
    /\ Calling /\ Top.call.op # "external"
    /\ Allowed(wallet, This, Top.call)
    /\ wallet' = Effect(wallet, Top.call)
    /\ stack' = Returned("ok")

ExternalReturns ==
    /\ Calling /\ Top.call.op = "external"
    /\ stack' = Returned("ok")
    /\ UNCHANGED wallet

(* The inner call reverts or runs out of the gas it was given: what it did to  *)
(* the wallet is undone, the nonce stays taken.                                *)
CallReverts ==
    /\ Calling
    /\ wallet' = IncrementNonce(Top.before)
    /\ stack' = Returned("failed")

(* The event is emitted.                                                       *)
RecordExecution ==
    /\ stack # <<>> /\ Top.status \in {"ok", "failed"}
    /\ wallet' = EmitExecutedSigned(wallet,
                    [nonce |-> Top.nonce, success |-> Top.status = "ok"])
    /\ stack' = Returned("refunding")

(* The refund is paid (the result of token.transfer is not looked at).         *)
FinishExecuteSigned ==
    /\ Refunding
    /\ stack' = Below
    /\ UNCHANGED wallet

(* The refund cannot be paid (or the gas runs out): executeSigned reverts.     *)
ExecuteSignedReverts ==
    /\ stack # <<>> /\ ~Calling
    /\ wallet' = Top.before
    /\ stack' = Below

SigSeqs == UNION {[1..n -> Signers] : n \in 1..MaxSigs}

Next ==
    \/ \E sender \in Addr, c \in MsgCalls : DirectCall(sender, c)
    \/ \E nonce \in 0..MaxNonce, c \in MsgCall, token \in Contracts \cup {ETHER}, sigs \in SigSeqs :
          EnterExecuteSigned(nonce, c, token, sigs)
    \/ SelfCall
    \/ ExternalReturns
    \/ CallReverts
    \/ RecordExecution
    \/ FinishExecuteSigned
    \/ ExecuteSignedReverts

Spec == Init /\ [][Next]_vars

--------------------------------------------------------------------------------
(* Every value is of its type.                                                 *)
TypeOK == wallet \in Storage /\ stack \in Seq(Frame)

(* Among the first n frames of fs, those whose event has not been emitted.      *)
Open(fs, n) == {i \in 1..n : fs[i].status # "refunding"}

(* In a storage s reached with the first n frames of fs in progress, every      *)
(* nonce below lastNonce is that of one event or of one open frame, never of two.*)
Accounted(s, fs, n) ==
    /\ \A k \in 0..(s.lastNonce - 1) :
          (\E e \in s.log : e.nonce = k) \/ (\E i \in Open(fs, n) : fs[i].nonce = k)
    /\ \A e \in s.log : e.nonce < s.lastNonce
    /\ \A i \in 1..n : fs[i].nonce < s.lastNonce
    /\ \A d, e \in s.log : d.nonce = e.nonce => d = e
    /\ \A i, j \in Open(fs, n) : fs[i].nonce = fs[j].nonce => i = j
    /\ \A e \in s.log, i \in Open(fs, n) : e.nonce # fs[i].nonce

(* No message is executed twice and no nonce is skipped, whatever the contracts*)
(* it calls relay meanwhile and whichever of the nested executions revert      *)
(* (ERC1077.sol:127-136: the check, the increment before the call, the event). *)
NoncesAccountedFor == Accounted(wallet, stack, Len(stack))

(* keyCount never exceeds the number of keys that exist, so the bound          *)
(* setRequiredSignatures checks (ERC1077.sol:53) never admits more signatures  *)
(* than there are keys; and at least one signature is always required.         *)
KeyCountWithinOwned == KeysWellCounted(wallet)

(* The storages that a revert may bring back are as sound as the current one,  *)
(* and no event is lost from one to the next.                                  *)
SnapshotsSound ==
    \A i \in 1..Len(stack) :
        /\ stack[i].nonce = stack[i].before.lastNonce
        /\ Accounted(stack[i].before, stack, i - 1)
        /\ KeysWellCounted(stack[i].before)
        /\ stack[i].before.log \subseteq wallet.log
        /\ \A j \in 1..i : stack[j].before.log \subseteq stack[i].before.log

(* The inductive invariant: the three above and the soundness of the snapshots. *)
IInv == TypeOK /\ NoncesAccountedFor /\ KeyCountWithinOwned /\ SnapshotsSound

(* A message starts executing only if at least requiredSignatures DIFFERENT    *)
(* keys that exist at that moment signed it (ERC1077.sol:125-128, 151-176).    *)
ThresholdMet ==
    [][Len(stack') > Len(stack) =>
          LET signers == {stack'[Len(stack')].sigs[i] : i \in DOMAIN stack'[Len(stack')].sigs}
          IN  /\ signers \subseteq wallet.owned /\ signers # {}
              /\ Cardinality(signers) >= wallet.requiredSignatures]_vars

(* Seen between transactions, the wallet is a ledger of numbered executions.   *)
Committed == IF stack = <<>> THEN wallet ELSE stack[1].before
Ledger == INSTANCE WalletLedger WITH nonce <- Committed.lastNonce, executed <- Committed.log
ImplementsLedger == Ledger!Spec

(* "Signatures exceed owned keys number" (ERC1077.sol:53): what is required    *)
(* never exceeds the keys that exist, or the wallet can execute nothing more.  *)
RequiredWithinOwned == wallet.requiredSignatures <= Cardinality(wallet.owned)
================================================================================
