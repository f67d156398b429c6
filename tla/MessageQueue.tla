------------------------------ MODULE MessageQueue ------------------------------
(* The relayer's queue of final messages: MessageQueueService takes the oldest  *)
(* unresolved row, MessageExecutor validates it against the chain, sends the    *)
(* transaction, waits until it is mined and runs the hooks, and the service     *)
(* records the outcome in two tables.  The process may die between any two of   *)
(* these steps, every store call may fail, and the wallet may be used by others *)
(* while the relayer waits.                                                     *)
EXTENDS WalletOps, SequencesExt

CONSTANTS
    Messages,     \* message hashes
    NonceOf,      \* [Messages -> Nat]
    CallOf,       \* [Messages -> calls]: to the wallet, or [op |-> "external"]
    SigsOf,       \* [Messages -> Seq(Nat)]: the signatures a row of the queue holds
    FirstWallet,  \* the storage of the wallet at the start
    Loops,        \* identities for the loops that start() may leave running
    MaxCrashes, MaxFaults, MaxForeign   \* bounds: crashes, failing calls, foreign messages

VARIABLES
    finalMessages,   \* the queue: its rows, oldest first
    transactionHash, \* the messages whose row in `messages` has a transactionHash
    state,           \* MessageQueueService.state
    loop,            \* the loops; one whose pc is "none" was never started
    stopLater,       \* the call of stopLater: "none", "waiting" or "returned"
    txs,             \* the transactions the relayer has sent, oldest first
    hooked,          \* the numbers of those announced by 'added' or 'keysAdded'
    wallet,          \* the wallet contract the messages are from
    crashes, faults, foreign

service == <<state, loop, stopLater>>
chain == <<txs, hooked, wallet>>
bounded == <<crashes, faults, foreign>>
vars == <<finalMessages, transactionHash, state, loop, stopLater, txs, hooked, wallet,
          crashes, faults, foreign>>

External == [op |-> "external"]
ASSUME MessagesAssumption ==
    /\ NonceOf \in [Messages -> Nat]
    /\ CallOf \in [Messages -> Call \cup {External}]
    /\ SigsOf \in [Messages -> Seq(Nat)]
ASSUME FirstWalletAssumption == FirstWallet \in Storage
ASSUME LimitsAssumption == MaxCrashes \in Nat /\ MaxFaults \in Nat /\ MaxForeign \in Nat

Row == [message: Messages, sigs: Seq(Nat), tx: Nat, error: BOOLEAN]
NewRow(m) == [message |-> m, sigs |-> SigsOf[m], tx |-> 0, error |-> FALSE]
Resolved(row) == row.tx # 0 \/ row.error
Queued == {finalMessages[i].message : i \in DOMAIN finalMessages}
(* Mutant: getNext without the condition on error.                              *)
NotSucceeded == {i \in DOMAIN finalMessages : finalMessages[i].tx = 0}

Unresolved == {i \in DOMAIN finalMessages : ~Resolved(finalMessages[i])}

Tx == [message: Messages, sigs: Seq(Nat), status: {"pending", "ok", "reverted"}]
NewTx(row) == [message |-> row.message, sigs |-> row.sigs, status |-> "pending"]
Pcs == {"none", "getNext", "noNext", "sleep", "validate", "send", "wait", "hooks", "setHash",
        "markSuccess", "markError", "ended"}
Loop == [pc: Pcs, row: Nat, tx: Nat]
Idle == [pc |-> "none", row |-> 0, tx |-> 0]

Init ==
    /\ finalMessages = <<>> /\ transactionHash = {}
    /\ state = "stopped" /\ loop = [l \in Loops |-> Idle] /\ stopLater = "none"
    /\ txs = <<>> /\ hooked = {} /\ wallet = FirstWallet
    /\ crashes = 0 /\ faults = 0 /\ foreign = 0

--------------------------------------------------------------------------------
(* add: the primary key refuses a message that was ever queued.                 *)
Enqueue(m) ==
    /\ m \notin Queued
    /\ finalMessages' = Append(finalMessages, NewRow(m))
    /\ UNCHANGED <<transactionHash, service, chain, bounded>>

(* start() looks at the state only, not at a loop that is still finishing.      *)
Start(l) ==
    /\ state # "running" /\ loop[l].pc = "none"
    /\ state' = "running"
    /\ loop' = [loop EXCEPT ![l].pc = "getNext"]
    /\ UNCHANGED <<finalMessages, transactionHash, stopLater, chain, bounded>>

Stop ==
    /\ state' = "stopped"
    /\ UNCHANGED <<finalMessages, transactionHash, loop, stopLater, chain, bounded>>

(* stopLater() polls until a loop has found the queue empty.                    *)
StopLater ==
    /\ stopLater = "none"
    /\ state' = "stopping" /\ stopLater' = "waiting"
    /\ UNCHANGED <<finalMessages, transactionHash, loop, chain, bounded>>

StopLaterReturns ==
    /\ stopLater = "waiting" /\ state = "stopped"
    /\ stopLater' = "returned"
    /\ UNCHANGED <<finalMessages, transactionHash, state, loop, chain, bounded>>

--------------------------------------------------------------------------------
At(l, pc) == loop[l].pc = pc
GoTo(l, pc) == loop' = [loop EXCEPT ![l].pc = pc]
Current(l) == finalMessages[loop[l].row]

(* The end of an iteration: while (this.state !== 'stopped').                   *)
NextIteration(l) == GoTo(l, IF state = "stopped" THEN "ended" ELSE "getNext")

(* Mutant: the newest first.                                                    *)
GetNewest(l) ==
    /\ At(l, "getNext")
    /\ IF Unresolved # {}
         THEN loop' = [loop EXCEPT ![l].pc = "validate", ![l].row = Max(Unresolved)]
         ELSE GoTo(l, "noNext")
    /\ UNCHANGED <<finalMessages, transactionHash, state, stopLater, chain, bounded>>

(* The state is read after the answer of the store has arrived: a message that  *)
(* is queued in between is not seen.                                            *)
GetNext(l) ==
    /\ At(l, "getNext")
    /\ IF Unresolved # {}
         THEN loop' = [loop EXCEPT ![l].pc = "validate", ![l].row = Min(Unresolved)]
         ELSE GoTo(l, "noNext")
    /\ UNCHANGED <<finalMessages, transactionHash, state, stopLater, chain, bounded>>

(* Mutant: "stopping" is not looked at.                                         *)
NoNextSleeps(l) ==
    /\ At(l, "noNext")
    /\ GoTo(l, "sleep")
    /\ UNCHANGED <<finalMessages, transactionHash, state, stopLater, chain, bounded>>

NoNext(l) ==
    /\ At(l, "noNext")
    /\ IF state = "stopping"
         THEN state' = "stopped" /\ GoTo(l, "ended")
         ELSE GoTo(l, "sleep") /\ UNCHANGED state
    /\ UNCHANGED <<finalMessages, transactionHash, stopLater, chain, bounded>>

Wake(l) ==
    /\ At(l, "sleep")
    /\ NextIteration(l)
    /\ UNCHANGED <<finalMessages, transactionHash, state, stopLater, chain, bounded>>

(* estimateGas runs executeSigned on the current state of the chain, so a       *)
(* message the wallet would refuse is not sent; and any message may be refused  *)
(* for its gas, the balance of the wallet or its proxy, which are not modelled. *)
Executable(row) == ExecuteSignedAllowed(wallet, NonceOf[row.message], row.sigs)
(* Mutant: estimateGas is not called.                                           *)
ValidateOffChain(l) ==
    /\ At(l, "validate")
    /\ GoTo(l, "send") \/ GoTo(l, "markError")
    /\ UNCHANGED <<finalMessages, transactionHash, state, stopLater, chain, bounded>>

Validate(l) ==
    /\ At(l, "validate")
    /\ (Executable(Current(l)) /\ GoTo(l, "send")) \/ GoTo(l, "markError")
    /\ UNCHANGED <<finalMessages, transactionHash, state, stopLater, chain, bounded>>

Send(l) ==
    /\ At(l, "send")
    /\ txs' = Append(txs, NewTx(Current(l)))
    /\ loop' = [loop EXCEPT ![l].pc = "wait", ![l].tx = Len(txs) + 1]
    /\ UNCHANGED <<finalMessages, transactionHash, state, stopLater, hooked, wallet, bounded>>

(* waitForTransaction returns the receipt, whose status nobody reads.           *)
WaitForTransaction(l) ==
    /\ At(l, "wait") /\ txs[loop[l].tx].status # "pending"
    /\ GoTo(l, "hooks")
    /\ UNCHANGED <<finalMessages, transactionHash, state, stopLater, chain, bounded>>

(* Mutants: the transaction after the one that was sent is announced; the hash  *)
(* is not stored in `messages`.                                                 *)
RunHooksForNext(l) ==
    /\ At(l, "hooks")
    /\ hooked' = hooked \cup {loop[l].tx + 1}
    /\ GoTo(l, "setHash")
    /\ UNCHANGED <<finalMessages, transactionHash, state, stopLater, txs, wallet, bounded>>

RunHooksOnly(l) ==
    /\ At(l, "hooks")
    /\ GoTo(l, "markSuccess")
    /\ UNCHANGED <<finalMessages, transactionHash, state, stopLater, chain, bounded>>

(* onTransactionSent: a call of addKey or addKeys on the wallet is announced.   *)
RunHooks(l) ==
    /\ At(l, "hooks")
    /\ hooked' = IF CallOf[Current(l).message].op \in {"addKey", "addKeys"}
                   THEN hooked \cup {loop[l].tx} ELSE hooked
    /\ GoTo(l, "setHash")
    /\ UNCHANGED <<finalMessages, transactionHash, state, stopLater, txs, wallet, bounded>>

SetTransactionHash(l) ==
    /\ At(l, "setHash")
    /\ transactionHash' = transactionHash \cup {Current(l).message}
    /\ GoTo(l, "markSuccess")
    /\ UNCHANGED <<finalMessages, state, stopLater, chain, bounded>>

MarkAsSuccess(l) ==
    /\ At(l, "markSuccess")
    /\ finalMessages' = [finalMessages EXCEPT ![loop[l].row].tx = loop[l].tx]
    /\ NextIteration(l)
    /\ UNCHANGED <<transactionHash, state, stopLater, chain, bounded>>

(* Mutant: the error is logged, not stored.                                     *)
LogError(l) ==
    /\ At(l, "markError")
    /\ NextIteration(l)
    /\ UNCHANGED <<finalMessages, transactionHash, state, stopLater, chain, bounded>>

MarkAsError(l) ==
    /\ At(l, "markError")
    /\ finalMessages' = [finalMessages EXCEPT ![loop[l].row].error = TRUE]
    /\ NextIteration(l)
    /\ UNCHANGED <<transactionHash, state, stopLater, chain, bounded>>

(* A call in the try block of execute throws: the node, a hook or a store.      *)
(* The call has had no effect, or it has and only its answer is lost.           *)
Throws(l) ==
    /\ loop[l].pc \in {"validate", "send", "wait", "hooks", "setHash", "markSuccess"}
    /\ faults < MaxFaults /\ faults' = faults + 1
    /\ GoTo(l, "markError")
    /\ \/ UNCHANGED <<finalMessages, transactionHash, txs>>
       \/ /\ At(l, "send")
          /\ txs' = Append(txs, NewTx(Current(l)))
          /\ UNCHANGED <<finalMessages, transactionHash>>
       \/ /\ At(l, "setHash")
          /\ transactionHash' = transactionHash \cup {Current(l).message}
          /\ UNCHANGED <<finalMessages, txs>>
       \/ /\ At(l, "markSuccess")
          /\ finalMessages' = [finalMessages EXCEPT ![loop[l].row].tx = loop[l].tx]
          /\ UNCHANGED <<transactionHash, txs>>
    /\ UNCHANGED <<state, stopLater, hooked, wallet, crashes, foreign>>

(* Mutant: the queue is kept in memory.                                         *)
CrashLosesQueue ==
    /\ crashes < MaxCrashes /\ crashes' = crashes + 1
    /\ state' = "stopped" /\ stopLater' = "none" /\ finalMessages' = <<>>
    /\ loop' = [l \in Loops |-> Idle]
    /\ UNCHANGED <<transactionHash, chain, faults, foreign>>

(* The process dies: by itself, or by onCritical when getNext or markAsError    *)
(* throws.  Tables and sent transactions survive; a new process starts.         *)
Crash ==
    /\ crashes < MaxCrashes /\ crashes' = crashes + 1
    /\ state' = "stopped" /\ stopLater' = "none"
    /\ loop' = [l \in Loops |-> Idle]
    /\ UNCHANGED <<finalMessages, transactionHash, chain, faults, foreign>>

--------------------------------------------------------------------------------
(* The storages that executing call c in storage s may leave behind: the inner  *)
(* call fails, or it succeeds.                                                  *)
Executions(s, c) ==
    LET called == IncrementNonce(s)
        event(ok) == [nonce |-> s.lastNonce, success |-> ok]
    IN  {EmitExecutedSigned(called, event(FALSE))}
        \cup (IF c = External THEN {EmitExecutedSigned(called, event(TRUE))}
              ELSE IF Allowed(called, This, c)
                     THEN {EmitExecutedSigned(Effect(called, c), event(TRUE))}
                     ELSE {})

(* Transactions of one account are mined in the order of their nonces.  One     *)
(* that passed validation reverts only if the wallet was used meanwhile, for    *)
(* its nonce or for what the refund needs.                                      *)
Mine ==
    \E t \in DOMAIN txs :
        LET m == txs[t].message
            fits == ExecuteSignedAllowed(wallet, NonceOf[m], txs[t].sigs)
        IN  /\ txs[t].status = "pending" /\ \A u \in 1..(t - 1) : txs[u].status # "pending"
            /\ \/ /\ fits
                  /\ wallet' \in Executions(wallet, CallOf[m])
                  /\ txs' = [txs EXCEPT ![t].status = "ok"]
               \/ /\ ~fits \/ foreign > 0
                  /\ txs' = [txs EXCEPT ![t].status = "reverted"]
                  /\ UNCHANGED wallet
            /\ UNCHANGED <<finalMessages, transactionHash, service, hooked, bounded>>

(* Another relayer has a message of the wallet executed.                        *)
ForeignExecution ==
    /\ foreign < MaxForeign /\ foreign' = foreign + 1
    /\ wallet' \in Executions(wallet, External)
    /\ UNCHANGED <<finalMessages, transactionHash, service, txs, hooked, crashes, faults>>

Step(l) ==
    \/ GetNext(l) \/ NoNext(l) \/ Wake(l)
    \/ Validate(l) \/ Send(l) \/ WaitForTransaction(l) \/ RunHooks(l)
    \/ SetTransactionHash(l) \/ MarkAsSuccess(l) \/ MarkAsError(l)

Next ==
    \/ \E m \in Messages : Enqueue(m)
    \/ \E l \in Loops : Start(l) \/ Step(l) \/ Throws(l)
    \/ Stop \/ StopLater \/ StopLaterReturns
    \/ Crash \/ Mine \/ ForeignExecution

(* The event loop runs on, transactions are mined, a process starts the service *)
(* once; nothing makes the service stop, be restarted, throw or crash.          *)
FirstStart == (\A l \in Loops : At(l, "none")) /\ \E l \in Loops : Start(l)
Fairness ==
    /\ \A l \in Loops : WF_vars(Step(l))
    /\ WF_vars(FirstStart) /\ WF_vars(StopLaterReturns) /\ WF_vars(Mine)

Spec == Init /\ [][Next]_vars /\ Fairness

--------------------------------------------------------------------------------
(* Every value is of its type.                                                  *)
TypeOK ==
    /\ finalMessages \in Seq(Row) /\ transactionHash \subseteq Messages
    /\ state \in {"running", "stopping", "stopped"}
    /\ loop \in [Loops -> Loop] /\ stopLater \in {"none", "waiting", "returned"}
    /\ txs \in Seq(Tx) /\ hooked \subseteq DOMAIN txs /\ wallet \in Storage
    /\ crashes \in 0..MaxCrashes /\ faults \in 0..MaxFaults /\ foreign \in 0..MaxForeign

Executed(m) == {t \in DOMAIN txs : txs[t].message = m /\ txs[t].status = "ok"}

(* However often the relayer crashes and takes a message up again, or has two   *)
(* loops at it, the message is executed at most once (the rows that remain      *)
(* unresolved are retried, MessageQueueSQLStore.ts:29-40; the nonce stops the   *)
(* second, ERC1077.sol:127).                                                    *)
AtMostOnce == \A m \in Messages : Cardinality(Executed(m)) <= 1

(* While no call fails, start is called once per process and nobody else uses   *)
(* the wallet, what the relayer records is what happened, although the receipt's*)
(* status is never read (MessageExecutor.ts:12-19): success means executed,     *)
(* error means not executed.  Over crashes success still means executed: a      *)
(* second transaction may revert and be the one that is recorded, but then the  *)
(* first was executed.  The one exception is a rival for the nonce that was sent*)
(* before a crash, refused after it (and so recorded as an error) and mined all *)
(* the same (MessageQueueService.ts:22-30).                                     *)
NeverRestarted == \A k, l \in Loops : k = l
RivalExecuted(m) ==
    \E i \in DOMAIN finalMessages :
        LET row == finalMessages[i]
        IN  NonceOf[row.message] = NonceOf[m] /\ row.error /\ Executed(row.message) # {}
OutcomeIsTrue ==
    faults = 0 /\ foreign = 0 /\ NeverRestarted => \A i \in DOMAIN finalMessages :
        LET row == finalMessages[i]
        IN  /\ row.tx # 0 => Executed(row.message) # {} \/ RivalExecuted(row.message)
            /\ crashes = 0 /\ row.tx # 0 => row.tx \in Executed(row.message)
            /\ crashes = 0 /\ row.error => Executed(row.message) = {}

(* A success in the queue always comes with a transaction hash in `messages`,   *)
(* even if the process dies or a store fails in between, so the handler of a    *)
(* late signature refuses it (MessageQueueService.ts:25-26, PendingMessages.ts: *)
(* 40).                                                                         *)
SuccessHasHash ==
    \A i \in DOMAIN finalMessages :
        finalMessages[i].tx # 0 => finalMessages[i].message \in transactionHash

(* The messages are resolved in the order in which they were queued, also over  *)
(* crashes and by loops that a restart has left side by side: a loop can be late*)
(* with an outcome, but no loop overtakes (MessageQueueSQLStore.ts:29-35).      *)
ResolvedInOrder ==
    \A i, j \in DOMAIN finalMessages :
        i < j /\ Resolved(finalMessages[j]) => Resolved(finalMessages[i])

(* While the tables answer and one loop runs, also over crashes: once the       *)
(* outcome of a message is recorded it stays, and no transaction is sent for the*)
(* message any more (MessageQueueService.ts:22-30).                             *)
OneLoop == \A k, l \in Loops : At(k, "none") \/ At(l, "none") \/ k = l
OutcomeIsFinal ==
    [][faults' = 0 /\ OneLoop' =>
       /\ \A i \in DOMAIN finalMessages :
              Resolved(finalMessages[i]) => finalMessages'[i] = finalMessages[i]
       /\ Len(txs') > Len(txs) =>
              \E i \in Unresolved : finalMessages[i].message = txs'[Len(txs')].message]_vars

(* Every queued message is resolved in the end, over crashes and restarts,      *)
(* unless the service is told to stop (MessageQueueService.ts:39-52).           *)
StoppedOnPurpose == state # "running" /\ \E l \in Loops : ~At(l, "none")
EveryMessageResolved ==
    \A m \in Messages :
        (m \in Queued) ~> (StoppedOnPurpose \/ \A i \in Unresolved : finalMessages[i].message # m)

(* stopLater returns if it is called while a loop runs, unless the service is   *)
(* started again meanwhile: the loop drains the queue and ends                  *)
(* (MessageQueueService.ts:41-47, 58-63).                                       *)
StopLaterEnds ==
    (stopLater = "waiting" /\ state = "stopping" /\ \E l \in Loops : loop[l].pc \notin {"none", "ended"})
        ~> (stopLater # "waiting" \/ state = "running")
================================================================================
