# Universal Login in TLA+

TLA+ models of UniversalLoginSDK: the wallet contract, the relayer that collects
signatures, executes messages and deploys wallets, the SDK with its observers, and the web
wallet and the example application on top. TLC checks the models on small instances; TLAPS
proves the safety of the contract, of the relayer, of the callers of the SDK and of the web
wallet for every value of the constants.

Contents

1. The system
2. The modules, and how they correspond to the code
3. What each run checks, with which bounds
4. Fairness
5. What is proved, and how
6. Disagreements between code and documentation
7. Abstractions
8. What is not modelled
9. Plan

## 1. The system

A user's *wallet* is a contract. Its *keys* are addresses held by devices. A device
does not send transactions: it signs a *message* ("the wallet shall call X, nonce n,
refund at most g gas in token t") and posts it to a *relayer*. When enough keys have
signed, the relayer sends `executeSigned(message, signatures)` and is refunded by the
wallet.

```
 device / SDK ──POST /wallet/execution──▶ PendingMessages ──▶ finalMessages (queue)
      ▲                                    messages,              │ getNext
      │ GET /wallet/execution/:hash        signature_key_pairs    ▼
      └──────── MessageHandler.getStatus ◀─────────────── MessageQueueService.loop
                                                                  │ estimateGas, send, wait
   hooks 'added', 'keysAdded' ◀── onTransactionSent ◀── MessageExecutor
                                                                  ▼
                                                     wallet contract (ERC1077 + KeyHolder)
```

### Inventory

**Wallet contract** (`universal-login-contracts/contracts`: `KeyHolder`, `ERC1077`,
`WalletMaster`). State: the mapping `keys` (address, purpose), `keyCount`,
`requiredSignatures`, `lastNonce`, and the events. Operations: `addKey`, `addKeys`,
`removeKey`, `setRequiredSignatures` (by a management key or by the wallet itself) and
`executeSigned` (by anybody, with signatures). `executeSigned` checks nonce and
signatures, takes the nonce, calls the target, emits `ExecutedSigned`, and refunds. The
target and the refund token are foreign code and may call back. *Hard:* reentrancy at two
places, reverts of part of a nested execution, a counter kept beside the mapping it
counts, comparing only neighbouring signers. *Correct if:* no message is executed twice
and no nonce is lost, whatever is nested and reverted; enough different keys have signed;
the counter never claims more keys than there are; the wallet stays usable.

**Collecting signatures** (`PendingMessages`, `PendingMessagesSQLStore`). State: the
tables `messages` and `signature_key_pairs`. Operation: `add`, a handler of a dozen
awaits that runs concurrently with others. *Hard:* check and insert are separated by
calls to the chain; two handlers may both see enough signatures; order of arrival.
*Correct if:* a message with enough signatures is queued exactly once, in a form the
contract accepts, and an accepted signature is never lost.

**Message queue** (`MessageQueueService`, `MessageQueueSQLStore`, `MessageExecutor`,
`MessageValidator`). State: the table `finalMessages`, the column
`messages.transactionHash`, and in memory `state` and the loop. Operations: `add`,
`start`, `stop`, `stopLater`, the loop and `execute`. *Hard:* a crash or a failing call
between sending and recording; two tables updated one after the other; a receipt whose
status nobody reads; others who use the wallet meanwhile; a loop that outlives `stop`.
*Correct if:* each message is executed at most once and every queued message is resolved,
in order; a recorded outcome is final and means something.

**Message handler and process** (`MessageHandler`, `Relayer`). Ties the two above together
over shared tables, serves the status, emits the hooks. *Correct if:* the status a client
sees moves forward only, and a sufficiently signed message ends in an outcome.

**Deployment** (`WalletService` of the relayer, `ensService`, `ProxyCounterfactualFactory`,
`WalletMasterWithRefund`, `Proxy`, `ENSRegistered`). State: the ENS, the contracts, what
addresses hold, pending deployments. `POST /wallet` deploys at once; `POST /wallet/deploy`
deploys at an address computed beforehand, once it is funded. *Hard:* name and balance are
checked before the transaction is sent, the answer 201 precedes mining, any token passes the
balance check but the refund is in ether. *Correct if:* a name resolves to a wallet that
exists and a wallet has its name, and a funded wallet comes into being or a refusal is seen.

**Authorisation requests** (`authorisationService`, routes, the hook of `MessageHandler`). A
new device leaves a request that a device of the wallet answers with `addKey`; the hook that
runs after mining removes it. *Correct if:* the request of an added key goes.

**SDK: executing** (`sdk.ts`, `retry.ts`). `execute` reads the nonce, signs, posts, and polls
for the outcome until a deadline. *Hard:* no lock around reading and signing, several callers,
a relayer that dies. *Correct if:* what a caller was told agrees with the chain and stays
true, and a message with enough signatures gets an outcome.

**SDK: observers** (`ObserverRunner` and four heirs). Loops that poll the chain or the
relayer, with `start`, `stop` and `finalizeAndStop` that only look at a state. *Hard:* blocks
mined between two calls of one tick, loops left behind by a restart, one memory for several
subscriptions. *Correct if:* every event is reported, in order, and an observer that is told
to stop does.

**Names on offer** (`SuggestionsService`, `WalletSelectionService`, `debounce`, in two
copies). *Hard:* answers in any order, lookups that throw. *Correct if:* what is offered fits
what was typed.

**Web wallet** (`WalletService`, `Login`, the router and modals, `FutureWalletFactory`). A
state machine None / Future / Deployed whose transitions come from flows that go on, await by
await, whatever the user does. *Hard:* Back and Forward, which reach screens no click leads to.
*Correct if:* the screens show what is on the chain, and a wallet that waits to be deployed is
not lost.

**Example application** (`WalletService.js`, `StorageService.js`, the views). Create, connect
or recover a wallet, keep its key in the browser, answer the requests of others. *Hard:*
cancelling what is in flight, listeners that store the state of the moment, reload. *Correct
if:* the stored key belongs to the stored wallet and is not overwritten; no request is left
that its page has forgotten.

**Others**: token grants, HTTP plumbing and configuration, hashing and signing helpers,
operations scripts, KEVM specifications.

`PROJECT.json` lists the components with their sources and status, and the hazards of the
code at their lines with the properties that cover them.

## 2. The modules

| module | models | state and actions |
|---|---|---|
| `WalletOps` | storage and methods of `KeyHolder` and `ERC1077` | no state: each method is a pair, when it is allowed (`...Allowed`, the `require`s) and what storage it leaves |
| `WalletLedger` | what the chain promises: numbered executions | `nonce`, `executed`; one action, `Commit` |
| `WalletContract` | the contract under the EVM | `wallet` (the storage), `stack` (the `executeSigned` frames in progress) |
| `PendingMessages` | `PendingMessages.add` | the tables, a program counter per request; one action per await |
| `MessageQueue` | queue service, executor, the chain they see | the queue, `state`, a program counter per loop, sent transactions, the wallet |
| `MessageLifecycle` | what a client may see of a message | `status` |
| `Relayer` | the process: handlers and loop over shared tables | composes `PendingMessages` (an INSTANCE) and `MessageQueue` (extended) |
| `SdkExecute` | concurrent calls of `sdk.execute` | extends `Relayer` with `call`, a program counter, nonce and result per caller |
| `ObserverRunner` | the polling loop the observers inherit | `state`, `loop` (several may live), `finalizing` |
| `BlockchainObserver` | the observer of KeyAdded and KeyRemoved | extends `ObserverRunner` with blocks, filters, `lastBlock`, the calls of a tick |
| `Suggestions` | typing, debounce, lookups, candidates | the input, the timer, the set of lookups under way, what is shown |
| `Deployment` | creation and deployment of wallets, relayer and contracts | requests with a program counter, pending transactions, ENS, code, funds |
| `WebWallet` | the web wallet | extends `Deployment` with wallet state, screen, modal and a flow per key |
| `Connection` | how a device gets a key: requests, messages, hook, observers | the tables, the wallets' keys and nonces, the observers of each device |
| `ExampleApp` | the example application on each device | extends `Connection` with views, memory, storage, listeners and flows |
| `MC...` | instances for TLC | constants only |
| `WalletOps_proofs` | lemmas about the methods of the wallet that several proofs use | |
| `WalletContract_proofs` | theorems about `WalletContract`, and that it implements `WalletLedger` | |
| `SdkExecute_proofs` | theorems about `MessageQueue`, `Relayer` and `SdkExecute`, in three sections | |
| `PendingMessages_proofs`, `BlockchainObserver_proofs`, `Suggestions_proofs`, `WebWallet_proofs`, `ExampleApp_proofs` | theorems about the module each is named after | |

**WalletContract.** A transaction that executes a message is several steps, because the
wallet loses control in two of them. `EnterExecuteSigned` is `executeSigned` up to the
call: the checks, `lastNonce++`, and a frame on `stack` that remembers the storage
`before` it. Then the call runs: `SelfCall` if it goes to the wallet itself, or else foreign
code, during which other `EnterExecuteSigned` and, for a key that is a contract,
`DirectCall` may happen. It ends by `SelfCall`, `ExternalReturns` or `CallReverts`; the last
restores `before` with the nonce taken, which is what the EVM does to an inner call.
`RecordExecution` emits the event, the refund runs (foreign code again, if it is paid in a
token) and ends by `FinishExecuteSigned` or by `ExecuteSignedReverts`, which restores
`before` entirely. When the stack is empty a transaction has ended.

**PendingMessages.** One action per database or chain call: `IsPresent`, `Add`, `Get`,
`ContainSignature`, `EnsureCorrectKeyPurpose`, `AddSignature`, `CountSignatures`,
`IsEnoughSignatures`, `GetMessageWithSignatures`, `EnsureNotSent`, the second count and
check, `Enqueue`. Count and check occur twice (in `add` and in `ensureCorrectExecution`),
so these operators take the program counters as parameters. `GetMessageWithSignatures` reads
the rows in the order the keys arrived and sorts them, as `sortSignatureKeyPairsByKey` does
(`SortedByKey`: the same keys in ascending order). A request ends as
`collecting` or `queued` (answer 201), `rejected` (one of the relayer's own errors),
`failed` (a primary key refused the insert), or `lost` (the process died).

**MessageQueue.** The loop of the service: `GetNext`, `NoNext`, `Wake`, `Validate`, `Send`,
`WaitForTransaction`, `RunHooks`, `SetTransactionHash`, `MarkAsSuccess`, `MarkAsError`.
`Throws` is any call in the try block of `execute` that fails, with or without having had
its effect; `Crash` is the death of the process, also by `onCritical` (`getNext` or
`markAsError` throws). `Mine` and `ForeignExecution` are the chain; both use
`ExecuteSignedAllowed`, the operator of `WalletOps`, so what the queue's properties rest on
is the check of the contract, not an assumption about it. `Loops` has more than one element
where `start` after `stop` may leave an old loop behind.

**Relayer.** A request step is a step of `PendingMessages` over the tables of
`MessageQueue`; a loop step is one of `MessageQueue`. `ProcessDies` ends both.

**SdkExecute.** `GetNonce`, `Post`, `Answered`, `Poll`, `TimeOut`, and `FetchFails` for an
answer that does not come. A request that was posted is handled by `PendingMessages` whether
or not its caller still waits. Messages are pairs of caller and nonce, so two callers that
read one nonce make two messages that compete.

**ObserverRunner, BlockchainObserver.** A loop is in its tick or asleep; `TimerFires`,
`TickEnds` and `TickThrows` are its steps. A tick of `BlockchainObserver` asks for the logs of
each filter, type by type (`FetchLogs`), and then for the block number (`SetLastBlock`);
`Mine`, `Subscribe`, `Start`, `Stop` and `FinalizeAndStop` come between any two calls.

**Deployment, WebWallet.** `ResolveName`, `CheckBalance` and `Send` are the awaits of
`deploy`; `Mine` is the transaction, all or nothing. A flow of the web wallet is known by the
key it generates: `ClickCreate`, `FutureWalletCreated`, `BalanceFound`, `DeployAnswered`,
`ContractDeployed`, or `ClickConnect`, `PostRequest`, `RequestAnswered`, `KeyAdded`. The other
actions are what the user may click on the screen and modal that are shown, and `Browse`, which
is Back and Forward and may lead to any screen. A screen that is mounted begins without a modal
(`Mount`), a path that is not left stays mounted (`Push`), a private path redirects to a new
Login unless the wallet is deployed (`PrivateRoute`), and only a mounted `Modal` hears
`showModal`. `blank` is the tree after `ApproveScreen` threw for want of a wallet.

**Connection, ExampleApp.** `Connection` has the backend: the routes for requests, a queue in
the small (`PostMessage`, `Execute`, `OnTransactionSent`, with `ExecuteFails` and
`CrashAndRestart`) and the two observers (`Poll`, `Pass`). `ExampleApp` has a click, an answer
or an event per action. `Open` is a page opened or reloaded: memory and observers are new, the
storage is what it was. The buttons of `ApproveConnection` remove the subscription and post a
denial (`CancelConnection`); the view changes when that is answered, whatever the view is by
then (`DenialAnswered`), or not at all (`DenialRejected`). `Rejected` is a call of a flow that
fails, after or before it reached the relayer; the page is then no part of the flow any more
(`Lost`). `getKeyFromData` is the conversion in the hook of the relayer, which drops the zero
bytes that a key begins with (`LeadingZero`).

Definitions marked "Mutant:" belong to no behaviour. Each is a plausible mistake in the code
next to it; `PROJECT.json` names for every property a mutant that breaks it.

## 3. The runs

| run | question and properties | distinct states |
|---|---|---|
| `wallet_contract` | nested, failing, reverted executions while keys change: `TypeOK`, `NoncesAccountedFor`, `KeyCountWithinOwned`, `ThresholdMet`, and `ImplementsLedger`, a refinement of `WalletLedger` | 219 thousand |
| `required_within_owned` | finding 1: `RequiredWithinOwned` | |
| `pending_messages` | four concurrent requests while the wallet may change: `TypeOK`, `SufficientIsQueued`, `QueuedIsExecutable`, `AcceptedIsKept` | 1.7 million |
| `no_signature_twice` | finding 2: `NoSignatureTwice` | |
| `message_queue` | a crash and a failing call anywhere: `TypeOK`, `AtMostOnce`, `SuccessHasHash`, `ResolvedInOrder`, `OutcomeIsTrue`, `OutcomeIsFinal`, and the liveness `EveryMessageResolved`, `StopLaterEnds` | 274 thousand |
| `message_queue_two_loops` | two loops after stop and start, a foreign execution: `AtMostOnce` | 284 thousand |
| `relayer` | the composition: `OneWinnerPerNonce`, and `ImplementsLifecycle`, a refinement of `MessageLifecycle` | 1.4 million |
| `sdk` | callers over the relayer: `SuccessAdvancesNonce`, `OneSuccessPerNonce`, `ToldIsKept`, and the liveness `SufficientIsResolved` | 690 thousand |
| `web_wallet` | deployment and web wallet: `NamesAreOwned`, `HomeHoldsKey`, `CreatedIsDeployed`, the action property `FutureIsKept`, and the liveness `CreationEnds` | 674 thousand |
| `observers` | events against blocks: `NothingMissed`, `ReportedInOrder`, and the liveness `StopEnds` | 495 thousand |
| `suggestions` | names on offer: `OffersComplete`, `ShownIsCurrent`, and the liveness `BusyEnds` | 538 thousand |
| `example_app` | connection and recovery: `StoredKeyIsOwned`, `NoOrphanRequest`, `AddedRequestGoes`, the action property `StoredKeyIsKept`, and the liveness `ListIsCurrent` | 1.5 million |

Every module that a run instantiates states its `TypeOK`; the runs check those of the contract, of
`PendingMessages` and of `MessageQueue`, whose invariants carry more than types. For `Relayer`
and `SdkExecute` they are `RelayerTypeOK` and `SdkTypeOK`.

What the runs show, where it is less than one might expect. Each exception below is a
behaviour of the code, not a bound of the model.

- `OutcomeIsTrue` is for a service that is never stopped and started again in one process
  (`NeverRestarted`): the receipt is not read, so a reverted transaction counts as success.
  Without crashes validation prevents that while nobody else uses the wallet. After a crash a
  message already sent may be refused and recorded as an error; a rival for its nonce then
  passes validation, reverts, and is recorded as a success (`RivalExecuted`). With a failing
  call an executed message may be recorded as an error (anything that throws after sending).
- `OutcomeIsFinal` is for one loop and tables that answer: a store that fails after it has
  written a success makes the loop record an error on top of it, and a second loop may do
  the same. `ResolvedInOrder` needs no such condition: a loop that a restart left behind
  can be late with an outcome, but its row comes before those the other can take.
- If the process dies between storing the last signature and queueing, the message waits
  for ever: that signature is refused from then on. `SufficientIsResolved` excepts messages
  one of whose requests was cut off.
- `stopLater` returns only if a loop runs when it is called and the service is not started
  again (`StopLaterEnds`); `finalizeAndStop` of an observer likewise (`StopEnds`).
- `QueuedIsExecutable` and `SufficientIsQueued` hold while the wallet is unchanged. If
  `requiredSignatures` changes during the collection, either can fail: a message is queued
  with too few signatures (and refused by `estimateGas`), or waits for a further one.
- `CreationEnds` is for wallets that hold ether. With tokens only, the deployment passes the
  relayer's check, reverts after the answer 201, and the client polls for ever; so it does if
  its name is lost after that answer.
- `NothingMissed` is for histories in which no tick sees two blocks mined (`crowded`): the block
  number is read after the logs, so a slow tick skips events. `ReportedInOrder` is for one
  loop (`doubled`).
- `HomeHoldsKey` asks for the key only until the user goes Back or Forward to a private screen
  while a request waits (`strayed`): `isAuthorized` is true from `connect()` on, so the home
  screen is then shown for a key that nobody approved.
- `ShownIsCurrent` is for lookups that do not overlap: the debounce orders requests, not
  answers. `BusyEnds` excepts lookups that throw: nothing turns their indicator off.
- `StoredKeyIsOwned`, `StoredKeyIsKept` and `NoOrphanRequest` are for flows and cancellations of
  a device that do not overlap (`tangled`): `onKeyAdded` stores the key and wallet of the
  moment, and the answer to a denial sets the view of the moment.
- `NoOrphanRequest` says that a request on offer is known to the page that made it: awaited,
  listened for, being denied, or fulfilled. It excepts rejected calls: after a rejected denial
  or a rejected `connect` the request is there and the page has no listener for it (`Lost`).
- `AddedRequestGoes` excepts requests whose hook died with the relayer (`lost`), and those of
  keys that begin with a zero byte (`LeadingZero`): they stay on offer for good.
- `KeyCountWithinOwned` bounds `keyCount` from above only; the code lets it fall below the
  number of keys. `SuccessHasHash` allows a hash without a recorded success. `OutcomeIsFinal`
  and, for successes, `ToldIsKept` are stated while no call fails. They say what can be
  relied on beside the hazard and do not exclude it; `PROJECT.json` notes so at the hazards.
- `ListIsCurrent` is for an observer with one filter: with two, the filters share one memory
  and an emptied list may never be told.

### Bounds

- `wallet_contract`: two nonces, nesting two deep, two signatures, three addresses, one of
  them a contract. Two frames are what it takes for executions to interfere: a third nests
  in the second as the second in the first, and the proofs, which have no bound on depth,
  nonces or addresses, confirm it. The calls include adding an existing key, removing an
  address that is no key, lists of keys, and raising the threshold.
- `pending_messages`: three requests for one message of a wallet that requires two
  signatures (the third is the one too many), and one for another by a stranger. The keys
  sign in an order that is not theirs. The wallet may lower or raise its threshold and
  lose a key.
- `message_queue`: three messages, two with one nonce, the third removes the key that
  signed one of them; one crash and one fault at any point. `message_queue_two_loops`: two
  messages, two loops and a foreign execution.
- `relayer`: two messages for one nonce, signed by two devices, with a crash and a foreign
  execution. `sdk`: two callers and the nonces 0 and 1, so that they meet on one nonce or
  follow one another; a crash, a fault, and two polls before the deadline (five in the code;
  two suffice to have one answered and one not).
- `web_wallet`: two keys generated here, which is a creation and a connection or two of
  either, a rival key, two names, one failing call. Keys are generated in one order (`Fresh`),
  since they differ in nothing else; rivals pay in ether and do so before they deploy; one
  transfer at a time; `settings` stands for all private screens without modals. `Browse` may
  lead to any screen but the present one, which is more than a history of the clicks made would
  allow: screens visited before the page was loaded are in it too.
- `observers`: two blocks, of which the second has two events, so that one type of
  event occurs twice and one block has both types; two filters, one without a key; two starts, so that a
  second loop may run beside the first; one rejected call.
- `suggestions`: three changes of the input (two lookups that overlap and one more), two
  domains of which one's label begins the other's, and inputs of every shape the rules of
  `getSuggestions` tell apart.
- `example_app`: one device and the other clients; two wallets, so that a key may meet the
  wrong one; three keys, which is an owner and two keys of a device that cancels and begins
  again, the third beginning with a zero byte; one message; two denials under way at once;
  two upsets, the first of which opens the page. "Upset" is one bound for everything that goes
  wrong or is done in haste. With one message a page that recovers by code starts from a wallet
  whose codes were set before (`Init`); the theorems have no such bounds.

Bounds are in the guards under the names `MaxNonce`, `MaxDepth`, `MaxSigs`, `MaxCrashes`,
`MaxFaults`, `MaxForeign`, `MaxPolls`, `Nonces`, `MaxStarts`, `MaxTyped`, `MaxKeys`,
`MaxMessages`, `MaxUpsets`, `MaxDenials`, and in the length of `EventsIn`. Deadlock is not checked where the
system may really stop: all requests answered, the service stopped, a wallet without keys,
users who do nothing more. No symmetry is used: addresses and keys are ordered, messages
differ, and most runs have a liveness property.

## 4. Fairness

Weak fairness is assumed of what the code's scheduling brings about by itself:

- each loop step and request handler of the relayer: Node runs a continuation once the
  awaited call answers, and the store and the node answer in the end (a call that fails is
  `Throws`);
- `Mine`: a pending transaction is mined;
- `FirstStart` or `StartService`: `Relayer.start` starts the service once in every process;
- `StopLaterReturns`, and the timers and answers a caller of `execute` waits for (`Progress`
  of `SdkExecute`);
- `Due` in `WebWallet` and `BlockchainObserver`: some flow, request, timer or answer that is
  due happens. One condition for all of them is enough, since each takes finitely many steps
  between two actions of a user, and it assumes less than one for each;
- `Proceed` in `Suggestions`: the debounce rings and lookups are answered or throw;
- `AuthorisationsChanged` in `ExampleApp`: the observer of a device polls, or its loop dies.

Nothing is assumed of a start after a stop, a stop, a fault, a crash, a foreign execution, a
block, or anything a user, owner or rival does. The contract has no fairness: nobody has to
call it. Crashes are bounded, which stands for "does not crash for ever".

## 5. What is proved

Eight modules hold proofs (section 2). Each theorem is for all values of the constants: any
number of addresses, messages, requests, loops, callers, keys and names, any wallet to begin
with, and any bounds, so for any number of crashes, failing calls and foreign executions.
Together they state every invariant and action property of the runs that hold. The queue, the
relayer and its callers share a module of proofs, because each extends the module before and the
proofs use the lemmas of all three.

| module | theorem | says |
|---|---|---|
| `WalletContract_proofs` | `InductiveInvariant` | `Spec => []IInv` |
| | `TypesHold` | `TypeOK`; in particular no counter falls below zero |
| | `NoReplay` | `NoncesAccountedFor`: every nonce below `lastNonce` is that of exactly one event or open frame |
| | `KeyCountIsSafe` | `KeyCountWithinOwned` |
| | `NoExecutionBelowThreshold` | `ThresholdMet`: an execution starts only with the signatures of `requiredSignatures` different keys |
| | `ContractImplementsLedger` | `WalletContract` implements `WalletLedger` |
| `SdkExecute_proofs`, the queue | `QueueInvariant` | `QueueInv` is an invariant, also of the generalised `QueueNext` |
| | `QueueTypes`, `ExecutedAtMostOnce`, `SuccessesHaveHashes`, `QueueIsInOrder` | `TypeOK`, `AtMostOnce`, `SuccessHasHash`, `ResolvedInOrder` |
| | `OutcomesAreFinal` | the action property `OutcomeIsFinal` |
| | `OutcomesAreTrue` | `OutcomeIsTrue` |
| `SdkExecute_proofs`, the relayer | `RelayerInvariant` | `RelayerInv` is an invariant |
| | `OneMessageWins` | `OneWinnerPerNonce` |
| | `RelayerImplementsLifecycle` | `Relayer` implements `MessageLifecycle`, under `[](faults = 0)` |
| `SdkExecute_proofs`, the callers | `SdkInvariant` | `SdkInv` is an invariant |
| | `SuccessesAdvance`, `SuccessesAreAlone`, `WhatWasToldStaysTrue` | `SuccessAdvancesNonce`, `OneSuccessPerNonce`, `ToldIsKept` |
| `PendingMessages_proofs` | `CollectionTypes`, `AcceptedStaysKept` | `TypeOK`, `AcceptedIsKept` |
| | `SufficientGetsQueued` | `SufficientIsQueued`, under `[][NeverAgain]_vars` |
| | `QueuedCanBeExecuted` | `QueuedIsExecutable`, under `[][NeverAgain]_vars`, `DifferentSignatures`, `PurposeIsOwned` |
| `BlockchainObserver_proofs` | `ObserverInvariant`, `ObserverTypes` | `IInv` and `TypeOK` are invariants |
| | `ObserverMissesNothing`, `ObserverReportsInOrder` | `NothingMissed`, the action property `ReportedInOrder` |
| `Suggestions_proofs` | `SuggestionsInvariant`, `SuggestionsTypes` | `IInv` and `TypeOK` are invariants |
| | `AllCompletionsAreOffered`, `ShownAtRestIsCurrent` | `OffersComplete`, `ShownIsCurrent` |
| `ExampleApp_proofs` | `ExampleAppInvariant`, `ExampleAppTypes` | `IInv`, `RecoveriesAreAskedFor` and `TypeOK` are invariants |
| | `StoredKeysAreOwned`, `NoRequestIsLeftBehind`, `AddedRequestsGo` | `StoredKeyIsOwned`, `NoOrphanRequest`, `AddedRequestGoes` |
| | `StoredKeysAreKept` | the action property `StoredKeyIsKept` |
| `WebWallet_proofs` | `WebWalletInvariant` | `WebWalletInv` is an invariant |
| | `NamesHaveOwners`, `HomeIsForHolders`, `CreatedWalletsAreDeployed`, `FutureWalletsAreKept` | `NamesAreOwned`, `HomeHoldsKey`, `CreatedIsDeployed`, and the action property `FutureIsKept` |

### Assumptions and hypotheses

Assumptions about constants, which TLC evaluates in the runs: of the contract `AddrAssumption`
(addresses are finitely many positive numbers, the wallet's own is not among them),
`PurposeAssumption`, `MaxKeysAssumption`, `ActorsAssumption`, `BoundsAssumption`; of the others
that the constants have the types the code gives them (`MessagesAssumption`,
`FirstWalletAssumption`, `LimitsAssumption`, `WalletAssumption`, `HandlersAssumption`,
`FaultsAssumption`, `RivalsAssumption`, `PollsAssumption`, `ObserverAssumption`, `DenialsAssumption`), and three that
say more. `CallsAssumption`: the nonce of a message is the one its caller read.
`ConnectionAssumption`: there is a wallet, `Nobody` is neither a wallet nor a device, and a key
can be generated. `SuggestionsAssumption`, about the tables that stand for the comparison of
strings: an input with a third part has a second, a domain begins with itself and is not empty, and
what begins the tld of a domain is accepted by `isCorrectTld`, which knows test, eth and xyz. The
last is a condition on the configuration (in production the domains come from the environment);
with another tld the names would not be offered.

Three theorems have hypotheses beside the specification.

- `NeverAgain`: a wallet that has been changed does not become again what it was at the start.
  `SufficientIsQueued` and `QueuedIsExecutable` speak of a wallet in its first state; if it
  could leave that and come back, a handler that counted in between would have compared with
  another threshold. Histories in which the wallet stays as it is, or changes for good,
  satisfy it, and so do the calls of the run (`MCKeyCalls`).
- `DifferentSignatures` (no two requests for a message carry one signature) and
  `PurposeIsOwned` (a key with a purpose is a key; `addKey` and `removeKey` set both). Without
  the first the result is false: that is finding 2. The run satisfies both.
- `[](faults = 0)` for the refinement of `MessageLifecycle`: a call that fails after it has
  written a success leads to an error on top of it, which is no step of that life. Crashes and
  foreign executions are allowed, and whatever the handlers do. The run of the refinement has
  no failing calls either.

### The contract

**The inductive invariant.** `NoncesAccountedFor` is not inductive: a revert brings back an
old storage, about which it says nothing. `SnapshotsSound` says of every frame that the
storage it may bring back was itself accounted for, by the events in it and the frames
below; that its counters were sound; and that events were only added since, frame by
frame. `IInv` is the conjunction of `TypeOK`, `NoncesAccountedFor`, `KeyCountWithinOwned` and
`SnapshotsSound`. `WalletOps_proofs` is about methods: each keeps `KeysWellCounted`
(`AddKeyIsSound`, ..., `EffectIsSound`; cardinalities of finite sets). `WalletContract_proofs`
is about frames: entering (`TakingTheNonce`, `EnterKeepsIInv`), recording
(`RecordingTheEvent`), returning (`ReturnKeepsIInv`) and popping (`PopKeepsIInv`).
`StepKeepsIInv` has a case per action.

`KeysWellCounted` is an inequality, and must be: `removeKey` of an address that is no key,
with purpose 0, lowers `keyCount` and removes nothing. The proof shows it never errs the
other way, which would let `setRequiredSignatures` lock the wallet.

**Threshold.** `NeighboursSuffice`: if each element of a sequence of numbers is below the next, then every
element is below every later one, so all are different (`SignersAreDistinct`), by induction
over the distance, done with the least counterexample. `OnlyEnterPushes` says no other
action adds a frame.

**Refinement.** The mapping shows the storage of the outermost frame's `before` while a
transaction runs, and the wallet between transactions. A step inside a transaction is then
a stutter, and the step that empties the stack is a `Commit`: `LaterStorageIsCommit`
derives the numbering of the new events from `Accounted` of both storages.

### The queue

`QueueInv` adds to the properties what they rest on. `LoopsOK`: the row and the transaction a
loop knows of are there. `RowsDistinct`: the primary key. `NoneOvertaken`: every row before that
of a loop is resolved. It is what makes `ResolvedInOrder` inductive for several loops, since
`getNext` takes the least open row and resolved rows stay so. `HashComesFirst`: the hash is
stored when a loop is about to record success. `NoncesSpent`: an executed message has a nonce
below `lastNonce`, and no two executions share one, from which `AtMostOnce` follows.
`RowIsOpen`: a lone loop, while nothing has failed, works at an open row, from which
`OutcomeIsFinal` follows.

A few lemmas say how any step changes the rows (`RowsEvolve`), the loops (`LoopsEvolve`,
`OwnSteps`, `Arrivals`) and the transactions (`TransactionsEvolve`); the invariants are proved
from these rather than action by action. The steps are those of `QueueNext`, which is `Next`
with any signatures in a new row, so that `Relayer`, whose handlers collect them, can use the
same results.

`OutcomeIsTrue` needs more (`OutcomeInv`, while nothing fails, nobody else uses the wallet and
one loop runs for good): what validation found executable stays so until its nonce is taken,
by a message of this queue (`SentIsSound`); when a message is sent, those before it that want
its nonce have failed (`EarlierFailed`); and without a crash the only transaction that can be
pending is the one the loop waits for (`KnownTransactions`).

### Collecting signatures

`CollectionInv` follows a handler's signature from the store into the row it queues.
`AllCovered` is the heart of `SufficientGetsQueued`: every message with signatures is queued, or
some handler will still count them all, or has counted them all and found too few (`Covers`).
The handler that stores the last signature takes this over from whoever held it before.
`ExecutableInv` adds that each stored signature has one request behind it and a key the wallet
owns; `SortedIsTheSame` shows that sorting keeps the keys and, if they differ, gives the strict
order that `areSignaturesValid` asks for.

### The relayer

`HandlersGo` shows what a handler may do to the tables of the queue: nothing, or queue a row. So
`QueueInv` carries over. `ContestInv` is about contests for a nonce. A message is `Decided` when
its nonce was taken by itself or by a message recorded as an error. What was sent comes from a
row with nothing open before it (`SentInTurn`), so whatever takes the nonce of a message in
work is that message or comes from a row resolved earlier, and that row cannot be a success, since
its nonce would have been taken already (`WinnerDecides`). Hence a success is always
`Decided` (`SuccessIsDecided`), over crashes and faults, as long as nobody else uses the
wallet. For the refinement, `StatusGoesOn` shows that a step moves at most one message on, to a
successor (`GoesOn`).

### The callers

`SdkInv` adds to `RelayerInv` that no message with a success shares its nonce with another
success or with one in work (`SuccessIsAlone`: a message is sent after its validation, and a
success has used up the nonce); that while nothing fails a row without a success was never
sent, unless a loop is at it (`SentIsKnown`), so that a message recorded as an error was not
executed; and that what a caller was told is in the rows (`TellsTrue`). `TruthStays` carries
the last over every step, a success by way of `StatusGoesOn`.

### The web wallet

`DeploymentInv`: what was sent stays as it was asked for, so that `NamesAreOwned` is a matter of
`Mine` alone. `WalletInv` is about flows, not about clicks, because Back and Forward let a user
start what no link leads to. `FlowsOwnTheWallet`: a creation that waits for its balance or its
deployment owns the future wallet, and a connection that has subscribed owns the connected one.
Both `setFutureWallet` and `connect` refuse when there is a wallet already, and `Disconnect` is on
private screens only, which a future wallet never has (`ScreensFollow`): so nothing comes between
a future wallet and its `setDeployed`, which takes whatever wallet there is by then
(`FutureWalletsAreKept`, `CreatedWalletsAreDeployed`). `KeysAreAwaited`: a wallet that counts as
deployed is on the chain, or given its key, or a connection still waits for it. The last is what
`HomeHoldsKey` excludes from the private screens, unless the user strayed there: a `Disconnect`
there lets the wallet go while the flow still waits, and from then on `FlowsOwnTheWallet` says
nothing of connections.

### The blockchain observer

`NothingMissed` says what was reported once `lastBlock` has moved on, so the invariant follows a
tick. `TicksReport`: what a tick has asked for, at a filter and type that is not `StillToAsk`,
is reported up to the block at which the tick began (`height - pace`). When the number is read
all has been asked for, and unless two blocks were mined meanwhile everything below the number
is covered. The head of `rest` is taken off a sequence without repetition (`NoFilterTwice`,
since the emitters are the keys of an object), so what it leaves is what is still to ask
(`AskNextIsSound`, `AnswerIsTakenOff`). For `ReportedInOrder` the same set serves the other way
(`OneLoopInOrder`): what the one loop has still to ask for was not reported beyond `lastBlock`,
and a `start` that is under way began after everything reported, since no loop lives then.

### Names on offer

`CandidatesAreCompletions` compares the chain of early returns of `getSuggestions` with what it
is for: the domains the input can be completed to, all of them and nothing else.
`LookupsAreComplete` carries that over the answers: what a lookup has left or found is what it
began with, whatever is registered meanwhile. `OneAtATime`: until lookups overlap there is one
at most, and it is for the input of the moment unless a timer runs that will start another.

### The example application

`RelayTypes`, `ObserverTypes` and `PageTypes` are the types; of these only that the `turn` of an
observer with filters is one of them is not plain, since badges add filters while it polls. The
rest has two halves.

`Relayed` is what the backend and the pages promise each other. A row, in the table or
remembered by an observer or shown in a list, and a message that was sent, are for a key whose
request was made (`AskedFor`, `RowsWereAskedFor`), and an added key is on its wallet. A new flow
takes a key that was not used before (`NextKeyIsUnused`), so the request it makes cannot be one
that was added long ago, and `AddedRequestGoes` is left to the hook. `RequestsKeepRelayed`,
`PostMessageKeepsRelayed` and the lemmas about `Execute`, `ExecuteFails` and the hook say which
changes keep it; the actions of the pages are reduced to these.

`Page` is about one device. `OneThingUnderWay`: while nothing overlapped, either the wallet is
being loaded, or one flow is pending, or one denial is under way, or one key is listened for,
and this is the wallet and private key in memory. That is why `onKeyAdded`, which stores whatever
is in memory by then, stores a key of that wallet, why the answer to a denial finds nothing
stored (`StoredRests`), and why a cancellation, which denies the request for the key in memory,
denies the right one (`NoOrphanOf`). `ClickHolds`, `FlowGoesOn`, `FlowEnds`,
`CancelConnectionHolds`, `DenialAnsweredHolds` and `DenialRejectedHolds` are the stages of a flow
and its cancellation; `QuietPage` and `OtherPagesStay` dispose of what an action leaves alone.

Two parts were found missing by proof attempts that failed, and TLC confirmed them before they
were used: while the storage is loaded nothing else is awaited, without which the backup codes
of an earlier visit could be stored beside it; and `RecoveriesAreAskedFor`, that the view which
recovers has the key it asked a code for, since its click posts a message for that key.

### What is only model-checked

The invariants that are proved were first checked with TLC on the instances of the runs, without
runs of their own. All liveness is only model-checked (`EveryMessageResolved`, `StopLaterEnds`,
`SufficientIsResolved`, `CreationEnds`, `StopEnds`, `BusyEnds`, `ListIsCurrent`): it needs
fairness and ENABLED, which the proof system does not handle. So are the two properties of
section 6 that do not hold.

## 6. Disagreements

1. `RequiredWithinOwned`: `removeKey` may leave fewer keys than `requiredSignatures`;
   `setRequiredSignatures` is careful to refuse that ("Signatures exceed owned keys
   number"). `executeSigned` then accepts no message any more; a key that remains may still call
   the wallet itself.
2. `NoSignatureTwice`: two copies of one request both store the signature, although a test says
   "should not accept same signature twice". The message then counts one signature too many,
   and is never accepted by the contract in that form.

Each has a run that TLC ends with a counterexample. Others are visible in the definitions
themselves. The documentation says that events are emitted right after a transaction is sent
(`docs/source/relayer.rst:172`), while `RunHooks` comes after `WaitForTransaction`, as in the
code; and `added` is emitted on the data of the message alone (`relayer.rst:169`), also when
the inner call failed and the key was not added.

Some behaviours contradict no text of the repository, but a user would not expect them. The model
has them, and the properties of section 3 except them:

- the request of a key that begins with a zero byte is never taken away by the hook
  (`getKeyFromData`, `relayer/lib/core/utils/utils.ts:20`);
- a rejected denial leaves `ApproveConnection` waiting with its subscription removed, and a
  second or late answer shows Login, or mounts a recovery, over whatever the page does by then,
  also with a key stored (`DenialRejected`, `DenialAnswered`);
- Back reaches the home screen of the web wallet for a connected key that was not approved, takes
  the modal of a future wallet away, and, to `/approve` without a deployed wallet, ends in a
  render that throws and leaves a blank page (`Browse`);
- a transfer that ends hides whatever modal is shown by then (`TransferEnds`).

## 7. Abstractions

- **Signatures** are the addresses `ecrecover` returns. A wrong signature is an address that
  is no key. Hashes are model values: one per message.
- **Addresses**: `Addr` leaves out 0 and the wallet's own address. Keys are positive
  numbers because `areSignaturesValid` and `sortSignatureKeyPairsByKey` compare them.
- **Storage** `keys[a]`: `owned` is where `keys[a].key # 0`, `purpose` is the other half.
- **Gas and money**: the refund is paid or it is not. `estimateGas` runs the check of the
  contract; any other reason to refuse (gas limits, balance, proxy) is a nondeterministic
  refusal. Ether is sent with too little gas for the receiver to call back.
- **created_at**: rows are in the order of insertion. The database clock may give two rows one
  instant; their order is then unspecified and the model takes one.
- **Mining**: transactions of the relayer's account are mined in the order they were sent.
  A transaction that passed validation reverts only if the wallet cannot accept it any
  more, or if others used the wallet.
- **Crashes**: after a crash a new process starts, with the tables as they were.
- **Request handlers**: a failing store call in a handler ends the request and leaves what is
  written; the same happens to a request that `ProcessDies` cuts off (`lost`), so it is
  modelled there only.
- **A click whose answer only ends its handler** is one step with the answer in `ExampleApp`:
  an owner who accepts or denies a request, a recovery by code, the cancellation of a recovery,
  which sets the view before it denies. The denials of `ApproveConnection`, whose answer sets
  the view, are steps of their own, as awaits are elsewhere, or a comment says why they need
  not be.
- **`PostMessage` of `Connection`** reads the nonce, signs and posts in one step (three awaits in
  `sdk.ts:177-180`, one by one in `SdkExecute`). A nonce that is stale by then is refused at
  `Execute` whenever it was read.
- **Foreign calls during an execution** may come from any contract that is a key
  (`DirectCall`), since the called contract may call others.
- **Denials by strangers**: the route asks for no signature, so any client may deny any request
  (`OtherAnswers`).
- **Answers** to an observer are those of the block or table at which they arrive: nothing
  reads what was told, so an answer that travels long is as good as one given late.
- **Names** are labels, and which label begins with which is given by a constant; the
  existence of a name is all that is asked of it.
- **The relayer in `Connection`** is `Relayer` reduced to what the devices see of it: a queue,
  an execution and a hook. What may happen inside is the subject of `relayer` and `sdk`.

## 8. Not modelled

Components with status `not_modelled` in `PROJECT.json`, each with its reason: they are
stateless (HTTP plumbing, configuration, hashing and signing helpers) or run by hand
(operations scripts). Within the others:

- `PendingMessagesStore.remove` (only tests call it) and `confirmExecution`;
- the order in which `Relayer.stop` takes its parts down: a process that exits there is a
  crash;
- an upgrade of a wallet's master and the fallback of `Proxy`, which nothing in the
  repository uses;
- grants of ether and tokens after an executed message, which only pay more, and
  `RelayerUnderTest`;
- of `BalanceObserver` and `DeploymentObserver` anything but the one call their user makes: a
  second call while one waits throws, and the factory is used once per wallet;
- typed URLs and a reload of the web wallet: either loads the page anew with nothing in its
  memory, which is another instance that begins at `Init`; the screen `/transferring` and the
  modals `personalInfo`, `cardInfo` and `invitation`, which nothing that is shown opens;
- what only reads the chain and shows it: balances, history, names, the clicks of the example's
  main screen, the greeting of a new device, trusted browsers.

## 9. Plan

All components with state of their own are modelled, and the safety that the runs check is proved.
What could follow is finer grain where a model takes a call and its use for one step
(`RelayerObserver` in `Connection`, the order in which `Relayer.stop` takes its parts down), and the
hazards in `PROJECT.json` that no property covers.
