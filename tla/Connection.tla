------------------------------- MODULE Connection -------------------------------
(* How a new device gets its key on a wallet: the relayer keeps authorisation   *)
(* requests, a device that owns the wallet polls them and sends addKey messages,*)
(* which the relayer executes one after the other, taking the request away once *)
(* the transaction is mined; every device watches its requests with the         *)
(* RelayerObserver and the chain with the BlockchainObserver of its SDK.        *)
EXTENDS Naturals, Sequences, FiniteSets, SequencesExt

CONSTANTS
    Devices, Wallets,
    LeadingZero,        \* the keys whose first byte is zero
    MaxKeys,            \* bound: keys that are generated
    MaxMessages,        \* bound: messages that are sent
    MaxUpsets           \* bound: what goes wrong, see Upset

VARIABLES
    owned,      \* the keys on each wallet; none before it is deployed
    nonce,      \* the nonce of each wallet
    added,      \* the keys that KeyAdded was logged for
    requests,   \* the table of authorisations: <<wallet, key>>
    sent,       \* every message the relayer accepted
    queue,      \* the messages to execute
    hook,       \* the mined message whose onTransactionSent is to come, or NoMessage
    filters,    \* the filters of each RelayerObserver, in the order of their creation
    turn,       \* which of them is asked next
    last,       \* its lastAuthorisations
    polling,    \* whether its loop lives
    passed,     \* the keys whose KeyAdded each BlockchainObserver has left behind
    lost,       \* the rows whose hook a crash of the relayer has lost
    upsets      \* bound used up

chain == <<owned, nonce, added>>
relayer == <<requests, sent, queue, hook, lost>>
observer == <<filters, turn, last, polling, passed, upsets>>
connection == <<chain, relayer, observer>>

Nobody == "nobody"
(* The names that stand for nobody are no device and no wallet.                 *)
ASSUME ConnectionAssumption ==
    /\ Wallets # {} /\ Nobody \notin Wallets \cup Devices
    /\ MaxKeys \in Nat \ {0} /\ LeadingZero \subseteq 1..MaxKeys

Keys == 1..MaxKeys
Code == MaxKeys + 1     \* the key of the backup codes of a wallet
NoKey == 0
NoMessage == [wallet |-> Nobody, key |-> NoKey, by |-> NoKey, nonce |-> 0]
Message == [wallet : Wallets, key : Keys \cup {Code}, by : Keys \cup {Code},
            nonce : Nat]
Rows == Wallets \X Keys
(* One bound for calls that fail, crashes of the relayer, pages that are opened  *)
(* and clicks while something else goes on.                                     *)
Upset == upsets < MaxUpsets /\ upsets' = upsets + 1
RowsOf(w) == {r \in requests : r[1] = w}

ConnectionType ==
    /\ owned \in [Wallets -> SUBSET (Keys \cup {Code})] /\ nonce \in [Wallets -> Nat]
    /\ added \subseteq Rows /\ lost \subseteq Wallets \X (Keys \cup {Code})
    /\ requests \subseteq Rows
    /\ sent \subseteq Message /\ queue \in Seq(Message) /\ hook \in Message \cup {NoMessage}
    /\ filters \in [Devices -> Seq(Wallets)] /\ last \in [Devices -> SUBSET Rows]
    /\ \A d \in Devices : turn[d] \in 1..(Len(filters[d]) + 1)
    /\ polling \in [Devices -> BOOLEAN] /\ passed \in [Devices -> SUBSET Rows]

RelayerInit == requests = {} /\ sent = {} /\ queue = <<>> /\ hook = NoMessage /\ lost = {}
ObserverInit ==
    /\ filters = [d \in Devices |-> <<>>] /\ turn = [d \in Devices |-> 1]
    /\ last = [d \in Devices |-> {}] /\ polling = [d \in Devices |-> TRUE]
    /\ passed = [d \in Devices |-> {}] /\ upsets = 0

--------------------------------------------------------------------------------
(* The routes of the relayer.                                                   *)
AddRequest(w, k) ==
    /\ requests' = requests \cup {<<w, k>>} /\ UNCHANGED <<sent, queue, hook, lost>>
RemoveRequest(w, k) ==
    /\ requests' = requests \ {<<w, k>>} /\ UNCHANGED <<sent, queue, hook, lost>>

(* sdk.addKey and sdk.addKeys: read the nonce, sign, post; refused unless the   *)
(* signer is a key of the wallet and the message is new.                        *)
MessageOf(w, k, by) == [wallet |-> w, key |-> k, by |-> by, nonce |-> nonce[w]]
Accepts(m) == m.by \in owned[m.wallet] /\ m \notin sent
PostMessage(m) ==
    /\ Cardinality(sent) < MaxMessages
    /\ IF Accepts(m)
         THEN /\ sent' = sent \cup {m} /\ queue' = Append(queue, m)
              /\ UNCHANGED <<requests, hook, lost>>
         ELSE UNCHANGED relayer

Valid(m) == m.nonce = nonce[m.wallet] /\ m.by \in owned[m.wallet]

(* executeAndWait: a message that does not validate is put aside as an error; a *)
(* valid one advances the nonce whether or not its key is new.                  *)
Execute ==
    /\ hook = NoMessage /\ queue # <<>> /\ queue' = Tail(queue)
    /\ LET m == Head(queue) IN
       IF Valid(m)
         THEN /\ owned' = [owned EXCEPT ![m.wallet] = @ \cup {m.key}]
              /\ nonce' = [nonce EXCEPT ![m.wallet] = @ + 1]
              /\ added' = IF m.key \in Keys \ owned[m.wallet]
                            THEN added \cup {<<m.wallet, m.key>>} ELSE added
              /\ hook' = m
         ELSE UNCHANGED <<chain, hook>>
    /\ UNCHANGED <<requests, sent, lost, observer>>

(* The node or the tokens of the wallet fail the message; or it is mined and    *)
(* its call fails.                                                              *)
ExecuteFails ==
    /\ Upset
    /\ hook = NoMessage /\ queue # <<>> /\ queue' = Tail(queue)
    /\ \/ UNCHANGED <<nonce, hook>>
       \/ LET m == Head(queue) IN
          Valid(m) /\ hook' = m /\ nonce' = [nonce EXCEPT ![m.wallet] = @ + 1]
    /\ UNCHANGED <<owned, added, requests, sent, lost, filters, turn, last, polling, passed>>

(* Mutant: the request is left where it is.                                     *)
OnTransactionSentKeeps ==
    /\ hook # NoMessage /\ hook' = NoMessage
    /\ UNCHANGED <<chain, requests, sent, queue, lost, observer>>

(* stripZeros takes the padding of the key in the data away, and the zeros that *)
(* the key itself begins with: what is left of it then is the key of no row.    *)
getKeyFromData(k) == IF k \in LeadingZero THEN NoKey ELSE k

(* The request goes, whatever came of the call; addKeys takes no request away.  *)
OnTransactionSent ==
    /\ hook # NoMessage /\ hook' = NoMessage
    /\ requests' = requests \ {<<hook.wallet, getKeyFromData(hook.key)>>}
    /\ UNCHANGED <<chain, sent, queue, lost, observer>>

(* The relayer dies and starts again.  The message it had mined is tried anew   *)
(* and does not validate: its hook never runs.                                  *)
CrashAndRestart ==
    /\ Upset
    /\ hook # NoMessage /\ hook' = NoMessage /\ lost' = lost \cup {<<hook.wallet, hook.key>>}
    /\ UNCHANGED <<chain, requests, sent, queue, filters, turn, last, polling, passed>>

Relay == Execute \/ OnTransactionSent
RelayFails == ExecuteFails \/ CrashAndRestart

--------------------------------------------------------------------------------
(* subscribe: a filter is kept for good.                                        *)
Watch(d, w) ==
    /\ filters' = [filters EXCEPT ![d] = IF Contains(@, w) THEN @ ELSE Append(@, w)]
    /\ UNCHANGED <<turn, last, polling, passed, upsets>>

(* What the next answer says, and of which wallet.                              *)
Asked(d) == filters[d][turn[d]]
NextTurn(d) == IF turn[d] < Len(filters[d]) THEN turn[d] + 1 ELSE 1
(* Mutant: only the lengths are compared.                                       *)
ChangedInLength(d) == Cardinality(RowsOf(Asked(d))) # Cardinality(last[d])
Changed(d) == RowsOf(Asked(d)) # last[d]

(* checkAuthorisationsChangedFor: one memory for the filters of all wallets.    *)
(* Nothing depends on the sleep between ticks, nor on where an answer waited.   *)
Poll(d) ==
    /\ polling[d] /\ filters[d] # <<>>
    /\ last' = [last EXCEPT ![d] = RowsOf(Asked(d))]
    /\ turn' = [turn EXCEPT ![d] = NextTurn(d)]
    /\ UNCHANGED <<filters, polling, passed, upsets>>

(* A rejected poll ends the loop for good.                                      *)
PollFails(d) ==
    /\ Upset
    /\ polling[d] /\ filters[d] # <<>> /\ polling' = [polling EXCEPT ![d] = FALSE]
    /\ UNCHANGED <<filters, turn, last, passed>>

(* The BlockchainObserver comes by the KeyAdded of a row; while it is in the    *)
(* last block it comes by again.                                                *)
Pass(d, r) ==
    /\ r \in added \ passed[d]
    /\ \/ passed' = [passed EXCEPT ![d] = @ \cup {r}]
       \/ UNCHANGED passed
    /\ UNCHANGED <<filters, turn, last, polling, upsets>>

(* A new page: new observers, which watch from now on.                          *)
ResetObservers(d) ==
    /\ filters' = [filters EXCEPT ![d] = <<>>] /\ turn' = [turn EXCEPT ![d] = 1]
    /\ last' = [last EXCEPT ![d] = {}] /\ polling' = [polling EXCEPT ![d] = TRUE]
    /\ passed' = [passed EXCEPT ![d] = added] /\ Upset
================================================================================
