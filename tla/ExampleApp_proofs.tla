---------------------------- MODULE ExampleApp_proofs ----------------------------
(* Proofs about the example application: the key it stores is on its wallet and  *)
(* is not overwritten, a request on offer is known to the page that made it, and *)
(* a request that was fulfilled goes.                                            *)
EXTENDS ExampleApp, WellFoundedInduction, SequenceTheorems, TLAPS

SomeWallet == Wallets \cup {Nobody}
SomeKey == Keys \cup {NoKey}
Contract == [wallet : SomeWallet, key : SomeKey]
Memory == [contract : Contract, privateKey : SomeKey, device : SomeKey,
           subscription : SomeWallet \X SomeKey]
Flow == [dev : Devices \cup {Nobody}, kind : {"none", "next", "recover", "other"},
         wallet : SomeWallet,
         pc : {"none", "resolving", "creating", "created", "refused", "posting", "posted", "over"}]

Shown == [wallet : Wallets, list : SUBSET Rows] \cup {Unshown}

RelayTypes ==
    /\ owned \in [Wallets -> SUBSET (Keys \cup {Code})] /\ nonce \in [Wallets -> Nat]
    /\ added \subseteq Rows /\ lost \subseteq Wallets \X (Keys \cup {Code})
    /\ requests \subseteq Rows
    /\ sent \subseteq Message /\ queue \in Seq(Message) /\ hook \in Message \cup {NoMessage}
ObserverTypes ==
    /\ filters \in [Devices -> Seq(Wallets)] /\ last \in [Devices -> SUBSET Rows]
    /\ turn \in [Devices -> Nat] /\ \A d \in Devices : turn[d] = 1 \/ turn[d] \in 1..Len(filters[d])
    /\ polling \in [Devices -> BOOLEAN] /\ passed \in [Devices -> SUBSET Rows]
PageTypes ==
    /\ view \in [Devices -> View \cup {"closed"}] /\ memory \in [Devices -> Memory]
    /\ listeners \in [Devices -> SUBSET (SomeWallet \X Keys)]
    /\ shown \in [Devices -> Shown]
    /\ stored \in [Devices -> WalletInfo] /\ awaits \in [Devices -> SUBSET {"storage", "codes"}]
    /\ flow \in [Keys -> Flow] /\ tangled \in [Devices -> BOOLEAN]
    /\ denials \in [Devices -> SUBSET Denial]

(* Whether the request for a key has been made, if one ever is.                  *)
AskedFor(k) == flow[k].pc \in {"posted", "over"}
RowsWereAskedFor ==
    /\ \A r \in requests \cup added : AskedFor(r[2])
    /\ \A m \in sent : m.key \in Keys => AskedFor(m.key)
    /\ \A d \in Devices : \A r \in last[d] \cup shown[d].list : AskedFor(r[2])
MessagesWereSent == (\A i \in DOMAIN queue : queue[i] \in sent) /\ hook \in sent \cup {NoMessage}

(* A flow is for a wallet until it is over, and has created it if it says so.    *)
FlowIsSound(k) ==
    /\ flow[k].pc = "none" <=> flow[k].kind = "none"
    /\ flow[k].pc = "none" => flow[k].dev = Nobody
    /\ flow[k].pc \notin {"none", "over"} => flow[k].wallet \in Wallets
    /\ flow[k].pc = "created" => k \in owned[flow[k].wallet]
FlowsAreSound == \A k \in Keys : FlowIsSound(k)
AddedIsOwned == \A r \in added : r[2] \in owned[r[1]]
Relayed ==
    RowsWereAskedFor /\ MessagesWereSent /\ FlowsAreSound /\ AddedIsOwned /\ AddedRequestGoes

(* The views that need a wallet have one, and so has what waits for a key of it. *)
Home == {"Greeting", "MainScreen", "Account", "Backup", "PendingAuthorizations"}
WalletIsThere(d) ==
    /\ view[d] \in Home \cup {"ApproveConnection"} \/ "codes" \in awaits[d]
          \/ (\E r \in listeners[d] : r[1] \in Wallets)
            => memory[d].contract.wallet \in Wallets
    /\ listeners[d] # {} => memory[d].privateKey \in Keys
    /\ memory[d].subscription[2] # NoKey => memory[d].subscription \in listeners[d]

(* Unless flows overlapped there is one thing under way at most: the wallet is   *)
(* loaded, or a flow is pending, or a request denied, or a key is waited for,    *)
(* that of the wallet and the private key of the moment; with a key stored there *)
(* is none of the others.                                                        *)
OneThingUnderWay(d) ==
    /\ (\A j, k \in Pending(d) : j = k) /\ \A x, y \in denials[d] : x = y
    /\ Pending(d) # {} => listeners[d] = {}
    /\ denials[d] # {} => Pending(d) = {} /\ listeners[d] = {}
    /\ "storage" \in awaits[d] =>
          /\ awaits[d] = {"storage"} /\ view[d] = "Login"
          /\ Pending(d) = {} /\ listeners[d] = {} /\ denials[d] = {}
    /\ listeners[d] # {} =>
          /\ listeners[d] = {memory[d].subscription}
          /\ memory[d].subscription = <<memory[d].contract.wallet, memory[d].privateKey>>
    /\ \A k \in Pending(d) :
          flow[k].pc \in {"posting", "posted"} => memory[d].contract.wallet = flow[k].wallet
StoredRests(d) ==
    stored[d] # NoWallet =>
        /\ Pending(d) = {} /\ listeners[d] = {} /\ denials[d] = {}
        /\ view[d] \in Home \cup {"closed"} \/ "storage" \in awaits[d]
        /\ stored[d].key \in owned[stored[d].wallet]
NoOrphanOf(d) ==
    \A k \in Keys :
        LET r == <<flow[k].wallet, k>> IN
        flow[k].dev = d /\ r \in requests
            => \/ k \in Pending(d) \/ r \in listeners[d] \/ r \in added
               \/ \E x \in denials[d] : x.row = r

Page(d) ==
    /\ WalletIsThere(d)
    /\ ~tangled[d] => OneThingUnderWay(d) /\ StoredRests(d) /\ NoOrphanOf(d)

(* The view that recovers has the key it asked a code for.                       *)
RecoveriesAreAskedFor ==
    \A d \in Devices :
        view[d] = "RecoverAccount" => memory[d].device \in Keys /\ AskedFor(memory[d].device)

IInv == RelayTypes /\ ObserverTypes /\ PageTypes /\ Relayed /\ \A d \in Devices : Page(d)

--------------------------------------------------------------------------------
LEMMA KeysAreNumbers ==
    /\ Keys \subseteq Nat \ {0} /\ Code \notin Keys /\ NoKey \notin Keys /\ 1 \in Keys
    /\ Nobody \notin Wallets /\ Nobody \notin Devices /\ Code # NoKey
BY ConnectionAssumption DEF Keys, Code, NoKey

(* The next key to be generated is one that was not.                             *)
LEMMA NextKeyIsUnused ==
    ASSUME Unused # {}
    PROVE  NextKey \in Keys /\ flow[NextKey].kind = "none"
<1>1. Unused \subseteq Nat
  BY KeysAreNumbers DEF Unused
<1>2. \E k \in Unused : \A j \in Unused : k <= j
  <2> DEFINE R == OpToRel(<, Nat)
  <2>1. IsWellFoundedOn(R, Nat)
    BY NatLessThanWellFounded
  <2> HIDE DEF R
  <2>2. PICK k \in Unused : \A j \in Unused : ~(<<j, k>> \in R)
    BY <1>1, <2>1, WFMin
  <2>3. \A j \in Unused : ~(j < k)
    BY <1>1, <2>2 DEF R, OpToRel
  <2>4. QED
    BY <1>1, <2>3
<1>3. NextKey \in Unused
  BY <1>2 DEF NextKey
<1>4. QED
  BY <1>3 DEF Unused

(* A badge that is mounted subscribes and takes the list that was remembered.    *)
LEMMA WatchKeepsTypes ==
    ASSUME ObserverTypes, NEW d \in Devices, NEW w \in Wallets, Watch(d, w)
    PROVE  ObserverTypes' /\ last' = last
<1>1. PICK f : f = IF Contains(filters[d], w) THEN filters[d] ELSE Append(filters[d], w)
  OBVIOUS
<1>2. PICK s \in Seq(Wallets) : s = filters[d]
  BY DEF ObserverTypes
<1>3. f \in Seq(Wallets) /\ Len(f) \in Nat /\ Len(s) \in Nat /\ Len(f) >= Len(s)
  <2>1. CASE f = s
    BY <2>1, LenProperties
  <2>2. CASE f = Append(s, w)
    BY <2>2, LenProperties, AppendProperties
  <2>3. QED
    BY <1>1, <1>2, <2>1, <2>2
<1>4. filters' = [filters EXCEPT ![d] = f] /\ UNCHANGED <<turn, last, polling, passed>>
  BY <1>1 DEF Watch
<1>5. filters' \in [Devices -> Seq(Wallets)]
  BY <1>3, <1>4 DEF ObserverTypes
<1>6. ASSUME NEW e \in Devices
      PROVE  turn'[e] = 1 \/ turn'[e] \in 1..Len(filters'[e])
  <2>1. CASE e = d
    <3>1. filters'[e] = f
      BY <1>4, <2>1 DEF ObserverTypes
    <3>2. turn[e] = 1 \/ turn[e] \in 1..Len(s)
      BY <1>2, <2>1 DEF ObserverTypes
    <3>3. turn'[e] = 1 \/ turn'[e] \in 1..Len(f)
      BY <1>3, <1>4, <3>2
    <3>4. QED
      BY <3>1, <3>3, Zenon
  <2>2. CASE e # d
    BY <1>4, <2>2 DEF ObserverTypes
  <2>3. QED
    BY <2>1, <2>2
<1>7. QED
  BY <1>4, <1>5, <1>6 DEF ObserverTypes

LEMMA SetViewGoes ==
    ASSUME ObserverTypes, PageTypes, NEW d \in Devices, NEW v \in View, NEW w \in SomeWallet,
           SetView(d, v, w), v \in Badged => w \in Wallets
    PROVE  /\ ObserverTypes' /\ last' = last
           /\ view' = [view EXCEPT ![d] = v]
           /\ shown' \in [Devices -> Shown]
           /\ \A e \in Devices : shown'[e].list \subseteq last[e] \cup shown[e].list
<1>1. CASE v \in Badged
  <2>1. Watch(d, w) /\ w \in Wallets
    BY <1>1 DEF SetView
  <2>2. ObserverTypes' /\ last' = last
    BY <2>1, WatchKeepsTypes
  <2>3. PICK new : new = [wallet |-> w, list |-> last[d]]
    OBVIOUS
  <2>4. shown' = [shown EXCEPT ![d] = new]
    BY <1>1, <2>3 DEF SetView
  <2>5. new \in Shown /\ new.list = last[d]
    BY <2>1, <2>3 DEF ObserverTypes, Shown
  <2>6. QED
    BY <2>2, <2>4, <2>5 DEF SetView, PageTypes
<1>2. CASE v \notin Badged
  <2>1. UNCHANGED observer
    BY <1>2 DEF SetView
  <2>2. ObserverTypes' /\ last' = last
    BY <2>1 DEF observer, ObserverTypes
  <2>3. Unshown \in Shown /\ Unshown.list = {}
    BY DEF Unshown, Shown
  <2>4. shown' = [shown EXCEPT ![d] = Unshown]
    BY <1>2 DEF SetView
  <2>5. QED
    BY <2>2, <2>3, <2>4 DEF SetView, PageTypes
<1>3. QED
  BY <1>1, <1>2

--------------------------------------------------------------------------------
(* What the relayer and the flows promise each other is kept by a step that adds *)
(* requests only for keys that nobody has asked for before.                      *)
LEMMA RequestsKeepRelayed ==
    ASSUME RelayTypes, ObserverTypes, PageTypes, Relayed,
           UNCHANGED <<added, sent, queue, hook, lost>>,
           \A w \in Wallets : owned[w] \subseteq owned'[w],
           \A k \in Keys : AskedFor(k) => AskedFor(k)',
           FlowsAreSound',
           \A r \in requests' : r \in Rows /\ (r \in requests \/ (~AskedFor(r[2]) /\ AskedFor(r[2])')),
           \A d \in Devices : \A r \in last'[d] \cup shown'[d].list :
              r \in requests \cup last[d] \cup shown[d].list
    PROVE  Relayed'
<1>1. \A r \in Rows : r[2] \in Keys /\ r[1] \in Wallets
  BY DEF Rows
<1>2. ASSUME NEW d \in Devices PROVE last[d] \cup shown[d].list \subseteq Rows
  <2>1. \A s \in Shown : s.list \subseteq Rows
    BY DEF Shown, Unshown
  <2>2. last[d] \subseteq Rows /\ shown[d] \in Shown
    BY DEF ObserverTypes, PageTypes
  <2>3. QED
    BY <2>1, <2>2
<1>3. requests \cup added \subseteq Rows
  BY DEF RelayTypes
<1>4. RowsWereAskedFor'
  <2>1. \A r \in requests' \cup added' : AskedFor(r[2])'
    BY <1>1, <1>3 DEF Relayed, RowsWereAskedFor
  <2>2. \A m \in sent' : m.key \in Keys => AskedFor(m.key)'
    BY DEF Relayed, RowsWereAskedFor
  <2>3. \A d \in Devices : \A r \in last'[d] \cup shown'[d].list : AskedFor(r[2])'
    BY <1>1, <1>2, <1>3 DEF Relayed, RowsWereAskedFor
  <2>4. QED
    BY <2>1, <2>2, <2>3 DEF RowsWereAskedFor
<1>5. MessagesWereSent'
  BY DEF Relayed, MessagesWereSent
<1>6. AddedIsOwned'
  BY <1>1, <1>3 DEF Relayed, AddedIsOwned
<1>7. AddedRequestGoes'
  BY DEF Relayed, RowsWereAskedFor, AddedRequestGoes
<1>8. QED
  BY <1>4, <1>5, <1>6, <1>7 DEF Relayed

(* A message that is posted is for a key that was asked for.                     *)
LEMMA PostMessageKeepsRelayed ==
    ASSUME RelayTypes, Relayed, NEW m, PostMessage(m),
           Accepts(m) => m \in Message /\ (m.key \in Keys => AskedFor(m.key)),
           UNCHANGED <<chain, flow, last>>,
           \A d \in Devices : shown'[d].list = shown[d].list
    PROVE  RelayTypes' /\ Relayed' /\ UNCHANGED <<requests, hook, lost>>
<1>1. CASE Accepts(m)
  <2>1. /\ sent' = sent \cup {m} /\ queue' = Append(queue, m) /\ UNCHANGED <<requests, hook, lost>>
        /\ m \in Message /\ (m.key \in Keys => AskedFor(m.key))
    BY <1>1 DEF PostMessage
  <2>2. PICK n \in Nat : n = Len(queue)
    BY LenProperties DEF RelayTypes
  <2>3. /\ queue' \in Seq(Message) /\ DOMAIN queue' = 1..(n + 1) /\ DOMAIN queue = 1..n
        /\ \A i \in 1..n : queue'[i] = queue[i]
        /\ queue'[n + 1] = m
    BY <2>1, <2>2, AppendProperties, LenProperties DEF RelayTypes
  <2>4. RelayTypes'
    BY <2>1, <2>3 DEF RelayTypes, chain
  <2>5. MessagesWereSent'
    BY <2>1, <2>3 DEF Relayed, MessagesWereSent
  <2>6. RowsWereAskedFor'
    BY <2>1 DEF Relayed, RowsWereAskedFor, AskedFor, chain
  <2>7. FlowsAreSound' /\ AddedIsOwned' /\ AddedRequestGoes'
    BY <2>1 DEF Relayed, FlowsAreSound, FlowIsSound, AddedIsOwned, AddedRequestGoes, chain
  <2>8. QED
    BY <2>1, <2>4, <2>5, <2>6, <2>7 DEF Relayed
<1>2. CASE ~Accepts(m)
  <2>1. UNCHANGED relayer
    BY <1>2 DEF PostMessage
  <2>2. RelayTypes' /\ MessagesWereSent'
    BY <2>1 DEF RelayTypes, Relayed, MessagesWereSent, relayer, chain
  <2>3. RowsWereAskedFor'
    BY <2>1 DEF Relayed, RowsWereAskedFor, AskedFor, relayer, chain
  <2>4. FlowsAreSound' /\ AddedIsOwned' /\ AddedRequestGoes'
    BY <2>1 DEF Relayed, FlowsAreSound, FlowIsSound, AddedIsOwned, AddedRequestGoes, chain, relayer
  <2>5. QED
    BY <2>1, <2>2, <2>3, <2>4 DEF Relayed, relayer
<1>3. QED
  BY <1>1, <1>2

LEMMA HeadOfQueue ==
    ASSUME RelayTypes, MessagesWereSent, queue # <<>>
    PROVE  /\ Head(queue) \in sent /\ Head(queue) \in Message /\ Tail(queue) \in Seq(Message)
           /\ \A i \in DOMAIN Tail(queue) : Tail(queue)[i] \in sent
<1>1. PICK q \in Seq(Message) : q = queue
  BY DEF RelayTypes
<1>2. PICK n \in Nat : n = Len(q)
  BY LenProperties
<1>3. PICK t : t = Tail(q)
  OBVIOUS
<1>4. /\ t \in Seq(Message) /\ DOMAIN t = 1..(n - 1) /\ \A i \in 1..(n - 1) : t[i] = q[i + 1]
      /\ DOMAIN q = 1..n /\ Head(q) = q[1] /\ n > 0
  <2>1. t \in Seq(Message) /\ Len(t) = n - 1 /\ \A i \in 1..Len(t) : t[i] = q[i + 1]
    BY <1>1, <1>2, <1>3, HeadTailProperties
  <2>2. DOMAIN t = 1..Len(t) /\ DOMAIN q = 1..n /\ Head(q) = q[1] /\ n # 0
    BY <1>1, <1>2, <2>1, LenProperties, EmptySeq
  <2>3. QED
    BY <1>1, <1>2, <2>1, <2>2
<1>5. Head(q) \in sent
  BY <1>1, <1>4 DEF MessagesWereSent
<1>6. \A i \in DOMAIN t : t[i] \in sent
  <2> SUFFICES ASSUME NEW i \in 1..(n - 1) PROVE t[i] \in sent
    BY <1>4
  <2>1. i + 1 \in DOMAIN q
    BY <1>4
  <2>2. QED
    BY <1>1, <1>4, <2>1 DEF MessagesWereSent
<1>7. QED
  BY <1>1, <1>3, <1>4, <1>5, <1>6 DEF RelayTypes

(* What the relayer does to the chain and the table of requests.                 *)
RelayEvolves ==
    /\ RelayTypes' /\ Relayed' /\ UNCHANGED <<filters, turn, last, polling, passed>>
    /\ requests' \subseteq requests /\ added \subseteq added'
    /\ \A w \in Wallets : owned[w] \subseteq owned'[w]

LEMMA ExecuteEvolves ==
    ASSUME RelayTypes, Relayed, Execute, UNCHANGED <<flow, shown>>
    PROVE  RelayEvolves
<1>1. PICK m : m = Head(queue)
  OBVIOUS
<1>2. /\ m \in sent /\ m \in Message /\ queue' \in Seq(Message)
      /\ \A i \in DOMAIN queue' : queue'[i] \in sent
  BY <1>1, HeadOfQueue DEF Relayed, Execute
<1>3. hook = NoMessage /\ UNCHANGED <<requests, sent, lost, observer>>
  BY DEF Execute
<1>4. m.wallet \in Wallets /\ m.key \in Keys \cup {Code}
  BY <1>2 DEF Message
<1>5. CASE Valid(m)
  <2>1. /\ owned' = [owned EXCEPT ![m.wallet] = @ \cup {m.key}]
        /\ nonce' = [nonce EXCEPT ![m.wallet] = @ + 1]
        /\ added' = IF m.key \in Keys \ owned[m.wallet]
                      THEN added \cup {<<m.wallet, m.key>>} ELSE added
        /\ hook' = m
    BY <1>1, <1>5 DEF Execute
  <2>2. RelayTypes'
    BY <1>2, <1>3, <1>4, <2>1 DEF RelayTypes, Rows
  <2>3. /\ \A w \in Wallets : owned[w] \subseteq owned'[w]
        /\ m.key \in owned'[m.wallet] /\ added' \subseteq added \cup {<<m.wallet, m.key>>}
        /\ <<m.wallet, m.key>> \in added' \ added => m.key \in Keys
    BY <1>4, <2>1 DEF RelayTypes
  <2>4. RowsWereAskedFor'
    <3>1. \A r \in requests' \cup added' : AskedFor(r[2])'
      BY <1>2, <1>3, <2>3 DEF Relayed, RowsWereAskedFor, AskedFor
    <3>2. QED
      BY <1>3, <3>1 DEF Relayed, RowsWereAskedFor, AskedFor, observer
  <2>5. MessagesWereSent'
    BY <1>2, <1>3, <2>1 DEF MessagesWereSent
  <2>6. FlowsAreSound'
    BY <2>3 DEF Relayed, FlowsAreSound, FlowIsSound
  <2>7. AddedIsOwned'
    <3>1. \A r \in added : r[1] \in Wallets
      BY DEF RelayTypes, Rows
    <3>2. QED
      BY <2>3, <3>1 DEF Relayed, AddedIsOwned
  <2>8. AddedRequestGoes'
    <3> SUFFICES ASSUME NEW r \in requests, r \in added', r[2] \notin LeadingZero
                 PROVE  r \in lost \/ <<m.wallet, m.key>> = r
      BY <1>3, <2>1 DEF AddedRequestGoes
    <3>1. r[2] # NoKey
      BY KeysAreNumbers DEF RelayTypes, Rows
    <3>2. <<hook.wallet, hook.key>> # r
      BY <1>3, <3>1 DEF NoMessage
    <3>3. QED
      BY <2>3, <3>2 DEF Relayed, AddedRequestGoes
  <2>9. QED
    BY <1>3, <2>1, <2>2, <2>3, <2>4, <2>5, <2>6, <2>7, <2>8 DEF Relayed, RelayEvolves, observer
<1>6. CASE ~Valid(m)
  <2>1. UNCHANGED <<chain, hook>>
    BY <1>1, <1>6 DEF Execute
  <2>2. RelayTypes' /\ MessagesWereSent'
    BY <1>2, <1>3, <2>1 DEF RelayTypes, Relayed, MessagesWereSent, chain
  <2>3. RowsWereAskedFor'
    BY <1>3, <2>1 DEF Relayed, RowsWereAskedFor, AskedFor, chain, observer
  <2>4. FlowsAreSound' /\ AddedIsOwned' /\ AddedRequestGoes'
    BY <1>3, <2>1 DEF Relayed, FlowsAreSound, FlowIsSound, AddedIsOwned, AddedRequestGoes, chain
  <2>5. QED
    BY <1>3, <2>1, <2>2, <2>3, <2>4 DEF Relayed, RelayEvolves, observer, chain
<1>7. QED
  BY <1>5, <1>6

LEMMA ExecuteFailsEvolves ==
    ASSUME RelayTypes, Relayed, ExecuteFails, UNCHANGED <<flow, shown>>
    PROVE  RelayEvolves
<1>1. PICK m : m = Head(queue)
  OBVIOUS
<1>2. /\ m \in sent /\ m \in Message /\ queue' \in Seq(Message)
      /\ \A i \in DOMAIN queue' : queue'[i] \in sent
  BY <1>1, HeadOfQueue DEF Relayed, ExecuteFails
<1>3. /\ hook = NoMessage
      /\ UNCHANGED <<owned, added, requests, sent, lost, filters, turn, last, polling, passed>>
      /\ \/ UNCHANGED <<nonce, hook>>
         \/ hook' = m /\ nonce' = [nonce EXCEPT ![m.wallet] = @ + 1]
  BY <1>1 DEF ExecuteFails
<1>4. RelayTypes' /\ MessagesWereSent'
  <2>0. m.wallet \in Wallets
    BY <1>2 DEF Message
  <2>1. nonce' \in [Wallets -> Nat] /\ hook' \in sent \cup {NoMessage}
    BY <1>2, <1>3, <2>0 DEF RelayTypes
  <2>2. QED
    BY <1>2, <1>3, <2>1 DEF RelayTypes, MessagesWereSent
<1>5. RowsWereAskedFor'
  BY <1>3 DEF Relayed, RowsWereAskedFor, AskedFor
<1>6. FlowsAreSound' /\ AddedIsOwned'
  BY <1>3 DEF Relayed, FlowsAreSound, FlowIsSound, AddedIsOwned
<1>7. AddedRequestGoes'
  <2> SUFFICES ASSUME NEW r \in requests, r \in added, r[2] \notin LeadingZero
               PROVE  r \in lost
    BY <1>3 DEF AddedRequestGoes
  <2>1. r[2] # NoKey
    BY KeysAreNumbers DEF RelayTypes, Rows
  <2>2. <<hook.wallet, hook.key>> # r
    BY <1>3, <2>1 DEF NoMessage
  <2>3. QED
    BY <2>2 DEF Relayed, AddedRequestGoes
<1>8. QED
  BY <1>3, <1>4, <1>5, <1>6, <1>7 DEF Relayed, RelayEvolves

(* The request of the mined message goes, or a crash loses sight of it.          *)
LEMMA HookEvolves ==
    ASSUME RelayTypes, Relayed, OnTransactionSent \/ CrashAndRestart, UNCHANGED <<flow, shown>>
    PROVE  RelayEvolves
<1>1. /\ hook # NoMessage /\ hook' = NoMessage
      /\ UNCHANGED <<chain, sent, queue, filters, turn, last, polling, passed>>
      /\ requests' \subseteq requests /\ lost \subseteq lost'
      /\ lost' \subseteq lost \cup {<<hook.wallet, hook.key>>}
      /\ \/ hook.key \in LeadingZero
         \/ requests' = requests \ {<<hook.wallet, hook.key>>}
         \/ <<hook.wallet, hook.key>> \in lost'
  BY DEF OnTransactionSent, getKeyFromData, CrashAndRestart, observer
<1>2. hook \in Message
  BY <1>1 DEF RelayTypes
<1>3. RelayTypes' /\ MessagesWereSent'
  BY <1>1, <1>2 DEF RelayTypes, Relayed, MessagesWereSent, chain, Message
<1>4. RowsWereAskedFor'
  BY <1>1 DEF Relayed, RowsWereAskedFor, AskedFor, chain
<1>5. FlowsAreSound' /\ AddedIsOwned'
  BY <1>1 DEF Relayed, FlowsAreSound, FlowIsSound, AddedIsOwned, chain
<1>6. AddedRequestGoes'
  <2> SUFFICES ASSUME NEW r \in requests', r \in added', r[2] \notin LeadingZero
               PROVE  r \in lost'
    BY DEF AddedRequestGoes
  <2>1. r \in requests /\ r \in added
    BY <1>1 DEF chain
  <2>2. r \in lost \/ <<hook.wallet, hook.key>> = r
    BY <2>1 DEF Relayed, AddedRequestGoes
  <2>3. QED
    BY <1>1, <2>2
<1>7. QED
  BY <1>1, <1>3, <1>4, <1>5, <1>6 DEF Relayed, RelayEvolves, chain

--------------------------------------------------------------------------------
(* What others do leaves a page as it is.                                        *)
LEMMA QuietPage ==
    ASSUME RelayTypes, PageTypes, NEW d \in Devices, Page(d),
           view'[d] = view[d], memory'[d] = memory[d], stored'[d] = stored[d],
           listeners'[d] = listeners[d], awaits'[d] = awaits[d], tangled'[d] = tangled[d],
           denials'[d] = denials[d],
           \A k \in Keys : flow[k].dev = d \/ flow'[k].dev = d => flow'[k] = flow[k],
           \A k \in Keys : <<flow[k].wallet, k>> \in requests' /\ flow[k].dev = d
              => <<flow[k].wallet, k>> \in requests,
           added \subseteq added', \A w \in Wallets : owned[w] \subseteq owned'[w]
    PROVE  Page(d)'
<1>1. WalletIsThere(d)'
  BY DEF Page, WalletIsThere
<1>2. Pending(d)' = Pending(d) /\ \A k \in Pending(d) : flow'[k] = flow[k]
  BY DEF Pending
<1>3. OneThingUnderWay(d) => OneThingUnderWay(d)'
  BY <1>2 DEF OneThingUnderWay
<1>4. StoredRests(d) => StoredRests(d)'
  BY <1>2 DEF StoredRests, PageTypes, WalletInfo, NoWallet
<1>5. NoOrphanOf(d) => NoOrphanOf(d)'
  BY <1>2 DEF NoOrphanOf
<1>6. QED
  BY <1>1, <1>3, <1>4, <1>5 DEF Page

(* A step on the page of d, of the flows of d and of those without a page.       *)
OnlyPageOf(d) ==
    /\ \A e \in Devices : e # d =>
        /\ view'[e] = view[e] /\ memory'[e] = memory[e] /\ stored'[e] = stored[e]
        /\ listeners'[e] = listeners[e] /\ awaits'[e] = awaits[e] /\ tangled'[e] = tangled[e]
        /\ denials'[e] = denials[e]
    /\ \A k \in Keys : flow'[k] # flow[k] =>
          flow[k].dev \in {d, Nobody} /\ flow'[k].dev \in {d, Nobody}
    /\ \A r \in requests' \ requests : flow[r[2]].dev \in {d, Nobody}
    /\ added \subseteq added' /\ \A w \in Wallets : owned[w] \subseteq owned'[w]

LEMMA OtherPagesStay ==
    ASSUME IInv, NEW d, OnlyPageOf(d)
    PROVE  \A e \in Devices : e # d => Page(e)'
<1> SUFFICES ASSUME NEW e \in Devices, e # d PROVE Page(e)'
  OBVIOUS
<1>1. e # Nobody
  BY KeysAreNumbers
<1>2. \A k \in Keys : flow[k].dev = e \/ flow'[k].dev = e => flow'[k] = flow[k]
  BY <1>1 DEF OnlyPageOf
<1>3. ASSUME NEW k \in Keys, <<flow[k].wallet, k>> \in requests', flow[k].dev = e
      PROVE  <<flow[k].wallet, k>> \in requests
  BY <1>1, <1>3 DEF OnlyPageOf
<1>4. QED
  BY <1>2, <1>3, QuietPage DEF OnlyPageOf, IInv

LEMMA MemoryUpdates ==
    ASSUME NEW m \in Memory
    PROVE  /\ [m EXCEPT !.subscription = NoRow] \in Memory
           /\ [m EXCEPT !.subscription = NoRow].contract = m.contract
           /\ [m EXCEPT !.subscription = NoRow].privateKey = m.privateKey
           /\ [m EXCEPT !.subscription = NoRow].subscription = NoRow
           /\ \A c \in Contract : /\ [m EXCEPT !.contract = c] \in Memory
                                  /\ [m EXCEPT !.contract = c].contract = c
                                  /\ [m EXCEPT !.contract = c].privateKey = m.privateKey
                                  /\ [m EXCEPT !.contract = c].subscription = m.subscription
<1>1. NoRow \in SomeWallet \X SomeKey
  BY DEF NoRow, SomeWallet, SomeKey
<1>2. /\ [m EXCEPT !.subscription = NoRow] \in Memory
      /\ [m EXCEPT !.subscription = NoRow].contract = m.contract
      /\ [m EXCEPT !.subscription = NoRow].privateKey = m.privateKey
      /\ [m EXCEPT !.subscription = NoRow].subscription = NoRow
  BY <1>1 DEF Memory
<1>3. ASSUME NEW c \in Contract
      PROVE  /\ [m EXCEPT !.contract = c] \in Memory
             /\ [m EXCEPT !.contract = c].contract = c
             /\ [m EXCEPT !.contract = c].privateKey = m.privateKey
             /\ [m EXCEPT !.contract = c].subscription = m.subscription
  BY DEF Memory
<1>4. QED
  BY <1>2, <1>3

LEMMA KeepUpdates ==
    ASSUME NEW m \in Memory, NEW k \in Keys, NEW d
    PROVE  /\ Keep(d, k, m) \in Memory /\ Keep(d, k, m).contract = m.contract
           /\ Keep(d, k, m).privateKey = k /\ Keep(d, k, m).subscription = <<m.contract.wallet, k>>
           /\ Recover(d, k, m) \in Memory /\ Recover(d, k, m).contract = m.contract
           /\ Recover(d, k, m).privateKey = k
           /\ Recover(d, k, m).subscription = <<m.contract.wallet, k>>
<1>1. PICK row \in SomeWallet \X SomeKey : row = <<m.contract.wallet, k>>
  BY DEF Memory, Contract, SomeKey
<1>2. PICK kept : kept = Keep(d, k, m)
  OBVIOUS
<1>3. /\ kept \in Memory /\ kept.contract = m.contract /\ kept.privateKey = k
      /\ kept.subscription = row
  <2>1. kept = [m EXCEPT !.privateKey = k, !.subscription = row]
    BY <1>1, <1>2 DEF Keep
  <2>2. QED
    BY <2>1 DEF Memory, SomeKey
<1>4. /\ [kept EXCEPT !.device = k] \in Memory /\ [kept EXCEPT !.device = k].contract = m.contract
      /\ [kept EXCEPT !.device = k].privateKey = k
      /\ [kept EXCEPT !.device = k].subscription = row
  BY <1>3 DEF Memory, SomeKey
<1>5. QED
  BY <1>1, <1>2, <1>3, <1>4 DEF Recover

(* A new flow, or one that moves on or is left by its page.                      *)
LEMMA FlowsMoveOn ==
    ASSUME IInv, flow' \in [Keys -> Flow],
           \A w \in Wallets : owned[w] \subseteq owned'[w],
           \A k \in Keys : flow'[k] # flow[k] => FlowIsSound(k)'
    PROVE  FlowsAreSound'
<1> SUFFICES ASSUME NEW k \in Keys, flow'[k] = flow[k] PROVE FlowIsSound(k)'
  BY DEF FlowsAreSound
<1>1. FlowIsSound(k)
  BY DEF IInv, Relayed, FlowsAreSound
<1>2. QED
  BY <1>1 DEF FlowIsSound

--------------------------------------------------------------------------------
LEMMA InitHolds == Init => IInv
<1> SUFFICES ASSUME Init PROVE IInv
  OBVIOUS
<1> USE KeysAreNumbers
<1>1. /\ view = [d \in Devices |-> "closed"] /\ memory = [d \in Devices |-> Fresh]
      /\ listeners = [d \in Devices |-> {}] /\ shown = [d \in Devices |-> Unshown]
      /\ awaits = [d \in Devices |-> {}] /\ tangled = [d \in Devices |-> FALSE]
      /\ denials = [d \in Devices |-> {}] /\ added = {}
      /\ requests = {} /\ sent = {} /\ queue = <<>> /\ hook = NoMessage /\ lost = {}
  BY DEF Init, AppInit, RelayerInit
<1>2. NoFlow \in Flow /\ NoFlow.dev = Nobody /\ NoFlow.pc = "none" /\ NoFlow.kind = "none"
  BY DEF NoFlow, Flow, SomeWallet
<1> DEFINE over == [NoFlow EXCEPT !.kind = "next", !.pc = "over"]
<1>4. over \in Flow /\ over.dev = Nobody /\ over.pc = "over" /\ over.kind = "next"
  BY DEF NoFlow, Flow, SomeWallet
<1>5. \/ /\ owned = [w \in Wallets |-> {}] /\ flow = [k \in Keys |-> NoFlow]
         /\ stored = [d \in Devices |-> NoWallet]
      \/ \E d \in Devices, w \in Wallets, keys \in {{1}, {1, Code}} :
            /\ owned = [v \in Wallets |-> IF v = w THEN keys ELSE {}]
            /\ flow = [k \in Keys |-> IF k = 1 THEN over ELSE NoFlow]
            /\ stored = [e \in Devices |-> IF e = d THEN [wallet |-> w, key |-> 1] ELSE NoWallet]
  <2> DEFINE w0 == CHOOSE w \in Wallets : TRUE
  <2>1. w0 \in Wallets
    BY ConnectionAssumption
  <2>2. \/ /\ owned = [w \in Wallets |-> {}] /\ flow = [k \in Keys |-> NoFlow]
           /\ stored = [d \in Devices |-> NoWallet]
        \/ \E d \in Devices, keys \in {{1}, {1, Code}} :
            /\ owned = [v \in Wallets |-> IF v = w0 THEN keys ELSE {}]
            /\ flow = [k \in Keys |-> IF k = 1 THEN over ELSE NoFlow]
            /\ stored = [e \in Devices |-> IF e = d THEN [wallet |-> w0, key |-> 1] ELSE NoWallet]
    BY DEF Init
  <2> HIDE DEF w0
  <2>3. QED
    BY <2>1, <2>2, Zenon
<1> HIDE DEF over
<1>6. /\ owned \in [Wallets -> SUBSET (Keys \cup {Code})] /\ stored \in [Devices -> WalletInfo]
      /\ flow \in [Keys -> Flow]
      /\ \A k \in Keys : flow[k] = NoFlow \/ flow[k] = over
      /\ \A d \in Devices : stored[d] # NoWallet => stored[d].key \in owned[stored[d].wallet]
  <2>1. CASE /\ owned = [w \in Wallets |-> {}] /\ flow = [k \in Keys |-> NoFlow]
             /\ stored = [d \in Devices |-> NoWallet]
    BY <1>2, <2>1 DEF WalletInfo
  <2>2. ASSUME NEW d \in Devices, NEW w \in Wallets, NEW keys \in {{1}, {1, Code}},
               owned = [v \in Wallets |-> IF v = w THEN keys ELSE {}],
               flow = [k \in Keys |-> IF k = 1 THEN over ELSE NoFlow],
               stored = [e \in Devices |-> IF e = d THEN [wallet |-> w, key |-> 1] ELSE NoWallet]
        PROVE  /\ owned \in [Wallets -> SUBSET (Keys \cup {Code})]
               /\ stored \in [Devices -> WalletInfo] /\ flow \in [Keys -> Flow]
               /\ \A k \in Keys : flow[k] = NoFlow \/ flow[k] = over
               /\ \A e \in Devices : stored[e] # NoWallet => stored[e].key \in owned[stored[e].wallet]
    <3>1. PICK new : new = [wallet |-> w, key |-> 1]
      OBVIOUS
    <3>2. new \in WalletInfo /\ new.wallet = w /\ new.key = 1
      BY <3>1 DEF WalletInfo
    <3>3. stored = [e \in Devices |-> IF e = d THEN new ELSE NoWallet] /\ NoWallet \in WalletInfo
      BY <2>2, <3>1 DEF WalletInfo
    <3>4. QED
      BY <1>2, <1>4, <2>2, <3>2, <3>3
  <2>3. QED
    BY <1>5, <2>1, <2>2
<1>n. nonce \in [Wallets -> Nat]
  <2>1. \/ nonce = [w \in Wallets |-> 0]
        \/ \E keys : nonce = [v \in Wallets |->
              IF v = (CHOOSE w \in Wallets : TRUE) /\ Code \in keys THEN 1 ELSE 0]
    BY Zenon DEF Init
  <2>2. QED
    BY <2>1
<1>7. RelayTypes
  BY <1>1, <1>6, <1>n DEF RelayTypes
<1>8. ObserverTypes
  BY DEF Init, AppInit, ObserverInit, ObserverTypes
<1>9. Fresh \in Memory /\ Fresh.subscription[2] = NoKey
  BY DEF Fresh, Memory, Contract, NoWallet, NoRow, SomeWallet, SomeKey
<1>10. Unshown \in Shown /\ Unshown.list = {}
  BY DEF Unshown, Shown
<1>11. PageTypes
  BY <1>1, <1>6, <1>9, <1>10 DEF PageTypes
<1>12. Relayed
  <2>1. RowsWereAskedFor
    BY <1>1, <1>10 DEF Init, AppInit, ObserverInit, RowsWereAskedFor
  <2>2. FlowsAreSound
    BY <1>2, <1>4, <1>6 DEF FlowsAreSound, FlowIsSound
  <2>3. QED
    BY <1>1, <2>1, <2>2 DEF Relayed, MessagesWereSent, AddedIsOwned, AddedRequestGoes
<1>13. ASSUME NEW d \in Devices PROVE Page(d)
  <2>1. Pending(d) = {}
    BY <1>2, <1>4, <1>6 DEF Pending
  <2>2. WalletIsThere(d)
    BY <1>1, <1>9 DEF WalletIsThere, Home
  <2>3. OneThingUnderWay(d) /\ StoredRests(d) /\ NoOrphanOf(d)
    BY <1>1, <1>6, <2>1 DEF OneThingUnderWay, StoredRests, NoOrphanOf
  <2>4. QED
    BY <2>2, <2>3 DEF Page
<1>14. QED
  BY <1>7, <1>8, <1>11, <1>12, <1>13 DEF IInv

--------------------------------------------------------------------------------
(* What the steps have in common.                                                *)
LEMMA RelayerStays ==
    ASSUME RelayTypes, UNCHANGED <<chain, relayer>>
    PROVE  RelayTypes' /\ UNCHANGED <<owned, nonce, added, requests, sent, queue, hook, lost>>
BY DEF RelayTypes, chain, relayer

LEMMA ObserverStays ==
    ASSUME ObserverTypes, UNCHANGED <<filters, turn, last, polling, passed>>
    PROVE  ObserverTypes'
BY DEF ObserverTypes

LEMMA PageStays ==
    ASSUME PageTypes, UNCHANGED page
    PROVE  /\ UNCHANGED <<view, memory, listeners, shown, awaits, denials>>
           /\ stored' \in [Devices -> WalletInfo] /\ flow' \in [Keys -> Flow]
              /\ tangled' \in [Devices -> BOOLEAN] => PageTypes'
BY DEF PageTypes, page

Stage == {"none", "resolving", "creating", "created", "refused", "posting", "posted", "over"}

LEMMA AwaitGoes ==
    ASSUME PageTypes, NEW k \in Keys, NEW p \in Stage, flow' = [flow EXCEPT ![k].pc = p]
    PROVE  /\ flow' \in [Keys -> Flow]
           /\ flow'[k].pc = p /\ flow'[k].dev = flow[k].dev
           /\ flow'[k].kind = flow[k].kind /\ flow'[k].wallet = flow[k].wallet
           /\ \A j \in Keys : j # k => flow'[j] = flow[j]
<1>1. PICK f : f = [flow[k] EXCEPT !.pc = p]
  OBVIOUS
<1>2. f \in Flow /\ f.pc = p /\ f.dev = flow[k].dev /\ f.kind = flow[k].kind
      /\ f.wallet = flow[k].wallet
  BY <1>1 DEF PageTypes, Flow, Stage
<1>3. flow' = [flow EXCEPT ![k] = f]
  BY <1>1
<1>4. QED
  BY <1>2, <1>3 DEF PageTypes

LEMMA ContractGoes ==
    ASSUME PageTypes, NEW d \in Devices, NEW c \in Contract,
           memory' = [memory EXCEPT ![d].contract = c]
    PROVE  /\ memory' \in [Devices -> Memory]
           /\ memory'[d].contract = c /\ memory'[d].privateKey = memory[d].privateKey
           /\ memory'[d].subscription = memory[d].subscription
           /\ \A e \in Devices : e # d => memory'[e] = memory[e]
<1>1. PICK m : m = [memory[d] EXCEPT !.contract = c]
  OBVIOUS
<1>2. m \in Memory /\ m.contract = c /\ m.privateKey = memory[d].privateKey
      /\ m.subscription = memory[d].subscription
  <2>1. memory[d] \in Memory
    BY DEF PageTypes
  <2>2. QED
    BY <1>1, <2>1, MemoryUpdates
<1>3. memory' = [memory EXCEPT ![d] = m]
  BY <1>1
<1>4. QED
  BY <1>2, <1>3 DEF PageTypes

LEMMA SubscriptionGoes ==
    ASSUME PageTypes, NEW d \in Devices, memory' = [memory EXCEPT ![d].subscription = NoRow]
    PROVE  /\ memory' \in [Devices -> Memory]
           /\ memory'[d].contract = memory[d].contract
           /\ memory'[d].privateKey = memory[d].privateKey /\ memory'[d].subscription = NoRow
           /\ \A e \in Devices : e # d => memory'[e] = memory[e]
<1>1. PICK m : m = [memory[d] EXCEPT !.subscription = NoRow]
  OBVIOUS
<1>2. m \in Memory /\ m.contract = memory[d].contract /\ m.privateKey = memory[d].privateKey
      /\ m.subscription = NoRow
  <2>1. memory[d] \in Memory
    BY DEF PageTypes
  <2>2. QED
    BY <1>1, <2>1, MemoryUpdates
<1>3. memory' = [memory EXCEPT ![d] = m]
  BY <1>1
<1>4. QED
  BY <1>2, <1>3 DEF PageTypes

(* A step touches one page, or none.                                             *)
LEMMA PageAfter ==
    ASSUME IInv, NEW d \in Devices, OnlyPageOf(d), RelayTypes', ObserverTypes', PageTypes', Relayed',
           Page(d)'
    PROVE  IInv'
BY OtherPagesStay DEF IInv

LEMMA NoPageChanges ==
    ASSUME IInv, OnlyPageOf(Nobody), RelayTypes', ObserverTypes', PageTypes', Relayed'
    PROVE  IInv'
BY OtherPagesStay, KeysAreNumbers DEF IInv

--------------------------------------------------------------------------------
(* A page that is opened leaves its flows without a page.                        *)
LEMMA OpenHolds ==
    ASSUME IInv, NEW d \in Devices, Open(d)
    PROVE  IInv'
<1> USE DEF IInv
<1>1. RelayTypes' /\ UNCHANGED <<owned, nonce, added, requests, sent, queue, hook, lost>>
  BY RelayerStays DEF Open
<1>2. /\ view' = [view EXCEPT ![d] = "Login"] /\ memory' = [memory EXCEPT ![d] = Fresh]
      /\ listeners' = [listeners EXCEPT ![d] = {}] /\ shown' = [shown EXCEPT ![d] = Unshown]
      /\ awaits' = [awaits EXCEPT ![d] = {"storage"}] /\ UNCHANGED <<stored, tangled>>
      /\ denials' = [denials EXCEPT ![d] = {}]
  BY DEF Open
<1>3. /\ filters' = [filters EXCEPT ![d] = <<>>] /\ turn' = [turn EXCEPT ![d] = 1]
      /\ last' = [last EXCEPT ![d] = {}] /\ polling' = [polling EXCEPT ![d] = TRUE]
      /\ passed' = [passed EXCEPT ![d] = added]
  BY DEF Open, ResetObservers
<1>4. ObserverTypes'
  <2>1. <<>> \in Seq(Wallets) /\ Len(<<>>) = 0
    OBVIOUS
  <2>2. filters' \in [Devices -> Seq(Wallets)] /\ last' \in [Devices -> SUBSET Rows]
        /\ turn' \in [Devices -> Nat] /\ polling' \in [Devices -> BOOLEAN]
        /\ passed' \in [Devices -> SUBSET Rows]
    BY <1>3, <2>1 DEF ObserverTypes, RelayTypes
  <2>3. ASSUME NEW e \in Devices PROVE turn'[e] = 1 \/ turn'[e] \in 1..Len(filters'[e])
    <3>1. CASE e = d
      BY <1>3, <2>1, <3>1 DEF ObserverTypes
    <3>2. CASE e # d
      BY <1>3, <3>2 DEF ObserverTypes
    <3>3. QED
      BY <3>1, <3>2
  <2>4. QED
    BY <2>2, <2>3 DEF ObserverTypes
<1>5. /\ flow' \in [Keys -> Flow]
      /\ \A k \in Keys : /\ flow'[k].pc = flow[k].pc /\ flow'[k].kind = flow[k].kind
                         /\ flow'[k].wallet = flow[k].wallet
                         /\ flow'[k].dev = IF flow[k].dev = d THEN Nobody ELSE flow[k].dev
                         /\ flow'[k] # flow[k] => flow[k].dev = d
  <2>1. ASSUME NEW k \in Keys
        PROVE  /\ flow'[k] \in Flow
               /\ flow'[k].pc = flow[k].pc /\ flow'[k].kind = flow[k].kind
               /\ flow'[k].wallet = flow[k].wallet
               /\ flow'[k].dev = IF flow[k].dev = d THEN Nobody ELSE flow[k].dev
               /\ flow'[k] # flow[k] => flow[k].dev = d
    <3>1. PICK f \in Flow : f = flow[k]
      BY DEF PageTypes
    <3>2. [f EXCEPT !.dev = Nobody] \in Flow /\ [f EXCEPT !.dev = Nobody].dev = Nobody
          /\ [f EXCEPT !.dev = Nobody].pc = f.pc /\ [f EXCEPT !.dev = Nobody].kind = f.kind
          /\ [f EXCEPT !.dev = Nobody].wallet = f.wallet
      BY DEF Flow
    <3>3. flow'[k] = IF f.dev = d THEN [f EXCEPT !.dev = Nobody] ELSE f
      BY <3>1 DEF Open
    <3>4. QED
      BY <3>1, <3>2, <3>3
  <2>2. flow' = [k \in Keys |-> flow'[k]]
    BY DEF Open
  <2>3. QED
    BY <2>1, <2>2
<1>6. PageTypes'
  <2>1. Fresh \in Memory
    BY KeysAreNumbers DEF Fresh, Memory, Contract, NoWallet, NoRow, SomeWallet, SomeKey
  <2>2. Unshown \in Shown
    BY DEF Unshown, Shown
  <2>3. QED
    BY <1>2, <1>5, <2>1, <2>2 DEF PageTypes, View
<1>7. Relayed'
  <2>1. FlowsAreSound'
    BY <1>1, <1>5 DEF Relayed, FlowsAreSound, FlowIsSound
  <2>2. \A e \in Devices : last'[e] \cup shown'[e].list \subseteq last[e] \cup shown[e].list
    <3>1. Unshown.list = {}
      BY DEF Unshown
    <3>2. QED
      BY <1>2, <1>3, <3>1 DEF ObserverTypes, PageTypes
  <2>3. \A k \in Keys : AskedFor(k) => AskedFor(k)'
    BY <1>5 DEF AskedFor
  <2>4. QED
    BY <1>1, <2>1, <2>2, <2>3, RequestsKeepRelayed DEF RelayTypes
<1>8. OnlyPageOf(d)
  BY <1>1, <1>2, <1>5 DEF OnlyPageOf, PageTypes
<1>9. Page(d)'
  <2>1. /\ view'[d] = "Login" /\ memory'[d] = Fresh /\ listeners'[d] = {}
        /\ awaits'[d] = {"storage"} /\ denials'[d] = {}
    BY <1>2 DEF PageTypes
  <2>2. \A k \in Keys : flow'[k].dev # d
    BY <1>5, KeysAreNumbers
  <2>3. Pending(d)' = {}
    BY <2>2 DEF Pending
  <2>4. WalletIsThere(d)'
    BY <2>1 DEF WalletIsThere, Home, Fresh, NoRow
  <2>5. OneThingUnderWay(d)' /\ NoOrphanOf(d)'
    BY <2>1, <2>2, <2>3 DEF OneThingUnderWay, NoOrphanOf
  <2>6. StoredRests(d) => StoredRests(d)'
    BY <1>1, <1>2, <2>1, <2>3 DEF StoredRests
  <2>7. QED
    BY <1>2, <2>4, <2>5, <2>6 DEF Page
<1>10. QED
  BY <1>1, <1>4, <1>6, <1>7, <1>8, <1>9, PageAfter

LEMMA LoadWalletHolds ==
    ASSUME IInv, NEW d \in Devices, LoadWallet(d)
    PROVE  IInv'
<1> USE DEF IInv
<1>1. RelayTypes' /\ UNCHANGED <<owned, nonce, added, requests, sent, queue, hook, lost>>
  BY RelayerStays DEF LoadWallet
<1>2. /\ "storage" \in awaits[d] /\ awaits' = [awaits EXCEPT ![d] = @ \ {"storage"}]
      /\ UNCHANGED <<stored, listeners, denials, flow, tangled>>
  BY DEF LoadWallet
<1>3. awaits' \in [Devices -> SUBSET {"storage", "codes"}] /\ awaits'[d] = awaits[d] \ {"storage"}
      /\ \A e \in Devices : e # d => awaits'[e] = awaits[e]
  BY <1>2 DEF PageTypes
<1>4. /\ ObserverTypes' /\ memory' \in [Devices -> Memory] /\ view' \in [Devices -> View \cup {"closed"}]
      /\ shown' \in [Devices -> Shown]
      /\ \A e \in Devices : last'[e] \cup shown'[e].list \subseteq last[e] \cup shown[e].list
      /\ \A e \in Devices : e # d => view'[e] = view[e] /\ memory'[e] = memory[e]
      /\ memory'[d].privateKey = memory[d].privateKey
      /\ memory'[d].subscription = memory[d].subscription
      /\ \/ stored[d] = NoWallet /\ view'[d] = view[d] /\ memory'[d] = memory[d]
         \/ view'[d] = "MainScreen" /\ memory'[d].contract.wallet \in Wallets
  <2>1. CASE stored[d] = NoWallet
    <3>1. UNCHANGED <<view, memory, shown, observer>>
      BY <2>1 DEF LoadWallet
    <3>2. ObserverTypes' /\ last' = last
      BY <3>1, ObserverStays DEF observer
    <3>3. QED
      BY <2>1, <3>1, <3>2 DEF PageTypes
  <2>2. CASE stored[d] # NoWallet
    <3>1. PICK c : c = stored[d]
      OBVIOUS
    <3>2. c \in Contract /\ c.wallet \in Wallets /\ c.wallet \in SomeWallet
      BY <2>2, <3>1 DEF PageTypes, WalletInfo, Contract, SomeWallet, SomeKey
    <3>3. memory' = [memory EXCEPT ![d].contract = c] /\ SetView(d, "MainScreen", c.wallet)
      BY <2>2, <3>1 DEF LoadWallet
    <3>4. /\ ObserverTypes' /\ last' = last /\ view' = [view EXCEPT ![d] = "MainScreen"]
          /\ shown' \in [Devices -> Shown]
          /\ \A e \in Devices : shown'[e].list \subseteq last[e] \cup shown[e].list
      BY <3>2, <3>3, SetViewGoes DEF View
    <3>5. memory' \in [Devices -> Memory] /\ memory'[d].contract = c
          /\ memory'[d].privateKey = memory[d].privateKey
          /\ memory'[d].subscription = memory[d].subscription
          /\ \A e \in Devices : e # d => memory'[e] = memory[e]
      BY <3>2, <3>3, ContractGoes
    <3>6. view' \in [Devices -> View \cup {"closed"}] /\ view'[d] = "MainScreen"
          /\ \A e \in Devices : e # d => view'[e] = view[e]
      BY <3>4 DEF PageTypes, View
    <3>7. QED
      BY <3>2, <3>4, <3>5, <3>6
  <2>3. QED
    BY <2>1, <2>2
<1>5. PageTypes'
  BY <1>2, <1>3, <1>4 DEF PageTypes
<1>6. Relayed'
  <2>1. FlowsAreSound' /\ \A k \in Keys : AskedFor(k) => AskedFor(k)'
    BY <1>1, <1>2 DEF Relayed, FlowsAreSound, FlowIsSound, AskedFor
  <2>2. QED
    BY <1>1, <1>4, <2>1, RequestsKeepRelayed DEF RelayTypes
<1>7. OnlyPageOf(d)
  BY <1>1, <1>2, <1>3, <1>4 DEF OnlyPageOf
<1>8. Page(d)'
  <2>1. Pending(d)' = Pending(d)
    BY <1>2 DEF Pending
  <2>2. WalletIsThere(d)'
    BY <1>2, <1>3, <1>4 DEF Page, WalletIsThere
  <2>3. OneThingUnderWay(d) => Pending(d) = {} /\ listeners[d] = {}
    BY <1>2 DEF OneThingUnderWay
  <2>4. OneThingUnderWay(d) => OneThingUnderWay(d)'
    BY <1>2, <1>3, <2>1, <2>3 DEF OneThingUnderWay
  <2>5. OneThingUnderWay(d) /\ StoredRests(d) => StoredRests(d)'
    BY <1>1, <1>2, <1>4, <2>1, <2>3 DEF StoredRests, Home
  <2>6. NoOrphanOf(d) => NoOrphanOf(d)'
    BY <1>1, <1>2, <2>1 DEF NoOrphanOf
  <2>7. QED
    BY <1>2, <2>2, <2>4, <2>5, <2>6 DEF Page
<1>9. QED
  BY <1>1, <1>4, <1>5, <1>6, <1>7, <1>8, PageAfter

(* A click begins a flow with the next key; what it overlaps with is tangled.    *)
LEMMA ClickHolds ==
    ASSUME IInv, NEW d \in Devices, NEW kind \in {"next", "recover"}, NEW w \in Wallets,
           Click(d, kind, w)
    PROVE  IInv'
<1> USE DEF IInv
<1>1. RelayTypes' /\ UNCHANGED <<owned, nonce, added, requests, sent, queue, hook, lost>>
  BY RelayerStays DEF Click
<1>2. ObserverTypes' /\ last' = last
  BY ObserverStays DEF Click
<1>3. UNCHANGED <<view, memory, listeners, shown, awaits, denials, stored>> /\ view[d] = "Login"
      /\ tangled' = [tangled EXCEPT ![d] = @ \/ Busy(d)]
  BY DEF Click, page, Overlap, Tangle
<1>4. PICK k : k = NextKey
  OBVIOUS
<1>5. k \in Keys /\ flow[k].kind = "none" /\ flow[k].pc = "none" /\ flow[k].dev = Nobody
  <2>1. k \in Keys /\ flow[k].kind = "none"
    BY <1>4, NextKeyIsUnused DEF Click
  <2>2. QED
    BY <2>1 DEF Relayed, FlowsAreSound, FlowIsSound
<1>6. PICK f : f = [dev |-> d, kind |-> kind, wallet |-> w, pc |-> "resolving"]
  OBVIOUS
<1>7. f \in Flow /\ f.dev = d /\ f.kind = kind /\ f.wallet = w /\ f.pc = "resolving"
  BY <1>6 DEF Flow, SomeWallet
<1>8. flow' \in [Keys -> Flow] /\ flow'[k] = f /\ \A j \in Keys : j # k => flow'[j] = flow[j]
  BY <1>4, <1>5, <1>6, <1>7 DEF Click, PageTypes
<1>9. tangled' \in [Devices -> BOOLEAN] /\ (tangled'[d] <=> tangled[d] \/ Busy(d))
      /\ \A e \in Devices : e # d => tangled'[e] = tangled[e]
  BY <1>3, Zenon DEF PageTypes
<1>10. PageTypes'
  BY <1>3, <1>8, <1>9 DEF PageTypes
<1>11. Relayed'
  <2>1. FlowsAreSound'
    BY <1>1, <1>7, <1>8, FlowsMoveOn DEF FlowIsSound
  <2>2. \A j \in Keys : AskedFor(j) => AskedFor(j)'
    BY <1>5, <1>8 DEF AskedFor
  <2>3. QED
    BY <1>1, <1>2, <1>3, <2>1, <2>2, RequestsKeepRelayed DEF RelayTypes
<1>12. OnlyPageOf(d)
  BY <1>1, <1>3, <1>5, <1>7, <1>8, <1>9 DEF OnlyPageOf
<1>13. Page(d)'
  <2>1. WalletIsThere(d)'
    BY <1>3 DEF Page, WalletIsThere
  <2>2. ASSUME ~tangled'[d]
        PROVE  OneThingUnderWay(d)' /\ StoredRests(d)' /\ NoOrphanOf(d)'
    <3>1. OneThingUnderWay(d) /\ StoredRests(d) /\ NoOrphanOf(d)
          /\ Pending(d) = {} /\ listeners[d] = {} /\ denials[d] = {} /\ "storage" \notin awaits[d]
      BY <1>9, <2>2 DEF Busy, Calling, Page
    <3>2. \A j \in Pending(d)' : j = k
      BY <1>8, <3>1 DEF Pending
    <3>3. k \in Pending(d)'
      BY <1>5, <1>7, <1>8 DEF Pending
    <3>4. OneThingUnderWay(d)'
      BY <1>3, <1>7, <1>8, <3>1, <3>2 DEF OneThingUnderWay
    <3>5. stored'[d] = NoWallet
      BY <1>3, <3>1 DEF StoredRests, Home
    <3>6. StoredRests(d)'
      BY <3>5 DEF StoredRests
    <3>7. NoOrphanOf(d)'
      BY <1>1, <1>3, <1>8, <3>1, <3>3 DEF NoOrphanOf
    <3>8. QED
      BY <3>4, <3>6, <3>7
  <2>3. QED
    BY <2>1, <2>2 DEF Page
<1>14. QED
  BY <1>1, <1>2, <1>10, <1>11, <1>12, <1>13, PageAfter

--------------------------------------------------------------------------------
(* A pending flow is alone on its page.                                          *)
LEMMA PendingIsAlone ==
    ASSUME NEW d \in Devices, NEW k \in Keys, flow[k].dev = d, flow[k].pc # "over",
           OneThingUnderWay(d), StoredRests(d)
    PROVE  /\ k \in Pending(d) /\ \A j \in Pending(d) : j = k
           /\ listeners[d] = {} /\ denials[d] = {}
           /\ "storage" \notin awaits[d] /\ stored[d] = NoWallet
<1>1. k \in Pending(d)
  BY DEF Pending
<1>2. QED
  BY <1>1 DEF OneThingUnderWay, StoredRests

(* While it stays pending the page keeps its promises.                           *)
LEMMA FlowGoesOn ==
    ASSUME IInv, NEW d \in Devices, NEW k \in Keys, flow[k].dev = d, flow[k].pc # "over",
           flow'[k].dev = d, flow'[k].pc # "over", flow'[k].wallet = flow[k].wallet,
           \A j \in Keys : j # k => flow'[j] = flow[j],
           UNCHANGED <<listeners, awaits, denials, stored, added, tangled>>,
           WalletIsThere(d)', requests' \subseteq requests \cup {<<flow[k].wallet, k>>},
           flow'[k].pc \in {"posting", "posted"} =>
              \/ memory'[d].contract.wallet = flow[k].wallet
              \/ flow[k].pc = "posting" /\ memory' = memory
    PROVE  Page(d)'
<1>1. Pending(d)' = Pending(d)
  BY DEF Pending
<1>2. ASSUME ~tangled[d]
      PROVE  OneThingUnderWay(d)' /\ StoredRests(d)' /\ NoOrphanOf(d)'
  <2>1. OneThingUnderWay(d) /\ StoredRests(d) /\ NoOrphanOf(d)
    BY <1>2 DEF IInv, Page
  <2>2. /\ k \in Pending(d) /\ \A j \in Pending(d) : j = k
        /\ listeners[d] = {} /\ denials[d] = {}
        /\ "storage" \notin awaits[d] /\ stored[d] = NoWallet
    BY <2>1, PendingIsAlone
  <2>3. flow'[k].pc \in {"posting", "posted"} => memory'[d].contract.wallet = flow[k].wallet
    BY <2>1, <2>2 DEF OneThingUnderWay
  <2>4. OneThingUnderWay(d)'
    BY <1>1, <2>2, <2>3 DEF OneThingUnderWay
  <2>5. StoredRests(d)'
    BY <2>2 DEF StoredRests
  <2>6. NoOrphanOf(d)'
    BY <1>1, <2>1, <2>2 DEF NoOrphanOf
  <2>7. QED
    BY <2>4, <2>5, <2>6
<1>3. QED
  BY <1>2 DEF Page

(* Login.onNextClick goes on.                                                    *)
LEMMA ResolvedHolds ==
    ASSUME IInv, NEW k \in Keys, Resolved(k)
    PROVE  IInv'
<1> USE DEF IInv
<1>1. flow[k].kind = "next" /\ flow[k].pc = "resolving"
      /\ flow[k].dev \in Devices /\ flow[k].wallet \in Wallets
  BY DEF Resolved, In, Relayed, FlowsAreSound, FlowIsSound
<1>d. PICK d \in Devices : d = flow[k].dev
  BY <1>1
<1>w. PICK w \in Wallets : w = flow[k].wallet
  BY <1>1
<1>2. RelayTypes' /\ UNCHANGED <<owned, nonce, added, requests, sent, queue, hook, lost>>
  BY RelayerStays DEF Resolved
<1>3. UNCHANGED <<stored, listeners, awaits, denials, tangled>>
  BY DEF Resolved
<1>4. PICK p \in {"posting", "creating"}, v \in {"ApproveConnection", "CreatingID"} :
        /\ flow' = [flow EXCEPT ![k].pc = p] /\ SetView(d, v, w)
        /\ \/ p = "posting" /\ memory' = [memory EXCEPT ![d].contract = [wallet |-> w, key |-> NoKey]]
           \/ p = "creating" /\ v = "CreatingID" /\ memory' = memory
  BY <1>d, <1>w DEF Resolved, Await
<1>5. ObserverTypes' /\ last' = last /\ view' = [view EXCEPT ![d] = v]
      /\ shown' \in [Devices -> Shown]
      /\ \A e \in Devices : shown'[e].list \subseteq last[e] \cup shown[e].list
  BY <1>1, <1>4, SetViewGoes DEF View, SomeWallet
<1>6. /\ flow' \in [Keys -> Flow] /\ flow'[k].pc = p /\ flow'[k].dev = d
      /\ flow'[k].kind = "next" /\ flow'[k].wallet = w
      /\ \A j \in Keys : j # k => flow'[j] = flow[j]
  BY <1>1, <1>4, <1>d, <1>w, AwaitGoes DEF Stage
<1>7. /\ memory' \in [Devices -> Memory] /\ memory'[d].privateKey = memory[d].privateKey
      /\ memory'[d].subscription = memory[d].subscription
      /\ \A e \in Devices : e # d => memory'[e] = memory[e]
      /\ \/ p = "posting" /\ memory'[d].contract.wallet = w
         \/ p = "creating" /\ v = "CreatingID" /\ memory' = memory
  <2>1. CASE p = "creating" /\ v = "CreatingID" /\ memory' = memory
    BY <2>1 DEF PageTypes
  <2>2. CASE p = "posting" /\ memory' = [memory EXCEPT ![d].contract = [wallet |-> w, key |-> NoKey]]
    <3>1. PICK c : c = [wallet |-> w, key |-> NoKey]
      OBVIOUS
    <3>2. c \in Contract /\ c.wallet = w
      BY <1>1, <3>1 DEF Contract, SomeWallet, SomeKey
    <3>3. memory' = [memory EXCEPT ![d].contract = c]
      BY <2>2, <3>1
    <3>4. QED
      BY <1>1, <2>2, <3>2, <3>3, ContractGoes
  <2>3. QED
    BY <1>4, <2>1, <2>2
<1>8. view' \in [Devices -> View \cup {"closed"}] /\ view'[d] = v
      /\ \A e \in Devices : e # d => view'[e] = view[e]
  BY <1>1, <1>5 DEF PageTypes, View
<1>9. PageTypes'
  BY <1>3, <1>5, <1>6, <1>7, <1>8 DEF PageTypes
<1>10. Relayed'
  <2>1. FlowsAreSound'
    BY <1>1, <1>2, <1>6, <1>w, FlowsMoveOn DEF FlowIsSound
  <2>2. \A j \in Keys : AskedFor(j) => AskedFor(j)'
    BY <1>1, <1>6 DEF AskedFor
  <2>3. QED
    BY <1>2, <1>5, <2>1, <2>2, RequestsKeepRelayed DEF RelayTypes
<1>11. OnlyPageOf(d)
  BY <1>2, <1>3, <1>6, <1>7, <1>8, <1>d DEF OnlyPageOf
<1>12. WalletIsThere(d)'
  <2>1. WalletIsThere(d)
    BY <1>1 DEF Page
  <2>2. QED
    BY <1>1, <1>3, <1>7, <1>8, <2>1 DEF WalletIsThere, Home
<1>13. Page(d)'
  BY <1>1, <1>2, <1>3, <1>6, <1>7, <1>12, <1>d, <1>w, FlowGoesOn
<1>14. QED
  BY <1>1, <1>2, <1>5, <1>9, <1>10, <1>11, <1>13, PageAfter

(* A step of a flow that has its page, or that has lost it, and leaves the page. *)
LEMMA PageOrNone ==
    ASSUME IInv, NEW d \in Devices \cup {Nobody}, OnlyPageOf(d), RelayTypes', ObserverTypes',
           PageTypes', Relayed', d \in Devices => Page(d)'
    PROVE  IInv'
<1>1. CASE d \in Devices
  BY <1>1, PageAfter
<1>2. CASE d = Nobody
  BY <1>2, NoPageChanges
<1>3. QED
  BY <1>1, <1>2

LEMMA CreatedHolds ==
    ASSUME IInv, NEW k \in Keys, Created(k)
    PROVE  IInv'
<1> USE DEF IInv
<1>1. flow[k].kind = "next" /\ flow[k].pc = "creating"
      /\ flow[k].dev \in Devices \cup {Nobody} /\ flow[k].wallet \in Wallets
  BY DEF Created, In, Relayed, FlowsAreSound, FlowIsSound, PageTypes, Flow
<1>d. PICK d \in Devices \cup {Nobody} : d = flow[k].dev
  BY <1>1
<1>w. PICK w \in Wallets : w = flow[k].wallet
  BY <1>1
<1>2. UNCHANGED <<nonce, added, requests, sent, queue, hook, lost, stored, tangled,
                  filters, turn, last, polling, passed, page>>
  BY DEF Created, relayer, observer
<1>3. PICK p \in {"created", "refused"} :
        /\ flow' = [flow EXCEPT ![k].pc = p]
        /\ \/ p = "created" /\ owned[w] = {} /\ owned' = [owned EXCEPT ![w] = {k}]
           \/ p = "refused" /\ owned' = owned
  BY <1>d, <1>w DEF Created, Await
<1>4. ObserverTypes' /\ UNCHANGED <<view, memory, listeners, shown, awaits, denials>>
  BY <1>2, ObserverStays, PageStays
<1>5. /\ flow' \in [Keys -> Flow] /\ flow'[k].pc = p /\ flow'[k].dev = d
      /\ flow'[k].kind = "next" /\ flow'[k].wallet = w
      /\ \A j \in Keys : j # k => flow'[j] = flow[j]
  BY <1>1, <1>3, <1>d, <1>w, AwaitGoes DEF Stage
<1>6. /\ owned' \in [Wallets -> SUBSET (Keys \cup {Code})]
      /\ \A v \in Wallets : owned[v] \subseteq owned'[v]
      /\ p = "created" => k \in owned'[w]
  BY <1>1, <1>3 DEF RelayTypes
<1>7. RelayTypes'
  BY <1>2, <1>6 DEF RelayTypes
<1>8. PageTypes'
  BY <1>2, <1>4, <1>5 DEF PageTypes
<1>9. Relayed'
  <2>1. FlowsAreSound'
    BY <1>1, <1>3, <1>5, <1>6, <1>w, FlowsMoveOn DEF FlowIsSound
  <2>2. \A j \in Keys : AskedFor(j) => AskedFor(j)'
    BY <1>1, <1>5 DEF AskedFor
  <2>3. QED
    BY <1>2, <1>4, <1>6, <2>1, <2>2, RequestsKeepRelayed DEF RelayTypes
<1>10. OnlyPageOf(d)
  BY <1>2, <1>4, <1>5, <1>6, <1>d DEF OnlyPageOf
<1>11. ASSUME d \in Devices PROVE Page(d)'
  <2>1. WalletIsThere(d)'
    BY <1>4, <1>11 DEF Page, WalletIsThere
  <2>2. QED
    BY <1>1, <1>2, <1>3, <1>4, <1>5, <1>11, <2>1, <1>d, <1>w, FlowGoesOn
<1>12. QED
  BY <1>4, <1>7, <1>8, <1>9, <1>10, <1>11, <1>d, PageOrNone

(* The request of a posting flow is the first for its key.                       *)
LEMMA RequestArrivesHolds ==
    ASSUME IInv, NEW k \in Keys, RequestArrives(k)
    PROVE  IInv'
<1> USE DEF IInv
<1>1. flow[k].kind = "next" /\ flow[k].pc = "posting"
      /\ flow[k].dev \in Devices \cup {Nobody} /\ flow[k].wallet \in Wallets
  BY DEF RequestArrives, In, Relayed, FlowsAreSound, FlowIsSound, PageTypes, Flow
<1>d. PICK d \in Devices \cup {Nobody} : d = flow[k].dev
  BY <1>1
<1>w. PICK w \in Wallets : w = flow[k].wallet
  BY <1>1
<1>2. UNCHANGED <<owned, nonce, added, sent, queue, hook, lost, stored, tangled,
                  filters, turn, last, polling, passed, page>>
  BY DEF RequestArrives, AddRequest, chain, observer
<1>3. flow' = [flow EXCEPT ![k].pc = "posted"] /\ requests' = requests \cup {<<w, k>>}
  BY <1>d, <1>w DEF RequestArrives, AddRequest, Await
<1>4. ObserverTypes' /\ UNCHANGED <<view, memory, listeners, shown, awaits, denials>>
  BY <1>2, ObserverStays, PageStays
<1>5. /\ flow' \in [Keys -> Flow] /\ flow'[k].pc = "posted" /\ flow'[k].dev = d
      /\ flow'[k].kind = "next" /\ flow'[k].wallet = w
      /\ \A j \in Keys : j # k => flow'[j] = flow[j]
  BY <1>1, <1>3, <1>d, <1>w, AwaitGoes DEF Stage
<1>6. RelayTypes'
  BY <1>1, <1>2, <1>3 DEF RelayTypes, Rows
<1>7. PageTypes'
  BY <1>2, <1>4, <1>5 DEF PageTypes
<1>8. Relayed'
  <2>1. FlowsAreSound'
    BY <1>1, <1>2, <1>5, <1>w, FlowsMoveOn DEF FlowIsSound
  <2>2. (\A j \in Keys : AskedFor(j) => AskedFor(j)') /\ ~AskedFor(k) /\ AskedFor(k)'
    BY <1>1, <1>5 DEF AskedFor
  <2>3. \A r \in requests' : r \in Rows /\ (r \in requests \/ r = <<w, k>>)
    BY <1>3, <1>6 DEF RelayTypes
  <2>4. \A r \in requests' : r \in Rows /\ (r \in requests \/ (~AskedFor(r[2]) /\ AskedFor(r[2])'))
    BY <2>2, <2>3
  <2>5. QED
    BY <1>2, <1>4, <2>1, <2>2, <2>4, RequestsKeepRelayed DEF RelayTypes
<1>9. OnlyPageOf(d)
  BY <1>2, <1>3, <1>4, <1>5, <1>d DEF OnlyPageOf
<1>10. ASSUME d \in Devices PROVE Page(d)'
  <2>1. WalletIsThere(d)'
    BY <1>4, <1>10 DEF Page, WalletIsThere
  <2>2. QED
    BY <1>1, <1>2, <1>3, <1>4, <1>5, <1>10, <2>1, <1>d, <1>w, FlowGoesOn
<1>11. QED
  BY <1>4, <1>6, <1>7, <1>8, <1>9, <1>10, <1>d, PageOrNone

--------------------------------------------------------------------------------
(* A flow that ends leaves the page with nothing under way, or with the listener *)
(* for its key; a key that it stores is on its wallet.                           *)
LEMMA FlowEnds ==
    ASSUME IInv, NEW d \in Devices, NEW k \in Keys, flow[k].dev = d, flow[k].pc # "over",
           flow'[k].dev = d, flow'[k].pc = "over", flow'[k].wallet = flow[k].wallet,
           \A j \in Keys : j # k => flow'[j] = flow[j],
           UNCHANGED <<awaits, denials, added, tangled, requests>>,
           WalletIsThere(d)',
           \/ listeners'[d] = listeners[d]
           \/ /\ listeners'[d] = listeners[d] \cup {memory'[d].subscription}
              /\ memory'[d].subscription = <<memory'[d].contract.wallet, memory'[d].privateKey>>,
           \/ stored'[d] = stored[d]
           \/ /\ view'[d] \in Home /\ listeners'[d] = listeners[d]
              /\ stored'[d].key \in owned'[stored'[d].wallet],
           flow[k].pc = "posted" /\ memory[d].contract.wallet = flow[k].wallet
              => <<flow[k].wallet, k>> \in listeners'[d]
    PROVE  Page(d)'
<1>1. ASSUME ~tangled[d]
      PROVE  OneThingUnderWay(d)' /\ StoredRests(d)' /\ NoOrphanOf(d)'
  <2>1. OneThingUnderWay(d) /\ StoredRests(d) /\ NoOrphanOf(d)
    BY <1>1 DEF IInv, Page
  <2>2. /\ k \in Pending(d) /\ \A j \in Pending(d) : j = k
        /\ listeners[d] = {} /\ denials[d] = {}
        /\ "storage" \notin awaits[d] /\ stored[d] = NoWallet
    BY <2>1, PendingIsAlone
  <2>3. Pending(d)' = {}
    <3>1. \A j \in Keys : j # k /\ flow'[j].dev = d => flow'[j].pc = "over"
      BY <2>2 DEF Pending
    <3>2. QED
      BY <3>1 DEF Pending
  <2>4. OneThingUnderWay(d)'
    BY <2>2, <2>3 DEF OneThingUnderWay
  <2>5. StoredRests(d)'
    BY <2>2, <2>3 DEF StoredRests
  <2>6. ASSUME NEW j \in Keys, flow'[j].dev = d, <<flow'[j].wallet, j>> \in requests'
        PROVE  <<flow'[j].wallet, j>> \in listeners'[d] \cup added'
    <3>1. CASE j = k
      <4>1. AskedFor(k) /\ flow[k].pc = "posted"
        <5>1. AskedFor(k)
          BY <2>6, <3>1 DEF IInv, Relayed, RowsWereAskedFor
        <5>2. QED
          BY <5>1 DEF AskedFor
      <4>2. memory[d].contract.wallet = flow[k].wallet
        BY <2>1, <2>2, <4>1 DEF OneThingUnderWay
      <4>3. QED
        BY <3>1, <4>1, <4>2
    <3>2. CASE j # k
      <4>1. flow[j].dev = d /\ <<flow[j].wallet, j>> \in requests /\ j \notin Pending(d)
            /\ flow'[j] = flow[j]
        BY <2>2, <2>6, <3>2
      <4>2. <<flow[j].wallet, j>> \in added
        BY <2>1, <2>2, <4>1 DEF NoOrphanOf
      <4>3. QED
        BY <4>1, <4>2
    <3>3. QED
      BY <3>1, <3>2
  <2>7. NoOrphanOf(d)'
    BY <2>6 DEF NoOrphanOf
  <2>8. QED
    BY <2>4, <2>5, <2>7
<1>2. QED
  BY <1>1 DEF Page

LEMMA CreateAnsweredHolds ==
    ASSUME IInv, NEW k \in Keys, CreateAnswered(k)
    PROVE  IInv'
<1> USE DEF IInv
<1>1. flow[k].dev \in Devices /\ flow[k].wallet \in Wallets /\ flow[k].kind = "next"
      /\ flow[k].pc \in {"created", "refused"}
      /\ (flow[k].pc = "created" => k \in owned[flow[k].wallet])
  <2>1. flow[k].dev \in Devices /\ flow[k].kind = "next" /\ flow[k].pc \in {"created", "refused"}
    BY DEF CreateAnswered, In
  <2>2. QED
    BY <2>1 DEF Relayed, FlowsAreSound, FlowIsSound
<1>d. PICK d \in Devices : d = flow[k].dev
  BY <1>1
<1>w. PICK w \in Wallets : w = flow[k].wallet
  BY <1>1
<1>2. RelayTypes' /\ UNCHANGED <<owned, nonce, added, requests, sent, queue, hook, lost>>
  BY RelayerStays DEF CreateAnswered
<1>3. UNCHANGED <<listeners, awaits, denials, tangled>> /\ flow' = [flow EXCEPT ![k].pc = "over"]
  BY DEF CreateAnswered, Over
<1>4. PICK new : new = [wallet |-> w, key |-> k]
  OBVIOUS
<1>5. new \in Contract /\ new \in WalletInfo /\ new.wallet = w /\ new.key = k
  BY <1>4 DEF Contract, WalletInfo, SomeWallet, SomeKey
<1>6. PICK v \in {"Greeting", "Failure"} :
        /\ SetView(d, v, Nobody)
        /\ \/ /\ flow[k].pc = "created" /\ memory' = [memory EXCEPT ![d].contract = new]
              /\ stored' = [stored EXCEPT ![d] = new] /\ v = "Greeting"
           \/ memory' = memory /\ stored' = stored /\ v = "Failure"
  BY <1>d, <1>w, <1>4 DEF CreateAnswered, In
<1>7. ObserverTypes' /\ last' = last /\ view' = [view EXCEPT ![d] = v]
      /\ shown' \in [Devices -> Shown]
      /\ \A e \in Devices : shown'[e].list \subseteq last[e] \cup shown[e].list
  BY <1>6, SetViewGoes DEF View, SomeWallet, Badged
<1>8. /\ flow' \in [Keys -> Flow] /\ flow'[k].pc = "over" /\ flow'[k].dev = d
      /\ flow'[k].kind = "next" /\ flow'[k].wallet = w
      /\ \A j \in Keys : j # k => flow'[j] = flow[j]
  BY <1>1, <1>3, <1>d, <1>w, AwaitGoes DEF Stage
<1>9. /\ memory' \in [Devices -> Memory] /\ memory'[d].privateKey = memory[d].privateKey
      /\ memory'[d].subscription = memory[d].subscription
      /\ stored' \in [Devices -> WalletInfo]
      /\ \A e \in Devices : e # d => memory'[e] = memory[e] /\ stored'[e] = stored[e]
      /\ \/ v = "Greeting" /\ memory'[d].contract.wallet \in Wallets
            /\ stored'[d] = new /\ k \in owned[w]
         \/ v = "Failure" /\ memory' = memory /\ stored' = stored
  <2>1. CASE memory' = memory /\ stored' = stored /\ v = "Failure"
    BY <2>1 DEF PageTypes
  <2>2. CASE /\ flow[k].pc = "created" /\ memory' = [memory EXCEPT ![d].contract = new]
             /\ stored' = [stored EXCEPT ![d] = new] /\ v = "Greeting"
    <3>1. /\ stored' \in [Devices -> WalletInfo] /\ stored'[d] = new
          /\ \A e \in Devices : e # d => stored'[e] = stored[e]
      BY <1>5, <2>2 DEF PageTypes
    <3>2. QED
      BY <1>1, <1>5, <1>w, <2>2, <3>1, ContractGoes
  <2>3. QED
    BY <1>6, <2>1, <2>2
<1>10. view' \in [Devices -> View \cup {"closed"}] /\ view'[d] = v
      /\ \A e \in Devices : e # d => view'[e] = view[e]
  BY <1>7 DEF PageTypes, View
<1>11. PageTypes'
  BY <1>3, <1>7, <1>8, <1>9, <1>10 DEF PageTypes
<1>12. Relayed'
  <2>1. FlowsAreSound'
    BY <1>1, <1>2, <1>8, FlowsMoveOn DEF FlowIsSound
  <2>2. \A j \in Keys : AskedFor(j) => AskedFor(j)'
    BY <1>8 DEF AskedFor
  <2>3. QED
    BY <1>2, <1>7, <2>1, <2>2, RequestsKeepRelayed DEF RelayTypes
<1>13. OnlyPageOf(d)
  BY <1>2, <1>3, <1>8, <1>9, <1>10, <1>d DEF OnlyPageOf
<1>14. WalletIsThere(d)'
  <2>1. WalletIsThere(d)
    BY DEF Page
  <2>2. QED
    BY <1>3, <1>9, <1>10, <2>1 DEF WalletIsThere, Home
<1>15. Page(d)'
  <2>1. \/ stored'[d] = stored[d]
        \/ /\ view'[d] \in Home /\ listeners'[d] = listeners[d]
           /\ stored'[d].key \in owned'[stored'[d].wallet]
    BY <1>2, <1>3, <1>5, <1>9, <1>10 DEF Home
  <2>2. QED
    BY <1>1, <1>2, <1>3, <1>8, <1>14, <1>d, <1>w, <2>1, FlowEnds
<1>16. QED
  BY <1>2, <1>7, <1>11, <1>12, <1>13, <1>15, PageAfter

(* WalletService.connect goes on: the page listens for the key it asked for.     *)
LEMMA ConnectAnsweredHolds ==
    ASSUME IInv, NEW k \in Keys, ConnectAnswered(k)
    PROVE  IInv'
<1> USE DEF IInv
<1>1. flow[k].dev \in Devices /\ flow[k].wallet \in Wallets /\ flow[k].kind = "next"
      /\ flow[k].pc = "posted"
  <2>1. flow[k].dev \in Devices /\ flow[k].kind = "next" /\ flow[k].pc = "posted"
    BY DEF ConnectAnswered, In
  <2>2. QED
    BY <2>1 DEF Relayed, FlowsAreSound, FlowIsSound
<1>d. PICK d \in Devices : d = flow[k].dev
  BY <1>1
<1>2. UNCHANGED <<chain, relayer, observer, view, shown, awaits, denials, stored, tangled>>
      /\ flow' = [flow EXCEPT ![k].pc = "over"]
  BY DEF ConnectAnswered, Over, connection
<1>3. RelayTypes' /\ UNCHANGED <<owned, nonce, added, requests, sent, queue, hook, lost>>
  BY <1>2, RelayerStays
<1>4. ObserverTypes' /\ last' = last
  BY <1>2, ObserverStays DEF observer
<1>5. /\ flow' \in [Keys -> Flow] /\ flow'[k].pc = "over" /\ flow'[k].dev = d
      /\ flow'[k].kind = "next" /\ flow'[k].wallet = flow[k].wallet
      /\ \A j \in Keys : j # k => flow'[j] = flow[j]
  BY <1>1, <1>2, <1>d, AwaitGoes DEF Stage
<1>6. PICK m \in Memory : m = memory[d]
  BY DEF PageTypes
<1>7. PICK c \in SomeWallet : c = m.contract.wallet
  BY DEF Memory, Contract
<1>8. /\ memory' \in [Devices -> Memory] /\ memory'[d].contract = m.contract
      /\ memory'[d].privateKey = k /\ memory'[d].subscription = <<c, k>>
      /\ \A e \in Devices : e # d => memory'[e] = memory[e]
  <2>1. PICK n : n = Keep(d, k, m)
    OBVIOUS
  <2>2. memory' = [memory EXCEPT ![d] = n]
    BY <1>6, <1>d, <2>1 DEF ConnectAnswered
  <2>3. n \in Memory /\ n.contract = m.contract /\ n.privateKey = k /\ n.subscription = <<c, k>>
    BY <1>7, <2>1, KeepUpdates
  <2>4. QED
    BY <2>2, <2>3 DEF PageTypes
<1>9. listeners' = [listeners EXCEPT ![d] = @ \cup {<<c, k>>}]
  BY <1>7, <1>8, <1>d DEF ConnectAnswered, Subscribe
<1>10. /\ listeners' \in [Devices -> SUBSET (SomeWallet \X Keys)]
       /\ listeners'[d] = listeners[d] \cup {<<c, k>>}
       /\ \A e \in Devices : e # d => listeners'[e] = listeners[e]
  BY <1>9 DEF PageTypes
<1>11. PageTypes'
  BY <1>2, <1>5, <1>8, <1>10 DEF PageTypes
<1>12. Relayed'
  <2>1. FlowsAreSound'
    BY <1>1, <1>3, <1>5, FlowsMoveOn DEF FlowIsSound
  <2>2. \A j \in Keys : AskedFor(j) => AskedFor(j)'
    BY <1>5 DEF AskedFor
  <2>3. QED
    BY <1>2, <1>3, <1>4, <2>1, <2>2, RequestsKeepRelayed DEF RelayTypes
<1>13. OnlyPageOf(d)
  BY <1>2, <1>3, <1>5, <1>8, <1>10, <1>d DEF OnlyPageOf
<1>14. WalletIsThere(d)'
  <2>1. WalletIsThere(d)
    BY DEF Page
  <2>2. QED
    BY <1>2, <1>6, <1>7, <1>8, <1>10, <2>1 DEF WalletIsThere
<1>15. Page(d)'
  BY <1>1, <1>2, <1>3, <1>5, <1>6, <1>7, <1>8, <1>10, <1>14, <1>d, FlowEnds
<1>16. QED
  BY <1>3, <1>4, <1>11, <1>12, <1>13, <1>15, PageAfter

(* The view that recovers is mounted: it listens for the new key.                *)
LEMMA MountGoes ==
    ASSUME ObserverTypes, PageTypes, NEW d \in Devices, NEW k \in Keys, NEW m \in Memory,
           MountRecovery(d, k, m)
    PROVE  /\ ObserverTypes' /\ last' = last
           /\ view' \in [Devices -> View \cup {"closed"}] /\ view'[d] = "RecoverAccount"
           /\ \A e \in Devices : e # d => view'[e] = view[e]
           /\ shown' \in [Devices -> Shown]
           /\ \A e \in Devices : shown'[e].list \subseteq last[e] \cup shown[e].list
           /\ memory' \in [Devices -> Memory] /\ memory'[d].contract = m.contract
           /\ memory'[d].privateKey = k /\ memory'[d].subscription = <<m.contract.wallet, k>>
           /\ \A e \in Devices : e # d => memory'[e] = memory[e]
           /\ listeners' \in [Devices -> SUBSET (SomeWallet \X Keys)]
           /\ listeners'[d] = listeners[d] \cup {<<m.contract.wallet, k>>}
           /\ \A e \in Devices : e # d => listeners'[e] = listeners[e]
<1>1. /\ SetView(d, "RecoverAccount", Nobody) /\ Subscribe(d, k)
      /\ memory' = [memory EXCEPT ![d] = Recover(d, k, m)]
  BY DEF MountRecovery
<1>2. ObserverTypes' /\ last' = last /\ view' = [view EXCEPT ![d] = "RecoverAccount"]
      /\ shown' \in [Devices -> Shown]
      /\ \A e \in Devices : shown'[e].list \subseteq last[e] \cup shown[e].list
  BY <1>1, SetViewGoes DEF View, SomeWallet, Badged
<1>3. view' \in [Devices -> View \cup {"closed"}] /\ view'[d] = "RecoverAccount"
      /\ \A e \in Devices : e # d => view'[e] = view[e]
  BY <1>2 DEF PageTypes, View
<1>4. PICK c \in SomeWallet : c = m.contract.wallet
  BY DEF Memory, Contract
<1>5. /\ memory' \in [Devices -> Memory] /\ memory'[d].contract = m.contract
      /\ memory'[d].privateKey = k /\ memory'[d].subscription = <<c, k>>
      /\ \A e \in Devices : e # d => memory'[e] = memory[e]
  <2>1. PICK n : n = Recover(d, k, m)
    OBVIOUS
  <2>2. n \in Memory /\ n.contract = m.contract /\ n.privateKey = k /\ n.subscription = <<c, k>>
    BY <1>4, <2>1, KeepUpdates
  <2>3. QED
    BY <1>1, <2>1, <2>2 DEF PageTypes
<1>6. listeners' = [listeners EXCEPT ![d] = @ \cup {<<c, k>>}]
  BY <1>1, <1>4, <1>5 DEF Subscribe
<1>7. /\ listeners' \in [Devices -> SUBSET (SomeWallet \X Keys)]
      /\ listeners'[d] = listeners[d] \cup {<<c, k>>}
      /\ \A e \in Devices : e # d => listeners'[e] = listeners[e]
  BY <1>6 DEF PageTypes
<1>8. QED
  BY <1>2, <1>3, <1>4, <1>5, <1>7

(* Login.onAccountRecoveryClick goes on: the page listens for the recovered key, *)
(* on the wallet of the name or, when there is none, on that of the moment,      *)
(* unless the view is there already.                                             *)
LEMMA RecoveryResolvedHolds ==
    ASSUME IInv, NEW k \in Keys, RecoveryResolved(k)
    PROVE  IInv'
<1> USE DEF IInv
<1>1. flow[k].dev \in Devices /\ flow[k].wallet \in Wallets /\ flow[k].kind = "recover"
      /\ flow[k].pc = "resolving"
  <2>1. flow[k].dev \in Devices /\ flow[k].kind = "recover" /\ flow[k].pc = "resolving"
    BY DEF RecoveryResolved, In
  <2>2. QED
    BY <2>1 DEF Relayed, FlowsAreSound, FlowIsSound
<1>d. PICK d \in Devices : d = flow[k].dev
  BY <1>1
<1>w. PICK w \in Wallets : w = flow[k].wallet
  BY <1>1
<1>2. UNCHANGED <<chain, relayer, stored, awaits, denials, tangled>>
      /\ flow' = [flow EXCEPT ![k].pc = "over"]
  BY <1>d DEF RecoveryResolved, Over
<1>3. RelayTypes' /\ UNCHANGED <<owned, nonce, added, requests, sent, queue, hook, lost>>
  BY <1>2, RelayerStays
<1>5. /\ flow' \in [Keys -> Flow] /\ flow'[k].pc = "over" /\ flow'[k].dev = d
      /\ flow'[k].kind = "recover" /\ flow'[k].wallet = flow[k].wallet
      /\ \A j \in Keys : j # k => flow'[j] = flow[j]
  BY <1>1, <1>2, <1>d, AwaitGoes DEF Stage
<1>6. PICK m \in Memory :
        /\ m.contract.wallet \in {w, memory[d].contract.wallet}
        /\ m.privateKey = memory[d].privateKey /\ m.subscription = memory[d].subscription
        /\ \/ /\ view[d] = "RecoverAccount" /\ memory' = [memory EXCEPT ![d] = m]
              /\ UNCHANGED <<view, shown, listeners, observer>>
           \/ MountRecovery(d, k, m)
  <2>1. memory[d] \in Memory
    BY DEF PageTypes
  <2>2. CASE owned[w] # {}
    <3>1. PICK c : c = [wallet |-> w, key |-> NoKey]
      OBVIOUS
    <3>2. c \in Contract /\ c.wallet = w
      BY <3>1 DEF Contract, SomeWallet, SomeKey
    <3>3. PICK m : m = [memory[d] EXCEPT !.contract = c]
      OBVIOUS
    <3>4. m \in Memory /\ m.contract = c /\ m.privateKey = memory[d].privateKey
          /\ m.subscription = memory[d].subscription
      BY <2>1, <3>2, <3>3, MemoryUpdates
    <3>5. \/ /\ view[d] = "RecoverAccount" /\ memory' = [memory EXCEPT ![d] = m]
             /\ UNCHANGED <<view, shown, listeners, observer>>
          \/ MountRecovery(d, k, m)
      BY <1>d, <1>w, <2>2, <3>1, <3>3 DEF RecoveryResolved
    <3>6. QED
      BY <3>2, <3>4, <3>5
  <2>3. CASE owned[w] = {}
    <3>1. \/ /\ view[d] = "RecoverAccount" /\ memory' = [memory EXCEPT ![d] = memory[d]]
             /\ UNCHANGED <<view, shown, listeners, observer>>
          \/ MountRecovery(d, k, memory[d])
      BY <1>d, <1>w, <2>3 DEF RecoveryResolved
    <3>2. QED
      BY <2>1, <3>1
  <2>4. QED
    BY <2>2, <2>3
<1>7. PICK c \in SomeWallet : c = m.contract.wallet
  BY DEF Memory, Contract
<1>8. /\ ObserverTypes' /\ last' = last
      /\ view' \in [Devices -> View \cup {"closed"}] /\ view'[d] = "RecoverAccount"
      /\ \A e \in Devices : e # d => view'[e] = view[e]
      /\ shown' \in [Devices -> Shown]
      /\ \A e \in Devices : shown'[e].list \subseteq last[e] \cup shown[e].list
      /\ memory' \in [Devices -> Memory] /\ memory'[d].contract.wallet = c
      /\ \A e \in Devices : e # d => memory'[e] = memory[e]
      /\ listeners' \in [Devices -> SUBSET (SomeWallet \X Keys)]
      /\ \A e \in Devices : e # d => listeners'[e] = listeners[e]
      /\ \/ /\ listeners'[d] = listeners[d] /\ memory'[d].privateKey = memory[d].privateKey
            /\ memory'[d].subscription = memory[d].subscription
         \/ /\ listeners'[d] = listeners[d] \cup {<<c, k>>} /\ memory'[d].privateKey = k
            /\ memory'[d].subscription = <<c, k>>
  <2>1. CASE MountRecovery(d, k, m)
    BY <1>7, <2>1, MountGoes
  <2>2. CASE /\ view[d] = "RecoverAccount" /\ memory' = [memory EXCEPT ![d] = m]
             /\ UNCHANGED <<view, shown, listeners, observer>>
    <3>1. ObserverTypes' /\ last' = last
      BY <2>2, ObserverStays DEF observer
    <3>2. memory' \in [Devices -> Memory] /\ memory'[d] = m
          /\ \A e \in Devices : e # d => memory'[e] = memory[e]
      BY <2>2 DEF PageTypes
    <3>3. QED
      BY <1>6, <1>7, <2>2, <3>1, <3>2 DEF PageTypes
  <2>3. QED
    BY <1>6, <2>1, <2>2
<1>12. PageTypes'
  BY <1>2, <1>5, <1>8 DEF PageTypes
<1>13. Relayed'
  <2>1. FlowsAreSound'
    BY <1>1, <1>3, <1>5, FlowsMoveOn DEF FlowIsSound
  <2>2. \A j \in Keys : AskedFor(j) => AskedFor(j)'
    BY <1>5 DEF AskedFor
  <2>3. QED
    BY <1>3, <1>8, <2>1, <2>2, RequestsKeepRelayed DEF RelayTypes
<1>14. OnlyPageOf(d)
  BY <1>2, <1>3, <1>5, <1>8, <1>d DEF OnlyPageOf
<1>15. WalletIsThere(d)'
  <2>1. WalletIsThere(d)
    BY DEF Page
  <2>2. memory[d].contract.wallet \in Wallets => c \in Wallets
    BY <1>6, <1>7
  <2>3. (view'[d] \in Home \cup {"ApproveConnection"} \/ "codes" \in awaits'[d]
          \/ (\E r \in listeners'[d] : r[1] \in Wallets))
            => memory'[d].contract.wallet \in Wallets
    <3>1. "RecoverAccount" \notin Home \cup {"ApproveConnection"}
      BY DEF Home
    <3>2. "codes" \in awaits'[d] => memory[d].contract.wallet \in Wallets
      BY <1>2, <2>1 DEF WalletIsThere
    <3>3. \A r \in listeners'[d] : r \in listeners[d] \/ r = <<c, k>>
      BY <1>8
    <3>4. \A r \in listeners[d] : r[1] \in Wallets => memory[d].contract.wallet \in Wallets
      BY <2>1 DEF WalletIsThere
    <3>5. QED
      BY <1>8, <2>2, <3>1, <3>2, <3>3, <3>4
  <2>4. /\ listeners'[d] # {} => memory'[d].privateKey \in Keys
        /\ memory'[d].subscription[2] # NoKey => memory'[d].subscription \in listeners'[d]
    BY <1>8, <2>1 DEF WalletIsThere
  <2>5. QED
    BY <2>3, <2>4 DEF WalletIsThere
<1>16. Page(d)'
  BY <1>1, <1>2, <1>3, <1>5, <1>8, <1>15, <1>d, FlowEnds
<1>17. QED
  BY <1>3, <1>8, <1>12, <1>13, <1>14, <1>16, PageAfter

(* The page loses a flow: nothing but its device changes.                        *)
LEMMA LostGoes ==
    ASSUME IInv, NEW d \in Devices, NEW k, Lost(d, k), UNCHANGED owned
    PROVE  /\ flow' \in [Keys -> Flow] /\ FlowsAreSound' /\ \A j \in Keys : AskedFor(j) => AskedFor(j)'
           /\ \A j \in Keys : /\ flow'[j].pc = flow[j].pc /\ flow'[j].wallet = flow[j].wallet
                              /\ flow'[j].dev = IF j = k /\ flow[j].dev = d THEN Nobody ELSE flow[j].dev
                              /\ flow'[j] # flow[j] => j = k /\ flow[j].dev = d
<1> USE DEF IInv
<1>1. ASSUME NEW j \in Keys
      PROVE  /\ flow'[j] \in Flow /\ flow'[j].pc = flow[j].pc /\ flow'[j].kind = flow[j].kind
             /\ flow'[j].wallet = flow[j].wallet
             /\ flow'[j].dev = IF j = k /\ flow[j].dev = d THEN Nobody ELSE flow[j].dev
             /\ flow'[j] # flow[j] => j = k /\ flow[j].dev = d
  <2>1. PICK f \in Flow : f = flow[j]
    BY DEF PageTypes
  <2>2. PICK g : g = IF f.dev = d THEN Nobody ELSE f.dev
    OBVIOUS
  <2>3. g \in Devices \cup {Nobody}
    BY <2>1, <2>2 DEF Flow
  <2>4. [f EXCEPT !.dev = g] \in Flow /\ [f EXCEPT !.dev = g].dev = g
        /\ [f EXCEPT !.dev = g].pc = f.pc /\ [f EXCEPT !.dev = g].kind = f.kind
        /\ [f EXCEPT !.dev = g].wallet = f.wallet
        /\ (f.dev # d => [f EXCEPT !.dev = g] = f)
    BY <2>2, <2>3 DEF Flow
  <2>5. flow'[j] = IF j = k THEN [f EXCEPT !.dev = g] ELSE f
    BY <2>1, <2>2 DEF Lost, PageTypes
  <2>6. QED
    BY <2>1, <2>2, <2>4, <2>5
<1>2. flow' \in [Keys -> Flow]
  <2>1. flow' = [j \in Keys |-> flow'[j]]
    BY DEF Lost, PageTypes
  <2>2. QED
    BY <1>1, <2>1
<1>3. FlowsAreSound'
  <2> SUFFICES ASSUME NEW j \in Keys PROVE FlowIsSound(j)'
    BY DEF FlowsAreSound
  <2>1. FlowIsSound(j)
    BY DEF Relayed, FlowsAreSound
  <2>2. QED
    BY <1>1, <2>1 DEF FlowIsSound
<1>4. QED
  BY <1>1, <1>2, <1>3 DEF AskedFor

(* A rejected call takes the flow from the page, which has nothing under way.    *)
LEMMA RejectedHolds ==
    ASSUME IInv, NEW k \in Keys, Rejected(k)
    PROVE  IInv'
<1> USE DEF IInv
<1>d. PICK d \in Devices : d = flow[k].dev
  BY DEF Rejected
<1>1. /\ k \in Pending(d) /\ Lost(d, k)
      /\ UNCHANGED <<chain, relayer, filters, turn, last, polling, passed, memory, listeners,
                     awaits, denials, stored, tangled>>
      /\ \/ view' = [view EXCEPT ![d] = "Failure"] /\ shown' = [shown EXCEPT ![d] = Unshown]
         \/ view' = view /\ shown' = shown
  BY <1>d DEF Rejected
<1>2. RelayTypes' /\ UNCHANGED <<owned, nonce, added, requests, sent, queue, hook, lost>>
  BY <1>1, RelayerStays
<1>3. ObserverTypes' /\ last' = last
  BY <1>1, ObserverStays
<1>4. /\ flow' \in [Keys -> Flow] /\ FlowsAreSound' /\ \A j \in Keys : AskedFor(j) => AskedFor(j)'
      /\ \A j \in Keys : /\ flow'[j].pc = flow[j].pc /\ flow'[j].wallet = flow[j].wallet
                         /\ flow'[j].dev = IF j = k /\ flow[j].dev = d THEN Nobody ELSE flow[j].dev
                         /\ flow'[j] # flow[j] => j = k /\ flow[j].dev = d
  BY <1>1, <1>2, LostGoes
<1>5. /\ view' \in [Devices -> View \cup {"closed"}] /\ view'[d] \in {"Failure", view[d]}
      /\ shown' \in [Devices -> Shown]
      /\ \A e \in Devices : (e # d => view'[e] = view[e]) /\ shown'[e].list \subseteq shown[e].list
  <2>1. Unshown \in Shown /\ Unshown.list = {}
    BY DEF Unshown, Shown
  <2>2. QED
    BY <1>1, <2>1 DEF PageTypes, View
<1>6. PageTypes'
  BY <1>1, <1>4, <1>5 DEF PageTypes
<1>7. Relayed'
  BY <1>2, <1>3, <1>4, <1>5, RequestsKeepRelayed DEF RelayTypes
<1>8. OnlyPageOf(d)
  BY <1>1, <1>2, <1>4, <1>5 DEF OnlyPageOf
<1>9. WalletIsThere(d)'
  <2>1. WalletIsThere(d)
    BY DEF Page
  <2>2. QED
    BY <1>1, <1>5, <2>1 DEF WalletIsThere, Home
<1>10. ASSUME ~tangled[d]
       PROVE  OneThingUnderWay(d)' /\ StoredRests(d)' /\ NoOrphanOf(d)'
  <2>1. OneThingUnderWay(d) /\ StoredRests(d) /\ NoOrphanOf(d)
    BY <1>10 DEF Page
  <2>2. /\ \A j \in Pending(d) : j = k
        /\ listeners[d] = {} /\ denials[d] = {} /\ "storage" \notin awaits[d]
        /\ stored[d] = NoWallet
    BY <1>1, <2>1, PendingIsAlone DEF Pending
  <2>3. Pending(d)' = {}
    BY <1>4, <1>d, <2>2, KeysAreNumbers DEF Pending
  <2>4. OneThingUnderWay(d)' /\ StoredRests(d)'
    BY <1>1, <2>2, <2>3 DEF OneThingUnderWay, StoredRests
  <2>5. NoOrphanOf(d)'
    <3> SUFFICES ASSUME NEW j \in Keys, flow'[j].dev = d, <<flow'[j].wallet, j>> \in requests'
                 PROVE  <<flow'[j].wallet, j>> \in added'
      BY DEF NoOrphanOf
    <3>1. j # k /\ flow[j].dev = d
      BY <1>4, <1>d, KeysAreNumbers
    <3>2. QED
      BY <1>2, <1>4, <2>1, <2>2, <3>1 DEF NoOrphanOf
  <2>6. QED
    BY <2>4, <2>5
<1>11. Page(d)'
  BY <1>1, <1>9, <1>10 DEF Page
<1>12. QED
  BY <1>2, <1>3, <1>6, <1>7, <1>8, <1>11, PageAfter

--------------------------------------------------------------------------------
(* The view in which a key is waited for, and in which nothing is stored.        *)
LEMMA WaitingViews ==
    ASSUME NEW d \in Devices, WalletIsThere(d), OneThingUnderWay(d), StoredRests(d),
           view[d] \in {"ApproveConnection", "RecoverAccount"}
    PROVE  /\ "storage" \notin awaits[d] /\ stored[d] = NoWallet
           /\ listeners[d] \ {memory[d].subscription} = {}
           /\ \A r \in listeners[d] : /\ memory[d].privateKey \in Keys
                                      /\ r = <<memory[d].contract.wallet, memory[d].privateKey>>
BY DEF WalletIsThere, OneThingUnderWay, StoredRests, Home

(* A view that is shown without a badge.                                         *)
LEMMA PlainViewGoes ==
    ASSUME ObserverTypes, PageTypes, NEW d \in Devices, NEW v \in {"Login", "RecoverAccount"},
           SetView(d, v, Nobody)
    PROVE  /\ ObserverTypes' /\ last' = last
           /\ view' \in [Devices -> View \cup {"closed"}] /\ view'[d] = v
           /\ \A e \in Devices : e # d => view'[e] = view[e]
           /\ shown' \in [Devices -> Shown]
           /\ \A e \in Devices : shown'[e].list \subseteq last[e] \cup shown[e].list
<1>1. v \in View /\ Nobody \in SomeWallet /\ v \notin Badged
  BY DEF View, SomeWallet, Badged
<1>2. /\ ObserverTypes' /\ last' = last /\ view' = [view EXCEPT ![d] = v]
      /\ shown' \in [Devices -> Shown]
      /\ \A e \in Devices : shown'[e].list \subseteq last[e] \cup shown[e].list
  BY <1>1, SetViewGoes
<1>3. QED
  BY <1>1, <1>2 DEF PageTypes

(* A denial that reaches the relayer takes one row, if that is there.            *)
LEMMA DenyGoes ==
    ASSUME RelayTypes, NEW r, Deny(r), UNCHANGED chain, r = <<r[1], r[2]>>
    PROVE  /\ RelayTypes' /\ UNCHANGED <<owned, nonce, added, sent, queue, hook, lost>>
           /\ requests' = requests \ {r}
<1>1. /\ UNCHANGED <<owned, nonce, added, sent, queue, hook, lost>>
      /\ requests' = requests \ {r}
  BY DEF Deny, RemoveRequest, chain
<1>2. QED
  BY <1>1 DEF RelayTypes

(* Cancelling a connection takes the listener, and denies the request of the     *)
(* moment; without a key there is no listener to take.                           *)
LEMMA CancelConnectionHolds ==
    ASSUME IInv, NEW d \in Devices, NEW to \in {"Login", "RecoverAccount"}, CancelConnection(d, to)
    PROVE  IInv'
<1> USE DEF IInv
<1>1. /\ view[d] = "ApproveConnection"
      /\ listeners' = [listeners EXCEPT ![d] = Cancelled(d)]
      /\ memory' = [memory EXCEPT ![d].subscription = NoRow]
      /\ UNCHANGED <<chain, relayer, filters, turn, last, polling, passed, view, shown, awaits,
                     stored, flow>>
  BY DEF CancelConnection
<1>2. RelayTypes' /\ UNCHANGED <<owned, nonce, added, requests, sent, queue, hook, lost>>
  BY <1>1, RelayerStays
<1>3. ObserverTypes' /\ last' = last
  BY <1>1, ObserverStays
<1>4. /\ memory' \in [Devices -> Memory] /\ memory'[d].contract = memory[d].contract
      /\ memory'[d].privateKey = memory[d].privateKey /\ memory'[d].subscription = NoRow
      /\ \A e \in Devices : e # d => memory'[e] = memory[e]
  BY <1>1, SubscriptionGoes
<1>5. /\ listeners' \in [Devices -> SUBSET (SomeWallet \X Keys)]
      /\ listeners'[d] = listeners[d] \ {memory[d].subscription}
      /\ \A e \in Devices : e # d => listeners'[e] = listeners[e]
  BY <1>1 DEF PageTypes, Cancelled
<1>6. /\ denials' \in [Devices -> SUBSET Denial] /\ tangled' \in [Devices -> BOOLEAN]
      /\ \A e \in Devices : e # d => denials'[e] = denials[e] /\ tangled'[e] = tangled[e]
      /\ \/ /\ memory[d].privateKey = NoKey
            /\ denials'[d] = denials[d] /\ tangled'[d] = tangled[d]
         \/ /\ memory[d].privateKey \in Keys
            /\ tangled'[d] <=> tangled[d] \/ Calling(d)
            /\ \E x \in Denial : x.row = OwnRow(d) /\ denials'[d] = denials[d] \cup {x}
  <2>1. CASE memory[d].privateKey = NoKey
    BY <2>1 DEF CancelConnection, PageTypes
  <2>2. CASE memory[d].privateKey # NoKey
    <3>1. PICK n \in 1..MaxDenials :
            denials' = [denials EXCEPT ![d] = @ \cup {[n |-> n, row |-> OwnRow(d), to |-> to]}]
      BY <2>2 DEF CancelConnection, FreeDenials
    <3>2. PICK x : x = [n |-> n, row |-> OwnRow(d), to |-> to]
      OBVIOUS
    <3>3. memory[d].privateKey \in Keys /\ OwnRow(d) \in (Wallets \cup {Nobody}) \X Keys
      <4>1. memory[d] \in Memory
        BY DEF PageTypes
      <4>2. QED
        BY <2>2, <4>1 DEF OwnRow, Memory, Contract, SomeWallet, SomeKey
    <3>4. x \in Denial /\ x.row = OwnRow(d)
      BY <3>2, <3>3 DEF Denial
    <3>5. /\ denials' \in [Devices -> SUBSET Denial] /\ denials'[d] = denials[d] \cup {x}
          /\ \A e \in Devices : e # d => denials'[e] = denials[e]
      BY <3>1, <3>2, <3>4 DEF PageTypes
    <3>6. tangled' = [tangled EXCEPT ![d] = @ \/ Calling(d)]
      BY <2>2 DEF CancelConnection, Overlap, Tangle
    <3>7. tangled' \in [Devices -> BOOLEAN] /\ (tangled'[d] <=> tangled[d] \/ Calling(d))
          /\ \A e \in Devices : e # d => tangled'[e] = tangled[e]
      BY <3>6, Zenon DEF PageTypes
    <3>8. QED
      BY <3>3, <3>4, <3>5, <3>7
  <2>3. QED
    BY <2>1, <2>2
<1>7. PageTypes'
  BY <1>1, <1>4, <1>5, <1>6 DEF PageTypes
<1>8. Relayed'
  <2>1. FlowsAreSound' /\ \A j \in Keys : AskedFor(j) => AskedFor(j)'
    BY <1>1, <1>2 DEF Relayed, FlowsAreSound, FlowIsSound, AskedFor
  <2>2. QED
    BY <1>1, <1>2, <1>3, <2>1, RequestsKeepRelayed DEF RelayTypes
<1>9. OnlyPageOf(d)
  BY <1>1, <1>2, <1>4, <1>5, <1>6 DEF OnlyPageOf
<1>10. WalletIsThere(d)'
  <2>1. WalletIsThere(d) /\ NoRow[2] = NoKey
    BY DEF Page, NoRow
  <2>2. QED
    BY <1>1, <1>4, <1>5, <2>1 DEF WalletIsThere
<1>11. ASSUME ~tangled'[d]
       PROVE  OneThingUnderWay(d)' /\ StoredRests(d)' /\ NoOrphanOf(d)'
  <2>0. ~tangled[d]
    BY <1>6, <1>11
  <2>1. WalletIsThere(d) /\ OneThingUnderWay(d) /\ StoredRests(d) /\ NoOrphanOf(d)
    BY <2>0 DEF Page
  <2>2. /\ "storage" \notin awaits[d] /\ stored[d] = NoWallet /\ listeners'[d] = {}
        /\ \A r \in listeners[d] : memory[d].privateKey \in Keys /\ r = OwnRow(d)
    BY <1>1, <1>5, <2>1, WaitingViews DEF OwnRow
  <2>3. Pending(d)' = Pending(d)
    BY <1>1 DEF Pending
  <2>4. CASE memory[d].privateKey = NoKey /\ denials'[d] = denials[d]
    <3>1. listeners[d] = {}
      BY <2>2, <2>4, KeysAreNumbers
    <3>2. OneThingUnderWay(d)' /\ StoredRests(d)'
      BY <1>1, <1>4, <2>1, <2>2, <2>3, <2>4 DEF OneThingUnderWay, StoredRests
    <3>3. NoOrphanOf(d)'
      BY <1>1, <1>2, <2>1, <2>3, <2>4, <3>1 DEF NoOrphanOf
    <3>4. QED
      BY <3>2, <3>3
  <2>5. CASE ~Calling(d) /\ \E x \in Denial : x.row = OwnRow(d) /\ denials'[d] = denials[d] \cup {x}
    <3>1. PICK x \in Denial : x.row = OwnRow(d) /\ denials'[d] = {x}
      BY <2>5 DEF Calling
    <3>2. Pending(d)' = {}
      BY <2>3, <2>5 DEF Calling
    <3>3. OneThingUnderWay(d)' /\ StoredRests(d)'
      BY <1>1, <2>2, <3>1, <3>2 DEF OneThingUnderWay, StoredRests
    <3>4. NoOrphanOf(d)'
      BY <1>1, <1>2, <2>1, <2>2, <2>5, <3>1 DEF NoOrphanOf, Calling
    <3>5. QED
      BY <3>3, <3>4
  <2>6. QED
    BY <1>6, <1>11, <2>4, <2>5
<1>12. Page(d)'
  BY <1>10, <1>11 DEF Page
<1>13. QED
  BY <1>2, <1>3, <1>7, <1>8, <1>9, <1>12, PageAfter

(* A denial that is alone on its page, when its page has done nothing else.      *)
LEMMA DenialIsAlone ==
    ASSUME NEW d \in Devices, NEW x \in denials[d], OneThingUnderWay(d), StoredRests(d)
    PROVE  /\ denials[d] = {x} /\ Pending(d) = {} /\ listeners[d] = {}
           /\ "storage" \notin awaits[d] /\ stored[d] = NoWallet
BY DEF OneThingUnderWay, StoredRests

(* The denial is answered: its request is gone, and either the view that         *)
(* recovers is mounted, with a key of its own, or a view is only shown.          *)
LEMMA DenialAnsweredHolds ==
    ASSUME IInv, NEW d \in Devices, NEW x \in denials[d], DenialAnswered(d, x)
    PROVE  IInv'
<1> USE DEF IInv
<1>1. /\ denials' = [denials EXCEPT ![d] = @ \ {x}] /\ Deny(x.row)
      /\ UNCHANGED <<chain, stored, awaits, tangled>>
  BY DEF DenialAnswered
<1>2. x \in Denial /\ x.row = <<x.row[1], x.row[2]>> /\ x.to \in {"Login", "RecoverAccount"}
  <2>1. x \in Denial
    BY DEF PageTypes
  <2>2. QED
    BY <2>1 DEF Denial
<1>3. /\ RelayTypes' /\ UNCHANGED <<owned, nonce, added, sent, queue, hook, lost>>
      /\ requests' = requests \ {x.row}
  BY <1>1, <1>2, DenyGoes
<1>4. /\ denials' \in [Devices -> SUBSET Denial] /\ denials'[d] = denials[d] \ {x}
      /\ \A e \in Devices : e # d => denials'[e] = denials[e]
  BY <1>1 DEF PageTypes
<1>5. CASE x.to = "RecoverAccount" /\ view[d] # x.to
  <2>1. PICK k : k = NextKey
    OBVIOUS
  <2>2. k \in Keys /\ flow[k].kind = "none" /\ flow[k].pc = "none" /\ flow[k].dev = Nobody
    <3>1. k \in Keys /\ flow[k].kind = "none"
      BY <1>5, <2>1, NextKeyIsUnused DEF DenialAnswered
    <3>2. QED
      BY <3>1 DEF Relayed, FlowsAreSound, FlowIsSound
  <2>3. PICK m \in Memory : m = memory[d]
    BY DEF PageTypes
  <2>4. PICK w \in SomeWallet : w = m.contract.wallet
    BY DEF Memory, Contract
  <2>5. PICK f : f = [dev |-> d, kind |-> "recover", wallet |-> w, pc |-> "over"]
    OBVIOUS
  <2>6. f \in Flow /\ f.dev = d /\ f.kind = "recover" /\ f.wallet = w /\ f.pc = "over"
    BY <2>5 DEF Flow
  <2>7. flow' \in [Keys -> Flow] /\ flow'[k] = f /\ \A j \in Keys : j # k => flow'[j] = flow[j]
    <3>1. flow' = [flow EXCEPT ![k] = f]
      BY <1>5, <2>1, <2>3, <2>4, <2>5 DEF DenialAnswered
    <3>2. QED
      BY <2>2, <2>6, <3>1 DEF PageTypes
  <2>8. MountRecovery(d, k, m)
    BY <1>5, <2>1, <2>3 DEF DenialAnswered
  <2>9. /\ ObserverTypes' /\ last' = last
        /\ view' \in [Devices -> View \cup {"closed"}] /\ view'[d] = "RecoverAccount"
        /\ \A e \in Devices : e # d => view'[e] = view[e]
        /\ shown' \in [Devices -> Shown]
        /\ \A e \in Devices : shown'[e].list \subseteq last[e] \cup shown[e].list
        /\ memory' \in [Devices -> Memory] /\ memory'[d].contract.wallet = w
        /\ memory'[d].privateKey = k /\ memory'[d].subscription = <<w, k>>
        /\ \A e \in Devices : e # d => memory'[e] = memory[e]
        /\ listeners' \in [Devices -> SUBSET (SomeWallet \X Keys)]
        /\ listeners'[d] = listeners[d] \cup {<<w, k>>}
        /\ \A e \in Devices : e # d => listeners'[e] = listeners[e]
    BY <2>2, <2>4, <2>8, MountGoes
  <2>10. PageTypes'
    BY <1>1, <1>4, <2>7, <2>9 DEF PageTypes
  <2>11. Relayed'
    <3>1. FlowsAreSound'
      BY <1>3, <2>6, <2>7, FlowsMoveOn DEF FlowIsSound
    <3>2. \A j \in Keys : AskedFor(j) => AskedFor(j)'
      BY <2>2, <2>7 DEF AskedFor
    <3>3. QED
      BY <1>3, <2>9, <3>1, <3>2, RequestsKeepRelayed DEF RelayTypes
  <2>12. OnlyPageOf(d)
    BY <1>1, <1>3, <1>4, <2>2, <2>6, <2>7, <2>9 DEF OnlyPageOf
  <2>13. WalletIsThere(d)'
    <3>1. WalletIsThere(d)
      BY DEF Page
    <3>2. memory[d].contract.wallet = w
      BY <2>3, <2>4
    <3>3. QED
      BY <1>1, <2>2, <2>9, <3>1, <3>2 DEF WalletIsThere, Home
  <2>14. ASSUME ~tangled[d]
         PROVE  OneThingUnderWay(d)' /\ StoredRests(d)' /\ NoOrphanOf(d)'
    <3>1. /\ OneThingUnderWay(d) /\ StoredRests(d) /\ NoOrphanOf(d)
          /\ denials[d] = {x} /\ Pending(d) = {} /\ listeners[d] = {}
          /\ "storage" \notin awaits[d] /\ stored[d] = NoWallet
      BY <2>14, DenialIsAlone DEF Page
    <3>2. Pending(d)' = {}
      BY <2>6, <2>7, <3>1 DEF Pending
    <3>3. OneThingUnderWay(d)' /\ StoredRests(d)'
      BY <1>1, <1>4, <2>9, <3>1, <3>2 DEF OneThingUnderWay, StoredRests
    <3>4. NoOrphanOf(d)'
      <4> SUFFICES ASSUME NEW j \in Keys, flow'[j].dev = d, <<flow'[j].wallet, j>> \in requests'
                   PROVE  <<flow'[j].wallet, j>> \in listeners'[d] \cup added
        BY <1>3 DEF NoOrphanOf
      <4>1. CASE j = k
        BY <2>6, <2>7, <2>9, <4>1
      <4>2. CASE j # k
        BY <1>3, <2>7, <3>1, <4>2 DEF NoOrphanOf
      <4>3. QED
        BY <4>1, <4>2
    <3>5. QED
      BY <3>3, <3>4
  <2>15. Page(d)'
    BY <1>1, <2>13, <2>14 DEF Page
  <2>16. QED
    BY <1>3, <2>9, <2>10, <2>11, <2>12, <2>15, PageAfter
<1>6. CASE ~(x.to = "RecoverAccount" /\ view[d] # x.to)
  <2>1. SetView(d, x.to, Nobody) /\ UNCHANGED <<memory, listeners, flow>>
    BY <1>6 DEF DenialAnswered
  <2>2. /\ ObserverTypes' /\ last' = last
        /\ view' \in [Devices -> View \cup {"closed"}] /\ view'[d] = x.to
        /\ \A e \in Devices : e # d => view'[e] = view[e]
        /\ shown' \in [Devices -> Shown]
        /\ \A e \in Devices : shown'[e].list \subseteq last[e] \cup shown[e].list
    BY <1>2, <2>1, PlainViewGoes
  <2>3. PageTypes'
    BY <1>1, <1>4, <2>1, <2>2 DEF PageTypes
  <2>4. Relayed'
    <3>1. FlowsAreSound' /\ \A j \in Keys : AskedFor(j) => AskedFor(j)'
      BY <1>3, <2>1 DEF Relayed, FlowsAreSound, FlowIsSound, AskedFor
    <3>2. QED
      BY <1>3, <2>2, <3>1, RequestsKeepRelayed DEF RelayTypes
  <2>5. OnlyPageOf(d)
    BY <1>1, <1>3, <1>4, <2>1, <2>2 DEF OnlyPageOf
  <2>6. WalletIsThere(d)'
    <3>1. WalletIsThere(d)
      BY DEF Page
    <3>2. QED
      BY <1>1, <1>2, <2>1, <2>2, <3>1 DEF WalletIsThere, Home
  <2>7. ASSUME ~tangled[d]
        PROVE  OneThingUnderWay(d)' /\ StoredRests(d)' /\ NoOrphanOf(d)'
    <3>1. /\ OneThingUnderWay(d) /\ StoredRests(d) /\ NoOrphanOf(d)
          /\ denials[d] = {x} /\ Pending(d) = {} /\ listeners[d] = {}
          /\ "storage" \notin awaits[d] /\ stored[d] = NoWallet
      BY <2>7, DenialIsAlone DEF Page
    <3>2. Pending(d)' = {}
      BY <2>1, <3>1 DEF Pending
    <3>3. OneThingUnderWay(d)' /\ StoredRests(d)'
      BY <1>1, <1>4, <2>1, <3>1, <3>2 DEF OneThingUnderWay, StoredRests
    <3>4. NoOrphanOf(d)'
      BY <1>3, <2>1, <3>1 DEF NoOrphanOf
    <3>5. QED
      BY <3>3, <3>4
  <2>8. Page(d)'
    BY <1>1, <2>6, <2>7 DEF Page
  <2>9. QED
    BY <1>3, <2>2, <2>3, <2>4, <2>5, <2>8, PageAfter
<1>7. QED
  BY <1>5, <1>6

(* The denial is rejected: the page forgets the request, and does nothing else.  *)
LEMMA DenialRejectedHolds ==
    ASSUME IInv, NEW d \in Devices, NEW x \in denials[d], DenialRejected(d, x)
    PROVE  IInv'
<1> USE DEF IInv
<1>1. /\ denials' = [denials EXCEPT ![d] = @ \ {x}] /\ Lost(d, x.row[2])
      /\ UNCHANGED <<chain, relayer, filters, turn, last, polling, passed, view, memory,
                     listeners, shown, awaits, stored, tangled>>
  BY DEF DenialRejected
<1>2. RelayTypes' /\ UNCHANGED <<owned, nonce, added, requests, sent, queue, hook, lost>>
  BY <1>1, RelayerStays
<1>3. ObserverTypes' /\ last' = last
  BY <1>1, ObserverStays
<1>4. PICK k : k = x.row[2]
  OBVIOUS
<1>5. /\ flow' \in [Keys -> Flow] /\ FlowsAreSound' /\ \A j \in Keys : AskedFor(j) => AskedFor(j)'
      /\ \A j \in Keys : /\ flow'[j].pc = flow[j].pc /\ flow'[j].wallet = flow[j].wallet
                         /\ flow'[j].dev = IF j = k /\ flow[j].dev = d THEN Nobody ELSE flow[j].dev
                         /\ flow'[j] # flow[j] => j = k /\ flow[j].dev = d
  BY <1>1, <1>2, <1>4, LostGoes
<1>6. /\ denials' \in [Devices -> SUBSET Denial] /\ denials'[d] = denials[d] \ {x}
      /\ \A e \in Devices : e # d => denials'[e] = denials[e]
  BY <1>1 DEF PageTypes
<1>7. PageTypes'
  BY <1>1, <1>5, <1>6 DEF PageTypes
<1>8. Relayed'
  BY <1>1, <1>2, <1>3, <1>5, RequestsKeepRelayed DEF RelayTypes
<1>9. OnlyPageOf(d)
  BY <1>1, <1>2, <1>5, <1>6 DEF OnlyPageOf
<1>10. WalletIsThere(d)'
  BY <1>1 DEF Page, WalletIsThere
<1>11. ASSUME ~tangled[d]
       PROVE  OneThingUnderWay(d)' /\ StoredRests(d)' /\ NoOrphanOf(d)'
  <2>1. /\ OneThingUnderWay(d) /\ StoredRests(d) /\ NoOrphanOf(d)
        /\ denials[d] = {x} /\ Pending(d) = {} /\ listeners[d] = {}
        /\ "storage" \notin awaits[d] /\ stored[d] = NoWallet
    BY <1>11, DenialIsAlone DEF Page
  <2>2. Pending(d)' = {}
    BY <1>5, <2>1, KeysAreNumbers DEF Pending
  <2>3. OneThingUnderWay(d)' /\ StoredRests(d)'
    BY <1>1, <1>6, <2>1, <2>2 DEF OneThingUnderWay, StoredRests
  <2>4. NoOrphanOf(d)'
    <3> SUFFICES ASSUME NEW j \in Keys, flow'[j].dev = d, <<flow'[j].wallet, j>> \in requests'
                 PROVE  <<flow'[j].wallet, j>> \in added'
      BY DEF NoOrphanOf
    <3>1. j # k /\ flow[j].dev = d /\ flow'[j].wallet = flow[j].wallet
      BY <1>5, KeysAreNumbers
    <3>2. x.row # <<flow[j].wallet, j>>
      BY <1>4, <3>1
    <3>3. QED
      BY <1>2, <2>1, <3>1, <3>2 DEF NoOrphanOf
  <2>5. QED
    BY <2>3, <2>4
<1>12. Page(d)'
  BY <1>1, <1>10, <1>11 DEF Page
<1>13. QED
  BY <1>2, <1>3, <1>7, <1>8, <1>9, <1>12, PageAfter

(* Cancelling a recovery takes the listener and the request that it is for, or   *)
(* the page forgets the request.                                                 *)
LEMMA CancelRecoveryHolds ==
    ASSUME IInv, NEW d \in Devices, CancelRecovery(d)
    PROVE  IInv'
<1> USE DEF IInv
<1>1. /\ view[d] = "RecoverAccount" /\ SetView(d, "Login", Nobody)
      /\ listeners' = [listeners EXCEPT ![d] = Cancelled(d)]
      /\ memory' = [memory EXCEPT ![d].subscription = NoRow]
      /\ \/ Deny(OwnRow(d)) /\ UNCHANGED flow
         \/ UNCHANGED relayer /\ Lost(d, memory[d].privateKey)
      /\ UNCHANGED <<chain, stored, awaits, denials, tangled>>
  BY DEF CancelRecovery, Recovering
<1>2. /\ ObserverTypes' /\ last' = last
      /\ view' \in [Devices -> View \cup {"closed"}] /\ view'[d] = "Login"
      /\ \A e \in Devices : e # d => view'[e] = view[e]
      /\ shown' \in [Devices -> Shown]
      /\ \A e \in Devices : shown'[e].list \subseteq last[e] \cup shown[e].list
  BY <1>1, PlainViewGoes
<1>3. PICK k : k = memory[d].privateKey
  OBVIOUS
<1>4. /\ RelayTypes' /\ UNCHANGED <<owned, nonce, added, sent, queue, hook, lost>>
      /\ requests' \subseteq requests
      /\ flow' \in [Keys -> Flow] /\ FlowsAreSound' /\ \A j \in Keys : AskedFor(j) => AskedFor(j)'
      /\ \A j \in Keys : /\ flow'[j].pc = flow[j].pc /\ flow'[j].wallet = flow[j].wallet
                         /\ flow'[j] # flow[j] => flow[j].dev = d /\ flow'[j].dev = Nobody
      /\ \/ flow' = flow /\ OwnRow(d) \notin requests'
         \/ k \in Keys => flow'[k].dev # d
  <2>1. CASE Deny(OwnRow(d)) /\ UNCHANGED flow
    <3>1. /\ RelayTypes' /\ UNCHANGED <<owned, nonce, added, sent, queue, hook, lost>>
          /\ requests' = requests \ {OwnRow(d)}
      BY <1>1, <2>1, DenyGoes DEF OwnRow
    <3>2. FlowsAreSound' /\ \A j \in Keys : AskedFor(j) => AskedFor(j)'
      BY <2>1, <3>1 DEF Relayed, FlowsAreSound, FlowIsSound, AskedFor
    <3>3. QED
      BY <2>1, <3>1, <3>2 DEF PageTypes
  <2>2. CASE UNCHANGED relayer /\ Lost(d, memory[d].privateKey)
    <3>1. RelayTypes' /\ UNCHANGED <<owned, nonce, added, requests, sent, queue, hook, lost>>
      BY <1>1, <2>2, RelayerStays
    <3>2. /\ flow' \in [Keys -> Flow] /\ FlowsAreSound' /\ \A j \in Keys : AskedFor(j) => AskedFor(j)'
          /\ \A j \in Keys : /\ flow'[j].pc = flow[j].pc /\ flow'[j].wallet = flow[j].wallet
                             /\ flow'[j].dev = IF j = k /\ flow[j].dev = d THEN Nobody ELSE flow[j].dev
                             /\ flow'[j] # flow[j] => j = k /\ flow[j].dev = d
      BY <1>3, <2>2, <3>1, LostGoes
    <3>3. QED
      BY <3>1, <3>2, KeysAreNumbers
  <2>3. QED
    BY <1>1, <2>1, <2>2
<1>5. /\ memory' \in [Devices -> Memory] /\ memory'[d].contract = memory[d].contract
      /\ memory'[d].privateKey = memory[d].privateKey /\ memory'[d].subscription = NoRow
      /\ \A e \in Devices : e # d => memory'[e] = memory[e]
  BY <1>1, SubscriptionGoes
<1>6. /\ listeners' \in [Devices -> SUBSET (SomeWallet \X Keys)]
      /\ listeners'[d] = listeners[d] \ {memory[d].subscription}
      /\ \A e \in Devices : e # d => listeners'[e] = listeners[e]
  BY <1>1 DEF PageTypes, Cancelled
<1>7. PageTypes'
  BY <1>1, <1>2, <1>4, <1>5, <1>6 DEF PageTypes
<1>8. Relayed'
  BY <1>2, <1>4, RequestsKeepRelayed DEF RelayTypes
<1>9. OnlyPageOf(d)
  BY <1>1, <1>2, <1>4, <1>5, <1>6 DEF OnlyPageOf
<1>10. WalletIsThere(d)'
  <2>1. WalletIsThere(d) /\ NoRow[2] = NoKey
    BY DEF Page, NoRow
  <2>2. QED
    BY <1>1, <1>2, <1>5, <1>6, <2>1 DEF WalletIsThere, Home
<1>11. ASSUME ~tangled[d]
       PROVE  OneThingUnderWay(d)' /\ StoredRests(d)' /\ NoOrphanOf(d)'
  <2>1. WalletIsThere(d) /\ OneThingUnderWay(d) /\ StoredRests(d) /\ NoOrphanOf(d)
    BY <1>11 DEF Page
  <2>2. /\ "storage" \notin awaits[d] /\ stored[d] = NoWallet /\ listeners'[d] = {}
        /\ \A r \in listeners[d] : memory[d].privateKey \in Keys /\ r = OwnRow(d)
    BY <1>1, <1>6, <2>1, WaitingViews DEF OwnRow
  <2>3. Pending(d)' \subseteq Pending(d) /\ \A j \in Pending(d)' : flow'[j] = flow[j]
    BY <1>4, KeysAreNumbers DEF Pending
  <2>4. OneThingUnderWay(d)' /\ StoredRests(d)'
    BY <1>1, <1>5, <2>1, <2>2, <2>3 DEF OneThingUnderWay, StoredRests
  <2>5. NoOrphanOf(d)'
    <3> SUFFICES ASSUME NEW j \in Keys, flow'[j].dev = d, <<flow'[j].wallet, j>> \in requests'
                 PROVE  \/ j \in Pending(d)' \/ <<flow'[j].wallet, j>> \in added
                        \/ \E x \in denials[d] : x.row = <<flow'[j].wallet, j>>
      BY <1>1, <1>4 DEF NoOrphanOf
    <3>1. flow'[j] = flow[j] /\ <<flow[j].wallet, j>> \in requests
      BY <1>4, KeysAreNumbers
    <3>2. <<flow[j].wallet, j>> \notin listeners[d]
      <4> SUFFICES ASSUME <<flow[j].wallet, j>> \in listeners[d] PROVE FALSE
        OBVIOUS
      <4>1. <<flow[j].wallet, j>> = OwnRow(d) /\ j = k
        BY <1>3, <2>2 DEF OwnRow
      <4>2. QED
        BY <1>4, <3>1, <4>1
    <3>3. j \in Pending(d) => j \in Pending(d)'
      BY <3>1 DEF Pending
    <3>4. QED
      BY <2>1, <3>1, <3>2, <3>3 DEF NoOrphanOf
  <2>6. QED
    BY <2>4, <2>5
<1>12. Page(d)'
  BY <1>1, <1>10, <1>11 DEF Page
<1>13. QED
  BY <1>2, <1>4, <1>7, <1>8, <1>9, <1>12, PageAfter

--------------------------------------------------------------------------------
(* A step that leaves every page and every flow as it is.                        *)
LEMMA EveryPageStays ==
    ASSUME IInv, RelayTypes', ObserverTypes', Relayed', UNCHANGED <<page, stored, flow, tangled>>,
           requests' \subseteq requests, added \subseteq added',
           \A w \in Wallets : owned[w] \subseteq owned'[w]
    PROVE  IInv'
<1>1. PageTypes' /\ UNCHANGED <<view, memory, listeners, shown, awaits, denials>>
  BY PageStays DEF IInv, PageTypes
<1>2. ASSUME NEW d \in Devices PROVE Page(d)'
  BY <1>1, QuietPage DEF IInv
<1>3. QED
  BY <1>1, <1>2 DEF IInv

(* A message of a wallet that the page holds is one that the relayer can accept. *)
LEMMA OwnMessageIsSound ==
    ASSUME RelayTypes, NEW w \in Wallets, NEW k \in Keys \cup {Code}, NEW by,
           Accepts(MessageOf(w, k, by))
    PROVE  MessageOf(w, k, by) \in Message /\ MessageOf(w, k, by).key = k
BY DEF Accepts, MessageOf, Message, RelayTypes

LEMMA RecoverClickHolds ==
    ASSUME IInv, RecoveriesAreAskedFor, NEW d \in Devices, RecoverClick(d)
    PROVE  IInv'
<1>1. PICK w \in Wallets : w = memory[d].contract.wallet
  BY DEF RecoverClick
<1>2. PICK k \in Keys : k = memory[d].device /\ AskedFor(k)
  BY DEF RecoverClick, Recovering, RecoveriesAreAskedFor
<1>3. PICK m : m = MessageOf(w, k, Code)
  OBVIOUS
<1>4. PostMessage(m) /\ UNCHANGED <<chain, observer, page, stored, flow, tangled>>
  BY <1>1, <1>2, <1>3 DEF RecoverClick
<1>5. Accepts(m) => m \in Message /\ m.key = k
  BY <1>3, OwnMessageIsSound DEF IInv
<1>6. UNCHANGED <<last, shown>> /\ ObserverTypes'
  BY <1>4, ObserverStays DEF observer, page, IInv
<1>7. RelayTypes' /\ Relayed' /\ UNCHANGED <<requests, hook, lost>>
  BY <1>2, <1>4, <1>5, <1>6, PostMessageKeepsRelayed DEF IInv
<1>8. QED
  BY <1>4, <1>6, <1>7, EveryPageStays DEF chain

(* WalletService.onKeyAdded: what it stores is what it was told of.              *)
LEMMA KeyAddedHolds ==
    ASSUME IInv, NEW d \in Devices, NEW r \in Rows, KeyAdded(d, r)
    PROVE  IInv'
<1> USE DEF IInv
<1>1. RelayTypes' /\ UNCHANGED <<owned, nonce, added, requests, sent, queue, hook, lost>>
  BY RelayerStays DEF KeyAdded
<1>2. UNCHANGED <<awaits, denials, flow, tangled>> /\ Pass(d, r)
  BY DEF KeyAdded
<1>3. ObserverTypes' /\ last' = last
  <2>1. /\ UNCHANGED <<filters, turn, last, polling>>
        /\ passed' \in {passed, [passed EXCEPT ![d] = @ \cup {r}]}
    BY <1>2 DEF Pass
  <2>2. passed' \in [Devices -> SUBSET Rows]
    <3>1. passed \in [Devices -> SUBSET Rows]
      BY DEF ObserverTypes
    <3>2. QED
      BY <2>1, <3>1
  <2>3. QED
    BY <2>1, <2>2 DEF ObserverTypes
<1>4. CASE r \in listeners[d]
  <2>1. OnKeyAdded(d) /\ r \in added /\ r[1] \in Wallets
    BY <1>2, <1>4 DEF KeyAdded, Pass, Rows
  <2>2. WalletIsThere(d) /\ memory[d].contract.wallet \in Wallets /\ memory[d].privateKey \in Keys
    BY <1>4, <2>1 DEF Page, WalletIsThere
  <2>3. PICK new : new = [wallet |-> memory[d].contract.wallet, key |-> memory[d].privateKey]
    OBVIOUS
  <2>4. new \in WalletInfo /\ new \in Contract /\ new.wallet = memory[d].contract.wallet
        /\ new.key = memory[d].privateKey
    BY <2>2, <2>3 DEF WalletInfo, Contract, SomeWallet, SomeKey
  <2>5. /\ listeners' = [listeners EXCEPT ![d] = Cancelled(d)]
        /\ memory' = [memory EXCEPT ![d].contract = new, ![d].subscription = NoRow]
        /\ stored' = [stored EXCEPT ![d] = new]
        /\ view' = [view EXCEPT ![d] = "Greeting"] /\ shown' = [shown EXCEPT ![d] = Unshown]
    BY <2>1, <2>3 DEF OnKeyAdded
  <2>6. /\ memory' \in [Devices -> Memory] /\ memory'[d].contract = new
        /\ memory'[d].privateKey = memory[d].privateKey /\ memory'[d].subscription = NoRow
        /\ \A e \in Devices : e # d => memory'[e] = memory[e]
    <3>1. PICK m \in Memory : m = memory[d]
      BY DEF PageTypes
    <3>2. PICK n : n = [m EXCEPT !.contract = new]
      OBVIOUS
    <3>3. n \in Memory /\ n.contract = new /\ n.privateKey = m.privateKey
      BY <2>4, <3>2, MemoryUpdates
    <3>4. PICK o : o = [n EXCEPT !.subscription = NoRow]
      OBVIOUS
    <3>5. o \in Memory /\ o.contract = new /\ o.privateKey = m.privateKey
          /\ o.subscription = NoRow
      BY <3>3, <3>4, MemoryUpdates
    <3>6. memory' = [memory EXCEPT ![d] = o]
      BY <2>5, <3>1, <3>2, <3>4 DEF PageTypes
    <3>7. QED
      BY <3>1, <3>5, <3>6 DEF PageTypes
  <2>7. /\ listeners' \in [Devices -> SUBSET (SomeWallet \X Keys)]
        /\ listeners'[d] = listeners[d] \ {memory[d].subscription}
        /\ \A e \in Devices : e # d => listeners'[e] = listeners[e]
    BY <2>5 DEF PageTypes, Cancelled
  <2>8. /\ stored' \in [Devices -> WalletInfo] /\ stored'[d] = new
        /\ view' \in [Devices -> View \cup {"closed"}] /\ view'[d] = "Greeting"
        /\ \A e \in Devices : e # d => stored'[e] = stored[e] /\ view'[e] = view[e]
    BY <2>4, <2>5 DEF PageTypes, View
  <2>9. Unshown \in Shown /\ Unshown.list = {}
    BY DEF Unshown, Shown
  <2>10. /\ shown' \in [Devices -> Shown]
         /\ \A e \in Devices : shown'[e].list \subseteq shown[e].list
    BY <2>5, <2>9 DEF PageTypes
  <2>11. PageTypes'
    BY <1>2, <2>6, <2>7, <2>8, <2>10 DEF PageTypes
  <2>12. Relayed'
    <3>1. FlowsAreSound' /\ \A j \in Keys : AskedFor(j) => AskedFor(j)'
      BY <1>1, <1>2 DEF Relayed, FlowsAreSound, FlowIsSound, AskedFor
    <3>2. QED
      BY <1>1, <1>3, <2>10, <3>1, RequestsKeepRelayed DEF RelayTypes
  <2>13. OnlyPageOf(d)
    BY <1>1, <1>2, <2>6, <2>7, <2>8 DEF OnlyPageOf
  <2>14. WalletIsThere(d)'
    <3>1. NoRow[2] = NoKey
      BY DEF NoRow
    <3>2. QED
      BY <2>2, <2>4, <2>6, <3>1 DEF WalletIsThere
  <2>15. ASSUME ~tangled[d]
         PROVE  OneThingUnderWay(d)' /\ StoredRests(d)' /\ NoOrphanOf(d)'
    <3>1. OneThingUnderWay(d) /\ StoredRests(d) /\ NoOrphanOf(d)
      BY <2>15 DEF Page
    <3>2. /\ listeners[d] = {r} /\ r = <<memory[d].contract.wallet, memory[d].privateKey>>
          /\ listeners'[d] = {} /\ Pending(d) = {} /\ denials[d] = {} /\ "storage" \notin awaits[d]
      BY <1>4, <2>7, <3>1 DEF OneThingUnderWay
    <3>3. Pending(d)' = {}
      BY <1>2, <3>2 DEF Pending
    <3>4. new.key \in owned[new.wallet]
      BY <2>1, <2>4, <3>2 DEF Relayed, AddedIsOwned
    <3>5. OneThingUnderWay(d)' /\ StoredRests(d)'
      BY <1>1, <1>2, <2>8, <3>2, <3>3, <3>4 DEF OneThingUnderWay, StoredRests, Home
    <3>6. NoOrphanOf(d)'
      BY <1>1, <1>2, <2>1, <3>1, <3>2 DEF NoOrphanOf
    <3>7. QED
      BY <3>5, <3>6
  <2>16. Page(d)'
    BY <1>2, <2>14, <2>15 DEF Page
  <2>17. QED
    BY <1>1, <1>3, <2>11, <2>12, <2>13, <2>16, PageAfter
<1>5. CASE r \notin listeners[d]
  <2>1. UNCHANGED <<view, memory, listeners, shown, stored>>
    BY <1>5 DEF KeyAdded
  <2>2. Relayed'
    <3>1. FlowsAreSound' /\ \A j \in Keys : AskedFor(j) => AskedFor(j)'
      BY <1>1, <1>2 DEF Relayed, FlowsAreSound, FlowIsSound, AskedFor
    <3>2. QED
      BY <1>1, <1>3, <2>1, <3>1, RequestsKeepRelayed DEF RelayTypes
  <2>3. QED
    BY <1>1, <1>2, <1>3, <2>1, <2>2, EveryPageStays DEF page
<1>6. QED
  BY <1>4, <1>5

--------------------------------------------------------------------------------
(* A step that only leads to another view.                                       *)
LEMMA ViewGoes ==
    ASSUME IInv, NEW d \in Devices, NEW v \in View \ {"ApproveConnection"}, NEW w \in SomeWallet,
           SetView(d, v, w), v \in Badged => w \in Wallets,
           UNCHANGED <<chain, relayer, memory, listeners, denials, flow, tangled>>,
           v \in Home => memory[d].contract.wallet \in Wallets,
           awaits' \in {awaits, [awaits EXCEPT ![d] = @ \ {"codes"}]},
           stored' \in {stored, [stored EXCEPT ![d] = NoWallet]},
           ~tangled[d] => /\ "storage" \notin awaits[d]
                          /\ stored'[d] # NoWallet => v \in Home
    PROVE  IInv'
<1> USE DEF IInv
<1>1. RelayTypes' /\ UNCHANGED <<owned, nonce, added, requests, sent, queue, hook, lost>>
  BY RelayerStays
<1>2. ObserverTypes' /\ last' = last /\ view' = [view EXCEPT ![d] = v]
      /\ shown' \in [Devices -> Shown]
      /\ \A e \in Devices : shown'[e].list \subseteq last[e] \cup shown[e].list
  BY SetViewGoes
<1>3. view' \in [Devices -> View \cup {"closed"}] /\ view'[d] = v
      /\ \A e \in Devices : e # d => view'[e] = view[e]
  BY <1>2 DEF PageTypes
<1>4. awaits' \in [Devices -> SUBSET {"storage", "codes"}] /\ awaits'[d] \subseteq awaits[d]
      /\ \A e \in Devices : e # d => awaits'[e] = awaits[e]
  BY DEF PageTypes
<1>5. stored' \in [Devices -> WalletInfo] /\ stored'[d] \in {stored[d], NoWallet}
      /\ \A e \in Devices : e # d => stored'[e] = stored[e]
  BY DEF PageTypes, WalletInfo
<1>6. PageTypes'
  BY <1>2, <1>3, <1>4, <1>5 DEF PageTypes
<1>7. Relayed'
  <2>1. FlowsAreSound' /\ \A j \in Keys : AskedFor(j) => AskedFor(j)'
    BY <1>1 DEF Relayed, FlowsAreSound, FlowIsSound, AskedFor
  <2>2. QED
    BY <1>1, <1>2, <2>1, RequestsKeepRelayed DEF RelayTypes
<1>8. OnlyPageOf(d)
  BY <1>1, <1>3, <1>4, <1>5 DEF OnlyPageOf
<1>9. WalletIsThere(d)'
  BY <1>3, <1>4 DEF Page, WalletIsThere
<1>10. ASSUME ~tangled[d]
       PROVE  OneThingUnderWay(d)' /\ StoredRests(d)' /\ NoOrphanOf(d)'
  <2>1. OneThingUnderWay(d) /\ StoredRests(d) /\ NoOrphanOf(d) /\ Pending(d)' = Pending(d)
    BY <1>10 DEF Page, Pending
  <2>2. OneThingUnderWay(d)'
    BY <1>4, <1>10, <2>1 DEF OneThingUnderWay
  <2>3. StoredRests(d)'
    BY <1>1, <1>3, <1>5, <1>10, <2>1 DEF StoredRests
  <2>4. NoOrphanOf(d)'
    BY <1>1, <2>1 DEF NoOrphanOf
  <2>5. QED
    BY <2>2, <2>3, <2>4
<1>11. Page(d)'
  BY <1>9, <1>10 DEF Page
<1>12. QED
  BY <1>1, <1>2, <1>6, <1>7, <1>8, <1>11, PageAfter

(* Outside Login the page is at rest, or nothing is stored.                      *)
LEMMA OutsideLogin ==
    ASSUME IInv, NEW d \in Devices, view[d] \in View \ {"Login"}, ~tangled[d]
    PROVE  "storage" \notin awaits[d] /\ (stored[d] # NoWallet => view[d] \in Home)
BY DEF IInv, Page, OneThingUnderWay, StoredRests, View

LEMMA WalkHolds ==
    ASSUME IInv, NEW d \in Devices, Walk(d)
    PROVE  IInv'
<1>1. PICK w \in SomeWallet : w = memory[d].contract.wallet
  <2>1. memory[d] \in Memory
    BY DEF IInv, PageTypes
  <2>2. QED
    BY <2>1 DEF Memory, Contract
<1>2. PICK v \in {"Login", "MainScreen", "Account", "Backup", "PendingAuthorizations"} :
        /\ SetView(d, v, w)
        /\ view[d] \in {"Failure", "Greeting", "MainScreen", "Account", "Backup",
                        "PendingAuthorizations"}
        /\ view[d] = "Failure" <=> v = "Login"
  BY <1>1 DEF Walk, ShowLogin, ShowMainScreen, AccountLink, BackToApp, GenerateCodes, CancelBackup,
              RequestsBadge, Back, Turn
<1>3. UNCHANGED <<chain, relayer, memory, listeners, awaits, denials, stored, flow, tangled>>
  BY DEF Walk
<1>4. v \in Home => w \in Wallets
  <2>1. v # "Login" => view[d] \in Home
    BY <1>2 DEF Home
  <2>2. v \in Home => v # "Login"
    BY DEF Home
  <2>3. QED
    BY <1>1, <2>1, <2>2 DEF IInv, Page, WalletIsThere
<1>5. v \in View \ {"ApproveConnection"} /\ view[d] \in View \ {"Login"}
      /\ (v \in Badged => v \in Home) /\ (view[d] \in Home => v \in Home)
  BY <1>2 DEF View, Badged, Home
<1>6. ~tangled[d] => "storage" \notin awaits[d] /\ (stored[d] # NoWallet => v \in Home)
  BY <1>5, OutsideLogin
<1>7. QED
  BY <1>1, <1>2, <1>3, <1>4, <1>5, <1>6, ViewGoes

LEMMA DisconnectHolds ==
    ASSUME IInv, NEW d \in Devices, Disconnect(d)
    PROVE  IInv'
<1>1. PICK w \in SomeWallet : w = memory[d].contract.wallet
  <2>1. memory[d] \in Memory
    BY DEF IInv, PageTypes
  <2>2. QED
    BY <2>1 DEF Memory, Contract
<1>2. /\ view[d] = "Account" /\ SetView(d, "Login", w) /\ stored' = [stored EXCEPT ![d] = NoWallet]
      /\ UNCHANGED <<chain, relayer, memory, listeners, awaits, denials, flow, tangled>>
  BY <1>1 DEF Disconnect, DisconnectClick, Turn
<1>3. "Login" \in View \ {"ApproveConnection"} /\ "Login" \notin Badged \cup Home
      /\ view[d] \in View \ {"Login"}
  BY <1>2 DEF View, Badged, Home
<1>4. stored'[d] = NoWallet
  BY <1>2 DEF IInv, PageTypes
<1>5. ~tangled[d] => "storage" \notin awaits[d]
  BY <1>3, OutsideLogin
<1>6. QED
  BY <1>2, <1>3, <1>4, <1>5, ViewGoes

(* The codes have a wallet to be of, and so has the view they lead to.           *)
LEMMA BackupCodesSetHolds ==
    ASSUME IInv, NEW d \in Devices, BackupCodesSet(d)
    PROVE  IInv'
<1>1. /\ "codes" \in awaits[d] /\ awaits' = [awaits EXCEPT ![d] = @ \ {"codes"}]
      /\ SetView(d, "Greeting", Nobody) \/ UNCHANGED <<view, shown, observer>>
      /\ UNCHANGED <<chain, relayer, memory, listeners, denials, stored, flow, tangled>>
  BY DEF BackupCodesSet
<1>2. memory[d].contract.wallet \in Wallets
  BY <1>1 DEF IInv, Page, WalletIsThere
<1>3. ~tangled[d] => "storage" \notin awaits[d]
  <2>1. {"storage"} # awaits[d]
    BY <1>1
  <2>2. QED
    BY <2>1 DEF IInv, Page, OneThingUnderWay
<1>4. CASE SetView(d, "Greeting", Nobody)
  <2>1. "Greeting" \in View \ {"ApproveConnection"} /\ "Greeting" \notin Badged
        /\ "Greeting" \in Home /\ Nobody \in SomeWallet
    BY DEF View, Badged, Home, SomeWallet
  <2>2. QED
    BY <1>1, <1>2, <1>3, <1>4, <2>1, ViewGoes
<1>5. CASE UNCHANGED <<view, shown, observer>>
  <2> USE DEF IInv
  <2>1. RelayTypes' /\ UNCHANGED <<owned, nonce, added, requests, sent, queue, hook, lost>>
    BY <1>1, RelayerStays
  <2>2. ObserverTypes' /\ last' = last
    BY <1>5, ObserverStays DEF observer
  <2>3. awaits' \in [Devices -> SUBSET {"storage", "codes"}] /\ awaits'[d] = awaits[d] \ {"codes"}
        /\ \A e \in Devices : e # d => awaits'[e] = awaits[e]
    BY <1>1 DEF PageTypes
  <2>4. PageTypes'
    BY <1>1, <1>5, <2>3 DEF PageTypes
  <2>5. Relayed'
    <3>1. FlowsAreSound' /\ \A j \in Keys : AskedFor(j) => AskedFor(j)'
      BY <1>1, <2>1 DEF Relayed, FlowsAreSound, FlowIsSound, AskedFor
    <3>2. QED
      BY <1>5, <2>1, <2>2, <3>1, RequestsKeepRelayed DEF RelayTypes
  <2>6. OnlyPageOf(d)
    BY <1>1, <1>5, <2>1, <2>3 DEF OnlyPageOf
  <2>7. WalletIsThere(d)'
    BY <1>1, <1>5, <2>3 DEF Page, WalletIsThere
  <2>8. ASSUME ~tangled[d]
        PROVE  OneThingUnderWay(d)' /\ StoredRests(d)' /\ NoOrphanOf(d)'
    <3>1. OneThingUnderWay(d) /\ StoredRests(d) /\ NoOrphanOf(d) /\ Pending(d)' = Pending(d)
      BY <1>1, <2>8 DEF Page, Pending
    <3>2. OneThingUnderWay(d)'
      BY <1>1, <1>3, <2>3, <2>8, <3>1 DEF OneThingUnderWay
    <3>3. StoredRests(d)' /\ NoOrphanOf(d)'
      BY <1>1, <1>5, <1>3, <2>1, <2>8, <3>1 DEF StoredRests, NoOrphanOf
    <3>4. QED
      BY <3>2, <3>3
  <2>9. Page(d)'
    BY <1>1, <2>7, <2>8 DEF Page
  <2>10. QED
    BY <2>1, <2>2, <2>4, <2>5, <2>6, <2>9, PageAfter
<1>6. QED
  BY <1>1, <1>4, <1>5

LEMMA SetBackupCodesHolds ==
    ASSUME IInv, NEW d \in Devices, SetBackupCodes(d)
    PROVE  IInv'
<1> USE DEF IInv
<1>1. PICK w \in Wallets : w = memory[d].contract.wallet
  BY DEF SetBackupCodes, Page, WalletIsThere, Home
<1>2. PICK m : m = MessageOf(w, Code, memory[d].contract.key)
  OBVIOUS
<1>3. /\ PostMessage(m) /\ view[d] = "Backup"
      /\ awaits' \in {awaits, [awaits EXCEPT ![d] = @ \cup {"codes"}]}
      /\ UNCHANGED <<chain, observer, view, memory, listeners, denials, shown, stored, flow, tangled>>
  BY <1>1, <1>2 DEF SetBackupCodes, OwnMessage
<1>4. Accepts(m) => m \in Message /\ m.key = Code
  BY <1>2, OwnMessageIsSound
<1>5. UNCHANGED last /\ ObserverTypes'
  BY <1>3, ObserverStays DEF observer
<1>6. RelayTypes' /\ Relayed' /\ UNCHANGED <<requests, hook, lost>>
  BY <1>3, <1>4, <1>5, KeysAreNumbers, PostMessageKeepsRelayed
<1>7. awaits' \in [Devices -> SUBSET {"storage", "codes"}]
      /\ awaits'[d] \in {awaits[d], awaits[d] \cup {"codes"}}
      /\ \A e \in Devices : e # d => awaits'[e] = awaits[e]
  BY <1>3 DEF PageTypes
<1>8. PageTypes'
  BY <1>3, <1>7 DEF PageTypes
<1>9. OnlyPageOf(d) /\ UNCHANGED <<owned, added>>
  BY <1>3, <1>6, <1>7 DEF OnlyPageOf, chain
<1>10. WalletIsThere(d)'
  BY <1>1, <1>3 DEF Page, WalletIsThere
<1>11. ASSUME ~tangled[d]
       PROVE  OneThingUnderWay(d)' /\ StoredRests(d)' /\ NoOrphanOf(d)'
  <2>1. OneThingUnderWay(d) /\ StoredRests(d) /\ NoOrphanOf(d) /\ Pending(d)' = Pending(d)
    BY <1>3, <1>11 DEF Page, Pending
  <2>2. "storage" \notin awaits[d] /\ "storage" \notin awaits'[d]
    BY <1>3, <1>7, <2>1 DEF OneThingUnderWay
  <2>3. OneThingUnderWay(d)'
    BY <1>3, <2>1, <2>2 DEF OneThingUnderWay
  <2>4. StoredRests(d)' /\ NoOrphanOf(d)'
    BY <1>3, <1>6, <1>9, <2>1, <2>2 DEF StoredRests, NoOrphanOf
  <2>5. QED
    BY <2>3, <2>4
<1>12. Page(d)'
  BY <1>3, <1>10, <1>11 DEF Page
<1>13. QED
  BY <1>5, <1>6, <1>8, <1>9, <1>12, PageAfter

(* A request that is taken away, or a message for a key that was asked for, is   *)
(* no matter of the pages.                                                       *)
LEMMA RemoveRequestKeepsRelayed ==
    ASSUME RelayTypes, ObserverTypes, PageTypes, Relayed, NEW w, NEW k, RemoveRequest(w, k),
           UNCHANGED <<chain, flow, last, shown>>
    PROVE  RelayTypes' /\ Relayed' /\ requests' \subseteq requests
<1>1. UNCHANGED <<owned, nonce, added, sent, queue, hook, lost>> /\ requests' \subseteq requests
  BY DEF RemoveRequest, chain
<1>2. RelayTypes'
  BY <1>1 DEF RelayTypes
<1>3. FlowsAreSound' /\ \A j \in Keys : AskedFor(j) => AskedFor(j)'
  BY <1>1 DEF Relayed, FlowsAreSound, FlowIsSound, AskedFor
<1>4. Relayed'
  BY <1>1, <1>3, RequestsKeepRelayed DEF RelayTypes
<1>5. QED
  BY <1>1, <1>2, <1>4

LEMMA PostForAskedKeepsRelayed ==
    ASSUME RelayTypes, ObserverTypes, PageTypes, Relayed, NEW w \in Wallets, NEW k \in Keys, NEW by,
           AskedFor(k), PostMessage(MessageOf(w, k, by)), UNCHANGED <<chain, flow, last, shown>>
    PROVE  RelayTypes' /\ Relayed' /\ requests' = requests
<1>1. PICK m : m = MessageOf(w, k, by)
  OBVIOUS
<1>2. PostMessage(m)
  BY <1>1
<1>3. Accepts(m) => m \in Message /\ m.key = k
  BY <1>1, OwnMessageIsSound
<1>4. QED
  BY <1>2, <1>3, PostMessageKeepsRelayed

LEMMA AnswerHolds ==
    ASSUME IInv, NEW d \in Devices, NEW r \in Rows, Answer(d, r)
    PROVE  IInv'
<1> USE DEF IInv
<1>1. UNCHANGED <<chain, observer, page, stored, flow, tangled>> /\ Listed(d, r)
  BY DEF Answer, AcceptClick, DenyClick
<1>2. PICK w \in Wallets : w = memory[d].contract.wallet
  BY <1>1 DEF Listed, Page, WalletIsThere, Home
<1>3. PICK k \in Keys : k = r[2] /\ AskedFor(k)
  BY <1>1 DEF Listed, Relayed, RowsWereAskedFor, Rows
<1>4. UNCHANGED <<last, shown>> /\ ObserverTypes'
  BY <1>1, ObserverStays DEF observer, page
<1>5. RelayTypes' /\ Relayed' /\ requests' \subseteq requests
  <2>1. CASE AcceptClick(d, r)
    <3>1. PostMessage(MessageOf(w, k, memory[d].contract.key))
      BY <1>2, <1>3, <2>1 DEF AcceptClick, OwnMessage
    <3>2. QED
      BY <1>1, <1>3, <1>4, <3>1, PostForAskedKeepsRelayed
  <2>2. CASE DenyClick(d, r)
    <3>1. RemoveRequest(w, k)
      BY <1>2, <1>3, <2>2 DEF DenyClick
    <3>2. QED
      BY <1>1, <1>4, <3>1, RemoveRequestKeepsRelayed
  <2>3. QED
    BY <2>1, <2>2 DEF Answer
<1>6. QED
  BY <1>1, <1>4, <1>5, EveryPageStays DEF chain

(* The observer is answered, and tells the page what it was answered.            *)
LEMMA AuthorisationsChangedHolds ==
    ASSUME IInv, NEW d \in Devices, AuthorisationsChanged(d)
    PROVE  IInv'
<1> USE DEF IInv
<1>1. RelayTypes' /\ UNCHANGED <<owned, nonce, added, requests, sent, queue, hook, lost>>
  BY RelayerStays DEF AuthorisationsChanged
<1>2. PICK new : new = RowsOf(Asked(d))
  OBVIOUS
<1>3. new \subseteq requests /\ new \subseteq Rows
  BY <1>2 DEF RowsOf, RelayTypes
<1>4. /\ Poll(d)
      /\ UNCHANGED <<memory, listeners, awaits, denials, stored, flow, tangled>>
      /\ \/ shown' = shown
         \/ shown[d].wallet = Asked(d) /\ shown' = [shown EXCEPT ![d].list = new]
      /\ \/ view' = view
         \/ view[d] = "PendingAuthorizations" /\ view' = [view EXCEPT ![d] = "MainScreen"]
  BY <1>2 DEF AuthorisationsChanged
<1>5. ObserverTypes' /\ last' = [last EXCEPT ![d] = new]
  <2>1. PICK n \in Nat : n = Len(filters[d])
    BY LenProperties DEF ObserverTypes
  <2>2. PICK t : t = NextTurn(d)
    OBVIOUS
  <2>3. turn[d] \in Nat /\ turn[d] >= 1
    BY <2>1 DEF ObserverTypes
  <2>4. t \in Nat /\ (t = 1 \/ t \in 1..n)
    BY <2>1, <2>2, <2>3 DEF NextTurn
  <2>5. /\ turn' = [turn EXCEPT ![d] = t] /\ last' = [last EXCEPT ![d] = new]
        /\ UNCHANGED <<filters, polling, passed>>
    BY <1>2, <1>4, <2>2 DEF Poll
  <2>6. QED
    BY <1>3, <2>1, <2>4, <2>5 DEF ObserverTypes
<1>6. /\ shown' \in [Devices -> Shown]
      /\ \A e \in Devices : shown'[e].list \subseteq shown[e].list \cup new
  <2>1. Asked(d) \in Wallets
    <3>1. PICK f \in Seq(Wallets) : f = filters[d]
      BY DEF ObserverTypes
    <3>2. PICK n \in Nat : n = Len(f)
      BY LenProperties
    <3>3. n # 0
      BY <1>4, <3>1, <3>2, EmptySeq DEF Poll
    <3>4. turn[d] \in 1..n
      BY <3>1, <3>2, <3>3 DEF ObserverTypes
    <3>5. f[turn[d]] \in Wallets
      BY <3>2, <3>4, ElementOfSeq
    <3>6. QED
      BY <3>1, <3>5 DEF Asked
  <2>2. CASE shown[d].wallet = Asked(d) /\ shown' = [shown EXCEPT ![d].list = new]
    <3>1. PICK s : s = [shown[d] EXCEPT !.list = new]
      OBVIOUS
    <3>2. shown[d] \in [wallet : Wallets, list : SUBSET Rows]
      BY <2>1, <2>2, KeysAreNumbers DEF PageTypes, Shown, Unshown
    <3>3. s \in Shown /\ s.list = new
      BY <1>3, <3>1, <3>2 DEF Shown
    <3>4. shown' = [shown EXCEPT ![d] = s]
      BY <2>2, <3>1
    <3>5. QED
      BY <3>3, <3>4 DEF PageTypes
  <2>3. CASE shown' = shown
    BY <2>3 DEF PageTypes
  <2>4. QED
    BY <1>4, <2>2, <2>3
<1>7. view' \in [Devices -> View \cup {"closed"}] /\ \A e \in Devices : e # d => view'[e] = view[e]
      /\ \/ view'[d] = view[d]
         \/ view[d] = "PendingAuthorizations" /\ view'[d] = "MainScreen"
  BY <1>4 DEF PageTypes, View
<1>8. PageTypes'
  BY <1>4, <1>6, <1>7 DEF PageTypes
<1>9. Relayed'
  <2>1. FlowsAreSound' /\ \A j \in Keys : AskedFor(j) => AskedFor(j)'
    BY <1>1, <1>4 DEF Relayed, FlowsAreSound, FlowIsSound, AskedFor
  <2>2. \A e \in Devices : last'[e] \subseteq last[e] \cup new
    BY <1>5 DEF ObserverTypes
  <2>3. QED
    BY <1>1, <1>3, <1>6, <2>1, <2>2, RequestsKeepRelayed DEF RelayTypes
<1>10. OnlyPageOf(d)
  BY <1>1, <1>4, <1>7 DEF OnlyPageOf
<1>11. WalletIsThere(d)'
  BY <1>4, <1>7 DEF Page, WalletIsThere, Home
<1>12. ASSUME ~tangled[d]
       PROVE  OneThingUnderWay(d)' /\ StoredRests(d)' /\ NoOrphanOf(d)'
  <2>1. OneThingUnderWay(d) /\ StoredRests(d) /\ NoOrphanOf(d) /\ Pending(d)' = Pending(d)
    BY <1>4, <1>12 DEF Page, Pending
  <2>2. OneThingUnderWay(d)'
    BY <1>4, <1>7, <2>1 DEF OneThingUnderWay
  <2>3. StoredRests(d)' /\ NoOrphanOf(d)'
    BY <1>1, <1>4, <1>7, <2>1 DEF StoredRests, NoOrphanOf, Home
  <2>4. QED
    BY <2>2, <2>3
<1>13. Page(d)'
  BY <1>4, <1>11, <1>12 DEF Page
<1>14. QED
  BY <1>1, <1>5, <1>8, <1>9, <1>10, <1>13, PageAfter

LEMMA PollRejectedHolds ==
    ASSUME IInv, NEW d \in Devices, PollRejected(d)
    PROVE  IInv'
<1> USE DEF IInv
<1>1. RelayTypes' /\ UNCHANGED <<owned, nonce, added, requests, sent, queue, hook, lost>>
  BY RelayerStays DEF PollRejected
<1>2. UNCHANGED <<page, stored, flow, tangled, filters, turn, last, passed>>
      /\ polling' = [polling EXCEPT ![d] = FALSE]
  BY DEF PollRejected, PollFails
<1>3. ObserverTypes' /\ shown' = shown
  BY <1>2 DEF ObserverTypes, page
<1>4. Relayed'
  <2>1. FlowsAreSound' /\ \A j \in Keys : AskedFor(j) => AskedFor(j)'
    BY <1>1, <1>2 DEF Relayed, FlowsAreSound, FlowIsSound, AskedFor
  <2>2. QED
    BY <1>1, <1>2, <1>3, <2>1, RequestsKeepRelayed DEF RelayTypes
<1>5. QED
  BY <1>1, <1>2, <1>3, <1>4, EveryPageStays

--------------------------------------------------------------------------------
(* What another client does, with a key of its own.                              *)
LEMMA ElsewhereGoes ==
    ASSUME IInv, NEW w \in Wallets, Unused # {}, Elsewhere(w)
    PROVE  /\ NextKey \in Keys /\ flow' \in [Keys -> Flow]
           /\ \A k \in Keys : flow'[k] # flow[k] => flow[k].dev = Nobody /\ flow'[k].dev = Nobody
           /\ \A k \in Keys : AskedFor(k) => AskedFor(k)'
           /\ ~AskedFor(NextKey) /\ flow[NextKey].dev = Nobody
           /\ \A k \in Keys : k = NextKey => AskedFor(k)'
           /\ \A k \in Keys : flow'[k] # flow[k] => FlowIsSound(k)'
<1> USE DEF IInv
<1>1. PICK k : k = NextKey
  OBVIOUS
<1>2. k \in Keys /\ flow[k].kind = "none" /\ flow[k].pc = "none" /\ flow[k].dev = Nobody
  <2>1. k \in Keys /\ flow[k].kind = "none"
    BY <1>1, NextKeyIsUnused
  <2>2. QED
    BY <2>1 DEF Relayed, FlowsAreSound, FlowIsSound
<1>3. PICK f : f = [dev |-> Nobody, kind |-> "other", wallet |-> w, pc |-> "over"]
  OBVIOUS
<1>4. f \in Flow /\ f.dev = Nobody /\ f.kind = "other" /\ f.pc = "over"
  BY <1>3 DEF Flow, SomeWallet
<1>5. flow' \in [Keys -> Flow] /\ flow'[k] = f /\ \A j \in Keys : j # k => flow'[j] = flow[j]
  <2>1. flow' = [flow EXCEPT ![k] = f]
    BY <1>1, <1>3 DEF Elsewhere
  <2>2. QED
    BY <1>2, <1>4, <2>1 DEF PageTypes
<1>6. /\ \A j \in Keys : AskedFor(j) => AskedFor(j)'
      /\ ~AskedFor(k) /\ \A j \in Keys : j = k => AskedFor(j)'
      /\ \A j \in Keys : flow'[j] # flow[j] => FlowIsSound(j)'
  BY <1>2, <1>4, <1>5 DEF AskedFor, FlowIsSound
<1>7. QED
  BY <1>1, <1>2, <1>4, <1>5, <1>6

LEMMA OtherHolds ==
    ASSUME IInv, Other
    PROVE  IInv'
<1> USE DEF IInv
<1>1. UNCHANGED <<view, memory, listeners, shown, awaits, denials, stored, tangled>>
  BY PageStays DEF Other
<1>2. ASSUME NEW w \in Wallets, OtherCreates(w) PROVE IInv'
  <2>1. /\ Unused # {} /\ owned[w] = {} /\ owned' = [owned EXCEPT ![w] = {NextKey}] /\ Elsewhere(w)
        /\ UNCHANGED <<nonce, added, requests, sent, queue, hook, lost>>
        /\ UNCHANGED <<filters, turn, last, polling, passed>>
    BY <1>2 DEF OtherCreates, relayer, observer
  <2>2. PICK k \in Keys : k = NextKey
    BY <2>1, ElsewhereGoes
  <2>3. /\ flow' \in [Keys -> Flow]
        /\ \A j \in Keys : flow'[j] # flow[j] => flow[j].dev = Nobody /\ flow'[j].dev = Nobody
        /\ \A j \in Keys : AskedFor(j) => AskedFor(j)'
        /\ \A j \in Keys : flow'[j] # flow[j] => FlowIsSound(j)'
    BY <2>1, ElsewhereGoes
  <2>4. /\ owned' \in [Wallets -> SUBSET (Keys \cup {Code})]
        /\ \A v \in Wallets : owned[v] \subseteq owned'[v]
    BY <2>1, <2>2 DEF RelayTypes
  <2>5. RelayTypes' /\ ObserverTypes' /\ PageTypes'
    BY <1>1, <2>1, <2>3, <2>4, ObserverStays DEF RelayTypes, PageTypes
  <2>6. Relayed'
    <3>1. FlowsAreSound'
      BY <2>3, <2>4, FlowsMoveOn
    <3>2. QED
      BY <1>1, <2>1, <2>3, <2>4, <3>1, RequestsKeepRelayed DEF RelayTypes
  <2>7. OnlyPageOf(Nobody)
    BY <1>1, <2>1, <2>3, <2>4 DEF OnlyPageOf
  <2>8. QED
    BY <2>5, <2>6, <2>7, NoPageChanges
<1>3. ASSUME NEW w \in Wallets, OtherRequests(w) PROVE IInv'
  <2>1. /\ Unused # {} /\ Elsewhere(w)
        /\ UNCHANGED <<owned, nonce, added, sent, queue, hook, lost>>
        /\ UNCHANGED <<filters, turn, last, polling, passed>>
    BY <1>3 DEF OtherRequests, AddRequest, chain, observer
  <2>2. PICK k \in Keys : k = NextKey
    BY <2>1, ElsewhereGoes
  <2>3. /\ flow' \in [Keys -> Flow]
        /\ \A j \in Keys : flow'[j] # flow[j] => flow[j].dev = Nobody /\ flow'[j].dev = Nobody
        /\ \A j \in Keys : AskedFor(j) => AskedFor(j)'
        /\ \A j \in Keys : flow'[j] # flow[j] => FlowIsSound(j)'
        /\ ~AskedFor(k) /\ flow[k].dev = Nobody /\ AskedFor(k)'
    BY <2>1, <2>2, ElsewhereGoes
  <2>4. requests' = requests \cup {<<w, k>>}
    BY <1>3, <2>2 DEF OtherRequests, AddRequest
  <2>5. RelayTypes' /\ ObserverTypes' /\ PageTypes'
    BY <1>1, <2>1, <2>3, <2>4, ObserverStays DEF RelayTypes, PageTypes, Rows
  <2>6. Relayed'
    <3>1. FlowsAreSound'
      BY <2>1, <2>3, FlowsMoveOn
    <3>2. \A r \in requests' : r \in Rows /\ (r \in requests \/ r = <<w, k>>)
      BY <2>4, <2>5 DEF RelayTypes
    <3>3. \A r \in requests' : r \in Rows /\ (r \in requests \/ (~AskedFor(r[2]) /\ AskedFor(r[2])'))
      BY <2>3, <3>2
    <3>4. QED
      BY <1>1, <2>1, <2>3, <3>1, <3>3, RequestsKeepRelayed
  <2>7. OnlyPageOf(Nobody)
    BY <1>1, <2>1, <2>3, <2>4 DEF OnlyPageOf
  <2>8. QED
    BY <2>5, <2>6, <2>7, NoPageChanges
<1>4. ASSUME NEW r \in Rows, OtherAnswers(r) PROVE IInv'
  <2>1. /\ UNCHANGED <<chain, observer, flow>> /\ r \in requests
        /\ r[1] \in Wallets /\ r[2] \in Keys
    BY <1>4 DEF OtherAnswers, Rows
  <2>2. AskedFor(r[2]) /\ last' = last /\ ObserverTypes'
    BY <2>1, ObserverStays DEF Relayed, RowsWereAskedFor, observer
  <2>3. PICK k : PostMessage(MessageOf(r[1], r[2], k)) \/ RemoveRequest(r[1], r[2])
    BY <1>4 DEF OtherAnswers
  <2>4. RelayTypes' /\ Relayed' /\ requests' \subseteq requests
    <3>1. CASE PostMessage(MessageOf(r[1], r[2], k))
      BY <1>1, <2>1, <2>2, <3>1, PostForAskedKeepsRelayed
    <3>2. CASE RemoveRequest(r[1], r[2])
      BY <1>1, <2>1, <2>2, <3>2, RemoveRequestKeepsRelayed
    <3>3. QED
      BY <2>3, <3>1, <3>2
  <2>5. QED
    BY <1>1, <2>1, <2>2, <2>4, EveryPageStays DEF page, chain
<1>5. QED
  BY <1>2, <1>3, <1>4 DEF Other

LEMMA RelayerHolds ==
    ASSUME IInv, Relayer
    PROVE  IInv'
<1>1. UNCHANGED <<page, stored, flow, tangled>> /\ shown' = shown
      /\ (Execute \/ OnTransactionSent \/ ExecuteFails \/ CrashAndRestart)
  BY DEF Relayer, Relay, RelayFails, page
<1>2. RelayEvolves
  BY <1>1, ExecuteEvolves, ExecuteFailsEvolves, HookEvolves DEF IInv
<1>3. QED
  BY <1>1, <1>2, ObserverStays, EveryPageStays DEF RelayEvolves, IInv

LEMMA StutterHolds ==
    ASSUME IInv, UNCHANGED vars
    PROVE  IInv'
<1> USE DEF IInv
<1>1. UNCHANGED <<chain, relayer, observer, page, stored, flow, tangled>>
  BY DEF vars, connection
<1>2. RelayTypes' /\ UNCHANGED <<owned, nonce, added, requests, sent, queue, hook, lost>>
  BY <1>1, RelayerStays
<1>3. ObserverTypes' /\ last' = last /\ shown' = shown
  BY <1>1, ObserverStays DEF observer, page
<1>4. Relayed'
  <2>1. FlowsAreSound' /\ \A j \in Keys : AskedFor(j) => AskedFor(j)'
    BY <1>1, <1>2 DEF Relayed, FlowsAreSound, FlowIsSound, AskedFor
  <2>2. QED
    BY <1>2, <1>3, <2>1, RequestsKeepRelayed DEF RelayTypes
<1>5. QED
  BY <1>1, <1>2, <1>3, <1>4, EveryPageStays

LEMMA NextHolds ==
    ASSUME IInv, RecoveriesAreAskedFor, Next
    PROVE  IInv'
<1>1. ASSUME NEW d \in Devices, App(d) PROVE IInv'
  <2>1. ASSUME NEW w \in Wallets, Click(d, "next", w) \/ Click(d, "recover", w) PROVE IInv'
    BY <2>1, ClickHolds
  <2>2. ASSUME NEW r \in Rows, Answer(d, r) PROVE IInv'
    BY <2>2, AnswerHolds
  <2>3. QED
    BY <1>1, <2>1, <2>2, OpenHolds, CancelConnectionHolds, CancelRecoveryHolds, RecoverClickHolds,
       WalkHolds, DisconnectHolds, SetBackupCodesHolds, PollRejectedHolds DEF App
<1>2. ASSUME NEW d \in Devices,
             LoadWallet(d) \/ BackupCodesSet(d) \/ AuthorisationsChanged(d) \/ \E r \in Rows : KeyAdded(d, r)
      PROVE  IInv'
  BY <1>2, LoadWalletHolds, BackupCodesSetHolds, AuthorisationsChangedHolds, KeyAddedHolds
<1>3. ASSUME NEW k \in Keys, FlowStep(k) PROVE IInv'
  BY <1>3, ResolvedHolds, CreatedHolds, CreateAnsweredHolds, RequestArrivesHolds,
     ConnectAnsweredHolds, RecoveryResolvedHolds, RejectedHolds DEF FlowStep
<1>4. ASSUME NEW d \in Devices, DenialStep(d) PROVE IInv'
  BY <1>4, DenialAnsweredHolds, DenialRejectedHolds DEF DenialStep
<1>5. QED
  BY <1>1, <1>2, <1>3, <1>4, RelayerHolds, OtherHolds DEF Next

--------------------------------------------------------------------------------
(* What was asked for stays so, and a page that comes to recover has asked.      *)
LEMMA AskedForStays ==
    ASSUME IInv, Next
    PROVE  \A k \in Keys : AskedFor(k) => AskedFor(k)'
<1> USE DEF IInv
<1>1. ASSUME UNCHANGED flow PROVE \A k \in Keys : AskedFor(k) => AskedFor(k)'
  BY <1>1 DEF AskedFor
<1>2. ASSUME NEW k \in Keys, NEW p \in Stage, flow' = [flow EXCEPT ![k].pc = p],
             p \in {"posted", "over"} \/ flow[k].pc \notin {"posted", "over"}
      PROVE  \A j \in Keys : AskedFor(j) => AskedFor(j)'
  <2>1. flow'[k].pc = p /\ \A j \in Keys : j # k => flow'[j] = flow[j]
    BY <1>2, AwaitGoes
  <2>2. QED
    BY <1>2, <2>1 DEF AskedFor
<1>3. ASSUME NEW f, Unused # {}, flow' = [flow EXCEPT ![NextKey] = f]
      PROVE  \A j \in Keys : AskedFor(j) => AskedFor(j)'
  <2>1. PICK k \in Keys : k = NextKey /\ flow[k].kind = "none"
    BY <1>3, NextKeyIsUnused
  <2>2. ~AskedFor(k)
    BY <2>1 DEF Relayed, FlowsAreSound, FlowIsSound, AskedFor
  <2>3. \A j \in Keys : j # k => flow'[j] = flow[j]
    BY <1>3, <2>1 DEF PageTypes
  <2>4. QED
    BY <2>2, <2>3 DEF AskedFor
<1>4. ASSUME NEW d \in Devices, Open(d) PROVE \A k \in Keys : AskedFor(k) => AskedFor(k)'
  <2>1. ASSUME NEW k \in Keys PROVE flow'[k].pc = flow[k].pc
    <3>1. PICK f \in Flow : f = flow[k]
      BY DEF PageTypes
    <3>2. flow'[k] \in {f, [f EXCEPT !.dev = Nobody]} /\ [f EXCEPT !.dev = Nobody].pc = f.pc
      BY <1>4, <3>1 DEF Open, Flow
    <3>3. QED
      BY <3>1, <3>2
  <2>2. QED
    BY <2>1 DEF AskedFor
<1>5. ASSUME NEW k \in Keys, FlowStep(k) PROVE \A j \in Keys : AskedFor(j) => AskedFor(j)'
  <2>1. CASE Rejected(k)
    <3>1. Lost(flow[k].dev, k) /\ flow[k].dev \in Devices /\ UNCHANGED owned
      BY <2>1 DEF Rejected, chain
    <3>2. QED
      BY <3>1, LostGoes
  <2>2. CASE ~Rejected(k)
    <3>1. PICK p \in Stage : /\ flow' = [flow EXCEPT ![k].pc = p]
                             /\ p \in {"posted", "over"} \/ flow[k].pc \notin {"posted", "over"}
      BY <1>5, <2>2 DEF FlowStep, Resolved, Created, CreateAnswered, RequestArrives,
                  ConnectAnswered, RecoveryResolved, In, Await, Over, Stage
    <3>2. QED
      BY <1>2, <3>1
  <2>3. QED
    BY <2>1, <2>2
<1>6. ASSUME NEW d \in Devices, App(d) PROVE \A k \in Keys : AskedFor(k) => AskedFor(k)'
  <2>1. CASE Open(d)
    BY <1>4, <2>1
  <2>2. CASE \E w \in Wallets : Click(d, "next", w) \/ Click(d, "recover", w)
    <3>1. Unused # {} /\ \E f : flow' = [flow EXCEPT ![NextKey] = f]
      BY <2>2, Zenon DEF Click
    <3>2. QED
      BY <1>3, <3>1
  <2>3. CASE UNCHANGED flow
    BY <1>1, <2>3
  <2>4. CASE CancelRecovery(d)
    <3>1. UNCHANGED flow \/ (Lost(d, memory[d].privateKey) /\ UNCHANGED owned)
      BY <2>4 DEF CancelRecovery, chain
    <3>2. QED
      BY <1>1, <3>1, LostGoes
  <2>5. QED
    BY <1>6, <2>1, <2>2, <2>3, <2>4 DEF App, CancelConnection, RecoverClick, Walk,
       Disconnect, SetBackupCodes, PollRejected, Answer
<1>7. ASSUME NEW d \in Devices,
             LoadWallet(d) \/ BackupCodesSet(d) \/ AuthorisationsChanged(d) \/ \E r \in Rows : KeyAdded(d, r)
      PROVE  \A k \in Keys : AskedFor(k) => AskedFor(k)'
  BY <1>1, <1>7 DEF LoadWallet, BackupCodesSet, AuthorisationsChanged, KeyAdded
<1>8. ASSUME Other PROVE \A k \in Keys : AskedFor(k) => AskedFor(k)'
  BY <1>1, <1>8, ElsewhereGoes DEF Other, OtherCreates, OtherRequests, OtherAnswers
<1>9. ASSUME NEW d \in Devices, NEW x \in denials[d], DenialAnswered(d, x) \/ DenialRejected(d, x)
      PROVE  \A k \in Keys : AskedFor(k) => AskedFor(k)'
  <2>1. \/ UNCHANGED flow
        \/ Unused # {} /\ \E f : flow' = [flow EXCEPT ![NextKey] = f]
        \/ Lost(d, x.row[2]) /\ UNCHANGED owned
    BY <1>9, Zenon DEF DenialAnswered, DenialRejected, chain
  <2>2. QED
    BY <1>1, <1>3, <2>1, LostGoes
<1>10. QED
  BY <1>1, <1>5, <1>6, <1>7, <1>8, <1>9 DEF Next, Relayer, DenialStep

LEMMA RecoveriesGo ==
    ASSUME RecoveriesAreAskedFor, \A k \in Keys : AskedFor(k) => AskedFor(k)',
           NEW d \in Devices,
           \A e \in Devices : e # d => view'[e] = view[e] /\ memory'[e] = memory[e],
           \/ view'[d] # "RecoverAccount"
           \/ view'[d] = view[d] /\ memory'[d].device = memory[d].device
           \/ \E k \in Keys : memory'[d].device = k /\ AskedFor(k)'
    PROVE  RecoveriesAreAskedFor'
<1> SUFFICES ASSUME NEW e \in Devices, view'[e] = "RecoverAccount"
             PROVE  memory'[e].device \in Keys /\ AskedFor(memory[e].device)'
  BY DEF RecoveriesAreAskedFor
<1>1. CASE view'[e] = view[e] /\ memory'[e].device = memory[e].device
  BY <1>1 DEF RecoveriesAreAskedFor, AskedFor
<1>2. CASE \E k \in Keys : memory'[e].device = k /\ AskedFor(k)'
  BY <1>2 DEF AskedFor
<1>3. QED
  BY <1>1, <1>2

LEMMA MountIsForKey ==
    ASSUME PageTypes, NEW d \in Devices, NEW k \in Keys, NEW m \in Memory, MountRecovery(d, k, m)
    PROVE  /\ memory'[d].device = k
           /\ \A e \in Devices : e # d => view'[e] = view[e] /\ memory'[e] = memory[e]
<1>1. PICK n : n = Recover(d, k, m)
  OBVIOUS
<1>2. n.device = k
  BY <1>1, KeepUpdates DEF Recover, Memory
<1>3. memory' = [memory EXCEPT ![d] = n] /\ view' = [view EXCEPT ![d] = "RecoverAccount"]
  BY <1>1 DEF MountRecovery, SetView
<1>4. QED
  BY <1>2, <1>3 DEF PageTypes

LEMMA RecoveriesStay ==
    ASSUME IInv, RecoveriesAreAskedFor, Next
    PROVE  RecoveriesAreAskedFor'
<1> USE DEF IInv
<1>1. \A k \in Keys : AskedFor(k) => AskedFor(k)'
  BY AskedForStays
<1>2. ASSUME UNCHANGED <<view, memory>> PROVE RecoveriesAreAskedFor'
  BY <1>1, <1>2 DEF RecoveriesAreAskedFor, AskedFor
<1>3. ASSUME NEW d \in Devices, NEW v \in View \ {"RecoverAccount"}, view' = [view EXCEPT ![d] = v],
             \A e \in Devices : e # d => memory'[e] = memory[e]
      PROVE  RecoveriesAreAskedFor'
  BY <1>1, <1>3, RecoveriesGo DEF PageTypes
<1>4. ASSUME NEW d \in Devices, NEW c, memory' = [memory EXCEPT ![d] = c]
      PROVE  \A e \in Devices : e # d => memory'[e] = memory[e]
  BY <1>4 DEF PageTypes
<1>5. ASSUME NEW d \in Devices, App(d) PROVE RecoveriesAreAskedFor'
  <2>1. CASE Open(d)
    <3>1. "Login" \in View \ {"RecoverAccount"}
      BY DEF View
    <3>2. QED
      BY <1>3, <1>4, <2>1, <3>1 DEF Open
  <2>2. CASE CancelRecovery(d) \/ \E to \in {"Login", "RecoverAccount"} : CancelConnection(d, to)
    <3>1. memory' = [memory EXCEPT ![d].subscription = NoRow]
      BY <2>2 DEF CancelConnection, CancelRecovery
    <3>2. \A e \in Devices : e # d => memory'[e] = memory[e]
      BY <3>1, SubscriptionGoes
    <3>3. \/ view' = [view EXCEPT ![d] = "Login"]
          \/ view' = view /\ view[d] = "ApproveConnection"
      BY <2>2 DEF CancelConnection, CancelRecovery, SetView
    <3>4. view'[d] # "RecoverAccount" /\ \A e \in Devices : e # d => view'[e] = view[e]
      BY <3>3 DEF PageTypes
    <3>5. QED
      BY <1>1, <3>2, <3>4, RecoveriesGo
  <2>4. CASE Walk(d) \/ Disconnect(d)
    <3>1. memory' = memory /\ \E v \in View \ {"RecoverAccount"} : view' = [view EXCEPT ![d] = v]
      BY <2>4 DEF Walk, ShowLogin, ShowMainScreen, AccountLink, BackToApp, GenerateCodes,
                  CancelBackup, RequestsBadge, Back, Turn, SetView, Disconnect, DisconnectClick, View
    <3>2. QED
      BY <1>3, <3>1
  <2>5. CASE UNCHANGED <<view, memory>>
    BY <1>2, <2>5
  <2>6. QED
    BY <1>5, <2>1, <2>2, <2>4, <2>5 DEF App, Click, RecoverClick, SetBackupCodes,
       PollRejected, Answer, page
<1>6. ASSUME NEW d \in Devices, LoadWallet(d) PROVE RecoveriesAreAskedFor'
  <2>1. CASE stored[d] = NoWallet
    BY <1>2, <1>6, <2>1 DEF LoadWallet
  <2>2. CASE stored[d] # NoWallet
    <3>1. memory' = [memory EXCEPT ![d].contract = stored[d]]
          /\ view' = [view EXCEPT ![d] = "MainScreen"] /\ "MainScreen" \in View \ {"RecoverAccount"}
      BY <1>6, <2>2 DEF LoadWallet, SetView, View
    <3>2. \A e \in Devices : e # d => memory'[e] = memory[e]
      BY <3>1 DEF PageTypes
    <3>3. QED
      BY <1>3, <3>1, <3>2
  <2>3. QED
    BY <2>1, <2>2
<1>7. ASSUME NEW d \in Devices, BackupCodesSet(d) \/ AuthorisationsChanged(d)
      PROVE  RecoveriesAreAskedFor'
  <2>1. /\ memory' = memory
        /\ view' = view \/ \E v \in View \ {"RecoverAccount"} : view' = [view EXCEPT ![d] = v]
    BY <1>7 DEF BackupCodesSet, AuthorisationsChanged, SetView, View
  <2>2. QED
    BY <1>2, <1>3, <2>1
<1>8. ASSUME NEW d \in Devices, NEW r \in Rows, KeyAdded(d, r) PROVE RecoveriesAreAskedFor'
  <2>1. CASE OnKeyAdded(d)
    <3>1. view' = [view EXCEPT ![d] = "Greeting"] /\ "Greeting" \in View \ {"RecoverAccount"}
      BY <2>1 DEF OnKeyAdded, View
    <3>2. \A e \in Devices : e # d => memory'[e] = memory[e]
      BY <2>1 DEF OnKeyAdded, PageTypes
    <3>3. QED
      BY <1>3, <3>1, <3>2
  <2>2. CASE UNCHANGED <<view, memory>>
    BY <1>2, <2>2
  <2>3. QED
    BY <1>8, <2>1, <2>2 DEF KeyAdded
<1>9. ASSUME NEW k \in Keys, FlowStep(k) PROVE RecoveriesAreAskedFor'
  <2>1. CASE Created(k) \/ RequestArrives(k)
    BY <1>2, <2>1 DEF Created, RequestArrives, page
  <2>2. CASE Resolved(k) \/ CreateAnswered(k)
    <3>1. PICK d \in Devices : d = flow[k].dev
      BY <2>2 DEF Resolved, CreateAnswered
    <3>2. \E v \in View \ {"RecoverAccount"} : view' = [view EXCEPT ![d] = v]
      BY <2>2, <3>1 DEF Resolved, CreateAnswered, SetView, View
    <3>3. \/ memory' = memory
          \/ \E c : memory' = [memory EXCEPT ![d].contract = c]
      BY <2>2, <3>1 DEF Resolved, CreateAnswered
    <3>4. \A e \in Devices : e # d => memory'[e] = memory[e]
      BY <3>3 DEF PageTypes
    <3>5. QED
      BY <1>3, <3>2, <3>4
  <2>3. CASE ConnectAnswered(k)
    <3>1. PICK d \in Devices : d = flow[k].dev
      BY <2>3 DEF ConnectAnswered
    <3>2. view' = view /\ memory' = [memory EXCEPT ![d] = Keep(d, k, memory[d])]
      BY <2>3, <3>1 DEF ConnectAnswered
    <3>3. Keep(d, k, memory[d]).device = memory[d].device
      <4>1. PICK m \in Memory : m = memory[d]
        BY DEF PageTypes
      <4>2. Keep(d, k, m).device = m.device
        BY DEF Keep, Memory
      <4>3. QED
        BY <4>1, <4>2
    <3>4. QED
      BY <1>1, <3>2, <3>3, RecoveriesGo DEF PageTypes
  <2>4. CASE RecoveryResolved(k)
    <3>1. PICK d \in Devices : d = flow[k].dev
      BY <2>4 DEF RecoveryResolved
    <3>2. AskedFor(k)'
      BY <2>4 DEF RecoveryResolved, Over, AskedFor, PageTypes
    <3>3. PICK m \in Memory : /\ m.device = memory[d].device
                              /\ \/ memory' = [memory EXCEPT ![d] = m] /\ view' = view
                                 \/ MountRecovery(d, k, m)
      <4>1. memory[d] \in Memory
        BY DEF PageTypes
      <4>2. flow[k].wallet \in Wallets
        BY <2>4 DEF RecoveryResolved, In, Relayed, FlowsAreSound, FlowIsSound
      <4>3. PICK c \in Contract : c = [wallet |-> flow[k].wallet, key |-> NoKey]
        BY <4>2 DEF Contract, SomeWallet, SomeKey
      <4>4. PICK m : m = [memory[d] EXCEPT !.contract = c]
        OBVIOUS
      <4>5. m \in Memory /\ m.device = memory[d].device
        BY <4>1, <4>4 DEF Memory
      <4>6. PICK n \in {m, memory[d]} : \/ memory' = [memory EXCEPT ![d] = n] /\ view' = view
                                        \/ MountRecovery(d, k, n)
        BY <2>4, <3>1, <4>3, <4>4 DEF RecoveryResolved
      <4>7. QED
        BY <4>1, <4>5, <4>6
    <3>4. CASE memory' = [memory EXCEPT ![d] = m] /\ view' = view
      BY <1>1, <3>3, <3>4, RecoveriesGo DEF PageTypes
    <3>5. CASE MountRecovery(d, k, m)
      BY <1>1, <3>2, <3>5, MountIsForKey, RecoveriesGo
    <3>6. QED
      BY <3>3, <3>4, <3>5
  <2>5. CASE Rejected(k)
    <3>1. PICK d \in Devices : d = flow[k].dev
      BY <2>5 DEF Rejected
    <3>2. memory' = memory /\ (view' = view \/ view' = [view EXCEPT ![d] = "Failure"])
      BY <2>5, <3>1 DEF Rejected
    <3>3. "Failure" \in View \ {"RecoverAccount"}
      BY DEF View
    <3>4. QED
      BY <1>2, <1>3, <3>2, <3>3
  <2>6. QED
    BY <1>9, <2>1, <2>2, <2>3, <2>4, <2>5 DEF FlowStep
<1>10. ASSUME NEW d \in Devices, NEW x \in denials[d], DenialAnswered(d, x) \/ DenialRejected(d, x)
       PROVE  RecoveriesAreAskedFor'
  <2>1. CASE UNCHANGED <<view, memory>>
    BY <1>2, <2>1
  <2>2. CASE DenialAnswered(d, x) /\ x.to = "RecoverAccount" /\ view[d] # x.to
    <3>1. PICK k \in Keys : k = NextKey
      BY <2>2, NextKeyIsUnused DEF DenialAnswered
    <3>2. PICK f : f = [dev |-> d, kind |-> "recover", wallet |-> memory[d].contract.wallet,
                        pc |-> "over"]
      OBVIOUS
    <3>3. AskedFor(k)'
      <4>1. flow' = [flow EXCEPT ![k] = f] /\ f.pc = "over"
        BY <2>2, <3>1, <3>2 DEF DenialAnswered
      <4>2. QED
        BY <4>1 DEF AskedFor, PageTypes
    <3>4. PICK m \in Memory : m = memory[d]
      BY DEF PageTypes
    <3>5. MountRecovery(d, k, m)
      BY <2>2, <3>1, <3>4 DEF DenialAnswered
    <3>6. QED
      BY <1>1, <3>3, <3>5, MountIsForKey, RecoveriesGo
  <2>3. CASE DenialAnswered(d, x) /\ ~(x.to = "RecoverAccount" /\ view[d] # x.to)
    <3>1. memory' = memory /\ view' = [view EXCEPT ![d] = x.to]
      BY <2>3 DEF DenialAnswered, SetView
    <3>2. \/ view'[d] # "RecoverAccount"
          \/ view'[d] = view[d] /\ memory'[d].device = memory[d].device
      BY <2>3, <3>1 DEF PageTypes
    <3>3. QED
      BY <1>1, <3>1, <3>2, RecoveriesGo DEF PageTypes
  <2>4. QED
    BY <1>10, <2>1, <2>2, <2>3 DEF DenialRejected
<1>11. QED
  BY <1>2, <1>5, <1>6, <1>7, <1>8, <1>9, <1>10 DEF Next, Relayer, Other, page, DenialStep

--------------------------------------------------------------------------------
(* The invariant of the example application: the messages and requests on their  *)
(* way are for keys that were asked for, and each page, unless its flows         *)
(* overlapped, has one thing under way at most and nothing with a stored key     *)
(* (WalletService.js:25-78, MessageHandler.ts:35-46).                            *)
THEOREM ExampleAppInvariant == Spec => [](IInv /\ RecoveriesAreAskedFor)
<1>1. Init => IInv /\ RecoveriesAreAskedFor
  <2>1. Init => \A d \in Devices : view[d] = "closed"
    BY DEF Init, AppInit
  <2>2. QED
    BY <2>1, InitHolds DEF RecoveriesAreAskedFor
<1>2. IInv /\ RecoveriesAreAskedFor /\ [Next]_vars => (IInv /\ RecoveriesAreAskedFor)'
  <2>1. ASSUME IInv, RecoveriesAreAskedFor, Next PROVE (IInv /\ RecoveriesAreAskedFor)'
    BY <2>1, NextHolds, RecoveriesStay
  <2>2. ASSUME IInv, RecoveriesAreAskedFor, UNCHANGED vars
        PROVE  (IInv /\ RecoveriesAreAskedFor)'
    <3>1. UNCHANGED <<view, memory, flow>>
      BY <2>2 DEF vars, page
    <3>2. QED
      BY <2>2, <3>1, StutterHolds DEF RecoveriesAreAskedFor, AskedFor
  <2>3. QED
    BY <2>1, <2>2
<1>3. QED
  BY <1>1, <1>2, PTL DEF Spec

(* Every value is of its type: the flows of the example application and the      *)
(* relayer and observers they use (WalletService.js:5-78, RelayerObserver.ts).   *)
THEOREM ExampleAppTypes == Spec => []TypeOK
<1>1. ASSUME IInv PROVE TypeOK
  <2> USE <1>1 DEF IInv
  <2>1. ConnectionType
    <3>1. ASSUME NEW d \in Devices PROVE turn[d] \in 1..(Len(filters[d]) + 1)
      <4>1. PICK n \in Nat : n = Len(filters[d])
        BY LenProperties DEF ObserverTypes
      <4>2. turn[d] = 1 \/ turn[d] \in 1..n
        BY <4>1 DEF ObserverTypes
      <4>3. turn[d] \in 1..(n + 1)
        BY <4>2
      <4>4. QED
        BY <4>1, <4>3
    <3>2. QED
      BY <3>1 DEF ConnectionType, RelayTypes, ObserverTypes
  <2>2. ASSUME NEW d \in Devices
        PROVE  /\ memory[d].contract \in [wallet : Wallets \cup {Nobody}, key : Keys \cup {NoKey}]
               /\ memory[d].subscription[2] # NoKey => memory[d].subscription \in listeners[d]
               /\ shown[d] = Unshown \/ (shown[d].wallet \in Wallets /\ shown[d].list \subseteq Rows)
    <3>1. memory[d] \in Memory /\ shown[d] \in Shown /\ WalletIsThere(d)
      BY DEF PageTypes, Page
    <3>2. memory[d].contract \in [wallet : Wallets \cup {Nobody}, key : Keys \cup {NoKey}]
      BY <3>1 DEF Memory, Contract, SomeWallet, SomeKey
    <3>3. shown[d] = Unshown \/ (shown[d].wallet \in Wallets /\ shown[d].list \subseteq Rows)
      BY <3>1 DEF Shown
    <3>4. QED
      BY <3>1, <3>2, <3>3 DEF WalletIsThere
  <2>3. QED
    BY <2>1, <2>2 DEF TypeOK, PageTypes
<1>2. QED
  BY <1>1, ExampleAppInvariant, PTL

(* A key that a device stores is on the wallet that it stores with it, whichever *)
(* way it came by them (WalletService.js:42-51, CreationService).                *)
THEOREM StoredKeysAreOwned == Spec => []StoredKeyIsOwned
<1>1. IInv => StoredKeyIsOwned
  BY DEF IInv, Page, StoredRests, StoredKeyIsOwned
<1>2. QED
  BY <1>1, ExampleAppInvariant, PTL

(* A request on offer that an open page has made is known to that page: it       *)
(* awaits its answer, listens for the key, denies it, or the key is on the       *)
(* wallet; where a call was rejected, or flows overlapped, it need not be        *)
(* (ApproveConnection.js:17-34, WalletService.js:25-32).                         *)
THEOREM NoRequestIsLeftBehind == Spec => []NoOrphanRequest
<1>1. IInv => NoOrphanRequest
  BY DEF IInv, Page, NoOrphanOf, NoOrphanRequest
<1>2. QED
  BY <1>1, ExampleAppInvariant, PTL

(* The request of a key that the wallet has got goes, unless a crash lost its    *)
(* hook or the key begins with a zero byte (MessageExecutor.ts:13-20,            *)
(* MessageHandler.ts:35-55, relayer/lib/core/utils/utils.ts:16-21).              *)
THEOREM AddedRequestsGo == Spec => []AddedRequestGoes
<1>1. IInv => AddedRequestGoes
  BY DEF IInv, Relayed
<1>2. QED
  BY <1>1, ExampleAppInvariant, PTL

(* Only Disconnect lets a stored key go, and nothing overwrites it, unless flows *)
(* overlapped, a cancellation that is not answered yet being one                 *)
(* (WalletService.js:42-51, 68-78, ApproveConnection.js:17-29).                  *)
THEOREM StoredKeysAreKept == Spec => StoredKeyIsKept
<1> DEFINE Kept == \A d \in Devices : stored[d] # NoWallet /\ stored'[d] # stored[d] /\ ~tangled[d]
                      => stored'[d] = NoWallet /\ view[d] = "Account"
<1>1. ASSUME IInv, Next PROVE Kept
  <2> USE <1>1 DEF IInv
  <2>1. ASSUME UNCHANGED stored PROVE Kept
    BY <2>1
  <2>2. ASSUME NEW k \in Keys, CreateAnswered(k) PROVE Kept
    <3>1. PICK d \in Devices : d = flow[k].dev
      BY <2>2 DEF CreateAnswered
    <3>2. \A e \in Devices : e # d => stored'[e] = stored[e]
      BY <2>2, <3>1 DEF CreateAnswered, PageTypes
    <3>3. flow[k].pc # "over"
      BY <2>2 DEF CreateAnswered, In
    <3>4. ~tangled[d] => stored[d] = NoWallet
      BY <3>1, <3>3, PendingIsAlone DEF Page
    <3>5. QED
      BY <3>2, <3>4
  <2>3. ASSUME NEW d \in Devices, NEW r \in Rows, KeyAdded(d, r) PROVE Kept
    <3>1. CASE r \in listeners[d]
      <4>1. \A e \in Devices : e # d => stored'[e] = stored[e]
        BY <2>3, <3>1 DEF KeyAdded, OnKeyAdded, PageTypes
      <4>2. ~tangled[d] => stored[d] = NoWallet
        BY <3>1 DEF Page, StoredRests
      <4>3. QED
        BY <4>1, <4>2
    <3>2. CASE r \notin listeners[d]
      BY <2>1, <2>3, <3>2 DEF KeyAdded
    <3>3. QED
      BY <3>1, <3>2
  <2>4. ASSUME NEW d \in Devices, Disconnect(d) PROVE Kept
    <3>1. /\ stored'[d] = NoWallet /\ view[d] = "Account"
          /\ \A e \in Devices : e # d => stored'[e] = stored[e]
      BY <2>4 DEF Disconnect, DisconnectClick, Turn, PageTypes
    <3>2. QED
      BY <3>1
  <2> HIDE DEF Kept
  <2>5. ASSUME NEW d \in Devices, App(d) PROVE Kept
    BY <2>1, <2>4, <2>5 DEF App, Open, Click, CancelConnection, CancelRecovery,
       RecoverClick, Walk, SetBackupCodes, PollRejected, Answer
  <2>6. ASSUME NEW d \in Devices,
               LoadWallet(d) \/ BackupCodesSet(d) \/ AuthorisationsChanged(d) \/ \E r \in Rows : KeyAdded(d, r)
        PROVE  Kept
    BY <2>1, <2>3, <2>6 DEF LoadWallet, BackupCodesSet, AuthorisationsChanged
  <2>7. ASSUME NEW k \in Keys, FlowStep(k) PROVE Kept
    BY <2>1, <2>2, <2>7 DEF FlowStep, Resolved, Created, RequestArrives, ConnectAnswered,
       RecoveryResolved, Rejected
  <2>8. ASSUME NEW d \in Devices, DenialStep(d) PROVE Kept
    BY <2>1, <2>8 DEF DenialStep, DenialAnswered, DenialRejected
  <2>9. QED
    BY <1>1, <2>1, <2>5, <2>6, <2>7, <2>8 DEF Next, Relayer, Other
<1>2. IInv /\ [Next]_vars => [Kept]_vars
  BY <1>1
<1>3. QED
  BY <1>2, ExampleAppInvariant, PTL DEF Spec, StoredKeyIsKept
================================================================================
